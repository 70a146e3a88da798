---------------------------- MODULE Traffic_proof ----------------------------
(***************************************************************************)
(* Proof that the proxy's replies fit a rule in force, for any clients,    *)
(* rules, descriptors, faults and changes of the rule.                     *)
(***************************************************************************)
EXTENDS Traffic, TLAPS

ConnType ==
  [pc : Handled \cup {"free", "hello", "silent", "tunnel"},
   client : Client \cup {None}, tls : BOOLEAN,
   rule : Rule \cup {None}, seen : SUBSET (Rule \cup {None})]

ReplyType ==
  [what : {None, "502", "301", "target", "site", "noname", "refused", "broken",
           "cut"},
   from : Target \cup {Localhost, None}]

ClientType ==
  [pc : {"idle", "http", "https", "waits"}, pinned : BOOLEAN, reply : ReplyType]

(* What a connection under way remembers: its client, the rule in force,   *)
(* and from the lookup on the rule it goes by, which was in force since.   *)
Remembers(k) ==
  /\ conn[k].pc \in InFlight \cup {"hello"} =>
       conn[k].client \in Client /\ rule \in conn[k].seen
  /\ conn[k].pc \in {"connect", "sent", "hung"} =>
       /\ conn[k].rule \in conn[k].seen \ {None}
       /\ conn[k].rule.https => conn[k].tls

Inv == TypeOK /\ \A k \in Conn : Remembers(k)

(* What ReplyFits asks of a step. *)
Fits ==
  \A k \in Conn :
    conn[k].pc \in InFlight /\ conn'[k].pc \notin InFlight =>
      LET reply == client'[conn[k].client].reply IN
      CASE reply.what = "target" ->
             \E r \in conn[k].seen \ {None} :
               Dialled(r.target) = reply.from /\ (r.https => conn[k].tls)
        [] reply.what = "301" ->
             ~conn[k].tls /\ \E r \in conn[k].seen \ {None} : r.https
        [] reply.what = "502" -> None \in conn[k].seen \/ faults' > faults
        [] reply.what = "broken" -> faults' > faults
        [] reply.what = "cut" -> token
        [] OTHER -> FALSE

-----------------------------------------------------------------------------
(* What the helpers of the proxy change. *)

(* One connection changes, to these fields. *)
ConnBecomes(k, pc, c, tls, r, seen) ==
  /\ conn' \in [Conn -> ConnType]
  /\ \A j \in Conn \ {k} : conn'[j] = conn[j]
  /\ conn'[k].pc = pc /\ conn'[k].client = c /\ conn'[k].tls = tls
  /\ conn'[k].rule = r /\ conn'[k].seen = seen

(* The client of connection k gets a reply. *)
Replied(k, what, from) ==
  /\ client' \in [Client -> ClientType]
  /\ conn[k].client \in Client =>
       /\ client'[conn[k].client].reply.what = what
       /\ client'[conn[k].client].reply.from = from

LEMMA NoConnLemma ==
  /\ NoConn \in ConnType /\ NoConn.pc = "free" /\ NoConn.client = None
  /\ NoConn.tls = FALSE /\ NoConn.rule = None /\ NoConn.seen = {}
BY DEF NoConn, ConnType

LEMMA ConnReplaced ==
  ASSUME conn \in [Conn -> ConnType], NEW k \in Conn, NEW r \in ConnType,
         conn' = [conn EXCEPT ![k] = r]
  PROVE  ConnBecomes(k, r.pc, r.client, r.tls, r.rule, r.seen)
BY DEF ConnBecomes, ConnType

LEMMA SetConnPc ==
  ASSUME conn \in [Conn -> ConnType], NEW k \in Conn,
         NEW pc \in {"request", "sent", "hung"}, conn' = [conn EXCEPT ![k].pc = pc]
  PROVE  ConnBecomes(k, pc, conn[k].client, conn[k].tls, conn[k].rule, conn[k].seen)
BY DEF ConnBecomes, ConnType, Handled, InFlight

LEMMA ConnCleared ==
  ASSUME conn \in [Conn -> ConnType], NEW k \in Conn,
         \/ conn' = [conn EXCEPT ![k] = NoConn]
         \/ \E pc \in {"silent", "tunnel", "held"} :
              conn' = [conn EXCEPT ![k] = [NoConn EXCEPT !.pc = pc]]
  PROVE  \E pc \in {"free", "silent", "tunnel", "held"} :
           ConnBecomes(k, pc, None, FALSE, None, {})
<1>1. CASE conn' = [conn EXCEPT ![k] = NoConn]
  <2>1. ConnBecomes(k, NoConn.pc, NoConn.client, NoConn.tls, NoConn.rule, NoConn.seen)
    BY <1>1, NoConnLemma, ConnReplaced
  <2>2. ConnBecomes(k, "free", None, FALSE, None, {})
    BY <2>1, NoConnLemma, Zenon
  <2> QED  BY <2>2
<1>2. ASSUME NEW pc \in {"silent", "tunnel", "held"},
             conn' = [conn EXCEPT ![k] = [NoConn EXCEPT !.pc = pc]]
      PROVE  ConnBecomes(k, pc, None, FALSE, None, {})
  <2> DEFINE r == [NoConn EXCEPT !.pc = pc]
  <2>1. /\ r \in ConnType /\ r.pc = pc /\ r.client = None /\ r.tls = FALSE
        /\ r.rule = None /\ r.seen = {}
    BY NoConnLemma DEF ConnType, Handled, InFlight
  <2> HIDE DEF r
  <2>2. ConnBecomes(k, r.pc, r.client, r.tls, r.rule, r.seen)
    BY <1>2, <2>1, ConnReplaced DEF r
  <2> QED  BY <2>1, <2>2, Zenon
<1> QED  BY <1>1, <1>2

LEMMA GetsLemma ==
  ASSUME client \in [Client -> ClientType], conn \in [Conn -> ConnType],
         NEW k \in Conn, NEW what \in {"502", "301", "target", "refused", "broken"},
         NEW from \in Target \cup {Localhost, None}, Gets(k, what, from)
  PROVE  Replied(k, what, from)
<1> DEFINE c == conn[k].client
           r0 == [what |-> what, from |-> from]
           r1 == [client[c] EXCEPT !.pc = "idle"]
           r2 == [r1 EXCEPT !.pinned = r1.pinned \/ what = "301"]
           r3 == [r2 EXCEPT !.reply = r0]
<1>1. CASE c \in Client
  <2>1. r0 \in ReplyType /\ r0.what = what /\ r0.from = from
    BY DEF ReplyType
  <2>2. r1 \in ClientType
    BY <1>1 DEF ClientType
  <2>3. r2 \in ClientType
    <3>1. (r1.pinned \/ what = "301") \in BOOLEAN
      OBVIOUS
    <3> HIDE DEF r1
    <3> QED  BY <2>2, <3>1 DEF ClientType
  <2>4. r3 \in ClientType /\ r3.reply = r0
    <3> HIDE DEF r2, r0
    <3> QED  BY <2>1, <2>3 DEF ClientType
  <2>5. client' = [client EXCEPT ![c] = r3]
    BY DEF Gets
  <2> HIDE DEF r3, c, r0
  <2> QED  BY <1>1, <2>1, <2>4, <2>5 DEF Replied, c
<1>2. CASE c \notin Client
  BY <1>2 DEF Gets, Replied
<1> QED  BY <1>1, <1>2

LEMMA RepliesLemma ==
  ASSUME client \in [Client -> ClientType], conn \in [Conn -> ConnType],
         NEW k \in Conn, NEW what \in {"502", "301", "target"},
         NEW from \in Target \cup {Localhost, None}, RepliesWith(k, what, from)
  PROVE  /\ ConnBecomes(k, "open", conn[k].client, conn[k].tls, None, {})
         /\ Replied(k, what, from)
<1> DEFINE r1 == [NoConn EXCEPT !.pc = "open"]
           r2 == [r1 EXCEPT !.tls = conn[k].tls]
           r3 == [r2 EXCEPT !.client = conn[k].client]
<1>1. /\ r1 \in ConnType /\ r1.pc = "open" /\ r1.rule = None /\ r1.seen = {}
  BY NoConnLemma DEF ConnType, Handled
<1>2. /\ r2 \in ConnType /\ r2.pc = "open" /\ r2.rule = None /\ r2.seen = {}
      /\ r2.tls = conn[k].tls
  <2> HIDE DEF r1
  <2> QED  BY <1>1 DEF ConnType
<1>3. /\ r3 \in ConnType /\ r3.pc = "open" /\ r3.rule = None /\ r3.seen = {}
      /\ r3.tls = conn[k].tls /\ r3.client = conn[k].client
  <2> HIDE DEF r2
  <2> QED  BY <1>2 DEF ConnType
<1>4. conn' = [conn EXCEPT ![k] = r3]
  BY DEF RepliesWith
<1> HIDE DEF r3
<1>5. ConnBecomes(k, r3.pc, r3.client, r3.tls, r3.rule, r3.seen)
  BY <1>3, <1>4, ConnReplaced
<1>6. ConnBecomes(k, "open", conn[k].client, conn[k].tls, None, {})
  BY <1>3, <1>5, Zenon
<1>7. Replied(k, what, from)
  BY GetsLemma DEF RepliesWith
<1> QED  BY <1>6, <1>7

-----------------------------------------------------------------------------
(* The steps. *)

LEMMA TypeOKIs ==
  TypeOK <=> /\ DnsTypeOK
             /\ conn \in [Conn -> ConnType] /\ client \in [Client -> ClientType]
             /\ ca \in BOOLEAN /\ changes \in 0..MaxChanges
BY DEF TypeOK, ProxyTypeOK, ConnType, ClientType, ReplyType

LEMMA FaultLemma ==
  ASSUME faults \in 0..MaxFaults, Fault \/ NoFault
  PROVE  faults' \in 0..MaxFaults /\ (Fault => faults' > faults)
BY FaultsAssumption DEF Fault, NoFault

(* Fits does not look at steps that leave the connections' stages alone. *)
LEMMA QuietFits ==
  ASSUME \A k \in Conn : conn[k].pc \in InFlight => conn'[k].pc \in InFlight
  PROVE  Fits
BY DEF Fits

(* One connection ends its request. *)
LEMMA OneFits ==
  ASSUME NEW k \in Conn, \A j \in Conn \ {k} : conn'[j] = conn[j],
         conn[k].pc \in InFlight =>
           LET reply == client'[conn[k].client].reply IN
           \/ /\ reply.what = "target"
              /\ \E r \in conn[k].seen \ {None} :
                   Dialled(r.target) = reply.from /\ (r.https => conn[k].tls)
           \/ /\ reply.what = "301"
              /\ ~conn[k].tls /\ \E r \in conn[k].seen \ {None} : r.https
           \/ reply.what = "502" /\ (None \in conn[k].seen \/ faults' > faults)
           \/ reply.what = "broken" /\ faults' > faults
           \/ reply.what = "cut" /\ token
  PROVE  Fits
<1> SUFFICES ASSUME NEW j \in Conn, conn[j].pc \in InFlight, conn'[j].pc \notin InFlight
             PROVE  LET reply == client'[conn[j].client].reply IN
      CASE reply.what = "target" ->
             \E r \in conn[j].seen \ {None} :
               Dialled(r.target) = reply.from /\ (r.https => conn[j].tls)
        [] reply.what = "301" ->
             ~conn[j].tls /\ \E r \in conn[j].seen \ {None} : r.https
        [] reply.what = "502" -> None \in conn[j].seen \/ faults' > faults
        [] reply.what = "broken" -> faults' > faults
        [] reply.what = "cut" -> token
        [] OTHER -> FALSE
  BY DEF Fits
<1>1. j = k
  OBVIOUS
<1> QED  BY <1>1

(* What every step on one connection needs to keep the invariant. *)
LEMMA ConnKeepsInv ==
  ASSUME Inv, NEW k \in Conn, NEW pc, NEW c, NEW tls, NEW r, NEW seen,
         ConnBecomes(k, pc, c, tls, r, seen),
         client' \in [Client -> ClientType],
         Fault \/ NoFault,
         UNCHANGED <<rule, token, server, dnsVars, ca, changes>>,
         pc \in InFlight \cup {"hello"} => c \in Client /\ rule \in seen,
         pc \in {"connect", "sent", "hung"} =>
           r \in seen \ {None} /\ (r.https => tls)
  PROVE  Inv'
<1>1. TypeOK /\ DnsTypeOK /\ faults \in 0..MaxFaults
  BY TypeOKIs DEF Inv, DnsTypeOK
<1>2. faults' \in 0..MaxFaults
  BY <1>1, FaultLemma
<1>3. TypeOK'
  BY <1>1, <1>2 DEF TypeOK, DnsTypeOK, ProxyTypeOK, dnsVars, ConnBecomes, ConnType,
     ClientType, ReplyType
<1>4. ASSUME NEW j \in Conn PROVE Remembers(j)'
  <2>1. CASE j = k
    BY <2>1 DEF Remembers, ConnBecomes
  <2>2. CASE j # k
    BY <2>2 DEF Remembers, ConnBecomes, Inv
  <2> QED  BY <2>1, <2>2
<1> QED  BY <1>3, <1>4 DEF Inv

LEMMA ProxyKeeps ==
  ASSUME Inv, ProxyServes
  PROVE  Inv' /\ Fits
<1>0. /\ conn \in [Conn -> ConnType] /\ client \in [Client -> ClientType]
      /\ rule \in Rule \cup {None} /\ token \in BOOLEAN /\ faults \in 0..MaxFaults
      /\ \A k \in Conn : Remembers(k)
      /\ UNCHANGED <<rule, token, server, dnsVars, ca, changes>>
  BY TypeOKIs DEF Inv, DnsTypeOK, ProxyServes
<1>a. None \in Target \cup {Localhost, None}
  OBVIOUS
<1>1. ASSUME NEW c \in Client, NEW s \in {"http", "https"}, Accept(c, s)
      PROVE  Inv' /\ Fits
  <2> PICK k \in Conn :
        /\ Lowest(k)
        /\ conn' = [conn EXCEPT ![k] =
            [pc |-> IF s = "https" THEN "hello" ELSE "request", client |-> c,
             tls |-> s = "https", rule |-> None, seen |-> {rule}]]
    BY <1>1 DEF Accept
  <2> DEFINE r == [pc |-> IF s = "https" THEN "hello" ELSE "request", client |-> c,
                   tls |-> s = "https", rule |-> None, seen |-> {rule}]
  <2>1. /\ r \in ConnType /\ r.client = c /\ r.rule = None /\ r.seen = {rule}
        /\ r.pc \in {"hello", "request"}
    <3>1. (s = "https") \in BOOLEAN
      OBVIOUS
    <3> QED  BY <1>0, <3>1 DEF ConnType, Handled, InFlight
  <2> HIDE DEF r
  <2>2. ConnBecomes(k, r.pc, r.client, r.tls, r.rule, r.seen)
    BY <1>0, <2>1, ConnReplaced DEF r
  <2>3. client' \in [Client -> ClientType]
    BY <1>0, <1>1 DEF Accept, ClientType
  <2>4. Inv'
    BY <1>0, <1>1, <2>1, <2>2, <2>3, ConnKeepsInv DEF Accept
  <2>5. conn[k].pc = "free"
    BY DEF Lowest
  <2>6. Fits
    BY <2>2, <2>5, QuietFits DEF ConnBecomes, InFlight
  <2> QED  BY <2>4, <2>6
<1>2. ASSUME NEW c \in Client, NEW s \in {"http", "https"}, Refuse(c, s)
      PROVE  Inv' /\ Fits
  <2> DEFINE r0 == [what |-> "refused", from |-> None]
             r1 == [client[c] EXCEPT !.pc = "idle"]
             r2 == [r1 EXCEPT !.reply = r0]
  <2>1. r0 \in ReplyType
    BY DEF ReplyType
  <2>2. r1 \in ClientType
    BY <1>0 DEF ClientType
  <2>3. r2 \in ClientType
    <3> HIDE DEF r0, r1
    <3> QED  BY <2>1, <2>2 DEF ClientType
  <2>4. client' = [client EXCEPT ![c] = r2]
    BY <1>2 DEF Refuse
  <2>5. client' \in [Client -> ClientType]
    <3> HIDE DEF r2
    <3> QED  BY <1>0, <2>3, <2>4
  <2>6. UNCHANGED <<conn, faults>>
    BY <1>2 DEF Refuse
  <2>7. TypeOK'
    BY <1>0, <2>5, <2>6 DEF Inv, TypeOK, DnsTypeOK, ProxyTypeOK, dnsVars, ClientType,
       ReplyType
  <2>8. Fits
    BY <2>6, QuietFits
  <2> QED  BY <1>0, <2>6, <2>7, <2>8 DEF Inv, Remembers
<1> SUFFICES ASSUME NEW k \in Conn,
                    \/ Handshake(k) \/ Serve(k) \/ Connect(k) \/ Answer(k)
                    \/ RequestFails(k) \/ TunnelEnds(k) \/ Close(k) \/ Cancelled(k)
             PROVE  Inv' /\ Fits
  BY <1>1, <1>2 DEF ProxyServes, ProxyStep
<1>3. CASE Handshake(k)
  <2>1. CASE conn' = [conn EXCEPT ![k].pc = "request"] /\ UNCHANGED <<client, faults>>
    <3>1. ConnBecomes(k, "request", conn[k].client, conn[k].tls, conn[k].rule, conn[k].seen)
      BY <1>0, <2>1, SetConnPc
    <3>2. conn[k].pc = "hello"
      BY <1>3 DEF Handshake
    <3>3. Inv'
      BY <1>0, <2>1, <3>1, <3>2, ConnKeepsInv DEF Remembers, NoFault
    <3>4. Fits
      BY <3>1, <3>2, QuietFits DEF ConnBecomes, InFlight
    <3> QED  BY <3>3, <3>4
  <2>2. CASE ~(conn' = [conn EXCEPT ![k].pc = "request"] /\ UNCHANGED <<client, faults>>)
    <3>1. /\ conn[k].pc = "hello" /\ (Fault \/ NoFault)
          /\ \/ Gets(k, "refused", None)
             \/ client' = [client EXCEPT ![conn[k].client].pc = "idle"]
          /\ \/ conn' = [conn EXCEPT ![k] = NoConn]
             \/ conn' = [conn EXCEPT ![k] = [NoConn EXCEPT !.pc = "silent"]]
      BY <1>3, <2>2 DEF Handshake, Breaks
    <3>2. PICK pc \in {"free", "silent", "tunnel", "held"} :
            ConnBecomes(k, pc, None, FALSE, None, {})
      BY <1>0, <3>1, ConnCleared
    <3>3. client' \in [Client -> ClientType]
      <4>1. CASE Gets(k, "refused", None)
        BY <1>0, <1>a, <4>1, GetsLemma DEF Replied
      <4>2. CASE client' = [client EXCEPT ![conn[k].client].pc = "idle"]
        BY <1>0, <3>1, <4>2 DEF ClientType, Remembers
      <4> QED  BY <3>1, <4>1, <4>2
    <3>4. Inv'
      BY <1>0, <3>1, <3>2, <3>3, ConnKeepsInv DEF InFlight
    <3>5. Fits
      BY <3>1, <3>2, QuietFits DEF ConnBecomes, InFlight
    <3> QED  BY <3>4, <3>5
  <2> QED  BY <2>1, <2>2
<1>4. CASE Serve(k)
  <2>0. conn[k].pc = "request" /\ conn[k].client \in Client /\ rule \in conn[k].seen
    BY <1>0, <1>4 DEF Serve, Polled, Remembers, InFlight
  <2>1. CASE RepliesWith(k, "502", None) /\ rule = None /\ NoFault
    <3>1. /\ ConnBecomes(k, "open", conn[k].client, conn[k].tls, None, {})
          /\ Replied(k, "502", None)
      BY <1>0, <1>a, <2>1, RepliesLemma
    <3>2. Inv'
      BY <1>0, <2>1, <3>1, ConnKeepsInv DEF Replied, InFlight
    <3>3. Fits
      BY <2>0, <2>1, <3>1, OneFits DEF ConnBecomes, Replied
    <3> QED  BY <3>2, <3>3
  <2>2. CASE RepliesWith(k, "301", None) /\ rule # None /\ rule.https
             /\ ~conn[k].tls /\ NoFault
    <3>1. /\ ConnBecomes(k, "open", conn[k].client, conn[k].tls, None, {})
          /\ Replied(k, "301", None)
      BY <1>0, <1>a, <2>2, RepliesLemma
    <3>2. Inv'
      BY <1>0, <2>2, <3>1, ConnKeepsInv DEF Replied, InFlight
    <3>3. Fits
      BY <2>0, <2>2, <3>1, OneFits DEF ConnBecomes, Replied
    <3> QED  BY <3>2, <3>3
  <2>3. CASE /\ rule # None /\ (rule.https => conn[k].tls)
             /\ conn' = [conn EXCEPT ![k].pc = "connect", ![k].rule = rule]
             /\ UNCHANGED <<client, faults>>
    <3> DEFINE r1 == [conn[k] EXCEPT !.pc = "connect"]
               r2 == [r1 EXCEPT !.rule = rule]
    <3>1. /\ r1 \in ConnType /\ r1.pc = "connect" /\ r1.client = conn[k].client
          /\ r1.tls = conn[k].tls /\ r1.seen = conn[k].seen
      BY <1>0 DEF ConnType, Handled, InFlight
    <3>2. /\ r2 \in ConnType /\ r2.pc = "connect" /\ r2.client = conn[k].client
          /\ r2.tls = conn[k].tls /\ r2.seen = conn[k].seen /\ r2.rule = rule
      <4> HIDE DEF r1
      <4> QED  BY <1>0, <3>1 DEF ConnType
    <3>3. conn' = [conn EXCEPT ![k] = r2]
      BY <2>3
    <3> HIDE DEF r2
    <3>4. ConnBecomes(k, r2.pc, r2.client, r2.tls, r2.rule, r2.seen)
      BY <1>0, <3>2, <3>3, ConnReplaced
    <3>5. UNCHANGED <<client, faults>>
      BY <2>3
    <3>6. Inv'
      BY <1>0, <2>0, <2>3, <3>2, <3>4, ConnKeepsInv DEF NoFault
    <3>7. Fits
      BY <3>2, <3>4, QuietFits DEF ConnBecomes, InFlight
    <3> QED  BY <3>6, <3>7
  <2> QED  BY <1>4, <2>1, <2>2, <2>3 DEF Serve
<1>5. CASE Connect(k)
  <2>0. /\ conn[k].pc = "connect" /\ conn[k].client \in Client /\ rule \in conn[k].seen
        /\ conn[k].rule \in conn[k].seen \ {None}
        /\ conn[k].rule.https => conn[k].tls
    BY <1>0, <1>5 DEF Connect, Polled, Remembers, InFlight
  <2>1. CASE conn' = [conn EXCEPT ![k].pc = "sent"] /\ UNCHANGED <<client, faults>>
    <3>1. ConnBecomes(k, "sent", conn[k].client, conn[k].tls, conn[k].rule, conn[k].seen)
      BY <1>0, <2>1, SetConnPc
    <3>2. Inv'
      BY <1>0, <2>0, <2>1, <3>1, ConnKeepsInv DEF NoFault
    <3>3. Fits
      BY <3>1, QuietFits DEF ConnBecomes, InFlight
    <3> QED  BY <3>2, <3>3
  <2>2. CASE Fault /\ RepliesWith(k, "502", None)
    <3>1. /\ ConnBecomes(k, "open", conn[k].client, conn[k].tls, None, {})
          /\ Replied(k, "502", None)
      BY <1>0, <1>a, <2>2, RepliesLemma
    <3>2. Inv'
      BY <1>0, <2>2, <3>1, ConnKeepsInv DEF Replied, InFlight
    <3>3. faults' > faults
      BY <1>0, <2>2, FaultLemma
    <3>4. Fits
      BY <2>0, <3>1, <3>3, OneFits DEF ConnBecomes, Replied
    <3> QED  BY <3>2, <3>4
  <2> QED  BY <1>5, <2>1, <2>2 DEF Connect
<1>6. CASE Answer(k)
  <2> DEFINE t == Dialled(conn[k].rule.target)
  <2>0. /\ conn[k].pc = "sent" /\ conn[k].client \in Client /\ rule \in conn[k].seen
        /\ conn[k].rule \in conn[k].seen \ {None}
        /\ conn[k].rule.https => conn[k].tls
    BY <1>0, <1>6 DEF Answer, Polled, Remembers, InFlight
  <2>1. t \in Target \cup {Localhost, None}
    <3>1. conn[k].rule \in Rule
      BY <1>0, <2>0 DEF ConnType
    <3> QED  BY <3>1, RuleAssumption DEF Dialled
  <2>2. CASE RepliesWith(k, "target", t) /\ NoFault
    <3>1. /\ ConnBecomes(k, "open", conn[k].client, conn[k].tls, None, {})
          /\ Replied(k, "target", t)
      <4> HIDE DEF t
      <4> QED  BY <1>0, <2>1, <2>2, RepliesLemma
    <3>2. Inv'
      BY <1>0, <2>2, <3>1, ConnKeepsInv DEF Replied, InFlight
    <3>3. Fits
      BY <2>0, <3>1, OneFits DEF ConnBecomes, Replied
    <3> QED  BY <3>2, <3>3
  <2>3. CASE /\ conn' = [conn EXCEPT ![k] = [NoConn EXCEPT !.pc = "tunnel"]]
             /\ Gets(k, "target", t) /\ NoFault
    <3>1. Replied(k, "target", t)
      <4> HIDE DEF t
      <4> QED  BY <1>0, <2>1, <2>3, GetsLemma
    <3>2. PICK pc \in {"free", "silent", "tunnel", "held"} :
            ConnBecomes(k, pc, None, FALSE, None, {})
      BY <1>0, <2>3, ConnCleared
    <3>3. Inv'
      BY <1>0, <2>3, <3>1, <3>2, ConnKeepsInv DEF Replied, InFlight
    <3>4. Fits
      BY <2>0, <3>1, <3>2, OneFits DEF ConnBecomes, Replied
    <3> QED  BY <3>3, <3>4
  <2>4. CASE Fault /\ conn' = [conn EXCEPT ![k].pc = "hung"] /\ UNCHANGED client
    <3>1. ConnBecomes(k, "hung", conn[k].client, conn[k].tls, conn[k].rule, conn[k].seen)
      BY <1>0, <2>4, SetConnPc
    <3>2. Inv'
      BY <1>0, <2>0, <2>4, <3>1, ConnKeepsInv
    <3>3. Fits
      BY <3>1, QuietFits DEF ConnBecomes, InFlight
    <3> QED  BY <3>2, <3>3
  <2> QED  BY <1>6, <2>2, <2>3, <2>4 DEF Answer
<1>7. CASE RequestFails(k)
  <2>1. Fault /\ Breaks(k, "broken") /\ conn[k].pc \in {"request", "sent", "hung"}
    BY <1>7 DEF RequestFails, Polled
  <2>2. Replied(k, "broken", None)
    BY <1>0, <1>a, <2>1, GetsLemma DEF Breaks
  <2>3. PICK pc \in {"free", "silent", "tunnel", "held"} :
          ConnBecomes(k, pc, None, FALSE, None, {})
    BY <1>0, <2>1, ConnCleared DEF Breaks
  <2>4. Inv'
    BY <1>0, <2>1, <2>2, <2>3, ConnKeepsInv DEF Replied, InFlight
  <2>5. conn[k].client \in Client /\ faults' > faults
    BY <1>0, <2>1, FaultLemma DEF Remembers, InFlight
  <2>6. Fits
    BY <2>2, <2>3, <2>5, OneFits DEF ConnBecomes, Replied
  <2> QED  BY <2>4, <2>6
<1>8. CASE TunnelEnds(k) \/ Close(k)
  <2>1. PICK pc \in {"free", "silent", "tunnel", "held"} :
          ConnBecomes(k, pc, None, FALSE, None, {})
    BY <1>0, <1>8, ConnCleared DEF TunnelEnds, Close
  <2>2. UNCHANGED <<client, faults>> /\ conn[k].pc \in {"tunnel", "open"}
    BY <1>8 DEF TunnelEnds, Close, Polled
  <2>3. Inv'
    BY <1>0, <2>1, <2>2, ConnKeepsInv DEF NoFault, InFlight
  <2>4. Fits
    BY <2>1, <2>2, QuietFits DEF ConnBecomes, InFlight
  <2> QED  BY <2>3, <2>4
<1>9. CASE Cancelled(k)
  <2> DEFINE c == conn[k].client
             r0 == [what |-> "cut", from |-> None]
             r1 == [client[c] EXCEPT !.pc = "idle"]
             r2 == [r1 EXCEPT !.reply = r0]
  <2>1. PICK pc \in {"free", "silent", "tunnel", "held"} :
          ConnBecomes(k, pc, None, FALSE, None, {})
    BY <1>0, <1>9, ConnCleared DEF Cancelled
  <2>2. token /\ NoFault
    BY <1>9 DEF Cancelled
  <2>3. CASE conn[k].pc \in InFlight
    <3>1. c \in Client
      BY <1>0, <2>3 DEF Remembers
    <3>2. r0 \in ReplyType /\ r0.what = "cut"
      BY DEF ReplyType
    <3>3. r1 \in ClientType
      BY <1>0, <3>1 DEF ClientType
    <3>4. r2 \in ClientType /\ r2.reply = r0
      <4> HIDE DEF r0, r1
      <4> QED  BY <3>2, <3>3 DEF ClientType
    <3>5. client' = [client EXCEPT ![c] = r2]
      BY <1>9, <2>3 DEF Cancelled
    <3> HIDE DEF r0, r1, r2, c
    <3>6. client' \in [Client -> ClientType] /\ client'[c].reply.what = "cut"
      BY <1>0, <3>1, <3>2, <3>4, <3>5
    <3>7. Inv'
      BY <1>0, <2>1, <2>2, <3>6, ConnKeepsInv DEF InFlight
    <3>8. Fits
      BY <2>1, <2>2, <3>6, OneFits DEF ConnBecomes, c
    <3> QED  BY <3>7, <3>8
  <2>4. CASE conn[k].pc \notin InFlight
    <3>1. client' = client
      BY <1>9, <2>4 DEF Cancelled
    <3>2. Inv'
      BY <1>0, <2>1, <2>2, <3>1, ConnKeepsInv DEF InFlight
    <3>3. Fits
      BY <2>1, <2>4, QuietFits DEF ConnBecomes
    <3> QED  BY <3>2, <3>3
  <2> QED  BY <2>3, <2>4
<1> QED  BY <1>3, <1>4, <1>5, <1>6, <1>7, <1>8, <1>9

(* The listening tasks and the DNS server leave the connections alone. *)
LEMMA ServersKeep ==
  ASSUME Inv, (\E s \in Server : Bind(s)) \/ Cancel \/ Stop \/ Ends \/ DnsServes
  PROVE  Inv' /\ Fits
<1>0. DnsTypeOK
  BY TypeOKIs DEF Inv
<1>1. UNCHANGED <<rule, conn, client, ca, changes>>
  BY DEF Bind, Cancel, Stop, Ends, DnsServes, DnsStep, proxyVars
<1>2. DnsTypeOK'
  <2>1. CASE \E s \in Server : Bind(s)
    BY <1>0, <2>1, FaultsAssumption
    DEF Bind, DnsTypeOK, Fault, NoFault, dnsVars, Server
  <2>2. CASE Cancel \/ Stop \/ Ends
    <3> DEFINE none == [t \in Type |-> "idle"]
    <3>1. none \in [Type -> {"idle", "forward"}]
      OBVIOUS
    <3>2. query' = query \/ query' = [c \in Client |-> none]
      BY <2>2 DEF Cancel, Stop, Ends, StopDns, DnsEnds, NoQueries, dnsVars
    <3> HIDE DEF none
    <3>3. query' \in [Client -> [Type -> {"idle", "forward"}]]
      BY <1>0, <3>1, <3>2 DEF DnsTypeOK
    <3>4. /\ server' \in [Server -> {"starting", "up", "failed", "stopped"}]
          /\ token' \in BOOLEAN /\ UNCHANGED <<rule, answer>>
      BY <1>0, <2>2
      DEF Cancel, Stop, Ends, StopDns, DnsEnds, StopListening, DnsTypeOK, dnsVars, Server
    <3>5. Fault \/ NoFault
      BY <2>2 DEF Cancel, Stop, Ends, StopDns, DnsEnds, NoFault
    <3>6. faults' \in 0..MaxFaults
      BY <1>0, <3>5, FaultLemma DEF DnsTypeOK
    <3> QED  BY <1>0, <3>3, <3>4, <3>6 DEF DnsTypeOK
  <2>3. CASE DnsServes
    <3>1. PICK c \in Client, t \in Type :
            Resolve(c, t) \/ Forward(c, t) \/ QueryFails(c, t) \/ Expire(c, t)
      BY <2>3 DEF DnsServes, DnsStep
    <3>2. \/ UNCHANGED query
          \/ \E v \in {"idle", "forward"} : query' = [query EXCEPT ![c][t] = v]
      BY <3>1 DEF Resolve, Forward, QueryFails, Expire, RespondLocal, Respond,
         AwaitUpstream
    <3>3. \/ UNCHANGED answer
          \/ \E a \in {None, "proxy", "site", "nothing"} :
               answer' = [answer EXCEPT ![c][t] = a]
      BY <3>1 DEF Resolve, Forward, QueryFails, Expire, RespondLocal, Respond,
         AwaitUpstream
    <3>4. Fault \/ NoFault
      BY <3>1 DEF Resolve, Forward, QueryFails, Expire, NoFault
    <3>5. faults' \in 0..MaxFaults
      BY <1>0, <3>4, FaultLemma DEF DnsTypeOK
    <3>6. query' \in [Client -> [Type -> {"idle", "forward"}]]
      <4>1. query \in [Client -> [Type -> {"idle", "forward"}]]
        BY <1>0 DEF DnsTypeOK
      <4>2. ASSUME NEW v \in {"idle", "forward"}
            PROVE  [query[c] EXCEPT ![t] = v] \in [Type -> {"idle", "forward"}]
        BY <4>1
      <4> QED  BY <3>2, <4>1, <4>2
    <3>7. answer' \in [Client -> [Type -> {None, "proxy", "site", "nothing"}]]
      <4> DEFINE A == {None, "proxy", "site", "nothing"}
      <4>1. answer \in [Client -> [Type -> A]]
        BY <1>0 DEF DnsTypeOK
      <4>2. ASSUME NEW a \in A
            PROVE  [answer[c] EXCEPT ![t] = a] \in [Type -> A]
        BY <4>1
      <4> HIDE DEF A
      <4> QED  BY <3>3, <4>1, <4>2 DEF A
    <3>8. UNCHANGED <<rule, token, server>>
      BY <2>3 DEF DnsServes, DnsStep
    <3> QED  BY <1>0, <3>5, <3>6, <3>7, <3>8 DEF DnsTypeOK
  <2> QED  BY <2>1, <2>2, <2>3
<1>3. TypeOK'
  BY <1>1, <1>2 DEF Inv, TypeOK, ProxyTypeOK
<1>4. Fits
  BY <1>1, QuietFits
<1> QED  BY <1>1, <1>3, <1>4 DEF Inv, Remembers

(* Requests under way are told of the change, and go on. *)
LEMMA ChangeKeeps ==
  ASSUME Inv, ChangeRule
  PROVE  Inv' /\ Fits
<1>0. TypeOK /\ DnsTypeOK /\ conn \in [Conn -> ConnType] /\ changes \in 0..MaxChanges
  BY TypeOKIs DEF Inv
<1>1. PICK r \in (Rule \cup {None}) \ {rule} :
        /\ rule' = r
        /\ conn' = [k \in Conn |-> IF conn[k].seen = {} THEN conn[k]
                     ELSE [conn[k] EXCEPT !.seen = @ \cup {r}]]
  BY DEF ChangeRule
<1>2. ASSUME NEW k \in Conn
      PROVE  /\ conn'[k] \in ConnType /\ conn'[k].pc = conn[k].pc
             /\ conn'[k].client = conn[k].client /\ conn'[k].tls = conn[k].tls
             /\ conn'[k].rule = conn[k].rule /\ conn[k].seen \subseteq conn'[k].seen
             /\ conn[k].seen # {} => rule' \in conn'[k].seen
  <2>1. conn[k] \in ConnType
    BY <1>0
  <2>2. CASE conn[k].seen = {}
    BY <1>1, <2>1, <2>2
  <2>3. CASE conn[k].seen # {}
    <3>1. conn'[k] = [conn[k] EXCEPT !.seen = conn[k].seen \cup {r}]
      BY <1>1, <2>3
    <3> QED  BY <1>1, <2>1, <3>1 DEF ConnType
  <2> QED  BY <2>2, <2>3
<1>3. conn' \in [Conn -> ConnType]
  <2>1. conn' = [k \in Conn |-> conn'[k]]
    BY <1>1
  <2> QED  BY <1>2, <2>1
<1>4. TypeOK'
  <2>1. changes' \in 0..MaxChanges
    BY <1>0, ChangesAssumption DEF ChangeRule
  <2> QED  BY <1>0, <1>1, <1>3, <2>1
           DEF ChangeRule, TypeOK, DnsTypeOK, ProxyTypeOK, ConnType, dnsVars
<1>5. \A k \in Conn : Remembers(k)'
  BY <1>2 DEF Inv, Remembers
<1>6. Fits
  BY <1>2, QuietFits
<1> QED  BY <1>4, <1>5, <1>6 DEF Inv

LEMMA ClientKeeps ==
  ASSUME Inv, NEW c \in Client, Requests(c)
  PROVE  Inv' /\ Fits
<1>0. /\ TypeOK /\ DnsTypeOK /\ conn \in [Conn -> ConnType]
      /\ client \in [Client -> ClientType] /\ client[c] \in ClientType
      /\ rule \in Rule \cup {None}
      /\ UNCHANGED <<rule, token, server, dnsVars, faults, ca, changes>>
  BY TypeOKIs DEF Inv, DnsTypeOK, Requests
<1> DEFINE r1(pc) == [client[c] EXCEPT !.pc = pc]
           r2(pc) == [r1(pc) EXCEPT !.reply = NoReply]
<1>1. NoReply \in ReplyType
  BY DEF NoReply, ReplyType
<1>2. ASSUME NEW pc \in {"http", "https", "waits"} PROVE r2(pc) \in ClientType
  <2>1. r1(pc) \in ClientType
    BY <1>0 DEF ClientType
  <2> HIDE DEF r1
  <2> QED  BY <1>1, <2>1 DEF ClientType
<1>3. CASE Go(c)
  <2>1. UNCHANGED conn
    BY <1>3 DEF Go
  <2>2. client' \in [Client -> ClientType]
    <3>1. CASE Goes(c) = "proxy"
      <4>1. Scheme(c) \in {"http", "https"}
        BY DEF Scheme
      <4>2. client' = [client EXCEPT ![c] = r2(Scheme(c))]
        BY <1>3, <3>1 DEF Go
      <4> HIDE DEF r2
      <4> QED  BY <1>0, <1>2, <4>1, <4>2
    <3>2. CASE Goes(c) # "proxy"
      <4> DEFINE q == [what |-> Goes(c), from |-> None]
      <4>1. q \in ReplyType
        BY <3>2 DEF Goes, ReplyType
      <4>2. [client[c] EXCEPT !.reply = q] \in ClientType
        <5> HIDE DEF q
        <5> QED  BY <1>0, <4>1 DEF ClientType
      <4>3. client' = [client EXCEPT ![c] = [client[c] EXCEPT !.reply = q]]
        BY <1>3, <3>2 DEF Go
      <4> QED  BY <1>0, <4>2, <4>3
    <3> QED  BY <3>1, <3>2
  <2>3. TypeOK'
    BY <1>0, <2>1, <2>2 DEF TypeOK, DnsTypeOK, ProxyTypeOK, dnsVars, ClientType,
       ReplyType
  <2>4. Fits
    BY <2>1, QuietFits
  <2> QED  BY <1>0, <2>1, <2>3, <2>4 DEF Inv, Remembers
<1>4. ASSUME NEW k \in Conn, Reuse(c, k) PROVE Inv' /\ Fits
  <2> DEFINE n1 == [conn[k] EXCEPT !.pc = "request"]
             n2 == [n1 EXCEPT !.seen = {rule}]
  <2>1. n1 \in ConnType /\ n1.pc = "request" /\ n1.client = conn[k].client
    BY <1>0 DEF ConnType, Handled, InFlight
  <2>2. /\ n2 \in ConnType /\ n2.pc = "request" /\ n2.client = conn[k].client
        /\ n2.seen = {rule}
    <3> HIDE DEF n1
    <3> QED  BY <1>0, <2>1 DEF ConnType
  <2>3. conn' = [conn EXCEPT ![k] = n2] /\ conn[k].client = c /\ conn[k].pc = "open"
    BY <1>4 DEF Reuse
  <2> HIDE DEF n2
  <2>4. ConnBecomes(k, n2.pc, n2.client, n2.tls, n2.rule, n2.seen)
    BY <1>0, <2>2, <2>3, ConnReplaced
  <2>5. client' \in [Client -> ClientType]
    <3>1. client' = [client EXCEPT ![c] = r2("waits")]
      BY <1>4 DEF Reuse
    <3> HIDE DEF r2
    <3> QED  BY <1>0, <1>2, <3>1
  <2>6. Inv'
    BY <1>0, <2>2, <2>3, <2>4, <2>5, ConnKeepsInv DEF NoFault
  <2>7. Fits
    BY <2>2, <2>3, <2>4, QuietFits DEF ConnBecomes, InFlight
  <2> QED  BY <2>6, <2>7
<1> QED  BY <1>3, <1>4 DEF Requests

-----------------------------------------------------------------------------

LEMMA InvInit == Init => Inv
<1> SUFFICES ASSUME Init PROVE Inv
  OBVIOUS
<1>1. NoReply \in ReplyType
  BY DEF NoReply, ReplyType
<1>2. NewClient \in ClientType
  BY <1>1 DEF NewClient, ClientType
<1>3. DnsTypeOK
  <2> DEFINE none == [t \in Type |-> "idle"]
  <2>1. none \in [Type -> {"idle", "forward"}]
    OBVIOUS
  <2>2. NoAnswers \in [Type -> {None, "proxy", "site", "nothing"}]
    BY DEF NoAnswers
  <2>3. query = [c \in Client |-> none] /\ answer = [c \in Client |-> NoAnswers]
    BY DEF Init, DnsInit, NoQueries
  <2>4. /\ rule \in Rule \cup {None} /\ token \in BOOLEAN
        /\ server = [s \in Server |-> "starting"] /\ faults = 0
    BY DEF Init, DnsInit
  <2>5. server \in [Server -> {"starting", "up", "failed", "stopped"}]
    BY <2>4
  <2>6. faults \in 0..MaxFaults
    BY <2>4, FaultsAssumption
  <2> HIDE DEF none
  <2>7. /\ query \in [Client -> [Type -> {"idle", "forward"}]]
        /\ answer \in [Client -> [Type -> {None, "proxy", "site", "nothing"}]]
    BY <2>1, <2>2, <2>3
  <2> QED  BY <2>4, <2>5, <2>6, <2>7 DEF DnsTypeOK
<1>4. TypeOK
  BY <1>2, <1>3, NoConnLemma, TypeOKIs, ChangesAssumption DEF Init, ProxyInit
<1>5. \A k \in Conn : conn[k].pc = "free"
  BY NoConnLemma DEF Init, ProxyInit
<1> QED  BY <1>4, <1>5 DEF Inv, Remembers, InFlight

LEMMA NextInv == Inv /\ [Next]_vars => Inv' /\ [Fits]_vars
<1> SUFFICES ASSUME Inv, [Next]_vars PROVE Inv' /\ [Fits]_vars
  OBVIOUS
<1>1. CASE Next
  BY <1>1, ServersKeep, ChangeKeeps, ClientKeeps, ProxyKeeps DEF Next
<1>2. CASE UNCHANGED vars
  BY <1>2 DEF vars, proxyVars, dnsVars, Inv, TypeOK, DnsTypeOK, ProxyTypeOK, Remembers
<1> QED  BY <1>1, <1>2

(* The servers, the queries, the connections and the clients have their    *)
(* types: no connection ends in a stage the handlers do not know.          *)
THEOREM TypeCorrect == Spec => []TypeOK
<1>1. Inv => TypeOK
  BY DEF Inv
<1> QED  BY <1>1, InvInit, NextInv, PTL DEF Spec

(* Whatever clients, targets and the rule do, and however often, a reply   *)
(* of the proxy is what one rule in force while the request was handled    *)
(* asks for.                                                               *)
THEOREM RepliesAlwaysFit == Spec => ReplyFits
<1>1. Inv /\ [Next]_vars => [Fits]_vars
  BY NextInv
<1> QED  BY <1>1, InvInit, NextInv, PTL DEF Spec, ReplyFits, Fits
=============================================================================
