-------------------------------- MODULE Proxy --------------------------------
(***************************************************************************)
(* The HTTP and HTTPS proxy (core/src/proxy/server.rs).  It shares with    *)
(* the DNS server the resolver and the token.                              *)
(*                                                                         *)
(* A connection is the descriptor that carries it, one of the limit of     *)
(* the process:                                                            *)
(*   free      not in use                                                  *)
(*   hello     TLS handshake; `silent` when the client never ends it       *)
(*   open      waiting for a request                                       *)
(*   request   a request is read       connect   the target is dialled     *)
(*   sent      the target has it; `hung` when it never answers             *)
(*   tunnel    a WebSocket             held      ended, and kept           *)
(* The client's bytes, headers and bodies are left out, and with them the  *)
(* header rewriting; a descriptor the dialling lacks is a failed dial.     *)
(***************************************************************************)
EXTENDS DnsServer

CONSTANTS MaxConn,     \* bound: descriptors for connections
          Unspecified, \* the target address 0.0.0.0 or ::
          Localhost

Conn == 1..MaxConn

ASSUME ConnAssumption == MaxConn \in Nat
ASSUME TargetAssumption == None \notin Target

VARIABLES conn,     \* each connection; seen, as history, holds the rules in
                    \* force since its handshake or request began
          client,   \* what each client is doing, and its last reply
          ca        \* the resolver was given a CA when the daemon started

proxyVars == <<conn, client, ca>>

NoConn == [pc |-> "free", client |-> None, tls |-> FALSE, rule |-> None, seen |-> {}]
InFlight == {"request", "connect", "sent", "hung"}
Handled == InFlight \cup {"open", "held"}

NoReply == [what |-> None, from |-> None]

NewClient == [pc |-> "idle", pinned |-> FALSE, reply |-> NoReply]

ProxyInit ==
  /\ conn = [k \in Conn |-> NoConn]
  /\ client = [c \in Client |-> NewClient]
  /\ ca \in BOOLEAN

(* The client of connection k has its reply; a redirect is permanent. *)
Gets(k, what, from) ==
  LET c == conn[k].client IN
  client' = [client EXCEPT ![c].pc = "idle",
               ![c].pinned = @ \/ what = "301",
               ![c].reply = [what |-> what, from |-> from]]

(* The response is written, and the connection waits for the next request. *)
RepliesWith(k, what, from) ==
  /\ conn' = [conn EXCEPT ![k] = [NoConn EXCEPT !.pc = "open", !.tls = conn[k].tls,
                                    !.client = conn[k].client]]
  /\ Gets(k, what, from)

(* The connection ends with an error: handle_connection returns, and the   *)
(* descriptor is closed.                                                   *)
Breaks(k, what) ==
  /\ conn' = [conn EXCEPT ![k] = NoConn]
  /\ Gets(k, what, None)

-----------------------------------------------------------------------------
(* serve_http and serve_https. *)

(* The descriptor the system hands out. *)
Lowest(k) == conn[k].pc = "free" /\ \A j \in 1..(k - 1) : conn[j].pc # "free"

(* listener.accept.  Without a descriptor it fails, and the loop goes on.  *)
(* A client on plain HTTP sends its request at once.                       *)
Accept(c, s) ==
  /\ server[s] = "up" /\ ~token
  /\ client[c].pc = s
  /\ \E k \in Conn :
       /\ Lowest(k)
       /\ conn' = [conn EXCEPT ![k] =
            [pc |-> IF s = "https" THEN "hello" ELSE "request", client |-> c,
             tls |-> s = "https", rule |-> None, seen |-> {rule}]]
  /\ client' = [client EXCEPT ![c].pc = "waits"]
  /\ NoFault

(* Nobody listens: the client is refused at once. *)
Refuse(c, s) ==
  /\ server[s] # "up"
  /\ client[c].pc = s
  /\ client' = [client EXCEPT ![c].pc = "idle",
                  ![c].reply = [what |-> "refused", from |-> None]]
  /\ UNCHANGED <<conn, faults>>

(* DomainResolver::resolve: a certificate for an https rule, of the CA the *)
(* daemon loaded if it did.                                                *)
Certified == ca /\ rule # None /\ rule.https

(* acceptor.accept, outside of the token's select.  Signing may fail. *)
Handshake(k) ==
  /\ conn[k].pc = "hello"
  /\ \/ /\ Certified
        /\ conn' = [conn EXCEPT ![k].pc = "request"]
        /\ UNCHANGED <<client, faults>>
     \/ ~Certified /\ Breaks(k, "refused") /\ NoFault
     \/ Fault /\ Breaks(k, "refused")
     \/ /\ Fault
        /\ conn' = [conn EXCEPT ![k] = [NoConn EXCEPT !.pc = "silent"]]
        /\ client' = [client EXCEPT ![conn[k].client].pc = "idle"]

(* Mutant: a listener waits for the connections it accepted. *)
StopWhenDrained(s) ==
  /\ s # "dns"
  /\ token /\ server[s] = "up"
  /\ \A k \in Conn : conn[k].pc = "free"
  /\ server' = [server EXCEPT ![s] = "stopped"]

(* The selects on the token.  Connections are not waited for. *)
StopListening(s) ==
  /\ s # "dns"
  /\ token /\ server[s] = "up"
  /\ server' = [server EXCEPT ![s] = "stopped"]

-----------------------------------------------------------------------------
(* service_handle_connection and handle_connection. *)

(* The select is biased: the connection moves only under a token that is   *)
(* not cancelled.                                                          *)
Polled(k, pc) == ~token /\ conn[k].pc = pc

(* Mutant: an https rule is served over plain HTTP as well. *)
ServeAnyScheme(k) ==
  /\ Polled(k, "request")
  /\ \/ rule = None /\ RepliesWith(k, "502", None) /\ NoFault
     \/ /\ rule # None
        /\ conn' = [conn EXCEPT ![k].pc = "connect", ![k].rule = rule]
        /\ UNCHANGED <<client, faults>>

(* Up to the dialling. *)
Serve(k) ==
  /\ Polled(k, "request")
  /\ \/ rule = None /\ RepliesWith(k, "502", None) /\ NoFault
     \/ rule # None /\ rule.https /\ ~conn[k].tls /\ RepliesWith(k, "301", None) /\ NoFault
     \/ /\ rule # None /\ (rule.https => conn[k].tls)
        /\ conn' = [conn EXCEPT ![k].pc = "connect", ![k].rule = rule]
        /\ UNCHANGED <<client, faults>>

(* An unspecified address means this machine. *)
Dialled(t) == IF t = Unspecified THEN Localhost ELSE t

(* TcpStream::connect *)
Connect(k) ==
  /\ Polled(k, "connect")
  /\ \/ conn' = [conn EXCEPT ![k].pc = "sent"] /\ UNCHANGED <<client, faults>>
     \/ Fault /\ RepliesWith(k, "502", None)

(* send_request: the response, a switch to WebSocket, no answer for ever.  *)
Answer(k) ==
  LET t == Dialled(conn[k].rule.target) IN
  /\ Polled(k, "sent")
  /\ \/ RepliesWith(k, "target", t) /\ NoFault
     \/ /\ conn' = [conn EXCEPT ![k] = [NoConn EXCEPT !.pc = "tunnel"]]
        /\ Gets(k, "target", t)
        /\ NoFault
     \/ Fault /\ conn' = [conn EXCEPT ![k].pc = "hung"] /\ UNCHANGED client

(* A `?` of the service, as for a request without Host or a target that    *)
(* breaks off; or the client goes away before the reply.                   *)
RequestFails(k) ==
  /\ \E pc \in {"request", "sent", "hung"} : Polled(k, pc)
  /\ Fault
  /\ Breaks(k, "broken")

(* copy_bidirectional ends when both sides do, whatever the token says. *)
TunnelEnds(k) ==
  /\ conn[k].pc = "tunnel"
  /\ conn' = [conn EXCEPT ![k] = NoConn]
  /\ UNCHANGED <<client, faults>>

(* A connection ends well: the client closes it, or either side had asked  *)
(* to close it after the reply.  The select takes only an Err from it, and *)
(* waits for the token with the connection in hand.                        *)
Close(k) ==
  /\ Polled(k, "open")
  /\ conn' = [conn EXCEPT ![k] = [NoConn EXCEPT !.pc = "held"]]
  /\ UNCHANGED <<client, faults>>

(* The token: graceful_shutdown is asked for, and the connection dropped.  *)
Cancelled(k) ==
  /\ token
  /\ conn[k].pc \in Handled
  /\ conn' = [conn EXCEPT ![k] = NoConn]
  /\ client' = IF conn[k].pc \notin InFlight THEN client
               ELSE [client EXCEPT ![conn[k].client].pc = "idle",
                       ![conn[k].client].reply = [what |-> "cut", from |-> None]]
  /\ NoFault

ProxyStep ==
  \/ \E c \in Client, s \in {"http", "https"} : Accept(c, s) \/ Refuse(c, s)
  \/ \E k \in Conn :
       \/ Handshake(k) \/ Serve(k) \/ Connect(k) \/ Answer(k)
       \/ RequestFails(k) \/ TunnelEnds(k) \/ Close(k) \/ Cancelled(k)

ProxyTypeOK ==
  /\ conn \in [Conn -> [pc : Handled \cup {"free", "hello", "silent", "tunnel"},
                        client : Client \cup {None}, tls : BOOLEAN,
                        rule : Rule \cup {None}, seen : SUBSET (Rule \cup {None})]]
  /\ client \in [Client -> [pc : {"idle", "http", "https", "waits"}, pinned : BOOLEAN,
       reply : [what : {None, "502", "301", "target", "site", "noname", "refused",
                        "broken", "cut"},
                from : Target \cup {Localhost, None}]]]
  /\ ca \in BOOLEAN
=============================================================================
