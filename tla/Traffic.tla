------------------------------- MODULE Traffic -------------------------------
(***************************************************************************)
(* Clients in front of the DNS server and the proxy: they look the name    *)
(* up, connect where the answers send them, keep connections for later     *)
(* requests, and remember a permanent redirect, while the rule changes and *)
(* the daemon is stopped.                                                  *)
(***************************************************************************)
EXTENDS Proxy

CONSTANT MaxChanges    \* bound: changes of the rule

ASSUME ChangesAssumption == MaxChanges \in Nat

VARIABLE changes

vars == <<rule, token, server, dnsVars, faults, proxyVars, changes>>

Init ==
  /\ DnsInit
  /\ ProxyInit
  /\ changes = 0

(* A task binds its address, and ends when it cannot; HTTPS is not served  *)
(* when Ca::is_installed says no, which may differ from what the resolver  *)
(* was given (Certificates).  The token is looked at afterwards.           *)
Bind(s) ==
  /\ server[s] = "starting"
  /\ \/ server' = [server EXCEPT ![s] = "up"] /\ NoFault
     \/ server' = [server EXCEPT ![s] = "failed"] /\ Fault
     \/ s = "https" /\ server' = [server EXCEPT ![s] = "failed"] /\ NoFault
  /\ UNCHANGED <<rule, token, dnsVars, proxyVars, changes>>

(* What resolve_domain answers changes. *)
ChangeRule ==
  /\ changes < MaxChanges
  /\ changes' = changes + 1
  /\ \E r \in (Rule \cup {None}) \ {rule} :
       /\ rule' = r
       /\ conn' = [k \in Conn |->
            IF conn[k].seen = {} THEN conn[k]
            ELSE [conn[k] EXCEPT !.seen = @ \cup {r}]]
  /\ UNCHANGED <<token, server, dnsVars, faults, client, ca>>

Cancel ==
  /\ ~token
  /\ token' = TRUE
  /\ UNCHANGED <<rule, server, dnsVars, faults, proxyVars, changes>>

Stop ==
  /\ \/ StopDns
     \/ \E s \in Server : StopListening(s) /\ UNCHANGED <<dnsVars, faults>>
  /\ UNCHANGED <<rule, token, proxyVars, changes>>

(* The DNS task may end by itself.  The others go on, and the daemon too. *)
Ends == DnsEnds /\ UNCHANGED <<rule, token, proxyVars, changes>>

-----------------------------------------------------------------------------
(* The clients. *)

Scheme(c) == IF client[c].pinned THEN "https" ELSE "http"

(* IPv6 is preferred, and a name without an address is an error. *)
Goes(c) ==
  IF answer[c]["AAAA"] = "site" THEN "site"
  ELSE IF answer[c]["A"] \in {"proxy", "site"} THEN answer[c]["A"] ELSE "noname"

(* Both answers are there: a request to the proxy on a new connection, or  *)
(* to the name's own site.                                                 *)
Go(c) ==
  /\ client[c].pc = "idle"
  /\ \A t \in Type : answer[c][t] # None
  /\ client' =
       IF Goes(c) = "proxy"
       THEN [client EXCEPT ![c].pc = Scheme(c), ![c].reply = NoReply]
       ELSE [client EXCEPT ![c].reply = [what |-> Goes(c), from |-> None]]
  /\ UNCHANGED conn

(* A request on a connection that is still open. *)
Reuse(c, k) ==
  /\ client[c].pc = "idle"
  /\ conn[k].pc = "open" /\ conn[k].client = c
  /\ conn[k].tls = (Scheme(c) = "https")
  /\ conn' = [conn EXCEPT ![k].pc = "request", ![k].seen = {rule}]
  /\ client' = [client EXCEPT ![c].pc = "waits", ![c].reply = NoReply]

Requests(c) ==
  /\ Go(c) \/ \E k \in Conn : Reuse(c, k)
  /\ UNCHANGED <<rule, token, server, dnsVars, faults, ca, changes>>

-----------------------------------------------------------------------------
DnsServes == DnsStep /\ UNCHANGED <<proxyVars, changes>>
ProxyServes == ProxyStep /\ UNCHANGED <<rule, token, server, dnsVars, ca, changes>>

Next ==
  \/ \E s \in Server : Bind(s)
  \/ ChangeRule \/ Cancel \/ Stop \/ Ends
  \/ \E c \in Client : Requests(c)
  \/ DnsServes
  \/ ProxyServes

Spec == Init /\ [][Next]_vars

(* The tasks are scheduled, the upstream resolver times out, a target      *)
(* answers unless it is hung, a listener accepts when it can.  Answers     *)
(* expire, and clients go on asking - strong fairness, since what enables  *)
(* either comes and goes with the answers of the other type.               *)
Fairness ==
  /\ \A s \in Server : WF_vars(Bind(s))
  /\ WF_vars(Stop)
  /\ \A c \in Client :
       /\ SF_vars(Requests(c))
       /\ \A t \in Type :
            WF_vars(/\ Resolve(c, t) \/ Forward(c, t)
                    /\ UNCHANGED <<rule, token, server, proxyVars, changes>>)
       /\ \A t \in Type :
            SF_vars(/\ Expire(c, t)
                    /\ UNCHANGED <<rule, token, server, proxyVars, changes>>)
       /\ \A s \in {"http", "https"} :
            WF_vars(/\ Accept(c, s) \/ Refuse(c, s)
                    /\ UNCHANGED <<rule, token, server, dnsVars, ca, changes>>)
  /\ \A k \in Conn :
       WF_vars(/\ Handshake(k) \/ Serve(k) \/ Connect(k) \/ Answer(k)
               /\ UNCHANGED <<rule, token, server, dnsVars, ca, changes>>)

FairSpec == Spec /\ Fairness

-----------------------------------------------------------------------------
(* Properties. *)

(* Every variable has its type. *)
TypeOK ==
  /\ DnsTypeOK
  /\ ProxyTypeOK
  /\ changes \in 0..MaxChanges

(* A reply of the proxy is what one rule in force while the request was    *)
(* handled asks for, however the rule changes meanwhile and whichever rule *)
(* the connection was opened under: the target of a rule that requires     *)
(* HTTPS is reached over TLS only, a redirect is given for such a rule     *)
(* only, 502 for no rule or a failed dial, and a request ends without a    *)
(* reply only by a failure of the client or target, or by the stop         *)
(* (service_handle_connection).                                            *)
ReplyFits ==
  [][\A k \in Conn :
       conn[k].pc \in InFlight /\ conn'[k].pc \notin InFlight =>
         LET reply == client'[conn[k].client].reply IN
         CASE reply.what = "target" ->
                \E r \in conn[k].seen \ {None} :
                  Dialled(r.target) = reply.from /\ (r.https => conn[k].tls)
           [] reply.what = "301" ->
                ~conn[k].tls /\ \E r \in conn[k].seen \ {None} : r.https
           [] reply.what = "502" -> None \in conn[k].seen \/ faults' > faults
           [] reply.what = "broken" -> faults' > faults
           [] reply.what = "cut" -> token
           [] OTHER -> FALSE]_vars

(* What a client may go on seeing under the rule in force.  Without a rule *)
(* a connection that is reused still ends at the proxy.  A client that was *)
(* redirected once never asks over HTTP again, and there is no certificate *)
(* for a rule that no longer requires HTTPS, or without a CA.  A client    *)
(* that can look the name up no more is left with its last reply.          *)
AsRuled(c) ==
  LET reply == client[c].reply IN
  \/ reply.what = None
  \/ rule = None /\ reply.what \in {"502", "site", "noname"}
  \/ /\ rule # None /\ reply.what = "target"
     /\ reply.from = Dialled(rule.target) /\ (rule.https => client[c].pinned)
  \/ reply.what = "refused" /\ server[Scheme(c)] = "failed"
  \/ reply.what = "refused" /\ client[c].pinned /\ rule # None /\ ~Certified
  \/ server["dns"] = "failed" /\ \E t \in Type : answer[c][t] = None

(* Once the rule no longer changes, every client ends up with what it asks *)
(* for, and with nothing else: answers of either type that sent it         *)
(* elsewhere expire, connections opened under another rule are served by   *)
(* the present one, and a redirect is followed (dns/server.rs resolve,     *)
(* proxy/server.rs service_handle_connection).                             *)
EventuallyAsRuled == \A c \in Client : <>token \/ <>[]AsRuled(c)

(* Nothing that is left can serve client c: every descriptor is taken, by  *)
(* a connection that was kept or one nobody has to end, its target is      *)
(* hung, or the DNS server could not be started, or has ended.             *)
OutOfService(c) ==
  \/ \A k \in Conn : conn[k].pc \in {"held", "tunnel", "silent", "hung", "open"}
  \/ \E k \in Conn : conn[k].pc = "hung" /\ conn[k].client = c
  \/ server["dns"] = "failed"

(* A client gets replies again and again, unless the descriptors were used *)
(* up or its target hangs: no query, handshake or request is left without  *)
(* an answer (DnsHandler, ProxyServer).                                    *)
KeepsReplying ==
  \A c \in Client :
    <>token \/ []<>(client[c].reply.what # None) \/ <>[]OutOfService(c)

(* The stop ends all three listening tasks, although targets hang, clients *)
(* never end a handshake and WebSockets stay open (run_dns_server,         *)
(* run_proxy_server).                                                      *)
StopCompletes == token ~> \A s \in Server : server[s] \in {"failed", "stopped"}
=============================================================================
