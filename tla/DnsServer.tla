----------------------------- MODULE DnsServer ------------------------------
(***************************************************************************)
(* The DNS server (core/src/dns/server.rs, core/src/dns/mod.rs), for one   *)
(* name: `rule` is what DomainResolver::resolve_domain answers for it now. *)
(* Clients look the name up for both address types and keep the answers    *)
(* for their time to live.  Other record types are forwarded whatever the  *)
(* rules say, and lead no client anywhere.                                 *)
(*                                                                         *)
(* The sockets, the upstream resolver and hickory's shutdown are external. *)
(* Shutdown lets queries in progress finish or drops them.                 *)
(***************************************************************************)
EXTENDS Naturals, FiniteSets

CONSTANTS Client,      \* programs that resolve the name and request from it
          Rule,        \* the rules the name may have
          Target,      \* addresses rules point to
          None,        \* no rule, no answer, no reply
          MaxFaults    \* bound: failures of sockets, upstreams, targets and
                       \* clients

Type == {"A", "AAAA"}
Server == {"dns", "http", "https"}

ASSUME RuleAssumption == Rule \subseteq [https : BOOLEAN, target : Target] /\ None \notin Rule
ASSUME FaultsAssumption == MaxFaults \in Nat

VARIABLES rule,     \* the rule in force
          token,    \* the CancellationToken is cancelled
          server,   \* the stage of each listening task
          query,    \* each client's queries
          answer,   \* the answers each client holds
          faults

dnsVars == <<query, answer>>

NoAnswers == [t \in Type |-> None]
NoQueries == [c \in Client |-> [t \in Type |-> "idle"]]

DnsInit ==
  /\ rule \in Rule \cup {None}
  /\ token = FALSE
  /\ server = [s \in Server |-> "starting"]
  /\ query = NoQueries
  /\ answer = [c \in Client |-> NoAnswers]
  /\ faults = 0

Fault == faults < MaxFaults /\ faults' = faults + 1
NoFault == UNCHANGED faults

(* send_response *)
Respond(c, t, a) ==
  /\ query' = [query EXCEPT ![c][t] = "idle"]
  /\ answer' = [answer EXCEPT ![c][t] = a]

(* Mutant: AAAA gets the proxy's IPv4 address, mapped. *)
RespondMapped(c, t) == Respond(c, t, IF t = "A" THEN "proxy" ELSE "mapped")

(* The proxy listens on an IPv4 address: AAAA gets an empty answer. *)
RespondLocal(c, t) == Respond(c, t, IF t = "A" THEN "proxy" ELSE "nothing")

AwaitUpstream(c, t) ==
  query' = [query EXCEPT ![c][t] = "forward"] /\ UNCHANGED answer

(* A query for a type whose answer the client lacks. *)
Asked(c, t) ==
  /\ server["dns"] = "up" /\ ~token
  /\ query[c][t] = "idle" /\ answer[c][t] = None

(* Mutant: only A is taken from the upstream. *)
ResolveOnlyA(c, t) ==
  /\ Asked(c, t)
  /\ IF rule # None /\ t = "A" THEN RespondLocal(c, t) ELSE AwaitUpstream(c, t)
  /\ NoFault

(* Mutant: AAAA for a name with a rule is not answered at all. *)
ResolveSilently(c, t) ==
  /\ Asked(c, t)
  /\ rule # None => t = "A"
  /\ IF rule # None THEN RespondLocal(c, t) ELSE AwaitUpstream(c, t)
  /\ NoFault

(* handle_request and resolve, up to the first await.  Both types are      *)
(* intercepted.                                                            *)
Resolve(c, t) ==
  /\ Asked(c, t)
  /\ IF rule # None THEN RespondLocal(c, t) ELSE AwaitUpstream(c, t)
  /\ NoFault

(* upstream.lookup: records, or NXDOMAIN for every NoRecordsFound.  The    *)
(* rules are not read again.                                               *)
Forward(c, t) ==
  /\ query[c][t] = "forward"
  /\ \E a \in {"site", "nothing"} : Respond(c, t, a)
  /\ NoFault

(* SERVFAIL, or a datagram lost: the client has nothing, and asks again. *)
QueryFails(c, t) ==
  /\ query[c][t] # "idle"
  /\ Fault
  /\ query' = [query EXCEPT ![c][t] = "idle"]
  /\ UNCHANGED answer

(* The time to live of an answer is over, ten seconds for a local one.  A  *)
(* lookup uses the answers it has got while it waits for the other.        *)
Expire(c, t) ==
  /\ \A u \in Type : answer[c][u] # None
  /\ answer' = [answer EXCEPT ![c][t] = None]
  /\ UNCHANGED <<query, faults>>

(* The select on the token and shutdown_gracefully, which leaves no query. *)
StopDns ==
  /\ token /\ server["dns"] = "up"
  /\ server' = [server EXCEPT !["dns"] = "stopped"]
  /\ query' = NoQueries
  /\ UNCHANGED <<answer, faults>>

(* block_until_done returns without the token: an error is logged, and the *)
(* task ends.  The select is biased.                                       *)
DnsEnds ==
  /\ ~token /\ server["dns"] = "up"
  /\ Fault
  /\ server' = [server EXCEPT !["dns"] = "failed"]
  /\ query' = NoQueries
  /\ UNCHANGED answer

DnsStep ==
  /\ \E c \in Client, t \in Type :
       \/ Resolve(c, t) \/ Forward(c, t)
       \/ QueryFails(c, t) \/ Expire(c, t)
  /\ UNCHANGED <<rule, token, server>>

DnsTypeOK ==
  /\ rule \in Rule \cup {None}
  /\ token \in BOOLEAN
  /\ server \in [Server -> {"starting", "up", "failed", "stopped"}]
  /\ query \in [Client -> [Type -> {"idle", "forward"}]]
  /\ answer \in [Client -> [Type -> {None, "proxy", "site", "nothing"}]]
  /\ faults \in 0..MaxFaults
=============================================================================
