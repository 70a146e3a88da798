------------------------------ MODULE Resolver ------------------------------
(***************************************************************************)
(* The cached lookups of the DNS server, the proxy and the TLS acceptor    *)
(* (DomainResolver, core/src/dns/resolver.rs).                             *)
(*                                                                         *)
(* resolve_domain looks in the cache, reads the store, and inserts what it *)
(* read: three steps of one thread, with no lock across them.  A TLS       *)
(* handshake goes on to the certificate cache when the rule asks for       *)
(* https.  A lookup that ends at the cache changes nothing and takes no    *)
(* step.  An eviction is one step for all its names: each key is removed   *)
(* under its shard's lock, and no property relates two names.              *)
(***************************************************************************)
EXTENDS AppState

CONSTANTS Lookup,   \* threads that look names up
          HasCa     \* the CA was loaded (runner.rs:16)

ASSUME NamesCoverDomains == {d \in Domain : ~IsWildcard(d)} \subseteq Name

VARIABLES cache,    \* the rule cached for each name, or None
          certs,    \* the names with a cached certificate
          lookup    \* what each lookup thread is doing

resolverVars == <<cache, certs, lookup>>

NoLookup == [pc |-> "idle", name |-> None, rule |-> None, tls |-> FALSE]

(* What run pre-signs at most: the loaded https rules (runner.rs:29). *)
Presigned(rules) ==
  {r.domain : r \in {x \in ToSet(rules) : x.https /\ ~IsWildcard(x.domain) /\ HasCa}}

ResolverInit(rules) ==
  /\ cache = [n \in Name |-> None]
  /\ certs = Presigned(rules)
  /\ lookup = [t \in Lookup |-> NoLookup]

(* cache.get misses; a handshake without a CA has returned before. *)
CacheMiss(t, n, tls) ==
  /\ lookup[t].pc = "idle"
  /\ cache[n] = None
  /\ tls => HasCa
  /\ lookup' = [lookup EXCEPT ![t] =
       [pc |-> "read", name |-> n, rule |-> None, tls |-> tls]]
  /\ UNCHANGED <<cache, certs>>

(* cache.get hits during a handshake, which goes on to the certificate. *)
CacheHit(t, n) ==
  /\ lookup[t].pc = "idle"
  /\ HasCa
  /\ cache[n] # None
  /\ cache[n].https
  /\ lookup' = [lookup EXCEPT ![t] =
       [pc |-> "sign", name |-> n, rule |-> cache[n], tls |-> TRUE]]
  /\ UNCHANGED <<cache, certs>>

(* store.resolve(domain)? *)
ReadStore(t) ==
  LET rule == Resolve(store, lookup[t].name) IN
  /\ lookup[t].pc = "read"
  /\ lookup' = [lookup EXCEPT ![t] =
       IF rule = None THEN NoLookup ELSE [@ EXCEPT !.pc = "fill", !.rule = rule]]
  /\ UNCHANGED <<cache, certs>>

(* cache.insert *)
Fill(t) ==
  LET l == lookup[t] IN
  /\ l.pc = "fill"
  /\ cache' = [cache EXCEPT ![l.name] = l.rule]
  /\ lookup' = [lookup EXCEPT ![t] =
       IF l.tls /\ l.rule.https THEN [@ EXCEPT !.pc = "sign"] ELSE NoLookup]
  /\ UNCHANGED certs

(* certs_cache.get, or sign_domain and certs_cache.insert; signing may     *)
(* fail.                                                                   *)
Sign(t) ==
  /\ lookup[t].pc = "sign"
  /\ \/ certs' = certs \cup {lookup[t].name}
     \/ certs' = certs
  /\ lookup' = [lookup EXCEPT ![t] = NoLookup]
  /\ UNCHANGED cache

(* Mutant: a wildcard rule evicts only a name equal to its domain. *)
InvalidateExactOnly(rule) ==
  /\ cache' = [n \in Name |-> IF n = rule.domain THEN None ELSE cache[n]]
  /\ certs' = {n \in certs : n # rule.domain}

Invalidate(rule) ==
  /\ cache' = [n \in Name |-> IF Matches(rule, n) THEN None ELSE cache[n]]
  /\ certs' = {n \in certs : ~Matches(rule, n)}

LookupStep(t) ==
  /\ \/ \E n \in Name, tls \in BOOLEAN : CacheMiss(t, n, tls)
     \/ \E n \in Name : CacheHit(t, n)
     \/ ReadStore(t)
     \/ Fill(t)
     \/ Sign(t)
  /\ UNCHANGED appVars

(* What the store says now. *)
WantsCert(n) == Resolve(store, n) # None /\ Resolve(store, n).https

(* A cache holds something about n that the store no longer says ... *)
HeldOutdated(n) ==
  \/ cache[n] # None /\ cache[n] # Resolve(store, n)
  \/ n \in certs /\ ~WantsCert(n)

(* ... or a lookup is about to insert it. *)
CarriedOutdated(n) ==
  \E t \in Lookup :
    /\ lookup[t].name = n
    /\ \/ lookup[t].pc = "fill" /\ lookup[t].rule # Resolve(store, n)
       \/ lookup[t].pc = "sign" /\ ~WantsCert(n)

Outdated(n) == HeldOutdated(n) \/ CarriedOutdated(n)

ResolverTypeOK ==
  /\ cache \in [Name -> Rule \cup {None}]
  /\ certs \subseteq Name
  /\ lookup \in [Lookup -> [pc : {"idle", "read", "fill", "sign"},
                            name : Name \cup {None},
                            rule : Rule \cup {None}, tls : BOOLEAN]]
=============================================================================
