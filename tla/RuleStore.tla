------------------------------ MODULE RuleStore ------------------------------
(***************************************************************************)
(* Concurrent access to the rule store (RuleStore, core/src/store.rs).     *)
(*                                                                         *)
(* The store is an ArcSwap: a pointer to an immutable value.  A writer     *)
(* runs arc_swap's rcu: load the pointer, compute a new value with the     *)
(* closure, compare-and-swap, and start over from the value it lost to     *)
(* when another writer was first.  remove and remove_ephemeral hand their  *)
(* result out of the closure through a captured variable, which every      *)
(* iteration overwrites.  A reader (resolve, the snapshots) is one load    *)
(* and needs no step of its own.                                           *)
(*                                                                         *)
(* A pointer is the number of its allocation: a writer holds on to the     *)
(* value it loaded, so its address is not reused meanwhile.                *)
(***************************************************************************)
EXTENDS InnerRuleStore

CONSTANTS Caller,     \* the threads that handle IPC connections
          Request,    \* the operations they are asked for
          MaxCalls    \* bound: calls made in one behaviour

ASSUME RequestAssumption == Request \subseteq Op
ASSUME MaxCallsAssumption == MaxCalls \in Nat

VARIABLES inner,    \* the ArcSwap: pointer and value behind it
          pc,       \* where each caller is in rcu
          op,       \* the operation it runs
          cur,      \* the pointer and value it loaded
          next,     \* the value its closure built
          removed,  \* the variable the closure returns through
          issued    \* calls so far

vars == <<inner, pc, op, cur, next, removed, issued>>

Init ==
  /\ inner = [ptr |-> 0, val |-> EmptyStore]
  /\ pc = [c \in Caller |-> "idle"]
  /\ op = [c \in Caller |-> None]
  /\ cur = [c \in Caller |-> inner]
  /\ next = [c \in Caller |-> EmptyStore]
  /\ removed = [c \in Caller |-> None]
  /\ issued = 0

Invoke(c) ==
  /\ pc[c] = "idle"
  /\ issued < MaxCalls
  /\ \E o \in Request : op' = [op EXCEPT ![c] = o]
  /\ pc' = [pc EXCEPT ![c] = "load"]
  /\ removed' = [removed EXCEPT ![c] = None]
  /\ issued' = issued + 1
  /\ UNCHANGED <<inner, cur, next>>

Load(c) ==
  /\ pc[c] = "load"
  /\ cur' = [cur EXCEPT ![c] = inner]
  /\ pc' = [pc EXCEPT ![c] = "closure"]
  /\ UNCHANGED <<inner, op, next, removed, issued>>

(* Mutant: the captured variable keeps what the first iteration removed. *)
ClosureKeepsFirst(c) ==
  LET applied == Apply(op[c], cur[c].val) IN
  /\ pc[c] = "closure"
  /\ next' = [next EXCEPT ![c] = applied.store]
  /\ removed' = [removed EXCEPT ![c] = IF @ = None THEN applied.result ELSE @]
  /\ pc' = [pc EXCEPT ![c] = "swap"]
  /\ UNCHANGED <<inner, op, cur, issued>>

Closure(c) ==
  LET applied == Apply(op[c], cur[c].val) IN
  /\ pc[c] = "closure"
  /\ next' = [next EXCEPT ![c] = applied.store]
  /\ removed' = [removed EXCEPT ![c] = applied.result]
  /\ pc' = [pc EXCEPT ![c] = "swap"]
  /\ UNCHANGED <<inner, op, cur, issued>>

(* Mutant: the swap does not notice that another writer was first. *)
SwapBlindly(c) ==
  /\ pc[c] = "swap"
  /\ inner' = [ptr |-> inner.ptr + 1, val |-> next[c]]
  /\ pc' = [pc EXCEPT ![c] = "idle"]
  /\ UNCHANGED <<op, cur, next, removed, issued>>

Swap(c) ==
  /\ pc[c] = "swap"
  /\ inner.ptr = cur[c].ptr
  /\ inner' = [ptr |-> inner.ptr + 1, val |-> next[c]]
  /\ pc' = [pc EXCEPT ![c] = "idle"]
  /\ UNCHANGED <<op, cur, next, removed, issued>>

(* Mutant: a lost swap is retried from the value first loaded. *)
SwapRetriesStale(c) ==
  /\ pc[c] = "swap"
  /\ inner.ptr # cur[c].ptr
  /\ pc' = [pc EXCEPT ![c] = "closure"]
  /\ UNCHANGED <<inner, op, cur, next, removed, issued>>

SwapFails(c) ==
  /\ pc[c] = "swap"
  /\ inner.ptr # cur[c].ptr
  /\ cur' = [cur EXCEPT ![c] = inner]
  /\ pc' = [pc EXCEPT ![c] = "closure"]
  /\ UNCHANGED <<inner, op, next, removed, issued>>

Step(c) == Load(c) \/ Closure(c) \/ Swap(c) \/ SwapFails(c)

Next == \E c \in Caller : Invoke(c) \/ Step(c)

Spec == Init /\ [][Next]_vars

(* The runtime keeps running a thread that is inside rcu. *)
FairSpec == Spec /\ \A c \in Caller : WF_vars(Step(c))

-----------------------------------------------------------------------------

Versioned == [ptr : Nat, val : Store]

(* Every variable keeps its type: the store and every value a writer holds *)
(* is an InnerRuleStore of rules as the clients gave them.                 *)
TypeOK ==
  /\ inner \in Versioned
  /\ pc \in [Caller -> {"idle", "load", "closure", "swap"}]
  /\ op \in [Caller -> Request \cup {None}]
  /\ cur \in [Caller -> Versioned]
  /\ next \in [Caller -> Store]
  /\ removed \in [Caller -> Rule \cup {None}]
  /\ issued \in 0..MaxCalls

(* No vector ever holds two rules of one domain, exact maps hold rules     *)
(* under their own non-wildcard domain and vectors hold wildcards only:    *)
(* what makes remove (store.rs:74) take away every rule of the domain and  *)
(* add (store.rs:49) replace it, however the writers interleave.           *)
StoreWellFormed == WellFormed(inner.val)

(* The documented priority (store.rs:9), "first match wins": resolve       *)
(* answers with the first rule that matches in the order in which          *)
(* all_rules (store.rs:109) enumerates the four collections.               *)
ResolveIsFirstMatch ==
  \A n \in Name : Resolve(inner.val, n) = FindWildcard(AllRules(inner.val), n)

(* Adding a rule changes the answer only for names the rule matches, which *)
(* is what invalidate (resolver.rs:54) relies on when it evicts just those *)
(* names; a replaced wildcard moves to the end of its vector unnoticed.    *)
AddIsLocal ==
  \A o \in {r \in Request : r.kind \in {"add", "add_ephemeral"}}, n \in Name :
    ~Matches(o.rule, n) =>
      Resolve(Apply(o, inner.val).store, n) = Resolve(inner.val, n)

(* Removing a rule changes the answer only for names the rule matches, as  *)
(* invalidate relies on as well.  swap_remove (store.rs:81, 95) breaks it. *)
RemoveIsLocal ==
  \A o \in {r \in Request : r.kind \in {"remove", "remove_ephemeral"}},
     n \in Name :
    LET done == Apply(o, inner.val) IN
    (done.result = None \/ ~Matches(done.result, n)) =>
      Resolve(done.store, n) = Resolve(inner.val, n)

(* Saving the persistent rules and loading them into an empty store        *)
(* (state.rs:56, 67) gives back the persistent layer, vector order and so  *)
(* wildcard priority included, and nothing of the ephemeral one.           *)
SaveLoadRoundTrip ==
  AddAll(EmptyStore, PersistentRules(inner.val)) =
    [EmptyStore EXCEPT !.persistent = inner.val.persistent]

(* The store as its callers may think of it: `removed` is theirs only when *)
(* the call is back.                                                       *)
Atomic == INSTANCE AtomicObject WITH
  Initial <- EmptyStore,
  store <- inner.val,
  busy <- [c \in Caller |-> pc[c] # "idle"],
  result <- [c \in Caller |-> IF pc[c] = "idle" THEN removed[c] ELSE None]

(* rcu is linearizable: a call takes effect at its successful swap, on the *)
(* value it finds there, and returns what the operation returns on that    *)
(* very value, never what an abandoned iteration of the closure computed.  *)
Linearizable == Atomic!Spec

(* Lock-freedom is not all: with finitely many calls, every call of the    *)
(* rcu loop ends, however often it loses the swap.                         *)
CallsReturn == \A c \in Caller : pc[c] # "idle" ~> pc[c] = "idle"
=============================================================================
