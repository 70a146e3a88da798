--------------------------- MODULE RuleStore_proof ---------------------------
(***************************************************************************)
(* Proofs about RuleStore: its types, the shape of every store it builds,  *)
(* what lookup, adding, saving and loading do with such a store, and that  *)
(* rcu makes each call one atomic step.                                    *)
(***************************************************************************)
EXTENDS RuleStore, InnerRuleStore_proof

-----------------------------------------------------------------------------
(* The inductive invariant: types, the rcu invariant, and well-formedness  *)
(* of the shared value and of every value a writer holds.                  *)

(* Why the swap is safe: pointers only grow, equal pointers stand for      *)
(* equal values (no ABA), and a writer about to swap holds exactly what    *)
(* its operation gives on the value it loaded.                             *)
RcuInv ==
  \A c \in Caller :
    /\ cur[c].ptr <= inner.ptr
    /\ cur[c].ptr = inner.ptr => cur[c].val = inner.val
    /\ pc[c] # "idle" => op[c] \in Request
    /\ pc[c] = "swap" =>
         /\ next[c] = Apply(op[c], cur[c].val).store
         /\ removed[c] = Apply(op[c], cur[c].val).result

HeldWellFormed ==
  \A c \in Caller : WellFormed(cur[c].val) /\ WellFormed(next[c])

IInv == TypeOK /\ RcuInv /\ StoreWellFormed /\ HeldWellFormed

(* The initial state satisfies the inductive invariant. *)
LEMMA InitIInv == Init => IInv
<1> SUFFICES ASSUME Init PROVE IInv
  OBVIOUS
<1>1. EmptyStore \in Store /\ WellFormed(EmptyStore)
  BY EmptyStoreLemma
<1>2. TypeOK
  BY <1>1, MaxCallsAssumption DEF Init, TypeOK, Versioned
<1>3. RcuInv
  BY DEF Init, RcuInv
<1>4. StoreWellFormed /\ HeldWellFormed
  BY <1>1 DEF Init, StoreWellFormed, HeldWellFormed
<1>5. QED
  BY <1>2, <1>3, <1>4 DEF IInv

(* Every step of rcu preserves the inductive invariant. *)
LEMMA NextIInv == IInv /\ [Next]_vars => IInv'
<1> SUFFICES ASSUME IInv, [Next]_vars PROVE IInv'
  OBVIOUS
<1> USE DEF IInv
<1>1. ASSUME NEW c \in Caller, Invoke(c) PROVE IInv'
  <2>1. TypeOK'
    BY <1>1, MaxCallsAssumption DEF Invoke, TypeOK
  <2>2. RcuInv'
    BY <1>1 DEF Invoke, RcuInv, TypeOK
  <2>3. StoreWellFormed' /\ HeldWellFormed'
    BY <1>1 DEF Invoke, StoreWellFormed, HeldWellFormed
  <2>4. QED
    BY <2>1, <2>2, <2>3
<1>2. ASSUME NEW c \in Caller, Load(c) PROVE IInv'
  <2>1. TypeOK'
    BY <1>2 DEF Load, TypeOK
  <2>2. RcuInv'
    BY <1>2 DEF Load, RcuInv, TypeOK, Versioned
  <2>3. StoreWellFormed' /\ HeldWellFormed'
    BY <1>2 DEF Load, StoreWellFormed, HeldWellFormed, TypeOK
  <2>4. QED
    BY <2>1, <2>2, <2>3
<1>3. ASSUME NEW c \in Caller, Closure(c) PROVE IInv'
  <2> DEFINE applied == Apply(op[c], cur[c].val)
  <2>0. op[c] \in Op /\ cur[c].val \in Store /\ WellFormed(cur[c].val)
    BY <1>3, RequestAssumption
       DEF Closure, RcuInv, TypeOK, Versioned, HeldWellFormed
  <2>1. /\ applied.store \in Store /\ WellFormed(applied.store)
        /\ applied.result \in Rule \cup {None}
    BY <2>0, ApplyLemma
  <2> HIDE DEF applied
  <2>2. /\ pc[c] = "closure"
        /\ next' = [next EXCEPT ![c] = applied.store]
        /\ removed' = [removed EXCEPT ![c] = applied.result]
        /\ pc' = [pc EXCEPT ![c] = "swap"]
        /\ UNCHANGED <<inner, op, cur, issued>>
    BY <1>3 DEF Closure, applied
  <2>3. TypeOK'
    BY <2>1, <2>2 DEF TypeOK
  <2>4. RcuInv'
    BY <2>2 DEF RcuInv, TypeOK, applied
  <2>5. StoreWellFormed' /\ HeldWellFormed'
    BY <2>1, <2>2 DEF StoreWellFormed, HeldWellFormed, TypeOK
  <2>6. QED
    BY <2>3, <2>4, <2>5
<1>4. ASSUME NEW c \in Caller, Swap(c) PROVE IInv'
  <2>1. TypeOK'
    BY <1>4 DEF Swap, TypeOK, Versioned
  <2>2. RcuInv'
    BY <1>4 DEF Swap, RcuInv, TypeOK, Versioned
  <2>3. StoreWellFormed' /\ HeldWellFormed'
    BY <1>4 DEF Swap, StoreWellFormed, HeldWellFormed
  <2>4. QED
    BY <2>1, <2>2, <2>3
<1>5. ASSUME NEW c \in Caller, SwapFails(c) PROVE IInv'
  <2>1. TypeOK'
    BY <1>5 DEF SwapFails, TypeOK
  <2>2. RcuInv'
    BY <1>5 DEF SwapFails, RcuInv, TypeOK, Versioned
  <2>3. StoreWellFormed' /\ HeldWellFormed'
    BY <1>5 DEF SwapFails, StoreWellFormed, HeldWellFormed, TypeOK
  <2>4. QED
    BY <2>1, <2>2, <2>3
<1>6. CASE UNCHANGED vars
  BY <1>6 DEF vars, TypeOK, RcuInv, StoreWellFormed, HeldWellFormed
<1>7. QED
  BY <1>1, <1>2, <1>3, <1>4, <1>5, <1>6 DEF Next, Step

(* Every variable of RuleStore keeps its type, for any callers, requests   *)
(* and number of calls.                                                    *)
THEOREM TypeCorrect == Spec => []TypeOK
<1>1. IInv => TypeOK
  BY DEF IInv
<1>2. QED
  BY <1>1, InitIInv, NextIInv, PTL DEF Spec

(* Every store the concurrent writers publish is well formed: no two rules *)
(* of one domain in a vector, exact maps keyed by their rules' domains.    *)
THEOREM StoreAlwaysWellFormed == Spec => []StoreWellFormed
<1>1. IInv => StoreWellFormed
  BY DEF IInv
<1>2. QED
  BY <1>1, InitIInv, NextIInv, PTL DEF Spec

(* A writer about to swap holds what its operation gives on the value the  *)
(* pointer it compares still stands for.                                   *)
THEOREM RcuCorrect == Spec => []RcuInv
<1>1. IInv => RcuInv
  BY DEF IInv
<1>2. QED
  BY <1>1, InitIInv, NextIInv, PTL DEF Spec

(* In every store the writers publish, adding a rule leaves the answer for *)
(* a name it does not match alone: what invalidate (resolver.rs:54) needs. *)
THEOREM AddsAlwaysLocal == Spec => []AddIsLocal
<1>1. IInv => AddIsLocal
  <2> SUFFICES ASSUME IInv,
                      NEW o \in Request, o.kind \in {"add", "add_ephemeral"},
                      NEW n \in Name, ~Matches(o.rule, n)
               PROVE  Resolve(Apply(o, inner.val).store, n) = Resolve(inner.val, n)
    BY DEF AddIsLocal
  <2>1. o \in Op /\ inner.val \in Store /\ WellFormed(inner.val)
    BY RequestAssumption DEF IInv, TypeOK, Versioned, StoreWellFormed
  <2>2. QED
    BY <2>1, AddLocal
<1>2. QED
  BY <1>1, InitIInv, NextIInv, PTL DEF Spec

(* Every exact map the writers publish or hold is finite, for any Domain:  *)
(* what a HashMap always is, and what enumerating one needs.               *)
AllFinite ==
  /\ FinitelyMany(inner.val)
  /\ \A c \in Caller : FinitelyMany(cur[c].val) /\ FinitelyMany(next[c])

LEMMA InitFinite == Init => AllFinite
BY EmptyFinite DEF Init, AllFinite

LEMMA NextFinite == IInv /\ AllFinite /\ [Next]_vars => AllFinite'
<1> SUFFICES ASSUME IInv, AllFinite, [Next]_vars PROVE AllFinite'
  OBVIOUS
<1>1. ASSUME NEW c \in Caller, Invoke(c) PROVE AllFinite'
  BY <1>1 DEF Invoke, AllFinite
<1>2. ASSUME NEW c \in Caller, Load(c) PROVE AllFinite'
  BY <1>2 DEF Load, AllFinite, IInv, TypeOK
<1>3. ASSUME NEW c \in Caller, Closure(c) PROVE AllFinite'
  <2> DEFINE applied == Apply(op[c], cur[c].val)
  <2>1. op[c] \in Op /\ cur[c].val \in Store
    BY <1>3, RequestAssumption DEF Closure, IInv, RcuInv, TypeOK, Versioned
  <2>2. FinitelyMany(applied.store)
    BY <2>1, ApplyFinite DEF AllFinite
  <2> HIDE DEF applied
  <2>3. next' = [next EXCEPT ![c] = applied.store] /\ UNCHANGED <<inner, cur>>
    BY <1>3 DEF Closure, applied
  <2>4. QED
    BY <2>2, <2>3 DEF AllFinite, IInv, TypeOK
<1>4. ASSUME NEW c \in Caller, Swap(c) PROVE AllFinite'
  BY <1>4 DEF Swap, AllFinite
<1>5. ASSUME NEW c \in Caller, SwapFails(c) PROVE AllFinite'
  BY <1>5 DEF SwapFails, AllFinite, IInv, TypeOK
<1>6. CASE UNCHANGED vars
  BY <1>6 DEF vars, AllFinite
<1>7. QED
  BY <1>1, <1>2, <1>3, <1>4, <1>5, <1>6 DEF Next, Step

(* "First match wins" (store.rs:9) in every store the writers publish:     *)
(* resolve answers with the first rule of all_rules that matches, whatever *)
(* order the exact maps are iterated in.                                   *)
THEOREM AlwaysFirstMatch == Spec => []ResolveIsFirstMatch
<1>1. IInv /\ AllFinite => ResolveIsFirstMatch
  <2> SUFFICES ASSUME IInv, AllFinite, NEW n \in Name
               PROVE  Resolve(inner.val, n) = FindWildcard(AllRules(inner.val), n)
    BY DEF ResolveIsFirstMatch
  <2>1. inner.val \in Store /\ WellFormed(inner.val) /\ FinitelyMany(inner.val)
    BY DEF IInv, TypeOK, Versioned, StoreWellFormed, AllFinite
  <2>2. QED
    BY <2>1, ResolveFirst
<1>2. QED
  BY <1>1, InitIInv, NextIInv, InitFinite, NextFinite, PTL DEF Spec

(* Whatever the writers publish can be saved (state.rs:56) and loaded      *)
(* (state.rs:67) without loss: the persistent layer comes back as it was,  *)
(* the order of its wildcards included.                                    *)
THEOREM AlwaysRoundTrips == Spec => []SaveLoadRoundTrip
<1>1. IInv /\ AllFinite => SaveLoadRoundTrip
  <2> SUFFICES ASSUME IInv, AllFinite PROVE SaveLoadRoundTrip
    OBVIOUS
  <2> DEFINE layer == inner.val.persistent
  <2>1. layer \in Layer /\ LayerWellFormed(layer) /\ IsFiniteSet(Kept(layer))
    BY DEF IInv, TypeOK, Versioned, Store, StoreWellFormed, WellFormed,
           AllFinite, FinitelyMany
  <2>2. AddAll(EmptyStore, LayerRules(layer)) = Persistent(layer)
    BY <2>1, RoundTrip
  <2>3. QED
    BY <2>2 DEF SaveLoadRoundTrip, PersistentRules, Persistent
<1>2. QED
  BY <1>1, InitIInv, NextIInv, InitFinite, NextFinite, PTL DEF Spec

-----------------------------------------------------------------------------
(* Refinement. *)

(* An empty store with every caller idle is an initial atomic object. *)
LEMMA InitRefines == Init => Atomic!Init
<1> SUFFICES ASSUME Init PROVE Atomic!Init
  OBVIOUS
<1>1. \A c \in Caller : pc[c] = "idle" /\ removed[c] = None
  BY DEF Init
<1>2. [c \in Caller |-> pc[c] # "idle"] = [c \in Caller |-> FALSE]
  BY <1>1, Zenon
<1>3. [c \in Caller |-> IF pc[c] = "idle" THEN removed[c] ELSE None]
        = [c \in Caller |-> None]
  BY <1>1
<1>4. inner.val = EmptyStore
  BY DEF Init
<1>5. QED
  BY <1>2, <1>3, <1>4, Zenon DEF Init, Atomic!Init

(* The successful swap is the atomic step of its call; loading, running    *)
(* the closure and losing the swap are invisible.                          *)
LEMMA StepRefines == IInv /\ [Next]_vars => [Atomic!Next]_Atomic!vars
<1> SUFFICES ASSUME IInv, [Next]_vars PROVE [Atomic!Next]_Atomic!vars
  OBVIOUS
<1> USE DEF IInv
<1>1. ASSUME NEW c \in Caller, Invoke(c) PROVE Atomic!Invoke(c)
  BY <1>1 DEF Invoke, Atomic!Invoke, TypeOK
<1>2. ASSUME NEW c \in Caller, Load(c) PROVE UNCHANGED Atomic!vars
  BY <1>2 DEF Load, Atomic!vars, TypeOK
<1>3. ASSUME NEW c \in Caller, Closure(c) PROVE UNCHANGED Atomic!vars
  BY <1>3 DEF Closure, Atomic!vars, TypeOK
<1>4. ASSUME NEW c \in Caller, Swap(c) PROVE Atomic!Do(c)
  <2>1. /\ next[c] = Apply(op[c], inner.val).store
        /\ removed[c] = Apply(op[c], inner.val).result
    BY <1>4 DEF Swap, RcuInv
  <2>2. QED
    BY <1>4, <2>1 DEF Swap, Atomic!Do, TypeOK
<1>5. ASSUME NEW c \in Caller, SwapFails(c) PROVE UNCHANGED Atomic!vars
  BY <1>5 DEF SwapFails, Atomic!vars, TypeOK
<1>6. CASE UNCHANGED vars
  BY <1>6 DEF vars, Atomic!vars
<1>7. QED
  BY <1>1, <1>2, <1>3, <1>4, <1>5, <1>6 DEF Next, Step, Atomic!Next

(* rcu is linearizable for every set of callers and requests: the          *)
(* compare-and-swap loop implements the object whose calls are atomic.     *)
THEOREM RcuLinearizable == Spec => Linearizable
<1>1. QED
  BY InitRefines, StepRefines, InitIInv, NextIInv, PTL
     DEF Spec, Linearizable, Atomic!Spec
=============================================================================
