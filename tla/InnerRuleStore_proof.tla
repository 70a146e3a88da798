------------------------ MODULE InnerRuleStore_proof ------------------------
(***************************************************************************)
(* Lemmas about the operations of InnerRuleStore: each keeps a store well  *)
(* typed, well formed and finite, removal takes away every rule of the     *)
(* domain, a call that returns None changed nothing, an added rule changes *)
(* the answer only for names it matches, resolve answers with the first    *)
(* match of all_rules, and saved rules load as the layer they came from.   *)
(*                                                                         *)
(* Where a proof needs induction it takes the least element of a set of    *)
(* counterexamples (Smallest), or is given a set for a predicate (UpTo).   *)
(***************************************************************************)
EXTENDS InnerRuleStore, FiniteSetTheorems, TLAPS

-----------------------------------------------------------------------------
(* What the operations on one layer preserve. *)

(* Vec::retain keeps the type and the other rules of a vector without      *)
(* duplicates, and none of the domain it is given (store.rs:51).           *)
LEMMA RetainLemma ==
  ASSUME NEW list \in Seq(Rule), NEW d, UniqueDomains(list)
  PROVE  /\ Retain(list, d) \in Seq(Rule)
         /\ UniqueDomains(Retain(list, d))
         /\ \A k \in 1..Len(Retain(list, d)) : 
              /\ Retain(list, d)[k].domain # d
              /\ \E i \in 1..Len(list) : Retain(list, d)[k] = list[i]
<1>1. CASE Positions(list, d) = {}
  BY <1>1 DEF Retain, Positions
<1>2. CASE Positions(list, d) # {}
  <2> DEFINE i == CHOOSE p \in Positions(list, d) : TRUE
             out == [k \in 1..(Len(list) - 1) |->
                       IF k < i THEN list[k] ELSE list[k + 1]]
             from(k) == IF k < i THEN k ELSE k + 1
  <2>1. i \in 1..Len(list) /\ list[i].domain = d
    BY <1>2 DEF Positions
  <2>2. Retain(list, d) = out
    BY <1>2 DEF Retain
  <2> HIDE DEF i
  <2>3. /\ out \in Seq(Rule)
        /\ Len(out) = Len(list) - 1
        /\ \A k \in 1..(Len(list) - 1) :
             out[k] = IF k < i THEN list[k] ELSE list[k + 1]
    BY <2>1
  <2> HIDE DEF out
  <2>4. \A k \in 1..Len(out) :
          from(k) \in 1..Len(list) /\ from(k) # i /\ out[k] = list[from(k)]
    BY <2>1, <2>3
  <2>5. UniqueDomains(out)
    BY <2>1, <2>3, <2>4 DEF UniqueDomains
  <2>6. QED
    BY <2>1, <2>2, <2>3, <2>4, <2>5 DEF UniqueDomains
<1>3. QED
  BY <1>1, <1>2

(* swap_remove of a position keeps the type and the absence of duplicates  *)
(* (store.rs:81, 95).                                                      *)
LEMMA SwapRemoveLemma ==
  ASSUME NEW list \in Seq(Rule), UniqueDomains(list), NEW i \in 1..Len(list)
  PROVE  /\ SwapRemove(list, i) \in Seq(Rule)
         /\ UniqueDomains(SwapRemove(list, i))
         /\ \A k \in 1..Len(SwapRemove(list, i)) :
              \E j \in 1..Len(list) : j # i /\ SwapRemove(list, i)[k] = list[j]
<1> DEFINE out == SwapRemove(list, i)
           from(k) == IF k = i THEN Len(list) ELSE k
<1>1. /\ out \in Seq(Rule)
      /\ Len(out) = Len(list) - 1
      /\ \A k \in 1..(Len(list) - 1) :
           out[k] = IF k = i THEN list[Len(list)] ELSE list[k]
  BY DEF SwapRemove
<1> HIDE DEF out
<1>2. \A k \in 1..Len(out) :
        from(k) \in 1..Len(list) /\ from(k) # i /\ out[k] = list[from(k)]
  BY <1>1
<1>3. UniqueDomains(out)
  BY <1>1, <1>2 DEF UniqueDomains
<1>4. QED
  BY <1>1, <1>2, <1>3 DEF out

(* Adding a rule to a layer (store.rs:49, 64). *)
LEMMA AddToLemma ==
  ASSUME NEW layer \in Layer, LayerWellFormed(layer), NEW rule \in Rule
  PROVE  AddTo(layer, rule) \in Layer /\ LayerWellFormed(AddTo(layer, rule))
<1>0. layer.wildcard \in Seq(Rule) /\ UniqueDomains(layer.wildcard)
  BY DEF Layer, LayerWellFormed
<1>1. CASE IsWildcard(rule.domain)
  <2> DEFINE kept == Retain(layer.wildcard, rule.domain)
             out == Append(kept, rule)
  <2>1. /\ kept \in Seq(Rule) /\ UniqueDomains(kept)
        /\ \A k \in 1..Len(kept) :
              /\ kept[k].domain # rule.domain
              /\ \E i \in 1..Len(layer.wildcard) : kept[k] = layer.wildcard[i]
    BY <1>0, RetainLemma
  <2>2. AddTo(layer, rule) = [layer EXCEPT !.wildcard = out]
    BY <1>1 DEF AddTo
  <2> HIDE DEF kept
  <2>3. /\ out \in Seq(Rule) /\ Len(out) = Len(kept) + 1
        /\ \A k \in 1..Len(kept) : out[k] = kept[k]
        /\ out[Len(kept) + 1] = rule
    BY <2>1
  <2> HIDE DEF out
  <2>4. UniqueDomains(out)
    BY <2>1, <2>3 DEF UniqueDomains
  <2>5. \A k \in 1..Len(out) : IsWildcard(out[k].domain)
    BY <1>1, <2>1, <2>3 DEF LayerWellFormed
  <2>6. QED
    BY <2>2, <2>3, <2>4, <2>5 DEF Layer, LayerWellFormed
<1>2. CASE ~IsWildcard(rule.domain)
  <2>1. AddTo(layer, rule) = [layer EXCEPT !.exact[rule.domain] = rule]
    BY <1>2 DEF AddTo
  <2>2. QED
    BY <1>2, <2>1 DEF Layer, LayerWellFormed, Rule
<1>3. QED
  BY <1>1, <1>2

(* Removing a domain from a layer (store.rs:74, 88): afterwards no rule of *)
(* that domain is left in it.                                              *)
LEMMA RemoveFromLemma ==
  ASSUME NEW layer \in Layer, LayerWellFormed(layer), NEW d \in Domain
  PROVE  /\ RemoveFrom(layer, d).layer \in Layer
         /\ LayerWellFormed(RemoveFrom(layer, d).layer)
         /\ RemoveFrom(layer, d).removed \in Rule \cup {None}
         /\ RemoveFrom(layer, d).layer.exact[d] = None
         /\ Positions(RemoveFrom(layer, d).layer.wildcard, d) = {}
<1> DEFINE rest == [layer EXCEPT !.exact[d] = None]
           at == Positions(layer.wildcard, d)
           pos == CHOOSE i \in at : \A j \in at : i <= j
<1>0. /\ layer.wildcard \in Seq(Rule) /\ UniqueDomains(layer.wildcard)
      /\ layer.exact \in [Domain -> Rule \cup {None}]
  BY DEF Layer, LayerWellFormed
<1>1. CASE at = {}
  <2>1. RemoveFrom(layer, d) = [layer |-> rest, removed |-> layer.exact[d]]
    BY <1>1 DEF RemoveFrom
  <2>2. QED
    BY <1>0, <1>1, <2>1 DEF Layer, LayerWellFormed
<1>2. CASE at # {}
  <2> DEFINE out == SwapRemove(layer.wildcard, pos)
  <2>1. pos \in at /\ \A j \in at : pos <= j
    <3>1. PICK i \in at : TRUE
      BY <1>2
    <3>2. \A j \in at : j = i
      BY <1>0, <3>1 DEF Positions, UniqueDomains
    <3>3. \A j \in at : i <= j
      BY <1>0, <3>1, <3>2 DEF Positions
    <3>4. QED
      BY <3>1, <3>3
  <2>2. pos \in 1..Len(layer.wildcard) /\ layer.wildcard[pos].domain = d
    BY <2>1 DEF Positions
  <2>3. RemoveFrom(layer, d) = [layer |-> [rest EXCEPT !.wildcard = out],
                                removed |-> layer.wildcard[pos]]
    BY <1>2 DEF RemoveFrom
  <2> HIDE DEF pos
  <2>4. /\ out \in Seq(Rule) /\ UniqueDomains(out)
        /\ \A k \in 1..Len(out) : \E j \in 1..Len(layer.wildcard) :
             j # pos /\ out[k] = layer.wildcard[j]
    BY <1>0, <2>2, SwapRemoveLemma
  <2> HIDE DEF out
  <2>5. Positions(out, d) = {}
    <3>1. ASSUME NEW k \in 1..Len(out)
          PROVE  out[k].domain # d
      <4>1. PICK j \in 1..Len(layer.wildcard) :
              j # pos /\ out[k] = layer.wildcard[j]
        BY <2>4
      <4>2. layer.wildcard[j].domain # layer.wildcard[pos].domain
        BY <1>0, <2>2, <4>1 DEF UniqueDomains
      <4>3. QED
        BY <2>2, <4>1, <4>2
    <3>2. QED
      BY <3>1 DEF Positions
  <2>6. layer.wildcard[pos] \in Rule
    BY <1>0, <2>2
  <2>7. \A k \in 1..Len(out) : IsWildcard(out[k].domain)
    BY <2>4 DEF LayerWellFormed
  <2> DEFINE new == [rest EXCEPT !.wildcard = out]
  <2>8. /\ new.wildcard = out
        /\ new.exact = [layer.exact EXCEPT ![d] = None]
        /\ new \in Layer
    BY <1>0, <2>4 DEF Layer
  <2>9. RemoveFrom(layer, d).layer = new
        /\ RemoveFrom(layer, d).removed = layer.wildcard[pos]
    BY <2>3
  <2> HIDE DEF new
  <2>10. LayerWellFormed(new) /\ new.exact[d] = None
    BY <1>0, <2>4, <2>7, <2>8 DEF LayerWellFormed
  <2>11. QED
    BY <2>5, <2>6, <2>8, <2>9, <2>10
<1>3. QED
  BY <1>1, <1>2

(* Each operation keeps the store well typed and well formed, and returns  *)
(* a rule or None.                                                         *)
LEMMA ApplyLemma ==
  ASSUME NEW o \in Op, NEW s \in Store, WellFormed(s)
  PROVE  /\ Apply(o, s).store \in Store
         /\ WellFormed(Apply(o, s).store)
         /\ Apply(o, s).result \in Rule \cup {None}
<1>0. /\ s.ephemeral \in Layer /\ LayerWellFormed(s.ephemeral)
      /\ s.persistent \in Layer /\ LayerWellFormed(s.persistent)
  BY DEF Store, WellFormed
<1>1. CASE o.kind = "add"
  <2>1. o.rule \in Rule
    BY <1>1 DEF Op
  <2>2. Apply(o, s) = [store |-> AddRule(s, o.rule), result |-> o.rule]
    BY <1>1 DEF Apply
  <2>3. AddTo(s.persistent, o.rule) \in Layer
        /\ LayerWellFormed(AddTo(s.persistent, o.rule))
    BY <1>0, <2>1, AddToLemma
  <2>4. QED
    BY <1>0, <2>1, <2>2, <2>3 DEF AddRule, Store, WellFormed
<1>2. CASE o.kind = "add_ephemeral"
  <2>1. o.rule \in Rule
    BY <1>2 DEF Op
  <2>2. Apply(o, s) = [store |-> AddEphemeral(s, o.rule), result |-> o.rule]
    BY <1>2 DEF Apply
  <2>3. AddTo(s.ephemeral, o.rule) \in Layer
        /\ LayerWellFormed(AddTo(s.ephemeral, o.rule))
    BY <1>0, <2>1, AddToLemma
  <2>4. QED
    BY <1>0, <2>1, <2>2, <2>3 DEF AddEphemeral, Store, WellFormed
<1>3. CASE o.kind = "remove"
  <2>1. o.domain \in Domain
    BY <1>3 DEF Op
  <2>2. Apply(o, s) = [store |-> RemoveRule(s, o.domain),
                       result |-> RemoveFrom(s.persistent, o.domain).removed]
    BY <1>3 DEF Apply
  <2>3. /\ RemoveFrom(s.persistent, o.domain).layer \in Layer
        /\ LayerWellFormed(RemoveFrom(s.persistent, o.domain).layer)
        /\ RemoveFrom(s.persistent, o.domain).removed \in Rule \cup {None}
    BY <1>0, <2>1, RemoveFromLemma
  <2>4. QED
    BY <1>0, <2>2, <2>3 DEF RemoveRule, Store, WellFormed
<1>4. CASE o.kind = "remove_ephemeral"
  <2>1. o.domain \in Domain
    BY <1>4 DEF Op
  <2>2. Apply(o, s) = [store |-> RemoveEphemeral(s, o.domain),
                       result |-> RemoveFrom(s.ephemeral, o.domain).removed]
    BY <1>4 DEF Apply
  <2>3. /\ RemoveFrom(s.ephemeral, o.domain).layer \in Layer
        /\ LayerWellFormed(RemoveFrom(s.ephemeral, o.domain).layer)
        /\ RemoveFrom(s.ephemeral, o.domain).removed \in Rule \cup {None}
    BY <1>0, <2>1, RemoveFromLemma
  <2>4. QED
    BY <1>0, <2>2, <2>3 DEF RemoveEphemeral, Store, WellFormed
<1>5. QED
  BY <1>1, <1>2, <1>3, <1>4 DEF Op

(* The empty store is well typed and well formed. *)
LEMMA EmptyStoreLemma == EmptyStore \in Store /\ WellFormed(EmptyStore)
  BY DEF EmptyStore, EmptyLayer, Store, Layer, WellFormed, LayerWellFormed,
         UniqueDomains

(* A removal that finds nothing (handler.rs:55, 67: "No rule found")       *)
(* leaves the store as it was, so no event is owed for it.                 *)
LEMMA NoneLeavesStore ==
  ASSUME NEW o \in Op, NEW s \in Store, WellFormed(s),
         Apply(o, s).result = None
  PROVE  Apply(o, s).store = s
<1>1. ASSUME NEW layer \in Layer, LayerWellFormed(layer), NEW d \in Domain,
             RemoveFrom(layer, d).removed = None
      PROVE  RemoveFrom(layer, d).layer = layer
  <2> DEFINE at == Positions(layer.wildcard, d)
             pos == CHOOSE i \in at : \A j \in at : i <= j
  <2>0. layer.wildcard \in Seq(Rule) /\ UniqueDomains(layer.wildcard)
    BY <1>1 DEF Layer, LayerWellFormed
  <2>1. CASE at = {}
    <3>1. RemoveFrom(layer, d) = [layer |-> [layer EXCEPT !.exact[d] = None],
                                  removed |-> layer.exact[d]]
      BY <2>1 DEF RemoveFrom
    <3>2. layer.exact[d] = None
      BY <1>1, <3>1
    <3>3. [layer EXCEPT !.exact[d] = None] = layer
      <4>1. layer = [exact |-> layer.exact, wildcard |-> layer.wildcard]
        BY <1>1 DEF Layer
      <4>2. layer.exact = [layer.exact EXCEPT ![d] = None]
        BY <3>2, <1>1 DEF Layer
      <4>3. [layer EXCEPT !.exact[d] = None] =
              [exact |-> [layer.exact EXCEPT ![d] = None],
               wildcard |-> layer.wildcard]
        BY <1>1 DEF Layer
      <4>4. QED
        BY <4>1, <4>2, <4>3
    <3>4. QED
      BY <3>1, <3>3
  <2>2. CASE at # {}
    <3>1. RemoveFrom(layer, d).removed = layer.wildcard[pos]
      BY <2>2 DEF RemoveFrom
    <3>2. pos \in at
      <4>1. PICK i \in at : TRUE
        BY <2>2
      <4>2. \A j \in at : i <= j
        BY <2>0, <4>1 DEF Positions, UniqueDomains
      <4>3. QED
        BY <4>1, <4>2
    <3>3. layer.wildcard[pos] \in Rule
      <4> HIDE DEF pos
      <4>1. QED
        BY <2>0, <3>2 DEF Positions
    <3>4. QED
      BY <1>1, <3>1, <3>3, NoneAssumption
  <2>3. QED
    BY <2>1, <2>2
<1>2. CASE o.kind \in {"add", "add_ephemeral"}
  <2>1. Apply(o, s).result = o.rule /\ o.rule \in Rule
    BY <1>2 DEF Apply, Op
  <2>2. QED
    BY <2>1, NoneAssumption
<1>3. CASE o.kind = "remove"
  <2>1. /\ Apply(o, s).result = RemoveFrom(s.persistent, o.domain).removed
        /\ Apply(o, s).store = RemoveRule(s, o.domain)
        /\ o.domain \in Domain
    BY <1>3 DEF Apply, Op
  <2>2. s.persistent \in Layer /\ LayerWellFormed(s.persistent)
    BY DEF Store, WellFormed
  <2>3. RemoveFrom(s.persistent, o.domain).layer = s.persistent
    BY <1>1, <2>1, <2>2
  <2>4. QED
    BY <2>1, <2>3 DEF RemoveRule, Store
<1>4. CASE o.kind = "remove_ephemeral"
  <2>1. /\ Apply(o, s).result = RemoveFrom(s.ephemeral, o.domain).removed
        /\ Apply(o, s).store = RemoveEphemeral(s, o.domain)
        /\ o.domain \in Domain
    BY <1>4 DEF Apply, Op
  <2>2. s.ephemeral \in Layer /\ LayerWellFormed(s.ephemeral)
    BY DEF Store, WellFormed
  <2>3. RemoveFrom(s.ephemeral, o.domain).layer = s.ephemeral
    BY <1>1, <2>1, <2>2
  <2>4. QED
    BY <2>1, <2>3 DEF RemoveEphemeral, Store
<1>5. QED
  BY <1>2, <1>3, <1>4 DEF Op

-----------------------------------------------------------------------------
(* What lookup answers. *)

(* A set of natural numbers has a smallest one. *)
LEMMA Smallest ==
  ASSUME NEW S \in SUBSET Nat, S # {}
  PROVE  \E n \in S : \A m \in S : n <= m
<1> DEFINE R == {r \in Nat \X Nat : r[1] < r[2]}
<1>1. IsWellFoundedOn(R, Nat)
  BY NatLessThanWellFounded DEF OpToRel
<1>2. PICK n \in S : \A m \in S : ~(<<m, n>> \in R)
  <2> HIDE DEF R
  <2> QED  BY <1>1, WFMin
<1>3. ASSUME NEW m \in S PROVE n <= m
  <2>1. ~(m < n)
    BY <1>2
  <2> QED  BY <2>1
<1> QED  BY <1>3

(* find answers with the rule at the first position that matches. *)
LEMMA FindFirst ==
  ASSUME NEW list \in Seq(Rule), NEW n, NEW i \in 1..Len(list), Matches(list[i], n),
         \A j \in 1..Len(list) : Matches(list[j], n) => i <= j
  PROVE  FindWildcard(list, n) = list[i]
<1> DEFINE hits == {j \in 1..Len(list) : Matches(list[j], n)}
<1>1. i \in hits /\ \A j \in hits : i <= j
  OBVIOUS
<1>2. ASSUME NEW k \in hits, \A j \in hits : k <= j PROVE k = i
  <2>1. k <= i /\ i <= k /\ k \in Nat /\ i \in Nat
    BY <1>1, <1>2
  <2> QED  BY <2>1
<1>3. (CHOOSE k \in hits : \A j \in hits : k <= j) = i
  <2> HIDE DEF hits
  <2> QED  BY <1>1, <1>2
<1>4. FindWildcard(list, n) = list[CHOOSE k \in hits : \A j \in hits : k <= j]
  BY <1>1 DEF FindWildcard
<1> HIDE DEF hits
<1> QED  BY <1>3, <1>4

LEMMA FindNone ==
  ASSUME NEW list, NEW n, \A j \in 1..Len(list) : ~Matches(list[j], n)
  PROVE  FindWildcard(list, n) = None
BY DEF FindWildcard

(* There is a first position where there is one. *)
LEMMA FirstExists ==
  ASSUME NEW list \in Seq(Rule), NEW n, NEW k \in 1..Len(list), Matches(list[k], n)
  PROVE  \E i \in 1..Len(list) :
           /\ Matches(list[i], n)
           /\ \A j \in 1..Len(list) : Matches(list[j], n) => i <= j
<1> DEFINE hits == {j \in 1..Len(list) : Matches(list[j], n)}
<1>1. hits \in SUBSET Nat /\ hits # {}
  OBVIOUS
<1>2. PICK i \in hits : \A j \in hits : i <= j
  <2> HIDE DEF hits
  <2> QED  BY <1>1, Smallest
<1> QED  BY <1>2

(* A list without one of its rules answers the same for a name which that  *)
(* rule does not match, and so does one with such a rule at its end.       *)
LEMMA DropLocal ==
  ASSUME NEW list \in Seq(Rule), NEW n, NEW p \in 1..Len(list), ~Matches(list[p], n),
         NEW out \in Seq(Rule), Len(out) = Len(list) - 1,
         \A k \in 1..(Len(list) - 1) :
           out[k] = IF k < p THEN list[k] ELSE list[k + 1]
  PROVE  FindWildcard(out, n) = FindWildcard(list, n)
<1>1. CASE \A j \in 1..Len(list) : ~Matches(list[j], n)
  <2>1. ASSUME NEW k \in 1..Len(out) PROVE ~Matches(out[k], n)
    <3>1. CASE k < p
      <4>1. out[k] = list[k] /\ k \in 1..Len(list)
        BY <3>1
      <4> QED  BY <1>1, <4>1
    <3>2. CASE ~(k < p)
      <4>1. out[k] = list[k + 1] /\ k + 1 \in 1..Len(list)
        BY <3>2
      <4> QED  BY <1>1, <4>1
    <3> QED  BY <3>1, <3>2
  <2>2. FindWildcard(out, n) = None
    BY <2>1, FindNone
  <2>3. FindWildcard(list, n) = None
    BY <1>1, FindNone
  <2> QED  BY <2>2, <2>3
<1>2. CASE \E j \in 1..Len(list) : Matches(list[j], n)
  <2>1. PICK i \in 1..Len(list) :
               /\ Matches(list[i], n)
               /\ \A j \in 1..Len(list) : Matches(list[j], n) => i <= j
    BY <1>2, FirstExists
  <2> DEFINE h == IF i < p THEN i ELSE i - 1
  <2>2. i # p
    BY <2>1
  <2>3. h \in 1..Len(out) /\ out[h] = list[i]
    BY <2>1, <2>2
  <2>4. ASSUME NEW k \in 1..Len(out), Matches(out[k], n) PROVE h <= k
    <3>1. CASE k < p
      <4>1. out[k] = list[k] /\ k \in 1..Len(list)
        BY <3>1
      <4>2. i <= k
        BY <2>1, <2>4, <4>1
      <4> QED  BY <2>2, <4>2, <3>1
    <3>2. CASE ~(k < p)
      <4>1. out[k] = list[k + 1] /\ k + 1 \in 1..Len(list)
        BY <3>2
      <4>2. i <= k + 1
        BY <2>1, <2>4, <4>1
      <4> QED  BY <2>2, <4>2, <3>2
    <3> QED  BY <3>1, <3>2
  <2> HIDE DEF h
  <2>5. FindWildcard(out, n) = out[h]
    BY <2>1, <2>3, <2>4, FindFirst
  <2>6. FindWildcard(list, n) = list[i]
    BY <2>1, FindFirst
  <2> QED  BY <2>3, <2>5, <2>6
<1> QED  BY <1>1, <1>2

LEMMA AppendLocal ==
  ASSUME NEW list \in Seq(Rule), NEW n, NEW rule \in Rule, ~Matches(rule, n)
  PROVE  FindWildcard(Append(list, rule), n) = FindWildcard(list, n)
<1> DEFINE out == Append(list, rule)
<1>1. /\ out \in Seq(Rule) /\ Len(out) = Len(list) + 1 /\ out[Len(list) + 1] = rule
      /\ \A k \in 1..Len(list) : out[k] = list[k]
  OBVIOUS
<1> HIDE DEF out
<1>2. CASE \A j \in 1..Len(list) : ~Matches(list[j], n)
  <2>1. \A k \in 1..Len(out) : ~Matches(out[k], n)
    BY <1>1, <1>2
  <2>2. FindWildcard(out, n) = None /\ FindWildcard(list, n) = None
    BY <1>2, <2>1, FindNone
  <2> QED  BY <2>2 DEF out
<1>3. CASE \E j \in 1..Len(list) : Matches(list[j], n)
  <2>1. PICK i \in 1..Len(list) :
               /\ Matches(list[i], n)
               /\ \A j \in 1..Len(list) : Matches(list[j], n) => i <= j
    BY <1>3, FirstExists
  <2>2. /\ i \in 1..Len(out) /\ out[i] = list[i]
        /\ \A j \in 1..Len(out) : Matches(out[j], n) => i <= j
    BY <1>1, <2>1
  <2>3. FindWildcard(out, n) = out[i] /\ FindWildcard(list, n) = list[i]
    BY <1>1, <2>1, <2>2, FindFirst
  <2> QED  BY <2>2, <2>3 DEF out
<1> QED  BY <1>2, <1>3

(* add (store.rs:49) leaves the answers for other names alone, although    *)
(* the rule moves to the end of its vector.                                *)
LEMMA AddToLocal ==
  ASSUME NEW layer \in Layer, NEW rule \in Rule, NEW n, ~Matches(rule, n)
  PROVE  /\ Exact(AddTo(layer, rule), n) = Exact(layer, n)
         /\ FindWildcard(AddTo(layer, rule).wildcard, n) =
              FindWildcard(layer.wildcard, n)
<1>1. CASE IsWildcard(rule.domain)
  <2> DEFINE list == layer.wildcard
             d == rule.domain
             kept == Retain(list, d)
  <2>1. /\ AddTo(layer, rule).exact = layer.exact
        /\ AddTo(layer, rule).wildcard = Append(kept, rule)
    BY <1>1 DEF AddTo, Layer
  <2>2. list \in Seq(Rule)
    BY DEF Layer
  <2>3. kept \in Seq(Rule) /\ FindWildcard(kept, n) = FindWildcard(list, n)
    <3>1. CASE Positions(list, d) = {}
      BY <2>2, <3>1 DEF Retain
    <3>2. CASE Positions(list, d) # {}
      <4> DEFINE p == CHOOSE x \in Positions(list, d) : TRUE
                 out == [k \in 1..(Len(list) - 1) |->
                           IF k < p THEN list[k] ELSE list[k + 1]]
      <4>1. p \in 1..Len(list) /\ list[p].domain = d
        BY <3>2 DEF Positions
      <4>2. ~Matches(list[p], n)
        BY <4>1 DEF Matches
      <4>3. kept = out
        BY <3>2 DEF Retain
      <4> HIDE DEF p
      <4>4. /\ out \in Seq(Rule) /\ Len(out) = Len(list) - 1
            /\ \A k \in 1..(Len(list) - 1) :
                 out[k] = IF k < p THEN list[k] ELSE list[k + 1]
        BY <2>2, <4>1
      <4> HIDE DEF out
      <4>5. FindWildcard(out, n) = FindWildcard(list, n)
        BY <2>2, <4>1, <4>2, <4>4, DropLocal
      <4> QED  BY <4>3, <4>4, <4>5
    <3> QED  BY <3>1, <3>2
  <2> HIDE DEF kept
  <2>4. FindWildcard(Append(kept, rule), n) = FindWildcard(kept, n)
    BY <2>3, AppendLocal
  <2> QED  BY <2>1, <2>3, <2>4 DEF Exact
<1>2. CASE ~IsWildcard(rule.domain)
  <2>1. rule.domain # n /\ rule.domain \in Domain
    BY <1>2 DEF Matches, Rule
  <2>2. AddTo(layer, rule) = [layer EXCEPT !.exact[rule.domain] = rule]
    BY <1>2 DEF AddTo
  <2> QED  BY <2>1, <2>2 DEF Exact, Layer
<1> QED  BY <1>1, <1>2

(* Resolve depends on what the four collections answer. *)
LEMMA ResolveSame ==
  ASSUME NEW s, NEW t, NEW n,
         Exact(t.ephemeral, n) = Exact(s.ephemeral, n),
         Exact(t.persistent, n) = Exact(s.persistent, n),
         FindWildcard(t.ephemeral.wildcard, n) = FindWildcard(s.ephemeral.wildcard, n),
         FindWildcard(t.persistent.wildcard, n) = FindWildcard(s.persistent.wildcard, n)
  PROVE  Resolve(t, n) = Resolve(s, n)
BY Zenon DEF Resolve

LEMMA AddLocal ==
  ASSUME NEW o \in Op, o.kind \in {"add", "add_ephemeral"}, NEW s \in Store,
         NEW n, ~Matches(o.rule, n)
  PROVE  Resolve(Apply(o, s).store, n) = Resolve(s, n)
<1>1. o.rule \in Rule /\ s.ephemeral \in Layer /\ s.persistent \in Layer
  BY DEF Op, Store
<1>2. CASE o.kind = "add"
  <2>1. Apply(o, s).store = AddRule(s, o.rule)
    BY <1>2 DEF Apply
  <2>2. /\ AddRule(s, o.rule).ephemeral = s.ephemeral
        /\ AddRule(s, o.rule).persistent = AddTo(s.persistent, o.rule)
    BY DEF AddRule, Store
  <2> QED  BY <1>1, <2>1, <2>2, AddToLocal, ResolveSame
<1>3. CASE o.kind = "add_ephemeral"
  <2>1. Apply(o, s).store = AddEphemeral(s, o.rule)
    BY <1>3 DEF Apply
  <2>2. /\ AddEphemeral(s, o.rule).persistent = s.persistent
        /\ AddEphemeral(s, o.rule).ephemeral = AddTo(s.ephemeral, o.rule)
    BY DEF AddEphemeral, Store
  <2> QED  BY <1>1, <2>1, <2>2, AddToLocal, ResolveSame
<1> QED  BY <1>2, <1>3

-----------------------------------------------------------------------------
(* The order of lookup. *)

(* The rules an exact map holds.  Whatever Domain is, they are finitely    *)
(* many in every store the calls build.                                    *)
Kept(layer) == {layer.exact[d] : d \in Domain} \ {None}

FinitelyMany(s) == IsFiniteSet(Kept(s.ephemeral)) /\ IsFiniteSet(Kept(s.persistent))

LEMMA EmptyFinite == FinitelyMany(EmptyStore)
<1>1. Kept(EmptyLayer) = {}
  BY DEF Kept, EmptyLayer
<1> QED  BY <1>1, FS_EmptySet DEF FinitelyMany, EmptyStore

(* One call adds at most one rule to one exact map. *)
LEMMA AddToFinite ==
  ASSUME NEW layer \in Layer, NEW rule \in Rule, IsFiniteSet(Kept(layer))
  PROVE  IsFiniteSet(Kept(AddTo(layer, rule)))
<1>1. \A d \in Domain : AddTo(layer, rule).exact[d] \in {layer.exact[d], rule}
  BY DEF AddTo, Layer
<1>2. Kept(AddTo(layer, rule)) \in SUBSET (Kept(layer) \cup {rule})
  BY <1>1 DEF Kept
<1>3. IsFiniteSet(Kept(layer) \cup {rule})
  BY FS_AddElement
<1> QED  BY <1>2, <1>3, FS_Subset

LEMMA RemoveFromFinite ==
  ASSUME NEW layer \in Layer, NEW dom \in Domain, IsFiniteSet(Kept(layer))
  PROVE  IsFiniteSet(Kept(RemoveFrom(layer, dom).layer))
<1>1. \A d \in Domain : RemoveFrom(layer, dom).layer.exact[d] \in {layer.exact[d], None}
  BY DEF RemoveFrom, Layer
<1>2. Kept(RemoveFrom(layer, dom).layer) \in SUBSET Kept(layer)
  BY <1>1 DEF Kept
<1> QED  BY <1>2, FS_Subset

LEMMA ApplyFinite ==
  ASSUME NEW o \in Op, NEW s \in Store, FinitelyMany(s)
  PROVE  FinitelyMany(Apply(o, s).store)
<1>1. s.ephemeral \in Layer /\ s.persistent \in Layer
  BY DEF Store
<1>2. CASE o.kind = "add"
  <2>1. o.rule \in Rule
    BY <1>2 DEF Op
  <2>2. Apply(o, s).store = [s EXCEPT !.persistent = AddTo(@, o.rule)]
    BY <1>2 DEF Apply, AddRule
  <2> QED  BY <1>1, <2>1, <2>2, AddToFinite DEF FinitelyMany, Store
<1>3. CASE o.kind = "add_ephemeral"
  <2>1. o.rule \in Rule
    BY <1>3 DEF Op
  <2>2. Apply(o, s).store = [s EXCEPT !.ephemeral = AddTo(@, o.rule)]
    BY <1>3 DEF Apply, AddEphemeral
  <2> QED  BY <1>1, <2>1, <2>2, AddToFinite DEF FinitelyMany, Store
<1>4. CASE o.kind = "remove"
  <2>1. o.domain \in Domain
    BY <1>4 DEF Op
  <2>2. Apply(o, s).store = [s EXCEPT !.persistent = RemoveFrom(@, o.domain).layer]
    BY <1>4 DEF Apply, RemoveRule
  <2> QED  BY <1>1, <2>1, <2>2, RemoveFromFinite DEF FinitelyMany, Store
<1>5. CASE o.kind = "remove_ephemeral"
  <2>1. o.domain \in Domain
    BY <1>5 DEF Op
  <2>2. Apply(o, s).store = [s EXCEPT !.ephemeral = RemoveFrom(@, o.domain).layer]
    BY <1>5 DEF Apply, RemoveEphemeral
  <2> QED  BY <1>1, <2>1, <2>2, RemoveFromFinite DEF FinitelyMany, Store
<1> QED  BY <1>2, <1>3, <1>4, <1>5 DEF Op

(* SetToSeq lists the elements of a finite set, and nothing else. *)
LEMMA SetToSeqLemma ==
  ASSUME NEW S, IsFiniteSet(S)
  PROVE  /\ SetToSeq(S) \in Seq(S)
         /\ \A x \in S : \E i \in 1..Len(SetToSeq(S)) : SetToSeq(S)[i] = x
<1> DEFINE n == Cardinality(S)
           q == SetToSeq(S)
<1>1. n \in Nat /\ ExistsBijection(1..n, S)
  BY FS_CardinalityType
<1>2. \E f \in [1..n -> S] : IsInjective(f)
  BY <1>1 DEF ExistsBijection, Bijection, Injection
<1>3. q \in [1..n -> S] /\ IsInjective(q)
  BY <1>2 DEF SetToSeq
<1>4. IsFiniteSet(1..n) /\ Cardinality(1..n) = n
  BY <1>1, FS_Interval
<1> HIDE DEF q
<1>5. q \in Injection(1..n, S)
  BY <1>3 DEF Injection
<1>6. q \in Surjection(1..n, S)
  <2> HIDE DEF n
  <2>1. Cardinality(1..n) = Cardinality(S)
    BY <1>4 DEF n
  <2> QED  BY <1>5, <2>1, FS_Injection
<1>7. \A x \in S : \E i \in 1..n : q[i] = x
  BY <1>6 DEF Surjection
<1> HIDE DEF n
<1>8. q \in Seq(S) /\ Len(q) = n
  BY <1>1, <1>3
<1> QED  BY <1>7, <1>8 DEF q

(* A well-formed exact map, enumerated in any order, answers as its get:   *)
(* at most one of its rules matches a name.                                *)
LEMMA ExactFound ==
  ASSUME NEW layer \in Layer, LayerWellFormed(layer), IsFiniteSet(Kept(layer)), NEW n
  PROVE  /\ SetToSeq(Kept(layer)) \in Seq(Rule)
         /\ FindWildcard(SetToSeq(Kept(layer)), n) = Exact(layer, n)
<1> DEFINE q == SetToSeq(Kept(layer))
<1>1. /\ q \in Seq(Kept(layer))
      /\ \A x \in Kept(layer) : \E i \in 1..Len(q) : q[i] = x
  BY SetToSeqLemma
<1> HIDE DEF q
<1>2. Kept(layer) \subseteq Rule
  BY DEF Kept, Layer
<1>3. q \in Seq(Rule)
  BY <1>1, <1>2
<1>4. ASSUME NEW i \in 1..Len(q), Matches(q[i], n)
      PROVE  n \in Domain /\ q[i] = layer.exact[n] /\ q[i] # None
  <2>1. q[i] \in Kept(layer)
    BY <1>1
  <2>2. PICK d \in Domain : q[i] = layer.exact[d] /\ layer.exact[d] # None
    BY <2>1 DEF Kept
  <2>3. layer.exact[d].domain = d /\ ~IsWildcard(d)
    BY <2>2 DEF LayerWellFormed
  <2>4. d = n
    BY <1>4, <2>2, <2>3 DEF Matches
  <2> QED  BY <2>2, <2>4
<1>5. CASE Exact(layer, n) = None
  <2>1. \A i \in 1..Len(q) : ~Matches(q[i], n)
    BY <1>4, <1>5 DEF Exact
  <2>2. FindWildcard(q, n) = None
    BY <2>1, FindNone
  <2> QED  BY <1>3, <1>5, <2>2 DEF q
<1>6. CASE Exact(layer, n) # None
  <2>1. n \in Domain /\ layer.exact[n] # None /\ Exact(layer, n) = layer.exact[n]
    BY <1>6 DEF Exact
  <2>2. layer.exact[n] \in Kept(layer) /\ Matches(layer.exact[n], n)
    BY <2>1 DEF Kept, LayerWellFormed, Matches
  <2>3. PICK k \in 1..Len(q) : q[k] = layer.exact[n]
    BY <1>1, <2>2
  <2>4. PICK i \in 1..Len(q) :
               /\ Matches(q[i], n)
               /\ \A j \in 1..Len(q) : Matches(q[j], n) => i <= j
    BY <1>3, <2>2, <2>3, FirstExists
  <2>5. FindWildcard(q, n) = q[i]
    BY <1>3, <2>4, FindFirst
  <2> QED  BY <1>3, <1>4, <2>1, <2>4, <2>5 DEF q
<1> QED  BY <1>5, <1>6

(* Of two lists one after the other, the first one answers if it can. *)
LEMMA FindConcat ==
  ASSUME NEW a \in Seq(Rule), NEW b \in Seq(Rule), NEW n
  PROVE  FindWildcard(a \o b, n) =
           IF FindWildcard(a, n) # None THEN FindWildcard(a, n) ELSE FindWildcard(b, n)
<1> DEFINE out == a \o b
<1>1. /\ out \in Seq(Rule) /\ Len(out) = Len(a) + Len(b)
      /\ \A k \in 1..Len(a) : out[k] = a[k]
      /\ \A k \in 1..Len(b) : out[Len(a) + k] = b[k]
  OBVIOUS
<1> HIDE DEF out
<1>2. CASE \E j \in 1..Len(a) : Matches(a[j], n)
  <2>1. PICK i \in 1..Len(a) :
               /\ Matches(a[i], n)
               /\ \A j \in 1..Len(a) : Matches(a[j], n) => i <= j
    BY <1>2, FirstExists
  <2>2. FindWildcard(a, n) = a[i]
    BY <2>1, FindFirst
  <2>3. a[i] # None
    BY NoneAssumption
  <2>4. i \in 1..Len(out) /\ out[i] = a[i]
    BY <1>1
  <2>5. ASSUME NEW k \in 1..Len(out), Matches(out[k], n) PROVE i <= k
    <3>1. CASE k <= Len(a)
      <4>1. k \in 1..Len(a) /\ out[k] = a[k]
        BY <1>1, <3>1
      <4> QED  BY <2>1, <2>5, <4>1
    <3>2. CASE ~(k <= Len(a))
      BY <3>2
    <3> QED  BY <3>1, <3>2
  <2>6. FindWildcard(out, n) = out[i]
    BY <1>1, <2>1, <2>4, <2>5, FindFirst
  <2> QED  BY <2>2, <2>3, <2>4, <2>6 DEF out
<1>3. CASE \A j \in 1..Len(a) : ~Matches(a[j], n)
  <2>1. FindWildcard(a, n) = None
    BY <1>3, FindNone
  <2>2. ASSUME NEW k \in 1..Len(out), Matches(out[k], n)
        PROVE  k - Len(a) \in 1..Len(b) /\ out[k] = b[k - Len(a)]
    <3>1. ~(k \in 1..Len(a))
      BY <1>1, <1>3, <2>2
    <3>2. k - Len(a) \in 1..Len(b) /\ k = Len(a) + (k - Len(a))
      BY <1>1, <3>1
    <3> QED  BY <1>1, <3>2
  <2>3. CASE \A j \in 1..Len(b) : ~Matches(b[j], n)
    <3>1. \A k \in 1..Len(out) : ~Matches(out[k], n)
      BY <2>2, <2>3
    <3>2. FindWildcard(out, n) = None
      BY <3>1, FindNone
    <3>3. FindWildcard(b, n) = None
      BY <2>3, FindNone
    <3> QED  BY <2>1, <3>2, <3>3 DEF out
  <2>4. CASE \E j \in 1..Len(b) : Matches(b[j], n)
    <3>1. PICK i \in 1..Len(b) :
                 /\ Matches(b[i], n)
                 /\ \A j \in 1..Len(b) : Matches(b[j], n) => i <= j
      BY <2>4, FirstExists
    <3>2. Len(a) + i \in 1..Len(out) /\ out[Len(a) + i] = b[i]
      BY <1>1
    <3>3. ASSUME NEW k \in 1..Len(out), Matches(out[k], n) PROVE Len(a) + i <= k
      <4>1. k - Len(a) \in 1..Len(b) /\ Matches(b[k - Len(a)], n)
        BY <2>2, <3>3
      <4>2. i <= k - Len(a)
        BY <3>1, <4>1
      <4> QED  BY <4>2
    <3>4. FindWildcard(out, n) = out[Len(a) + i]
      <4> DEFINE h == Len(a) + i
      <4> HIDE DEF h
      <4>1. h \in 1..Len(out) /\ Matches(out[h], n)
        BY <3>1, <3>2 DEF h
      <4>2. \A k \in 1..Len(out) : Matches(out[k], n) => h <= k
        BY <3>3 DEF h
      <4>3. FindWildcard(out, n) = out[h]
        BY <1>1, <4>1, <4>2, FindFirst
      <4> QED  BY <4>3 DEF h
    <3>5. FindWildcard(b, n) = b[i]
      BY <3>1, FindFirst
    <3> QED  BY <2>1, <3>2, <3>4, <3>5 DEF out
  <2> QED  BY <2>3, <2>4
<1> QED  BY <1>2, <1>3

(* resolve (store.rs:12) answers with the first match of all_rules         *)
(* (store.rs:109), whatever order the HashMaps are iterated in.            *)
LEMMA ResolveFirst ==
  ASSUME NEW s \in Store, WellFormed(s), FinitelyMany(s), NEW n
  PROVE  Resolve(s, n) = FindWildcard(AllRules(s), n)
<1> DEFINE e == SetToSeq(Kept(s.ephemeral))
           ew == s.ephemeral.wildcard
           p == SetToSeq(Kept(s.persistent))
           pw == s.persistent.wildcard
<1>1. s.ephemeral \in Layer /\ s.persistent \in Layer
  BY DEF Store
<1>2. ew \in Seq(Rule) /\ pw \in Seq(Rule)
  BY <1>1 DEF Layer
<1>3. e \in Seq(Rule) /\ FindWildcard(e, n) = Exact(s.ephemeral, n)
  BY <1>1, ExactFound DEF WellFormed, FinitelyMany
<1>4. p \in Seq(Rule) /\ FindWildcard(p, n) = Exact(s.persistent, n)
  BY <1>1, ExactFound DEF WellFormed, FinitelyMany
<1>5. AllRules(s) = (e \o ew) \o (p \o pw)
  BY DEF AllRules, LayerRules, Kept
<1> HIDE DEF e, ew, p, pw
<1>6. e \o ew \in Seq(Rule) /\ p \o pw \in Seq(Rule)
  BY <1>2, <1>3, <1>4
<1>7. FindWildcard(e \o ew, n) = IF FindWildcard(e, n) # None THEN FindWildcard(e, n)
                                                             ELSE FindWildcard(ew, n)
  BY <1>2, <1>3, FindConcat
<1>8. FindWildcard(p \o pw, n) = IF FindWildcard(p, n) # None THEN FindWildcard(p, n)
                                                             ELSE FindWildcard(pw, n)
  BY <1>2, <1>4, FindConcat
<1>9. FindWildcard(AllRules(s), n) =
        IF FindWildcard(e \o ew, n) # None THEN FindWildcard(e \o ew, n)
                                           ELSE FindWildcard(p \o pw, n)
  <2> DEFINE first == e \o ew
             second == p \o pw
  <2>1. first \in Seq(Rule) /\ second \in Seq(Rule) /\ AllRules(s) = first \o second
    BY <1>5, <1>6
  <2> HIDE DEF first, second
  <2>2. FindWildcard(AllRules(s), n) =
          IF FindWildcard(first, n) # None THEN FindWildcard(first, n)
                                           ELSE FindWildcard(second, n)
    BY <2>1, FindConcat
  <2> QED  BY <2>2 DEF first, second
<1>10. Resolve(s, n) = IF Exact(s.ephemeral, n) # None THEN Exact(s.ephemeral, n)
                       ELSE IF FindWildcard(ew, n) # None THEN FindWildcard(ew, n)
                       ELSE IF Exact(s.persistent, n) # None THEN Exact(s.persistent, n)
                       ELSE FindWildcard(pw, n)
  BY DEF Resolve, ew, pw
<1> QED  BY <1>3, <1>4, <1>7, <1>8, <1>9, <1>10

-----------------------------------------------------------------------------
(* Loading. *)

(* Induction, for a set instead of a predicate. *)
LEMMA UpTo ==
  ASSUME NEW good, NEW m \in Nat, 0 \in good,
         \A k \in 1..m : k - 1 \in good => k \in good
  PROVE  m \in good
<1> DEFINE bad == {k \in 0..m : k \notin good}
<1>1. SUFFICES ASSUME bad # {} PROVE FALSE
  OBVIOUS
<1>2. PICK k \in bad : \A j \in bad : k <= j
  <2>1. bad \in SUBSET Nat
    OBVIOUS
  <2> HIDE DEF bad
  <2> QED  BY <1>1, <2>1, Smallest
<1>3. k \in 1..m /\ k - 1 \in 0..m
  BY <1>2
<1>4. k - 1 \in good
  BY <1>2, <1>3
<1> QED  BY <1>2, <1>3, <1>4

(* The stores AddAll goes through. *)
Steps(g, m, s, rules) ==
  g = [n \in 0..m |-> IF n = 0 THEN s ELSE AddRule(g[n - 1], rules[n])]

LEMMA StepsExist ==
  ASSUME NEW s, NEW rules, NEW m \in Nat
  PROVE  \E g : Steps(g, m, s, rules)
<1> DEFINE bad == {k \in Nat : ~\E g : Steps(g, k, s, rules)}
<1>1. SUFFICES ASSUME bad # {} PROVE FALSE
  OBVIOUS
<1>2. PICK k \in bad : \A j \in bad : k <= j
  <2>1. bad \in SUBSET Nat
    OBVIOUS
  <2> HIDE DEF bad
  <2> QED  BY <1>1, <2>1, Smallest
<1>3. CASE k = 0
  <2> DEFINE g == [n \in 0..0 |-> s]
  <2>1. \A n \in 0..0 : n = 0
    OBVIOUS
  <2>2. g = [n \in 0..0 |-> IF n = 0 THEN s ELSE AddRule(g[n - 1], rules[n])]
    BY <2>1
  <2>3. Steps(g, 0, s, rules)
    BY <2>2 DEF Steps
  <2> HIDE DEF g
  <2> QED  BY <1>3, <2>3
<1>4. CASE k # 0
  <2>1. k - 1 \in Nat /\ k - 1 \notin bad
    BY <1>2, <1>4
  <2>2. PICK g : Steps(g, k - 1, s, rules)
    BY <2>1
  <2> DEFINE h == [n \in 0..k |-> IF n = k THEN AddRule(g[k - 1], rules[k]) ELSE g[n]]
  <2>3. ASSUME NEW n \in 0..k
        PROVE  h[n] = IF n = 0 THEN s ELSE AddRule(h[n - 1], rules[n])
    <3>1. CASE n = k
      <4>1. k - 1 \in 0..k /\ k - 1 # k /\ k \in 0..k
        BY <1>4
      <4>2. h[k] = AddRule(g[k - 1], rules[k]) /\ h[k - 1] = g[k - 1]
        BY <4>1
      <4> HIDE DEF h
      <4> QED  BY <1>4, <3>1, <4>2
    <3>2. CASE n # k /\ n # 0
      <4>1. n \in 0..(k - 1) /\ n - 1 \in 0..k /\ n - 1 # k
        BY <3>2, <1>4
      <4>2. g[n] = AddRule(g[n - 1], rules[n])
        <5>1. g[n] = IF n = 0 THEN s ELSE AddRule(g[n - 1], rules[n])
          BY <2>2, <4>1 DEF Steps
        <5> QED  BY <3>2, <5>1
      <4>3. h[n] = g[n] /\ h[n - 1] = g[n - 1]
        BY <3>2, <4>1
      <4> HIDE DEF h
      <4> QED  BY <3>2, <4>2, <4>3
    <3>3. CASE n # k /\ n = 0
      <4>1. n \in 0..(k - 1)
        BY <3>3, <1>4
      <4>2. g[n] = s
        <5>1. g[n] = IF n = 0 THEN s ELSE AddRule(g[n - 1], rules[n])
          BY <2>2, <4>1 DEF Steps
        <5> QED  BY <3>3, <5>1
      <4>3. h[n] = g[n]
        BY <3>3
      <4> HIDE DEF h
      <4> QED  BY <3>3, <4>2, <4>3
    <3> QED  BY <3>1, <3>2, <3>3
  <2>4. DOMAIN h = 0..k /\ h = [n \in 0..k |-> h[n]]
    OBVIOUS
  <2> HIDE DEF h
  <2>5. h = [n \in 0..k |-> IF n = 0 THEN s ELSE AddRule(h[n - 1], rules[n])]
    BY <2>3, <2>4
  <2>6. Steps(h, k, s, rules)
    BY <2>5 DEF Steps
  <2> QED  BY <2>6
<1> QED  BY <1>3, <1>4

(* What AddAll computes: the last of stores that each add one rule. *)
LEMMA AddAllSteps ==
  ASSUME NEW s, NEW rules \in Seq(Rule)
  PROVE  \E g : /\ g[0] = s
                /\ \A n \in 1..Len(rules) : g[n] = AddRule(g[n - 1], rules[n])
                /\ AddAll(s, rules) = g[Len(rules)]
<1> DEFINE g == CHOOSE g : Steps(g, Len(rules), s, rules)
<1>1. Steps(g, Len(rules), s, rules)
  <2>1. Len(rules) \in Nat
    OBVIOUS
  <2>2. \E x : Steps(x, Len(rules), s, rules)
    BY <2>1, StepsExist
  <2> QED  BY <2>2
<1>2. AddAll(s, rules) = g[Len(rules)]
  BY DEF AddAll, Steps
<1> HIDE DEF g
<1>3. \A n \in 0..Len(rules) :
        g[n] = IF n = 0 THEN s ELSE AddRule(g[n - 1], rules[n])
  BY <1>1 DEF Steps
<1>4. g[0] = s
  BY <1>3
<1>5. ASSUME NEW n \in 1..Len(rules) PROVE g[n] = AddRule(g[n - 1], rules[n])
  <2>1. n \in 0..Len(rules) /\ n # 0
    OBVIOUS
  <2> QED  BY <1>3, <2>1
<1> QED  BY <1>2, <1>4, <1>5

(* Loading any rules gives a well-formed, finite store. *)
LEMMA AddAllLemma ==
  ASSUME NEW s \in Store, WellFormed(s), FinitelyMany(s), NEW rules \in Seq(Rule)
  PROVE  /\ AddAll(s, rules) \in Store
         /\ WellFormed(AddAll(s, rules))
         /\ FinitelyMany(AddAll(s, rules))
<1> DEFINE Good(x) == x \in Store /\ WellFormed(x) /\ FinitelyMany(x)
<1>1. PICK g : /\ g[0] = s
               /\ \A n \in 1..Len(rules) : g[n] = AddRule(g[n - 1], rules[n])
               /\ AddAll(s, rules) = g[Len(rules)]
  BY AddAllSteps
<1> DEFINE bad == {n \in 0..Len(rules) : ~Good(g[n])}
<1>2. SUFFICES ASSUME bad # {} PROVE FALSE
  <2>1. Len(rules) \in 0..Len(rules)
    OBVIOUS
  <2>2. CASE bad = {}
    BY <1>1, <2>1, <2>2
  <2> QED  BY <1>2, <2>2
<1>3. PICK k \in bad : \A j \in bad : k <= j
  <2>1. bad \in SUBSET Nat
    OBVIOUS
  <2> HIDE DEF bad
  <2> QED  BY <1>2, <2>1, Smallest
<1>4. k # 0
  BY <1>1, <1>3
<1>5. k \in 1..Len(rules) /\ k - 1 \in 0..Len(rules) /\ k - 1 \notin bad
  BY <1>3, <1>4
<1>6. Good(g[k - 1])
  BY <1>5
<1>7. rules[k] \in Rule /\ g[k] = AddRule(g[k - 1], rules[k])
  BY <1>1, <1>5
<1> DEFINE o == [kind |-> "add", rule |-> rules[k]]
<1>8. o \in Op /\ Apply(o, g[k - 1]).store = AddRule(g[k - 1], rules[k])
  BY <1>7 DEF Op, Apply
<1> HIDE DEF o
<1>9. Good(g[k])
  BY <1>6, <1>7, <1>8, ApplyLemma, ApplyFinite
<1> QED  BY <1>3, <1>9

(* Adding to a store whose ephemeral layer is empty. *)
Persistent(layer) == [EmptyStore EXCEPT !.persistent = layer]

LEMMA AddPersistent ==
  ASSUME NEW layer, NEW rule
  PROVE  AddRule(Persistent(layer), rule) = Persistent(AddTo(layer, rule))
BY DEF AddRule, Persistent, EmptyStore

(* The exact map when the first n rules of q are loaded. *)
MapAfter(layer, q, n) ==
  [d \in Domain |-> IF \E i \in 1..n : q[i].domain = d THEN layer.exact[d] ELSE None]

LEMMA MapStep ==
  ASSUME NEW layer, NEW q, NEW k \in Nat \ {0}, q[k] = layer.exact[q[k].domain]
  PROVE  [MapAfter(layer, q, k - 1) EXCEPT ![q[k].domain] = q[k]] = MapAfter(layer, q, k)
<1> DEFINE dom == q[k].domain
           before == MapAfter(layer, q, k - 1)
           after == MapAfter(layer, q, k)
<1>1. ASSUME NEW d \in Domain
      PROVE  after[d] = IF d = dom THEN q[k] ELSE before[d]
  <2>1. (\E i \in 1..k : q[i].domain = d) <=> (\E i \in 1..(k - 1) : q[i].domain = d) \/ dom = d
    <3>1. \A i : i \in 1..k <=> i \in 1..(k - 1) \/ i = k
      OBVIOUS
    <3> QED  BY <3>1
  <2>2. after[d] = IF \E i \in 1..k : q[i].domain = d THEN layer.exact[d] ELSE None
    BY DEF MapAfter
  <2>3. before[d] = IF \E i \in 1..(k - 1) : q[i].domain = d THEN layer.exact[d] ELSE None
    BY DEF MapAfter
  <2> HIDE DEF before, after
  <2>4. CASE d = dom
    BY <2>1, <2>2, <2>4
  <2>5. CASE d # dom
    BY <2>1, <2>2, <2>3, <2>5
  <2> QED  BY <2>4, <2>5
<1>2. /\ before = [d \in Domain |-> before[d]]
      /\ after = [d \in Domain |-> after[d]]
  BY DEF MapAfter
<1> HIDE DEF before, after, dom
<1>3. [before EXCEPT ![dom] = q[k]] = [d \in Domain |-> IF d = dom THEN q[k] ELSE before[d]]
  BY <1>2
<1> QED  BY <1>1, <1>2, <1>3 DEF before, after, dom

(* The first m elements of q are those of S. *)
Lists(q, m, S) ==
  (\A i \in 1..m : q[i] \in S) /\ (\A x \in S : \E i \in 1..m : q[i] = x)

(* Loading the exact rules gives the exact map, whatever their order. *)
LEMMA LoadExact ==
  ASSUME NEW layer \in Layer, LayerWellFormed(layer), NEW m \in Nat, NEW q, NEW g,
         Lists(q, m, Kept(layer)), g[0] = EmptyStore,
         \A n \in 1..m : g[n] = AddRule(g[n - 1], q[n])
  PROVE  g[m] = Persistent([exact |-> layer.exact, wildcard |-> << >>])
<1> DEFINE part(n) == [exact |-> MapAfter(layer, q, n), wildcard |-> << >>]
           good == {n \in Nat : g[n] = Persistent(part(n))}
<1>1. ASSUME NEW i \in 1..m
      PROVE  /\ q[i].domain \in Domain /\ q[i] # None /\ ~IsWildcard(q[i].domain)
             /\ q[i] = layer.exact[q[i].domain]
  <2>1. PICK d \in Domain : q[i] = layer.exact[d] /\ q[i] # None
    BY DEF Kept, Lists
  <2>2. layer.exact[d].domain = d /\ ~IsWildcard(d)
    BY <2>1 DEF LayerWellFormed
  <2> QED  BY <2>1, <2>2
<1>2. MapAfter(layer, q, m) = layer.exact
  <2>1. ASSUME NEW d \in Domain PROVE MapAfter(layer, q, m)[d] = layer.exact[d]
    <3>1. CASE layer.exact[d] = None
      BY <3>1 DEF MapAfter
    <3>2. CASE layer.exact[d] # None
      <4>1. layer.exact[d] \in Kept(layer)
        BY <3>2 DEF Kept
      <4>2. PICK i \in 1..m : q[i] = layer.exact[d]
        BY <4>1 DEF Lists
      <4>3. q[i].domain = d
        BY <3>2, <4>2 DEF LayerWellFormed
      <4> QED  BY <4>3 DEF MapAfter
    <3> QED  BY <3>1, <3>2
  <2>2. layer.exact \in [Domain -> Rule \cup {None}]
    BY DEF Layer
  <2>3. MapAfter(layer, q, m) = [d \in Domain |-> MapAfter(layer, q, m)[d]]
    BY DEF MapAfter
  <2> QED  BY <2>1, <2>2, <2>3
<1>3. 0 \in good
  <2>1. \A d \in Domain : ~\E i \in 1..0 : q[i].domain = d
    OBVIOUS
  <2>2. MapAfter(layer, q, 0) = [d \in Domain |-> None]
    BY <2>1 DEF MapAfter
  <2>3. Persistent(part(0)) = EmptyStore
    BY <2>2 DEF Persistent, EmptyStore, EmptyLayer
  <2> QED  BY <2>3
<1>4. ASSUME NEW k \in 1..m, k - 1 \in good PROVE k \in good
  <2>1. g[k] = AddRule(g[k - 1], q[k]) /\ g[k - 1] = Persistent(part(k - 1))
    BY <1>4
  <2>2. g[k] = Persistent(AddTo(part(k - 1), q[k]))
    BY <2>1, AddPersistent
  <2>3. AddTo(part(k - 1), q[k]) = [part(k - 1) EXCEPT !.exact[q[k].domain] = q[k]]
    BY <1>1 DEF AddTo
  <2>4. [MapAfter(layer, q, k - 1) EXCEPT ![q[k].domain] = q[k]] = MapAfter(layer, q, k)
    BY <1>1, MapStep
  <2>5. [part(k - 1) EXCEPT !.exact[q[k].domain] = q[k]] = part(k)
    BY <2>4
  <2> QED  BY <2>2, <2>3, <2>5
<1>5. m \in good
  <2> HIDE DEF good
  <2> QED  BY <1>3, <1>4, UpTo
<1> QED  BY <1>2, <1>5

(* Loading wildcards of different domains gives them in the order loaded.  *)
LEMMA LoadWildcards ==
  ASSUME NEW exact, NEW w \in Seq(Rule), UniqueDomains(w),
         \A i \in 1..Len(w) : IsWildcard(w[i].domain),
         NEW m \in Nat, NEW g,
         g[m] = Persistent([exact |-> exact, wildcard |-> << >>]),
         \A n \in 1..Len(w) : g[m + n] = AddRule(g[m + (n - 1)], w[n])
  PROVE  g[m + Len(w)] = Persistent([exact |-> exact, wildcard |-> w])
<1> DEFINE part(n) == [exact |-> exact, wildcard |-> SubSeq(w, 1, n)]
           good == {n \in Nat : g[m + n] = Persistent(part(n))}
<1>1. 0 \in good
  <2>1. SubSeq(w, 1, 0) = << >> /\ m + 0 = m
    OBVIOUS
  <2> QED  BY <2>1
<1>2. ASSUME NEW k \in 1..Len(w), k - 1 \in good PROVE k \in good
  <2>1. g[m + k] = AddRule(g[m + (k - 1)], w[k]) /\ g[m + (k - 1)] = Persistent(part(k - 1))
    BY <1>2
  <2>2. g[m + k] = Persistent(AddTo(part(k - 1), w[k]))
    BY <2>1, AddPersistent
  <2> DEFINE before == SubSeq(w, 1, k - 1)
             after == SubSeq(w, 1, k)
  <2>3. /\ before \in Seq(Rule) /\ Len(before) = k - 1
        /\ \A i \in 1..(k - 1) : before[i] = w[i]
    OBVIOUS
  <2>4. /\ after \in Seq(Rule) /\ Len(after) = k
        /\ \A i \in 1..k : after[i] = w[i]
    OBVIOUS
  <2> HIDE DEF before, after
  <2>5. Append(before, w[k]) = after
    <3> DEFINE all == Append(before, w[k])
    <3>1. /\ all \in Seq(Rule) /\ Len(all) = k
          /\ \A i \in 1..k : all[i] = w[i]
      BY <2>3
    <3> HIDE DEF all
    <3>2. all = [i \in 1..k |-> all[i]] /\ after = [i \in 1..k |-> after[i]]
      BY <2>4, <3>1
    <3>3. \A i \in 1..k : all[i] = after[i]
      BY <2>4, <3>1
    <3>4. all = after
      BY <3>2, <3>3
    <3> QED  BY <3>4 DEF all
  <2>6. Positions(before, w[k].domain) = {}
    <3>1. ASSUME NEW i \in 1..Len(before) PROVE before[i].domain # w[k].domain
      <4>1. i \in 1..Len(w) /\ i # k /\ before[i] = w[i]
        BY <2>3
      <4> QED  BY <4>1 DEF UniqueDomains
    <3> QED  BY <3>1 DEF Positions
  <2>7. Retain(before, w[k].domain) = before
    BY <2>6 DEF Retain
  <2>8. AddTo([exact |-> exact, wildcard |-> before], w[k]) =
          [exact |-> exact, wildcard |-> Append(before, w[k])]
    BY <2>7 DEF AddTo
  <2>9. AddTo(part(k - 1), w[k]) = part(k)
    BY <2>5, <2>8 DEF before, after
  <2> QED  BY <2>2, <2>9
<1>3. Len(w) \in good
  <2> HIDE DEF good
  <2>1. Len(w) \in Nat
    OBVIOUS
  <2> QED  BY <1>1, <1>2, <2>1, UpTo
<1>4. SubSeq(w, 1, Len(w)) = w
  OBVIOUS
<1> QED  BY <1>3, <1>4

(* What is saved (state.rs:56) is what is loaded (state.rs:67). *)
LEMMA RoundTrip ==
  ASSUME NEW layer \in Layer, LayerWellFormed(layer), IsFiniteSet(Kept(layer))
  PROVE  AddAll(EmptyStore, LayerRules(layer)) = Persistent(layer)
<1> DEFINE q == SetToSeq(Kept(layer))
           w == layer.wildcard
           rules == q \o w
<1>1. /\ q \in Seq(Kept(layer))
      /\ \A x \in Kept(layer) : \E i \in 1..Len(q) : q[i] = x
  BY SetToSeqLemma
<1>2. Kept(layer) \subseteq Rule /\ w \in Seq(Rule)
  BY DEF Kept, Layer
<1>3. LayerRules(layer) = rules
  BY DEF LayerRules, Kept
<1> HIDE DEF q, w
<1>4. q \in Seq(Rule) /\ Len(q) \in Nat /\ \A i \in 1..Len(q) : q[i] \in Kept(layer)
  BY <1>1, <1>2
<1>5. /\ rules \in Seq(Rule) /\ Len(rules) = Len(q) + Len(w)
      /\ \A i \in 1..Len(q) : rules[i] = q[i]
      /\ \A i \in 1..Len(w) : rules[Len(q) + i] = w[i]
  BY <1>2, <1>4
<1> HIDE DEF rules
<1>6. PICK g : /\ g[0] = EmptyStore
               /\ \A n \in 1..Len(rules) : g[n] = AddRule(g[n - 1], rules[n])
               /\ AddAll(EmptyStore, rules) = g[Len(rules)]
  BY <1>5, AddAllSteps
<1>7. ASSUME NEW n \in 1..Len(q) PROVE g[n] = AddRule(g[n - 1], q[n])
  <2>1. n \in 1..Len(rules)
    BY <1>2, <1>4, <1>5
  <2> QED  BY <1>5, <1>6, <2>1
<1>8. g[Len(q)] = Persistent([exact |-> layer.exact, wildcard |-> << >>])
  <2> DEFINE m == Len(q)
  <2>1. \A n \in 1..m : g[n] = AddRule(g[n - 1], q[n])
    BY <1>7
  <2>2. m \in Nat /\ g[0] = EmptyStore /\ Lists(q, m, Kept(layer))
    BY <1>1, <1>4, <1>6 DEF Lists
  <2> HIDE DEF m
  <2>3. g[m] = Persistent([exact |-> layer.exact, wildcard |-> << >>])
    BY <2>1, <2>2, LoadExact
  <2> QED  BY <2>3 DEF m
<1>9. ASSUME NEW n \in 1..Len(w)
      PROVE  g[Len(q) + n] = AddRule(g[Len(q) + (n - 1)], w[n])
  <2>1. Len(q) + n \in 1..Len(rules) /\ (Len(q) + n) - 1 = Len(q) + (n - 1)
    BY <1>2, <1>4, <1>5
  <2> QED  BY <1>5, <1>6, <2>1
<1>10. UniqueDomains(w) /\ \A i \in 1..Len(w) : IsWildcard(w[i].domain)
  BY DEF LayerWellFormed, w
<1>11. g[Len(q) + Len(w)] = Persistent([exact |-> layer.exact, wildcard |-> w])
  BY <1>2, <1>4, <1>8, <1>9, <1>10, LoadWildcards
<1>12. [exact |-> layer.exact, wildcard |-> w] = layer
  BY DEF Layer, w
<1> QED  BY <1>3, <1>5, <1>6, <1>11, <1>12

-----------------------------------------------------------------------------
(* Sequences as sets: what a queue or a vector holds. *)

LEMMA TailSet ==
  ASSUME NEW S, NEW q \in Seq(S), q # << >>
  PROVE  /\ Head(q) \in S /\ Head(q) \in ToSet(q)
         /\ Tail(q) \in Seq(S) /\ Len(Tail(q)) = Len(q) - 1 /\ Len(q) > 0
         /\ ToSet(Tail(q)) \subseteq ToSet(q)
         /\ \A e \in ToSet(q) : e = Head(q) \/ e \in ToSet(Tail(q))
<1>1. Len(q) \in Nat /\ Len(q) > 0 /\ Head(q) = q[1] /\ DOMAIN q = 1..Len(q)
  OBVIOUS
<1>2. /\ Tail(q) \in Seq(S) /\ Len(Tail(q)) = Len(q) - 1
      /\ \A i \in 1..(Len(q) - 1) : Tail(q)[i] = q[i + 1]
  OBVIOUS
<1>3. DOMAIN Tail(q) = 1..(Len(q) - 1)
  BY <1>2
<1>4. Head(q) \in S /\ Head(q) \in ToSet(q)
  BY <1>1 DEF ToSet
<1>5. ASSUME NEW e \in ToSet(Tail(q)) PROVE e \in ToSet(q)
  <2>1. PICK i \in 1..(Len(q) - 1) : e = Tail(q)[i]
    BY <1>3 DEF ToSet
  <2>2. e = q[i + 1] /\ i + 1 \in DOMAIN q
    BY <1>1, <1>2, <2>1
  <2> QED  BY <2>2 DEF ToSet
<1>6. ASSUME NEW e \in ToSet(q) PROVE e = Head(q) \/ e \in ToSet(Tail(q))
  <2>1. PICK i \in 1..Len(q) : e = q[i]
    BY <1>1 DEF ToSet
  <2>2. CASE i = 1
    BY <1>1, <2>1, <2>2
  <2>3. CASE i # 1
    <3>1. i - 1 \in 1..(Len(q) - 1) /\ (i - 1) + 1 = i
      BY <1>1, <2>3
    <3>2. Tail(q)[i - 1] = e
      BY <1>2, <2>1, <3>1
    <3> QED  BY <1>3, <3>1, <3>2 DEF ToSet
  <2> QED  BY <2>2, <2>3
<1> QED  BY <1>1, <1>2, <1>4, <1>5, <1>6

LEMMA AppendSet ==
  ASSUME NEW S, NEW q \in Seq(S), NEW m \in S
  PROVE  /\ Append(q, m) \in Seq(S) /\ Len(Append(q, m)) = Len(q) + 1
         /\ ToSet(q) \subseteq ToSet(Append(q, m)) /\ m \in ToSet(Append(q, m))
<1> DEFINE out == Append(q, m)
<1>1. /\ out \in Seq(S) /\ Len(out) = Len(q) + 1 /\ out[Len(q) + 1] = m
      /\ \A i \in 1..Len(q) : out[i] = q[i]
  OBVIOUS
<1>2. DOMAIN out = 1..(Len(q) + 1) /\ DOMAIN q = 1..Len(q) /\ Len(q) \in Nat
  BY <1>1
<1> HIDE DEF out
<1>3. ASSUME NEW e \in ToSet(q) PROVE e \in ToSet(out)
  <2>1. PICK i \in 1..Len(q) : e = q[i]
    BY <1>2 DEF ToSet
  <2>2. i \in DOMAIN out /\ out[i] = e
    BY <1>1, <1>2, <2>1
  <2> QED  BY <2>2 DEF ToSet
<1>4. m \in ToSet(out)
  <2>1. Len(q) + 1 \in DOMAIN out
    BY <1>2
  <2> QED  BY <1>1, <2>1 DEF ToSet
<1> QED  BY <1>1, <1>3, <1>4 DEF out

LEMMA EmptySet ==
  ASSUME NEW S PROVE << >> \in Seq(S) /\ Len(<< >>) = 0 /\ ToSet(<< >>) = {}
BY DEF ToSet

-----------------------------------------------------------------------------
(* Which rules a layer lists. *)

(* The exact and the wildcard rules are all listed, and nothing else. *)
LEMMA LayerRulesLemma ==
  ASSUME NEW layer \in Layer, IsFiniteSet(Kept(layer))
  PROVE  ToSet(LayerRules(layer)) = Kept(layer) \cup ToSet(layer.wildcard)
<1> DEFINE q == SetToSeq(Kept(layer))
           w == layer.wildcard
<1>1. q \in Seq(Kept(layer)) /\ \A x \in Kept(layer) : \E i \in 1..Len(q) : q[i] = x
  BY SetToSeqLemma
<1>2. w \in Seq(Rule)
  BY DEF Layer
<1>3. LayerRules(layer) = q \o w
  BY DEF LayerRules, Kept
<1> HIDE DEF q, w
<1>4. ToSet(q) = Kept(layer)
  BY <1>1 DEF ToSet
<1>5. /\ DOMAIN (q \o w) = 1..(Len(q) + Len(w)) /\ Len(q) \in Nat /\ Len(w) \in Nat
      /\ \A i \in 1..Len(q) : (q \o w)[i] = q[i]
      /\ \A i \in 1..Len(w) : (q \o w)[Len(q) + i] = w[i]
      /\ DOMAIN q = 1..Len(q) /\ DOMAIN w = 1..Len(w)
  BY <1>1, <1>2
<1>6. ASSUME NEW x \in ToSet(q \o w) PROVE x \in ToSet(q) \cup ToSet(w)
  <2>1. PICK i \in 1..(Len(q) + Len(w)) : x = (q \o w)[i]
    BY <1>5 DEF ToSet
  <2>2. CASE i <= Len(q)
    <3>1. i \in 1..Len(q)
      BY <1>5, <2>2
    <3> QED  BY <1>5, <2>1, <3>1 DEF ToSet
  <2>3. CASE i > Len(q)
    <3>1. i - Len(q) \in 1..Len(w) /\ Len(q) + (i - Len(q)) = i
      BY <1>5, <2>3
    <3>2. x = w[i - Len(q)]
      BY <1>5, <2>1, <3>1
    <3> QED  BY <1>5, <3>1, <3>2 DEF ToSet
  <2> QED  BY <1>5, <2>2, <2>3
<1>7. ASSUME NEW x \in ToSet(q) PROVE x \in ToSet(q \o w)
  <2>1. PICK i \in 1..Len(q) : x = q[i]
    BY <1>5 DEF ToSet
  <2>2. i \in 1..(Len(q) + Len(w)) /\ x = (q \o w)[i]
    BY <1>5, <2>1
  <2> QED  BY <1>5, <2>2 DEF ToSet
<1>8. ASSUME NEW x \in ToSet(w) PROVE x \in ToSet(q \o w)
  <2>1. PICK i \in 1..Len(w) : x = w[i]
    BY <1>5 DEF ToSet
  <2>2. Len(q) + i \in 1..(Len(q) + Len(w)) /\ x = (q \o w)[Len(q) + i]
    BY <1>5, <2>1
  <2> QED  BY <1>5, <2>2 DEF ToSet
<1> QED  BY <1>3, <1>4, <1>6, <1>7, <1>8 DEF w

(* retain drops exactly the rules of the domain. *)
LEMMA RetainSet ==
  ASSUME NEW list \in Seq(Rule), UniqueDomains(list), NEW d, NEW r
  PROVE  r \in ToSet(Retain(list, d)) <=> r \in ToSet(list) /\ r.domain # d
<1> DEFINE out == Retain(list, d)
<1>1. out \in Seq(Rule) /\ \A k \in 1..Len(out) :
        out[k].domain # d /\ \E i \in 1..Len(list) : out[k] = list[i]
  BY RetainLemma
<1>2. CASE Positions(list, d) = {}
  BY <1>2 DEF Retain, Positions, ToSet
<1>3. CASE Positions(list, d) # {}
  <2> DEFINE p == CHOOSE x \in Positions(list, d) : TRUE
  <2>1. p \in 1..Len(list) /\ list[p].domain = d
    BY <1>3 DEF Positions
  <2>2. out = [k \in 1..(Len(list) - 1) |-> IF k < p THEN list[k] ELSE list[k + 1]]
    BY <1>3 DEF Retain
  <2> HIDE DEF out, p
  <2>3. DOMAIN out = 1..(Len(list) - 1) /\ Len(out) = Len(list) - 1 /\ Len(list) \in Nat
    BY <2>1, <2>2, <1>1
  <2>4. ASSUME NEW i \in 1..Len(list), list[i].domain # d PROVE list[i] \in ToSet(out)
    <3>1. CASE i < p
      <4>1. i \in DOMAIN out /\ out[i] = list[i]
        BY <2>1, <2>2, <2>3, <3>1
      <4> QED  BY <4>1 DEF ToSet
    <3>2. CASE i > p
      <4>1. i - 1 \in DOMAIN out /\ ~(i - 1 < p) /\ (i - 1) + 1 = i
        BY <2>1, <2>3, <3>2
      <4>2. out[i - 1] = list[i]
        BY <2>2, <2>3, <4>1
      <4> QED  BY <4>1, <4>2 DEF ToSet
    <3> QED  BY <2>1, <2>4, <3>1, <3>2
  <2>5. ASSUME NEW k \in 1..Len(out) PROVE out[k] \in ToSet(list) /\ out[k].domain # d
    BY <1>1 DEF ToSet
  <2>6. DOMAIN list = 1..Len(list)
    OBVIOUS
  <2> QED  BY <2>3, <2>4, <2>5, <2>6 DEF ToSet, out
<1> QED  BY <1>2, <1>3

(* swap_remove moves rules, and drops only the one at the position. *)
LEMMA SwapRemoveSet ==
  ASSUME NEW list \in Seq(Rule), UniqueDomains(list), NEW p \in 1..Len(list), NEW r
  PROVE  r \in ToSet(SwapRemove(list, p)) <=>
           r \in ToSet(list) /\ r.domain # list[p].domain
<1> DEFINE out == SwapRemove(list, p)
<1>1. /\ out = [k \in 1..(Len(list) - 1) |-> IF k = p THEN list[Len(list)] ELSE list[k]]
      /\ Len(list) \in Nat /\ Len(list) > 0 /\ DOMAIN list = 1..Len(list)
  BY DEF SwapRemove
<1>2. /\ out \in Seq(Rule)
      /\ \A k \in 1..Len(out) : \E j \in 1..Len(list) : j # p /\ out[k] = list[j]
  BY SwapRemoveLemma
<1> HIDE DEF out
<1>0. Len(list) \in Nat /\ Len(list) > 0
  BY <1>1
<1>3. DOMAIN out = 1..(Len(list) - 1) /\ Len(out) = Len(list) - 1
  BY <1>1, <1>2
<1>4. ASSUME NEW i \in 1..Len(list), i # p PROVE list[i] \in ToSet(out)
  <2>1. CASE i = Len(list)
    <3>1. p \in 1..(Len(list) - 1)
      BY <1>0, <1>4, <2>1
    <3>2. out[p] = list[i]
      BY <1>1, <1>3, <2>1, <3>1
    <3> QED  BY <1>3, <3>1, <3>2 DEF ToSet
  <2>2. CASE i # Len(list)
    <3>1. i \in 1..(Len(list) - 1)
      BY <1>0, <2>2
    <3>2. out[i] = list[i]
      BY <1>1, <1>3, <1>4, <3>1
    <3> QED  BY <1>3, <3>1, <3>2 DEF ToSet
  <2> QED  BY <2>1, <2>2
<1>5. \A i, j \in 1..Len(list) : i # j => list[i].domain # list[j].domain
  BY DEF UniqueDomains
<1>6. ASSUME NEW k \in 1..Len(out)
      PROVE  out[k] \in ToSet(list) /\ out[k].domain # list[p].domain
  <2>1. PICK j \in 1..Len(list) : j # p /\ out[k] = list[j]
    BY <1>2
  <2> QED  BY <1>1, <1>5, <2>1 DEF ToSet
<1> QED  BY <1>1, <1>3, <1>4, <1>6 DEF ToSet, out

(* Adding a rule replaces the rules of its domain and no other. *)
LEMMA AddToRules ==
  ASSUME NEW layer \in Layer, LayerWellFormed(layer), IsFiniteSet(Kept(layer)),
         NEW rule \in Rule, NEW r
  PROVE  r \in ToSet(LayerRules(AddTo(layer, rule))) <=>
           r = rule \/ (r \in ToSet(LayerRules(layer)) /\ r.domain # rule.domain)
<1> DEFINE w == layer.wildcard
           d == rule.domain
           out == AddTo(layer, rule)
<1>0. /\ w \in Seq(Rule) /\ UniqueDomains(w) /\ d \in Domain
      /\ layer.exact \in [Domain -> Rule \cup {None}]
  BY DEF Layer, LayerWellFormed, Rule
<1>1. ToSet(LayerRules(layer)) = Kept(layer) \cup ToSet(w)
  BY LayerRulesLemma
<1>2. ToSet(LayerRules(out)) = Kept(out) \cup ToSet(out.wildcard)
  BY AddToLemma, AddToFinite, LayerRulesLemma
<1>3. \A x \in Kept(layer) : ~IsWildcard(x.domain)
  BY DEF LayerWellFormed, Kept
<1>4. \A x \in ToSet(w) : IsWildcard(x.domain)
  BY <1>0 DEF LayerWellFormed, ToSet
<1>5. \A x \in Domain : layer.exact[x] # None => layer.exact[x].domain = x
  BY DEF LayerWellFormed
<1> DEFINE added(S) == r = rule \/ (r \in S /\ r.domain # d)
<1>6. ASSUME IsWildcard(d)
      PROVE  r \in Kept(out) \cup ToSet(out.wildcard) <=> added(Kept(layer) \cup ToSet(w))
  <2> DEFINE kept == Retain(w, d)
  <2>1. out.exact = layer.exact /\ out.wildcard = Append(kept, rule)
    BY <1>6 DEF AddTo, Layer
  <2>2. kept \in Seq(Rule) /\ (r \in ToSet(kept) <=> r \in ToSet(w) /\ r.domain # d)
    BY <1>0, RetainLemma, RetainSet
  <2> HIDE DEF kept, out, w, d
  <2>3. ToSet(out.wildcard) = ToSet(kept) \cup {rule}
    <3>1. /\ Len(kept) \in Nat /\ DOMAIN kept = 1..Len(kept)
          /\ DOMAIN Append(kept, rule) = 1..(Len(kept) + 1)
          /\ Append(kept, rule)[Len(kept) + 1] = rule
          /\ \A i \in 1..Len(kept) : Append(kept, rule)[i] = kept[i]
      BY <2>2
    <3>2. \A i \in 1..(Len(kept) + 1) : i \in 1..Len(kept) \/ i = Len(kept) + 1
      BY <3>1
    <3>3. 1..Len(kept) \subseteq 1..(Len(kept) + 1) /\ Len(kept) + 1 \in 1..(Len(kept) + 1)
      BY <3>1
    <3> QED  BY <2>1, <3>1, <3>2, <3>3 DEF ToSet
  <2>4. Kept(out) = Kept(layer)
    BY <2>1 DEF Kept
  <2>5. \A x \in Kept(layer) : x.domain # d
    BY <1>3, <1>6
  <2> QED  BY <2>2, <2>3, <2>4, <2>5
<1>7. ASSUME ~IsWildcard(d)
      PROVE  r \in Kept(out) \cup ToSet(out.wildcard) <=> added(Kept(layer) \cup ToSet(w))
  <2>1. out.exact = [layer.exact EXCEPT ![d] = rule] /\ out.wildcard = w
    BY <1>7 DEF AddTo, Layer
  <2> HIDE DEF out, w, d
  <2>2. \A x \in Domain : out.exact[x] = IF x = d THEN rule ELSE layer.exact[x]
    BY <1>0, <2>1
  <2>3. rule # None
    BY NoneAssumption
  <2>4. r \in Kept(out) <=> r = rule \/ (r \in Kept(layer) /\ r.domain # d)
    BY <1>0, <1>5, <2>2, <2>3 DEF Kept
  <2>5. \A x \in ToSet(w) : x.domain # d
    BY <1>4, <1>7
  <2> QED  BY <2>1, <2>4, <2>5
<1> HIDE DEF d
<1>8. r \in ToSet(LayerRules(out)) <=> added(ToSet(LayerRules(layer)))
  BY <1>1, <1>2, <1>6, <1>7
<1> QED  BY <1>8 DEF d

(* Removing a domain drops its rules and no other. *)
LEMMA RemoveFromRules ==
  ASSUME NEW layer \in Layer, LayerWellFormed(layer), IsFiniteSet(Kept(layer)),
         NEW d \in Domain, NEW r
  PROVE  r \in ToSet(LayerRules(RemoveFrom(layer, d).layer)) <=>
           r \in ToSet(LayerRules(layer)) /\ r.domain # d
<1> DEFINE w == layer.wildcard
           at == Positions(w, d)
           pos == CHOOSE i \in at : \A j \in at : i <= j
           out == RemoveFrom(layer, d).layer
<1>0. /\ w \in Seq(Rule) /\ UniqueDomains(w) /\ layer.exact \in [Domain -> Rule \cup {None}]
  BY DEF Layer, LayerWellFormed
<1>1. ToSet(LayerRules(layer)) = Kept(layer) \cup ToSet(w)
  BY LayerRulesLemma
<1>2. ToSet(LayerRules(out)) = Kept(out) \cup ToSet(out.wildcard)
  BY RemoveFromLemma, RemoveFromFinite, LayerRulesLemma
<1>3. \A x \in Domain : layer.exact[x] # None => layer.exact[x].domain = x
  BY DEF LayerWellFormed
<1>4. /\ out.exact = [layer.exact EXCEPT ![d] = None]
      /\ out.wildcard = IF at = {} THEN w ELSE SwapRemove(w, pos)
  BY DEF RemoveFrom, Layer
<1>5. r \in ToSet(out.wildcard) <=> r \in ToSet(w) /\ r.domain # d
  <2>1. CASE at = {}
    <3>1. \A x \in ToSet(w) : x.domain # d
      BY <1>0, <2>1 DEF Positions, ToSet
    <3> QED  BY <1>4, <2>1, <3>1
  <2>2. CASE at # {}
    <3>1. at \subseteq Nat
      BY DEF Positions
    <3>2. pos \in at
      <4>1. \E i \in at : \A j \in at : i <= j
        BY <2>2, <3>1, Smallest
      <4> QED  BY <4>1
    <3>3. pos \in 1..Len(w) /\ w[pos].domain = d
      BY <3>2 DEF Positions
    <3> HIDE DEF pos, w, out
    <3> QED  BY <1>0, <1>4, <2>2, <3>3, SwapRemoveSet
  <2> QED  BY <2>1, <2>2
<1> HIDE DEF out, w
<1>6. \A x \in Domain : out.exact[x] = IF x = d THEN None ELSE layer.exact[x]
  BY <1>0, <1>4
<1>7. r \in Kept(out) <=> r \in Kept(layer) /\ r.domain # d
  BY <1>0, <1>3, <1>6 DEF Kept
<1> QED  BY <1>1, <1>2, <1>5, <1>7 DEF out

=============================================================================
