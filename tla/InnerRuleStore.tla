--------------------------- MODULE InnerRuleStore ---------------------------
(***************************************************************************)
(* The in-memory rule store as a value (InnerRuleStore, core/src/store.rs).*)
(*                                                                         *)
(* The code keeps two maps and two vectors; here they are grouped in two   *)
(* layers, ephemeral and persistent, each with an exact map (a function    *)
(* that is None where the HashMap has no key) and a wildcard vector.       *)
(***************************************************************************)
EXTENDS DnsRule, SequencesExt

Layer == [exact : [Domain -> Rule \cup {None}], wildcard : Seq(Rule)]
Store == [ephemeral : Layer, persistent : Layer]

EmptyLayer == [exact |-> [d \in Domain |-> None], wildcard |-> << >>]
EmptyStore == [ephemeral |-> EmptyLayer, persistent |-> EmptyLayer]

-----------------------------------------------------------------------------
(* Lookup. *)

(* The first rule of a vector that matches the name. *)
FindWildcard(list, d) ==
  LET hits == {i \in 1..Len(list) : Matches(list[i], d)}
  IN IF hits = {} THEN None ELSE list[CHOOSE i \in hits : \A j \in hits : i <= j]

Exact(layer, d) == IF d \in Domain THEN layer.exact[d] ELSE None

(* Mutant: persistent exact rules are looked at before ephemeral wildcards.*)
ResolveExactFirst(s, d) ==
  LET e == Exact(s.ephemeral, d)
      ew == FindWildcard(s.ephemeral.wildcard, d)
      p == Exact(s.persistent, d)
  IN CASE e # None -> e
       [] e = None /\ p # None -> p
       [] e = None /\ p = None /\ ew # None -> ew
       [] OTHER -> FindWildcard(s.persistent.wildcard, d)

Resolve(s, d) ==
  LET e == Exact(s.ephemeral, d)
      ew == FindWildcard(s.ephemeral.wildcard, d)
      p == Exact(s.persistent, d)
  IN CASE e # None -> e
       [] e = None /\ ew # None -> ew
       [] e = None /\ ew = None /\ p # None -> p
       [] OTHER -> FindWildcard(s.persistent.wildcard, d)

-----------------------------------------------------------------------------
(* Mutation. *)

Positions(list, d) == {i \in 1..Len(list) : list[i].domain = d}

(* Vec::retain(|r| r.domain != d).  A vector never holds two rules of one  *)
(* domain (UniqueDomains below), so retain drops the one position it finds *)
(* and the rules behind it move up.                                        *)
Retain(list, d) ==
  IF Positions(list, d) = {} THEN list
  ELSE LET i == CHOOSE p \in Positions(list, d) : TRUE
       IN [k \in 1..(Len(list) - 1) |-> IF k < i THEN list[k] ELSE list[k + 1]]

(* Vec::swap_remove: the last element takes the place of the removed one.  *)
SwapRemove(list, i) ==
  [k \in 1..(Len(list) - 1) |-> IF k = i THEN list[Len(list)] ELSE list[k]]

(* Mutant: a replaced wildcard rule is not dropped. *)
AddToPushes(layer, rule) ==
  IF IsWildcard(rule.domain)
  THEN [layer EXCEPT !.wildcard = Append(@, rule)]
  ELSE [layer EXCEPT !.exact[rule.domain] = rule]

(* Mutant: a replaced wildcard rule is dropped with swap_remove. *)
AddToSwaps(layer, rule) ==
  LET at == Positions(layer.wildcard, rule.domain) IN
  IF IsWildcard(rule.domain)
  THEN [layer EXCEPT !.wildcard =
          Append(IF at = {} THEN @ ELSE SwapRemove(@, CHOOSE i \in at : TRUE), rule)]
  ELSE [layer EXCEPT !.exact[rule.domain] = rule]

(* Mutant: a wildcard is kept as the suffix it stands for. *)
AddToStripsStar(layer, rule) ==
  IF IsWildcard(rule.domain)
  THEN [layer EXCEPT !.wildcard =
          Append(Retain(@, rule.domain), [rule EXCEPT !.domain = Tail(@)])]
  ELSE [layer EXCEPT !.exact[rule.domain] = rule]

AddTo(layer, rule) ==
  IF IsWildcard(rule.domain)
  THEN [layer EXCEPT !.wildcard = Append(Retain(@, rule.domain), rule)]
  ELSE [layer EXCEPT !.exact[rule.domain] = rule]

(* The exact entry goes first; a wildcard found as well is the one         *)
(* returned.                                                               *)
RemoveFrom(layer, d) ==
  LET rest == [layer EXCEPT !.exact[d] = None]
      at == Positions(layer.wildcard, d)
      pos == CHOOSE i \in at : \A j \in at : i <= j
  IN IF at # {}
     THEN [layer |-> [rest EXCEPT !.wildcard = SwapRemove(@, pos)],
           removed |-> layer.wildcard[pos]]
     ELSE [layer |-> rest, removed |-> layer.exact[d]]

AddRule(s, rule) == [s EXCEPT !.persistent = AddTo(@, rule)]
AddEphemeral(s, rule) == [s EXCEPT !.ephemeral = AddTo(@, rule)]

(* The rules of a file added one after the other (store.rs:59). *)
AddAll(s, rules) ==
  LET after[n \in 0..Len(rules)] == IF n = 0 THEN s ELSE AddRule(after[n - 1], rules[n])
  IN after[Len(rules)]

RemoveRule(s, d) == [s EXCEPT !.persistent = RemoveFrom(@, d).layer]

(* Mutant: the whole ephemeral layer goes with one rule. *)
RemoveEphemeralAll(s, d) == [s EXCEPT !.ephemeral = EmptyLayer]

RemoveEphemeral(s, d) == [s EXCEPT !.ephemeral = RemoveFrom(@, d).layer]

-----------------------------------------------------------------------------
(* Enumeration.  A HashMap iterates in no particular order: SetToSeq fixes *)
(* one, and SaveLoadRoundTrip says that the choice cannot matter.          *)

(* Mutant: the wildcards are enumerated as a set. *)
LayerRulesUnordered(layer) ==
  SetToSeq(({layer.exact[d] : d \in Domain} \ {None}) \cup ToSet(layer.wildcard))

LayerRules(layer) ==
  SetToSeq({layer.exact[d] : d \in Domain} \ {None}) \o layer.wildcard

PersistentRules(s) == LayerRules(s.persistent)
AllRules(s) == LayerRules(s.ephemeral) \o LayerRules(s.persistent)

-----------------------------------------------------------------------------
(* The four mutations a client can ask for, as one operation on a value:   *)
(* the new store and what the call returns.                                *)

Op == [kind : {"add", "add_ephemeral"}, rule : Rule]
        \cup [kind : {"remove", "remove_ephemeral"}, domain : Domain]

Apply(op, s) ==
  CASE op.kind = "add" ->
         [store |-> AddRule(s, op.rule), result |-> op.rule]
    [] op.kind = "add_ephemeral" ->
         [store |-> AddEphemeral(s, op.rule), result |-> op.rule]
    [] op.kind = "remove" ->
         [store |-> RemoveRule(s, op.domain),
          result |-> RemoveFrom(s.persistent, op.domain).removed]
    [] op.kind = "remove_ephemeral" ->
         [store |-> RemoveEphemeral(s, op.domain),
          result |-> RemoveFrom(s.ephemeral, op.domain).removed]

-----------------------------------------------------------------------------
(* What every store the daemon can build satisfies. *)

UniqueDomains(list) ==
  \A i, j \in 1..Len(list) : list[i].domain = list[j].domain => i = j

LayerWellFormed(layer) ==
  /\ \A d \in Domain : layer.exact[d] # None =>
       layer.exact[d].domain = d /\ ~IsWildcard(d)
  /\ \A i \in 1..Len(layer.wildcard) : IsWildcard(layer.wildcard[i].domain)
  /\ UniqueDomains(layer.wildcard)

WellFormed(s) ==
  /\ LayerWellFormed(s.ephemeral)
  /\ LayerWellFormed(s.persistent)
=============================================================================
