---------------------------- MODULE MCRuleStore ----------------------------
(***************************************************************************)
(* Constants for RuleStore.  Store: a wildcard under a wildcard, an exact  *)
(* name under both and a wildcard apart, one wildcard in both layers, two  *)
(* callers.  Overlap: three wildcards, two of which match b.a.x.io.        *)
(***************************************************************************)
EXTENDS RuleStore

CONSTANTS t1, t2, c1, c2

R(d, t) == [domain |-> d, target |-> t, https |-> FALSE]

Ops(rules, kinds) ==
  UNION {CASE k \in {"add", "add_ephemeral"} ->
                [kind : {k}, rule : rules]
           [] OTHER -> [kind : {k}, domain : {r.domain : r \in rules}]
         : k \in kinds}

XIo == <<"x", "io">>
AnyX == <<"*">> \o XIo
AX == <<"a">> \o XIo
AnyAX == <<"*">> \o AX
BAX == <<"b">> \o AX
AnyY == <<"*", "y", "io">>

MCTarget == {t1, t2}
MCName == {AX, BAX, XIo}

StoreDomain == {AnyX, AnyAX, AX, AnyY}
StoreRequest ==
  Ops({R(AnyX, t1), R(AnyAX, t1), R(AnyY, t1), R(AX, t2)}, {"add"})
    \cup Ops({R(AnyX, t1)}, {"add_ephemeral", "remove_ephemeral"})
    \cup Ops({R(AX, t2)}, {"remove"})
TwoCallers == {c1, c2}

OverlapDomain == {AnyY, AnyAX, AnyX}
OverlapRequest == Ops({R(AnyY, t1), R(AnyAX, t1), R(AnyX, t2)}, {"add", "remove"})
OneCaller == {c1}
=============================================================================
