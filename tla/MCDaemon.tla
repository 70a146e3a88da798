------------------------------ MODULE MCDaemon ------------------------------
(***************************************************************************)
(* Constants for Daemon.  Cache: an exact https rule for b.a.x.io, two     *)
(* wildcards that match it and one that does not, all on disk.  Disk:      *)
(* exact rules only, no lookups, restarts.                                 *)
(***************************************************************************)
EXTENDS Daemon

CONSTANTS t1, t2, c1, c2, l1

R(d, t, s) == [domain |-> d, target |-> t, https |-> s]
Op1(k, r) ==
  IF k \in {"add", "add_ephemeral"} THEN [kind |-> k, rule |-> r]
                                    ELSE [kind |-> k, domain |-> r.domain]

AnyX == <<"*", "x", "io">>
AX == <<"a", "x", "io">>
BX == <<"b", "x", "io">>
AnyAX == <<"*", "a", "x", "io">>
BAX == <<"b", "a", "x", "io">>
AnyY == <<"*", "y", "io">>

MCTarget == {t1, t2}
MCReceiver == {"watch"}

CacheDomain == {AnyY, AnyAX, AnyX, BAX}
CacheName == {BAX}
CacheRequest == {Op1("remove", R(AnyY, t1, FALSE)), Op1("remove", R(BAX, t1, TRUE)),
                 Op1("add", R(AnyAX, t2, TRUE)), Op1("add_ephemeral", R(AnyX, t2, TRUE)),
                 Op1("remove_ephemeral", R(AnyX, t2, TRUE))}
CacheSaved == <<R(BAX, t1, TRUE), R(AnyY, t1, FALSE), R(AnyAX, t1, FALSE),
                R(AnyX, t2, FALSE)>>

DiskDomain == {AX, BX}
DiskName == {AX, BX}
DiskRequest == {Op1("add", R(AX, t1, FALSE)), Op1("remove", R(AX, t1, FALSE)),
                Op1("add", R(BX, t1, FALSE)), Op1("add_ephemeral", R(BX, t2, FALSE))}
DiskSaved == <<R(BX, t2, FALSE)>>

(* Only requests handled before the stop. *)
NoLateRequests == token => served' = served

TwoClients == {c1, c2}
OneLookup == {l1}
NoLookups == {}
=============================================================================
