----------------------------- MODULE MCSystemDns -----------------------------
(***************************************************************************)
(* Constants for SystemDns: every platform, a saved rule that is removed   *)
(* and a wildcard over its name that is added, and two clients.            *)
(***************************************************************************)
EXTENDS SystemDns

CONSTANTS t1, c1, c2

R(d) == [domain |-> d, target |-> t1, https |-> FALSE]
AnyX == <<"*", "x", "io">>
AX == <<"a", "x", "io">>
BAX == <<"b", "a", "x", "io">>
XIo == <<"x", "io">>

MCDomain == {AnyX, AX}
MCName == {AX, BAX, XIo}
MCTarget == {t1}
MCReceiver == {"manager"}
MCSaved == AddTo(EmptyLayer, R(AX))
MCRequest == {[kind |-> "add_ephemeral", rule |-> R(AnyX)],
              [kind |-> "remove", domain |-> AX]}
MCPlatform == {"systemd", "macos", "windows"}
SystemdOnly == {"systemd"}
TwoClients == {c1, c2}
=============================================================================
