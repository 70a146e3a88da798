---------------------------- MODULE MCRunCommand ----------------------------
(***************************************************************************)
(* Constants for RunCommand.  Apart: one session, and a client that stops  *)
(* the daemon and changes other rules, a persistent one of the session's   *)
(* domain among them.  Shared: two sessions of one domain.                 *)
(***************************************************************************)
EXTENDS RunCommand

CONSTANTS t1, t2, s1, s2, cli

AX == <<"a", "x", "io">>
AnyY == <<"*", "y", "io">>

R(d, t) == [domain |-> d, target |-> t, https |-> FALSE]

ApartRule(s) == R(AX, t1)
ApartRequest == {[kind |-> "add", rule |-> R(AX, t2)],
                 [kind |-> "remove", domain |-> AX],
                 [kind |-> "add_ephemeral", rule |-> R(AnyY, t2)],
                 [kind |-> "remove_ephemeral", domain |-> AnyY]}
SameRule(s) == IF s = s1 THEN R(AX, t1) ELSE R(AX, t2)

MCDomain == {AX, AnyY}
MCTarget == {t1, t2}
OneSession == {s1}
TwoSessions == {s1, s2}
OneClient == {s1, cli}
TwoClients == {s1, s2, cli}
=============================================================================
