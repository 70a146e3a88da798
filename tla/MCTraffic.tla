------------------------------ MODULE MCTraffic ------------------------------
(* One name, requested by one client over two descriptors. *)
EXTENDS Traffic

CONSTANTS c1, any, local, other

MCClient == {c1}
MCTarget == {any, other}
MCRule == {[https |-> FALSE, target |-> any], [https |-> TRUE, target |-> other]}
=============================================================================
