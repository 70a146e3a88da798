---------------------------- MODULE MCLifecycle ----------------------------
(***************************************************************************)
(* Constants for Lifecycle: two commands after or beside each other, and   *)
(* the two daemons they may start.  Which command is which makes no        *)
(* difference, and no property is a liveness property; which process is    *)
(* spawned first does (RunDaemon).                                         *)
(***************************************************************************)
EXTENDS Lifecycle, TLC

CONSTANTS p1, p2, c1, c2

MCProcess == {p1, p2}
MCCommand == {c1, c2}
Symmetry == Permutations(MCCommand)
=============================================================================
