------------------------------ MODULE Broadcast ------------------------------
(***************************************************************************)
(* tokio::sync::broadcast as the daemon uses it (an external library).     *)
(*                                                                         *)
(* A receiver sees what is sent after it subscribed.  The channel keeps    *)
(* the last Capacity messages: a receiver that falls further behind loses  *)
(* the oldest, is told so once (RecvError::Lagged), and goes on with the   *)
(* oldest message still kept.                                              *)
(***************************************************************************)
EXTENDS Naturals, Sequences

CONSTANT Capacity   \* 64 in AppState::new

ASSUME CapacityAssumption == Capacity \in Nat \ {0}

ReceiverOf(M) == [subscribed : BOOLEAN, lagged : BOOLEAN, queue : Seq(M)]

NoReceiver == [subscribed |-> FALSE, lagged |-> FALSE, queue |-> << >>]
NewReceiver == [subscribed |-> TRUE, lagged |-> FALSE, queue |-> << >>]

Full(rx) == Len(rx.queue) >= Capacity

(* Mutant: the channel keeps every message. *)
DeliverUnbounded(rx, m) ==
  IF ~rx.subscribed THEN rx ELSE [rx EXCEPT !.queue = Append(@, m)]

Deliver(rx, m) ==
  IF ~rx.subscribed THEN rx
  ELSE [rx EXCEPT !.lagged = @ \/ Full(rx),
                  !.queue = Append(IF Full(rx) THEN Tail(@) ELSE @, m)]

Send(bus, m) == [r \in DOMAIN bus |-> Deliver(bus[r], m)]

(* What the receiver rx misses when m is sent. *)
MissedBySend(rx, m) ==
  IF ~rx.subscribed THEN {m}
  ELSE IF Full(rx) THEN {Head(rx.queue)} ELSE {}

HasMessage(rx) == ~rx.lagged /\ rx.queue # << >>
TakeMessage(rx) == [rx EXCEPT !.queue = Tail(@)]
TakeLagged(rx) == [rx EXCEPT !.lagged = FALSE]
=============================================================================
