---------------------------- MODULE AtomicObject ----------------------------
(***************************************************************************)
(* What RuleStore promises its callers: every call takes effect in one     *)
(* step between its invocation and its return, on the value the step finds *)
(* there, and returns what the operation returns on that value.            *)
(***************************************************************************)
EXTENDS Naturals

CONSTANTS Caller,        \* the threads that call
          Request,       \* the operations they may ask for
          Initial,       \* the value at the start
          None,          \* no result yet
          Apply(_, _),   \* Apply(op, value) = [store, result]
          MaxCalls       \* bound: calls made in one behaviour

VARIABLES store, busy, op, result, issued

vars == <<store, busy, op, result, issued>>

Init ==
  /\ store = Initial
  /\ busy = [c \in Caller |-> FALSE]
  /\ op = [c \in Caller |-> None]
  /\ result = [c \in Caller |-> None]
  /\ issued = 0

Invoke(c) ==
  /\ ~busy[c]
  /\ issued < MaxCalls
  /\ \E o \in Request : op' = [op EXCEPT ![c] = o]
  /\ busy' = [busy EXCEPT ![c] = TRUE]
  /\ result' = [result EXCEPT ![c] = None]
  /\ issued' = issued + 1
  /\ UNCHANGED store

Do(c) ==
  /\ busy[c]
  /\ store' = Apply(op[c], store).store
  /\ result' = [result EXCEPT ![c] = Apply(op[c], store).result]
  /\ busy' = [busy EXCEPT ![c] = FALSE]
  /\ UNCHANGED <<op, issued>>

Next == \E c \in Caller : Invoke(c) \/ Do(c)

Spec == Init /\ [][Next]_vars
=============================================================================
