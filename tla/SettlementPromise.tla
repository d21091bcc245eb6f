------------------------- MODULE SettlementPromise -------------------------
(***************************************************************************)
(* What the delivery of resolved events promises, without saying how: a    *)
(* market is paid for once and only after its event was resolved, and      *)
(* every resolved event is eventually either settled in all its markets or *)
(* given up, which leaves a dead letter for an operator.                   *)
(***************************************************************************)
EXTENDS Naturals

CONSTANTS Events, Markets, EventOf

VARIABLES
    resolved,   \* the events that have an outcome
    paid,       \* how often each market was paid out
    givenUp     \* the events an operator has to look at

vars == <<resolved, paid, givenUp>>

Init ==
    /\ resolved = {}
    /\ paid = [m \in Markets |-> 0]
    /\ givenUp = {}

Resolve(e) ==
    /\ e \notin resolved
    /\ resolved' = resolved \cup {e}
    /\ UNCHANGED <<paid, givenUp>>

Settle(m) ==
    /\ EventOf[m] \in resolved
    /\ paid[m] = 0
    /\ paid' = [paid EXCEPT ![m] = 1]
    /\ UNCHANGED <<resolved, givenUp>>

GiveUp(e) ==
    /\ e \in resolved
    /\ givenUp' = givenUp \cup {e}
    /\ UNCHANGED <<resolved, paid>>

\* An event that still waits for automatic settlement.
Outstanding(e) ==
    /\ e \in resolved \ givenUp
    /\ \E m \in Markets : EventOf[m] = e /\ paid[m] = 0

Finish(e) ==
    /\ Outstanding(e)
    /\ GiveUp(e) \/ \E m \in Markets : EventOf[m] = e /\ Settle(m)

Next ==
    \/ \E e \in Events : Resolve(e) \/ GiveUp(e)
    \/ \E m \in Markets : Settle(m)

SafeSpec == Init /\ [][Next]_vars

Spec == SafeSpec /\ \A e \in Events : WF_vars(Finish(e))
=============================================================================
