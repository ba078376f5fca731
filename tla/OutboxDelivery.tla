--------------------------- MODULE OutboxDelivery ---------------------------
(***************************************************************************)
(* What the outbox promises to the command handlers that queue events in   *)
(* it, and to the operator: at-least-once delivery to every handler, or a  *)
(* parked event that can be replayed.  No workers, claims or retries.      *)
(***************************************************************************)
CONSTANTS
    Events,
    KeysOf      \* KeysOf[e]: the handlers that must see event e

VARIABLES
    status,     \* status[e]: what the author of e can observe
    ran         \* ran[e]: the handlers that took effect for e at least once

Statuses == {"unwritten", "pending", "delivered", "parked", "purged"}

Init ==
    /\ status = [e \in Events |-> "unwritten"]
    /\ ran = [e \in Events |-> {}]

Become(e, from, to) ==
    status[e] \in from /\ status' = [status EXCEPT ![e] = to]

Write(e) == Become(e, {"unwritten"}, "pending") /\ UNCHANGED ran

\* A handler may run again, and may run late, but never for an event that is
\* not committed.
Run(e) ==
    /\ status[e] # "unwritten"
    /\ \E h \in KeysOf[e] : ran' = [ran EXCEPT ![e] = @ \cup {h}]
    /\ UNCHANGED status

Deliver(e) ==
    /\ KeysOf[e] # {} /\ ran[e] = KeysOf[e]
    /\ Become(e, {"pending"}, "delivered")
    /\ UNCHANGED ran

Park(e) == Become(e, {"pending"}, "parked") /\ UNCHANGED ran
Replay(e) == Become(e, {"parked"}, "pending") /\ UNCHANGED ran
Purge(e) == Become(e, Statuses \ {"unwritten", "purged"}, "purged") /\ UNCHANGED ran

Next ==
    \E e \in Events : \/ Write(e) \/ Run(e) \/ Deliver(e)
                      \/ Park(e) \/ Replay(e) \/ Purge(e)

vars == <<status, ran>>

SafeSpec == Init /\ [][Next]_vars

Settle(e) == status[e] = "pending" /\ (Deliver(e) \/ Park(e) \/ Purge(e))

\* A committed event does not stay pending for ever.
Spec == SafeSpec /\ \A e \in Events : WF_vars(Settle(e))
=============================================================================
