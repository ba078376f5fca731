----------------------------- MODULE AtomicCall -----------------------------
(***************************************************************************)
(* What UnitOfWork.executeInTransaction promises its callers: the writes   *)
(* of a call happen as a whole and at most once, and the outcome the call  *)
(* reports says whether they did.  Only "ambiguous" leaves that open: then *)
(* they may have happened, may still happen, or never will.                *)
(***************************************************************************)
EXTENDS Naturals

CONSTANT Calls

VARIABLES
    written,    \* written[c]: how many times the writes of c are in the database
    outcome     \* outcome[c]: what c reported, "none" before

Init ==
    /\ written = [c \in Calls |-> 0]
    /\ outcome = [c \in Calls |-> "none"]

Write(c) == written[c] = 0 /\ written' = [written EXCEPT ![c] = 1]
Report(c, o) == outcome[c] = "none" /\ outcome' = [outcome EXCEPT ![c] = o]

WriteLate(c) == outcome[c] \in {"none", "ambiguous"} /\ Write(c) /\ UNCHANGED outcome

Commit(c) ==
    /\ Write(c) \/ (written[c] = 1 /\ UNCHANGED written)
    /\ Report(c, "committed")

Refuse(c) ==
    /\ written[c] = 0 /\ UNCHANGED written
    /\ Report(c, "failed") \/ Report(c, "rejected")

GiveUp(c) == Report(c, "ambiguous") /\ UNCHANGED written

Next == \E c \in Calls : WriteLate(c) \/ Commit(c) \/ Refuse(c) \/ GiveUp(c)

vars == <<written, outcome>>

Spec == Init /\ [][Next]_vars
=============================================================================
