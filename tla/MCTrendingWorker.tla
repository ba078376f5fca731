-------------------------- MODULE MCTrendingWorker --------------------------
(***************************************************************************)
(* Small instances of TrendingWorker for TLC: one message next to many     *)
(* failures, or two messages next to few.                                  *)
(***************************************************************************)
EXTENDS TrendingWorker

CONSTANTS w1, p1, m1, m2

OneWorker == {w1}
OnePost == {p1}
TwoMessages == {m1, m2}

\* With the second message, which is pushed after the first one, there is one
\* interaction and one failure less, and no loss.  None of the steps that this
\* leaves out is one the fairness speaks of.
Affordable ==
    msg[m2].at = "unsent" \/
        /\ msg[m1].at # "unsent"
        /\ \A p \in Posts : db[p] < MaxVersion
        /\ faults < MaxFaults /\ losses = 0

MCNext == Next /\ Affordable'
MCSpec == Init /\ [][MCNext]_vars /\ Fairness
=============================================================================
