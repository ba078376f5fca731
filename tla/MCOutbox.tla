------------------------------ MODULE MCOutbox ------------------------------
(***************************************************************************)
(* Small instances of Outbox for TLC.                                      *)
(***************************************************************************)
EXTENDS Outbox, TLC

CONSTANTS w1, w2, h1, h2

TwoWorkers == {w1, w2}
WorkerSymmetry == Permutations(Workers)

\* Two events with one handler each; an event nobody subscribed to next to one
\* with two handlers.
TwoEvents == {1, 2}
OneHandlerEach == [e \in TwoEvents |-> <<h1>>]
UnroutedAndPair == [e \in TwoEvents |-> IF e = 1 THEN <<>> ELSE <<h1, h2>>]
=============================================================================
