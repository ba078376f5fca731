--------------------------- MODULE MCAuthSession ---------------------------
(***************************************************************************)
(* Small instances of AuthSession for TLC.                                 *)
(***************************************************************************)
EXTENDS AuthSession, TLC

CONSTANTS r1, r2, s1, s2

TwoRequests == {r1, r2}
OneSid == {s1}
TwoSids == {s1, s2}
Symmetric == Permutations(Requests) \cup Permutations(Sids)
=============================================================================
