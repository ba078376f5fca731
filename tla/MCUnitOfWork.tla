---------------------------- MODULE MCUnitOfWork ----------------------------
(***************************************************************************)
(* Small instances of UnitOfWork for TLC.                                  *)
(***************************************************************************)
EXTENDS UnitOfWork

CONSTANTS c1, c2

TwoCalls == {c1, c2}
=============================================================================
