----------------------------- MODULE MCThoughts -----------------------------
(***************************************************************************)
(* A small instance of Thoughts for TLC.                                   *)
(***************************************************************************)
EXTENDS Thoughts, TLC

CONSTANTS t1, p1, p2

OneThought == {t1}
TwoPids == {p1, p2}
=============================================================================
