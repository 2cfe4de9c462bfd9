------------------------------ MODULE MCTurns ------------------------------
(***************************************************************************)
(* Small instances of Turns for TLC.                                       *)
(***************************************************************************)
EXTENDS Turns, TLC

CONSTANTS h1, h2, n1, a1, i1

NobodyElse == {}
OnePerson == {h1}
TwoMessages == {h1, h2}
OneNote == {n1}
OneAlarm == {a1}
OneNudge == {i1}
=============================================================================
