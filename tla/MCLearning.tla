------------------------------ MODULE MCLearning ------------------------------
(***************************************************************************)
(* Learning.tla for TLC: a few turns, passes that come round for ever, and *)
(* a few things that go wrong.                                             *)
(***************************************************************************)
EXTENDS Learning, TLC
===============================================================================
