--------------------------------- MODULE MCView ---------------------------------
(***************************************************************************)
(* The window of View.tla on a small conversation.                         *)
(***************************************************************************)
EXTENDS View, TLC
================================================================================
