------------------------------- MODULE MCMind -------------------------------
(* Instances of Mind: what arrives, and what a generation is made of.      *)
EXTENDS Mind

Arrivals == <<"user", "alarm", "user">>
PiecesSaid == {"word", "<think>", "</think>", "<call>", "</call>", "shell", "finish"}
=============================================================================
