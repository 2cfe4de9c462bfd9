--------------------------------- MODULE MCLine ---------------------------------
(* Instances of Line: the sizes are in the configuration.                  *)
EXTENDS Line
==============================================================================
