-------------------------------- MODULE MCWire --------------------------------
(* One turn and one window on the wire of Wire.tla. *)
EXTENDS Wire

CONSTANTS turn1, window
===============================================================================
