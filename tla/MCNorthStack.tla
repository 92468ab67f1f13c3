---------------------------- MODULE MCNorthStack ----------------------------
(* NorthStack on small instances; the configurations give the constants.   *)
EXTENDS NorthStack
=============================================================================
