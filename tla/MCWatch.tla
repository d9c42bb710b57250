-------------------------------- MODULE MCWatch --------------------------------
(* Model checking of Watch: one source, one function.                         *)
EXTENDS Watch, TLC

CONSTANTS s1, f1

OneName == s1 :> "s1.c"
================================================================================
