-------------------------- MODULE MCFunctionInjector ---------------------------
(* Model checking of FunctionInjector: two sources of a function.            *)
EXTENDS FunctionInjector, TLC

CONSTANTS s1, s2, f1

TwoNames == s1 :> "s1.c" @@ s2 :> "s2.c"
================================================================================
