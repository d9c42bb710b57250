------------------------------ MODULE MCInjection ------------------------------
(* Model checking of Injection: the constants get their values in the         *)
(* configurations, and the counter of requests bounds the behaviours.         *)
EXTENDS Injection
================================================================================
