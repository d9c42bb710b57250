--------------------------------- MODULE MCDdb ---------------------------------
(* Model checking of Ddb: main calls f, which calls itself.                   *)
EXTENDS Ddb

Program == [main |-> "f", f |-> "f"]

TwoShapes == {[early |-> {"f"}, indirect |-> {"main"}], [early |-> {"main"}, indirect |-> {}]}
================================================================================
