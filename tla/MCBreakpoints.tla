----------------------------- MODULE MCBreakpoints -----------------------------
(* Model checking of Breakpoints. A word has 4 bytes instead of 8; the text   *)
(* has one call apart from the others and two calls within a word.            *)
EXTENDS Breakpoints
================================================================================
