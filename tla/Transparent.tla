----------------------------- MODULE Transparent -------------------------------
(* What a debugger promises its user about breakpoints, without a word about  *)
(* int3 bytes, words or registers: the program goes its own way, it is        *)
(* stopped before it executes what has a breakpoint, and only the user moves  *)
(* it. Module Breakpoints implements it.                                      *)
CONSTANTS
  Insns,      \* where the program's instructions start
  Sites,      \* where breakpoints may be set
  Elsewhere   \* where a command may take it that is no instruction

VARIABLES
  orderly,  \* FALSE from the moment on at which nothing is promised any more
  at,       \* the instruction the program executes next
  mode,     \* "running", "stepping" over a breakpoint, "stopped", "dead"
  armed,    \* the breakpoints
  prompt    \* is the user asked for a command

vars == <<orderly, at, mode, armed, prompt>>

Init ==
  /\ orderly = TRUE /\ at \in Insns /\ mode = "stopped"
  /\ armed = {} /\ prompt = FALSE

(* The program's own step: over a breakpoint only when told so, and then no   *)
(* further.                                                                   *)
Step ==
  /\ mode = "running" /\ at \notin armed
  /\ at' \in Insns
  /\ UNCHANGED <<mode, armed, prompt>>

StepOver ==
  /\ mode = "stepping" /\ at' \in Insns /\ mode' = "stopped"
  /\ UNCHANGED <<armed, prompt>>

Stop ==
  /\ mode \in {"running", "stepping"} /\ mode' \in {"stopped", "dead"}
  /\ UNCHANGED <<at, armed, prompt>>

Ask ==
  /\ mode = "stopped" /\ ~prompt /\ prompt' = TRUE
  /\ UNCHANGED <<at, mode, armed>>

Answer ==
  /\ prompt /\ prompt' = FALSE
  /\ UNCHANGED <<at, mode, armed>>

(* The user restarts or resumes a frame.                                      *)
Move ==
  /\ mode = "stopped" /\ prompt
  /\ at' \in Insns \cup Elsewhere
  /\ prompt' \in BOOLEAN
  /\ UNCHANGED <<mode, armed>>

Arm ==
  /\ mode = "stopped" /\ ~prompt
  /\ \E a \in Sites : armed' = armed \cup {a}
  /\ prompt' \in BOOLEAN
  /\ UNCHANGED <<at, mode>>

(* The debugger lets the program go only from where it is; it steps only      *)
(* where there is a breakpoint.                                               *)
Go ==
  /\ mode = "stopped" /\ ~prompt
  /\ \/ mode' = "running"
     \/ mode' = "stepping" /\ at \in armed
  /\ UNCHANGED <<at, armed, prompt>>

Orderly ==
  /\ orderly' = TRUE
  /\ Step \/ StepOver \/ Stop \/ Ask \/ Answer \/ Move \/ Arm \/ Go

Next == (orderly /\ Orderly) \/ ~orderly'

Spec == Init /\ [][Next]_vars
================================================================================
