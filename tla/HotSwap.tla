-------------------------------- MODULE HotSwap --------------------------------
(* What replacing a function of a running program promises its caller: the    *)
(* interface of inject_func() and inject_func_under_ptrace(), without a word  *)
(* about ptrace, copied routines or stops. Module Injection implements it.    *)
EXTENDS Naturals

VARIABLES
  phase,    \* "idle", "busy", "closed", "aborted" (no tracer, the stub may run)
  library,  \* which load of the library is mapped, 0 for none
  loads,    \* how often it was loaded
  jump,     \* the load that the function's first bytes lead to, 0 its own code
  kept,     \* the load whose handle the tracer keeps
  report    \* what the last injection returned: "none", "zero", "three"

vars == <<phase, library, loads, jump, kept, report>>

Init ==
  /\ phase = "idle" /\ library = 0 /\ loads = 0
  /\ jump = 0 /\ kept = 0 /\ report = "none"

Begin ==
  /\ phase = "idle" /\ phase' = "busy"
  /\ UNCHANGED <<library, loads, jump, kept, report>>

(* Libraries come and go only during an injection, or after a tracer that     *)
(* left in the middle of one, and never two of them at a time. What is        *)
(* unloaded is what the tracer has a handle for.                              *)
Unload ==
  /\ phase \in {"busy", "aborted"} /\ library # 0 /\ library = kept
  /\ library' = 0
  /\ UNCHANGED <<phase, loads, jump, kept, report>>

Load ==
  /\ phase \in {"busy", "aborted"} /\ library = 0
  /\ loads' = loads + 1 /\ library' = loads'
  /\ UNCHANGED <<phase, jump, kept, report>>

(* The function is led into a library that is loaded, never from outside an   *)
(* injection, and at most once for a load.                                    *)
Redirect ==
  /\ phase = "busy" /\ library # 0 /\ jump # library
  /\ jump' = library
  /\ UNCHANGED <<phase, library, loads, kept, report>>

Succeed ==
  /\ phase = "busy" /\ library # 0 /\ jump = library /\ kept # library
  /\ phase' = "idle" /\ report' = "zero" /\ kept' = library
  /\ UNCHANGED <<library, loads, jump>>

(* A failure leaves no library behind that the tracer has no handle for.      *)
Fail ==
  /\ phase = "busy" /\ (library = 0 \/ library = kept)
  /\ phase' = "idle" /\ report' = "three"
  /\ UNCHANGED <<library, loads, jump, kept>>

Leave ==
  /\ phase = "idle" /\ phase' = "closed"
  /\ UNCHANGED <<library, loads, jump, kept, report>>

Abort ==
  /\ phase = "busy" /\ phase' \in {"closed", "aborted"}
  /\ UNCHANGED <<library, loads, jump, kept, report>>

Next == Begin \/ Unload \/ Load \/ Redirect \/ Succeed \/ Fail \/ Leave \/ Abort

Safety == Init /\ [][Next]_vars

(* An injection that has begun ends.                                          *)
Spec == Safety /\ WF_vars(Succeed \/ Fail \/ Abort)
================================================================================
