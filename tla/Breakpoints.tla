------------------------------ MODULE Breakpoints ------------------------------
(* ddb's tracing loop: it lets the target go, waits for a stop, and at the    *)
(* prompt for that stop steps over a breakpoint, sets one, restarts or        *)
(* resumes a frame. Breakpoints are int3 bytes written, a word at a time,     *)
(* over the target's text. A SIGINT (Ctrl-C) can come between any two of      *)
(* ddb's ptrace requests; its handler takes the breakpoints out and quits.    *)
EXTENDS Integers

CONSTANTS
  Word,        \* bytes that one PTRACE_PEEKTEXT or POKETEXT transfers (8)
  LastAddr,    \* bound: the text is the bytes 0 .. LastAddr
  Insns,       \* addresses at which the target's instructions start
  Sites        \* those of call instructions, where breakpoints are set

Addrs == 0 .. LastAddr
Bytes(a) == a .. a + Word - 1

ASSUME WordAssumption == Word \in Nat \ {0}
ASSUME LastAddrAssumption == LastAddr \in Nat
ASSUME InsnsAssumption == Insns \subseteq Addrs /\ Insns # {}
(* A call instruction is longer than an int3.                                 *)
ASSUME SitesAssumption ==
  Sites \subseteq Insns /\ \A a \in Sites : Bytes(a) \subseteq Addrs /\ a + 1 \notin Insns

VARIABLES
  \* the target
  traps,     \* the bytes of its text that are int3 and should not be
  rip,       \* where it executes
  run,       \* "running", "stepping", "stopped", "dead"
  sig,       \* the signal of the last stop
  \* ddb
  pc,        \* the step it takes next
  at_trap,
  h_rip,     \* h.pt_reg.rip
  keys,      \* the addresses in break_point_map ...
  orig_code, \* ... the int3 bytes of the word saved for each ...
  regs,      \* ... and rip of the registers saved for each
  addr,      \* argument of set_breakpoint_at_addr()
  orig,      \* its local: the int3 bytes of the word it read
  todo,      \* restore_breakpoints(): entries it has still to write
  left       \* history: what SIGINT interrupted, "none" before

targetVars == <<traps, rip, run, sig>>
mapVars    == <<keys, orig_code, regs>>
setVars    == <<addr, orig>>
quitVars   == <<todo, left>>
vars == <<targetVars, pc, at_trap, h_rip, mapVars, setVars, quitVars>>

(* Register contents that nobody wrote: checkpoint.regs, uninitialized.       *)
Garbage == -1

(* "uiTwice": start_ui() of the SIGINT case, which falls through to another.  *)
Prompts == {"trapPrompt", "segvPrompt", "uiTwice", "ui"}

Signals == {"TRAP", "SEGV", "INT", "OTHER"}

PCs == Prompts \cup
       {"letgo", "wait", "dispatch", "refresh", "resetWrite", "resetRegs", "resetStep",
        "resetWait", "resetTrap", "setRead", "setWrite", "setEmplace",
        "quitRegs", "quitWrite", "exited"}

(* ptrace_write() of one word at a: int3 where w says, elsewhere the target's *)
(* own bytes.                                                                 *)
WordWritten(a, w) == (traps \ Bytes(a)) \cup w

(* The word with its lowest byte replaced: (orig & ~0xff) | 0xcc              *)
Trapped(a, w) == w \cup {a}

Init ==
  /\ traps = {} /\ rip \in Insns /\ run = "stopped" /\ sig = "OTHER"
  /\ pc = "letgo" /\ at_trap = 0 /\ h_rip = Garbage
  /\ keys = {} /\ orig_code = [a \in Sites |-> {}] /\ regs = [a \in Sites |-> Garbage]
  /\ addr = Garbage /\ orig = {} /\ todo = {} /\ left = "none"

--------------------------------------------------------------------------------
(* The target. An arbitrary program: from any instruction to any other.       *)

Executable == run \in {"running", "stepping"}
Traced == pc # "exited"

(* It executes its own instruction at rip; after a single step it stops.      *)
ExecInsn ==
  /\ Executable /\ rip \in Insns /\ rip \notin traps
  /\ rip' \in Insns
  /\ IF run = "stepping" THEN run' = "stopped" /\ sig' = "TRAP" ELSE UNCHANGED <<run, sig>>
  /\ UNCHANGED <<traps, pc, at_trap, h_rip, mapVars, setVars, quitVars>>

(* It executes an int3: rip is past it when SIGTRAP stops or kills it.        *)
ExecTrap ==
  /\ Executable /\ rip \in traps
  /\ rip' = rip + 1
  /\ run' = IF Traced THEN "stopped" ELSE "dead"
  /\ sig' = "TRAP"
  /\ UNCHANGED <<traps, pc, at_trap, h_rip, mapVars, setVars, quitVars>>

(* It faults, for a reason of its own or because rip is in the middle of an   *)
(* instruction, or another signal (SIGINT, a SIGTRAP that is not an int3's)   *)
(* stops it before it executes what is at rip.                                *)
SignalStops(s) ==
  /\ Executable
  /\ s = "SEGV" => rip \notin traps
  /\ run' = IF Traced THEN "stopped" ELSE "dead"
  /\ sig' = s
  /\ UNCHANGED <<traps, rip, pc, at_trap, h_rip, mapVars, setVars, quitVars>>

Exits ==
  /\ Executable /\ run' = "dead"
  /\ UNCHANGED <<traps, rip, sig, pc, at_trap, h_rip, mapVars, setVars, quitVars>>

--------------------------------------------------------------------------------
(* main()'s loop.                                                             *)

PtraceLetgo ==
  /\ pc = "letgo"
  /\ at_trap' = 0 /\ run' = "running" /\ pc' = "wait"
  /\ UNCHANGED <<traps, rip, sig, h_rip, mapVars, setVars, quitVars>>

(* wait() returns; StackUnwinder's constructor exits if the target is dead.   *)
WaitReturns ==
  /\ pc = "wait" /\ run \in {"stopped", "dead"}
  /\ pc' = IF run = "dead" THEN "exited" ELSE "dispatch"
  /\ UNCHANGED <<targetVars, at_trap, h_rip, mapVars, setVars, quitVars>>

StopAtTrap ==
  /\ pc = "dispatch" /\ sig = "TRAP"
  /\ at_trap' = 1 /\ h_rip' = rip - 1
  /\ pc' = "trapPrompt"
  /\ UNCHANGED <<targetVars, mapVars, setVars, quitVars>>

StopAtSegv ==
  /\ pc = "dispatch" /\ sig = "SEGV"
  /\ h_rip' = rip
  /\ pc' = "segvPrompt"
  /\ UNCHANGED <<targetVars, at_trap, mapVars, setVars, quitVars>>

StopAtInt ==
  /\ pc = "dispatch" /\ sig = "INT"
  /\ pc' = "uiTwice"
  /\ UNCHANGED <<targetVars, at_trap, h_rip, mapVars, setVars, quitVars>>

StopAtOther ==
  /\ pc = "dispatch" /\ sig = "OTHER"
  /\ pc' = "ui"
  /\ UNCHANGED <<targetVars, at_trap, h_rip, mapVars, setVars, quitVars>>

--------------------------------------------------------------------------------
(* reset_breakpoint(h.pt_reg.rip, &h, refresh_regs), after any key or r.      *)

FindBreakpoint ==
  /\ pc = "trapPrompt"
  /\ IF h_rip \in keys THEN pc' \in {"refresh", "resetWrite"} ELSE pc' = "letgo"
  /\ UNCHANGED <<targetVars, at_trap, h_rip, mapVars, setVars, quitVars>>

(* Mutant: the registers are recorded as they are, past the int3.             *)
RefreshRegs_PastTrap ==
  /\ pc = "refresh"
  /\ regs' = [regs EXCEPT ![h_rip] = rip]
  /\ pc' = "resetWrite"
  /\ UNCHANGED <<targetVars, at_trap, h_rip, keys, orig_code, setVars, quitVars>>

RefreshRegs ==
  /\ pc = "refresh"
  /\ regs' = [regs EXCEPT ![h_rip] = rip - 1]
  /\ pc' = "resetWrite"
  /\ UNCHANGED <<targetVars, at_trap, h_rip, keys, orig_code, setVars, quitVars>>

WriteOriginal ==
  /\ pc = "resetWrite"
  /\ traps' = WordWritten(h_rip, orig_code[h_rip])
  /\ pc' = "resetRegs"
  /\ UNCHANGED <<rip, run, sig, at_trap, h_rip, mapVars, setVars, quitVars>>

(* Mutant: rip is not moved back over the int3.                               *)
MoveBack_Stays ==
  /\ pc = "resetRegs"
  /\ rip' = rip
  /\ pc' = "resetStep"
  /\ UNCHANGED <<traps, run, sig, at_trap, h_rip, mapVars, setVars, quitVars>>

MoveBack ==
  /\ pc = "resetRegs"
  /\ rip' = h_rip
  /\ pc' = "resetStep"
  /\ UNCHANGED <<traps, run, sig, at_trap, h_rip, mapVars, setVars, quitVars>>

PtraceSinglestep ==
  /\ pc = "resetStep"
  /\ run' = "stepping" /\ pc' = "resetWait"
  /\ UNCHANGED <<traps, rip, sig, at_trap, h_rip, mapVars, setVars, quitVars>>

(* Mutant: it waits until the stop is one for SIGTRAP.                        *)
StepReturns_TrapOnly ==
  /\ pc = "resetWait" /\ (run = "dead" \/ (run = "stopped" /\ sig = "TRAP"))
  /\ pc' = IF run = "dead" THEN "exited" ELSE "resetTrap"
  /\ UNCHANGED <<targetVars, at_trap, h_rip, mapVars, setVars, quitVars>>

(* wait(NULL) takes any stop, which nobody is shown then. If the target is    *)
(* dead the next request fails.                                               *)
StepReturns ==
  /\ pc = "resetWait" /\ run \in {"stopped", "dead"}
  /\ pc' = IF run = "dead" THEN "exited" ELSE "resetTrap"
  /\ UNCHANGED <<targetVars, at_trap, h_rip, mapVars, setVars, quitVars>>

(* Mutant: the original code is left in place after the step.                 *)
WriteTrap_Original ==
  /\ pc = "resetTrap"
  /\ traps' = WordWritten(h_rip, orig_code[h_rip])
  /\ pc' = "letgo"
  /\ UNCHANGED <<rip, run, sig, at_trap, h_rip, mapVars, setVars, quitVars>>

WriteTrap ==
  /\ pc = "resetTrap"
  /\ traps' = WordWritten(h_rip, Trapped(h_rip, orig_code[h_rip]))
  /\ pc' = "letgo"
  /\ UNCHANGED <<rip, run, sig, at_trap, h_rip, mapVars, setVars, quitVars>>

--------------------------------------------------------------------------------
(* handle_segfault() and set_breakpoint_at_addr(addr, false).                 *)

(* The user inserts a checkpoint at the call of a frame, or does not.         *)
AskCheckpoint ==
  /\ pc = "segvPrompt"
  /\ \/ pc' = "ui" /\ addr' = addr
     \/ pc' = "setRead" /\ addr' \in Sites
  /\ UNCHANGED <<targetVars, at_trap, h_rip, mapVars, orig, quitVars>>

ReadWord ==
  /\ pc = "setRead"
  /\ orig' = traps \cap Bytes(addr)
  /\ pc' = "setWrite"
  /\ UNCHANGED <<targetVars, at_trap, h_rip, mapVars, addr, quitVars>>

WriteBreakpoint ==
  /\ pc = "setWrite"
  /\ traps' = WordWritten(addr, Trapped(addr, orig))
  /\ pc' = "setEmplace"
  /\ UNCHANGED <<rip, run, sig, at_trap, h_rip, mapVars, setVars, quitVars>>

(* Mutant: the entry goes under the address the target stopped at.            *)
Emplace_AtStop ==
  /\ pc = "setEmplace"
  /\ keys' = keys \cup {h_rip}
  /\ orig_code' = [orig_code EXCEPT ![addr] = orig]
  /\ regs' = [regs EXCEPT ![addr] = Garbage]
  /\ addr' = Garbage /\ orig' = {}
  /\ pc' = "ui"
  /\ UNCHANGED <<targetVars, at_trap, h_rip, quitVars>>

(* Mutant: the entry of an address that has one is overwritten, with a word   *)
(* read while its int3 was in place.                                          *)
Emplace_Overwrites ==
  /\ pc = "setEmplace"
  /\ keys' = keys \cup {addr}
  /\ orig_code' = [orig_code EXCEPT ![addr] = orig]
  /\ regs' = [regs EXCEPT ![addr] = Garbage]
  /\ addr' = Garbage /\ orig' = {}
  /\ pc' = "ui"
  /\ UNCHANGED <<targetVars, at_trap, h_rip, quitVars>>

(* emplace() keeps the entry of an address that has one. The registers of a   *)
(* new entry are not recorded. The function returns; its locals are gone.     *)
Emplace ==
  /\ pc = "setEmplace"
  /\ keys' = keys \cup {addr}
  /\ orig_code' = IF addr \in keys THEN orig_code ELSE [orig_code EXCEPT ![addr] = orig]
  /\ regs' = IF addr \in keys THEN regs ELSE [regs EXCEPT ![addr] = Garbage]
  /\ addr' = Garbage /\ orig' = {}
  /\ pc' = "ui"
  /\ UNCHANGED <<targetVars, at_trap, h_rip, quitVars>>

--------------------------------------------------------------------------------
(* start_ui()'s commands that change state or leave it.                       *)

InUI == pc \in {"uiTwice", "ui"}
AfterUI == IF pc = "uiTwice" THEN "ui" ELSE "letgo"

(* An unknown command, or the end of the input.                               *)
LeaveUI ==
  /\ InUI
  /\ pc' = AfterUI
  /\ UNCHANGED <<targetVars, at_trap, h_rip, mapVars, setVars, quitVars>>

(* RESUME_EXE: unw_resume() at the selected frame.                            *)
ResumeExe ==
  /\ InUI
  /\ rip' \in Insns
  /\ pc' = AfterUI
  /\ UNCHANGED <<traps, run, sig, at_trap, h_rip, mapVars, setVars, quitVars>>

(* RESTART_FUNC at a frame called from call_addr: a checkpoint's registers if *)
(* there is one, else the frame's with rip at the call. The word at a rip     *)
(* that was recorded, the checkpoint's, can be read.                          *)
RestartFunc(call_addr) ==
  /\ InUI
  /\ rip' = IF call_addr \in keys THEN regs[call_addr] ELSE call_addr
  /\ pc' = AfterUI
  /\ UNCHANGED <<traps, run, sig, at_trap, h_rip, mapVars, setVars, quitVars>>

(* At a rip that nobody recorded it may not: ptrace_read() exits before the   *)
(* registers are set, and the kernel lets the target go, its text as it is.   *)
RestartFails(call_addr) ==
  /\ InUI
  /\ call_addr \in keys /\ regs[call_addr] = Garbage
  /\ run' = "running" /\ pc' = "exited"
  /\ UNCHANGED <<traps, rip, sig, at_trap, h_rip, mapVars, setVars, quitVars>>

--------------------------------------------------------------------------------
(* SIGINT: sighandler() and restore_breakpoints().                            *)

Sigint ==
  /\ pc \notin {"quitRegs", "quitWrite", "exited"}
  /\ left' = pc
  /\ pc' = "quitRegs"
  /\ UNCHANGED <<targetVars, at_trap, h_rip, mapVars, setVars, todo>>

(* Mutant: the handler does not move rip back.                                *)
RewindRip_Stays ==
  /\ pc = "quitRegs" /\ (at_trap = 1 => run = "stopped")
  /\ rip' = rip
  /\ todo' = keys
  /\ pc' = "quitWrite"
  /\ UNCHANGED <<traps, run, sig, at_trap, h_rip, mapVars, setVars, left>>

(* rip-- if the stop is at a trap; then the entries are iterated over.        *)
RewindRip ==
  /\ pc = "quitRegs" /\ (at_trap = 1 => run = "stopped")
  /\ rip' = IF at_trap = 1 THEN rip - 1 ELSE rip
  /\ todo' = keys
  /\ pc' = "quitWrite"
  /\ UNCHANGED <<traps, run, sig, at_trap, h_rip, mapVars, setVars, left>>

(* An unordered_map gives its entries in any order.                           *)
RestoreBreakpoint ==
  /\ pc = "quitWrite" /\ run = "stopped"
  /\ \E a \in todo : traps' = WordWritten(a, orig_code[a]) /\ todo' = todo \ {a}
  /\ UNCHANGED <<rip, run, sig, pc, at_trap, h_rip, mapVars, setVars, left>>

DetachAndExit ==
  /\ pc = "quitWrite" /\ todo = {} /\ run = "stopped"
  /\ run' = "running" /\ pc' = "exited"
  /\ UNCHANGED <<traps, rip, sig, at_trap, h_rip, mapVars, setVars, quitVars>>

(* A request made of a target that is not stopped fails: exit(1).             *)
QuitFails ==
  /\ run # "stopped"
  /\ \/ pc = "quitRegs" /\ at_trap = 1
     \/ pc = "quitWrite"
  /\ pc' = "exited"
  /\ run' = IF run = "stepping" THEN "running" ELSE run
  /\ UNCHANGED <<traps, rip, sig, at_trap, h_rip, mapVars, setVars, quitVars>>

--------------------------------------------------------------------------------
Target ==
  \/ ExecInsn \/ ExecTrap \/ Exits
  \/ \E s \in Signals : SignalStops(s)

Loop == PtraceLetgo \/ WaitReturns \/ StopAtTrap \/ StopAtSegv \/ StopAtInt \/ StopAtOther

Reset ==
  \/ FindBreakpoint \/ RefreshRegs \/ WriteOriginal \/ MoveBack \/ PtraceSinglestep
  \/ StepReturns \/ WriteTrap

Commands ==
  \/ AskCheckpoint \/ ReadWord \/ WriteBreakpoint \/ Emplace
  \/ LeaveUI \/ ResumeExe \/ \E a \in Sites : RestartFunc(a) \/ RestartFails(a)

Quit == RewindRip \/ RestoreBreakpoint \/ DetachAndExit \/ QuitFails

Next == Target \/ Loop \/ Reset \/ Commands \/ Sigint \/ Quit

Spec == Init /\ [][Next]_vars

(* ddb's process is scheduled, and the kernel ends a single step. Nothing is  *)
(* assumed of the user, nor that the target ever stops.                       *)
Debugger ==
  \/ Loop \/ Quit
  \/ RefreshRegs \/ WriteOriginal \/ MoveBack \/ PtraceSinglestep \/ StepReturns \/ WriteTrap
  \/ ReadWord \/ WriteBreakpoint \/ Emplace

FairSpec ==
  Spec /\ WF_vars(Debugger) /\ WF_vars(run = "stepping" /\ Target)

--------------------------------------------------------------------------------
(* Properties.                                                                *)

Alive == pc # "exited"
Stepping == pc \in {"resetRegs", "resetStep", "resetWait", "resetTrap"}
Quitting == pc \in {"quitRegs", "quitWrite"}

(* No two breakpoints lie within a word of each other.                        *)
Spaced == \A a, b \in keys : a # b => Bytes(a) \cap Bytes(b) = {}

(* Every variable has its type.                                               *)
TypeOK ==
  /\ traps \subseteq Addrs /\ rip \in Int /\ run \in {"running", "stepping", "stopped", "dead"}
  /\ sig \in Signals /\ pc \in PCs /\ at_trap \in {0, 1} /\ h_rip \in Int
  /\ keys \subseteq Sites /\ orig_code \in [Sites -> SUBSET Addrs] /\ regs \in [Sites -> Int]
  /\ addr \in Int /\ orig \subseteq Addrs /\ todo \subseteq keys
  /\ left \in PCs \cup {"none"}

(* What the target's text holds is what break_point_map says: an int3 at each *)
(* breakpoint and nowhere else, except for the breakpoint being stepped over  *)
(* and the one being set. Breakpoints within a word of each other are exempt, *)
(* because the saved word of one holds or lacks the int3 of the other.        *)
TextExact ==
  Spaced =>
    /\ Alive /\ ~Quitting => traps = (IF pc = "setEmplace" THEN keys \cup {addr}
                                      ELSE IF Stepping THEN keys \ {h_rip} ELSE keys)
    /\ \A a \in keys : orig_code[a] = {}

(* ddb never lets the target run from the middle of an instruction: every     *)
(* int3 it runs into, past which rip then points, is found in the map and rip *)
(* moved back. (Garbage is not the middle of an instruction: RestartsAtCall.) *)
NeverMidInsn ==
  (Alive /\ ~Quitting /\ Executable) => rip \in Insns \cup {Garbage}

(* No breakpoint is passed by without a stop, although its int3 is taken out  *)
(* of the text each time the target steps over it.                            *)
NoneMissed ==
  [][ExecInsn /\ Alive /\ Spaced /\ rip \in keys =>
       "resetWait" \in {pc, left} /\ rip = h_rip]_vars

(* Ctrl-C at a prompt: the text is the program's own again, and the target    *)
(* continues where it was: also at the prompt of a breakpoint, whose int3 it  *)
(* has already executed (but not of a SIGTRAP that no breakpoint caused).     *)
CleanQuit ==
  (left \in Prompts /\ (left = "trapPrompt" => h_rip \in keys)) =>
    /\ pc = "quitWrite" /\ left = "trapPrompt" => rip = h_rip
    /\ ~Alive /\ Spaced => traps = {} /\ rip \in Insns \cup {Garbage}

(* Restarting a frame whose checkpoint has recorded registers takes the       *)
(* target to the checkpoint, its int3 not yet executed.                       *)
RestartReturns ==
  [][\A a \in Sites : RestartFunc(a) /\ a \in keys /\ regs[a] # Garbage => rip' = a]_vars

(* A breakpoint that is stepped over is armed again, unless ddb exits.        *)
Rearmed == pc = "resetRegs" ~> (h_rip \in traps \/ ~Alive)

(* A stop of the target is taken by whichever wait() ddb is in, main()'s or   *)
(* the one behind the single step, and by neither when SIGINT comes first.    *)
(* Whatever signal it is for, ddb comes to a prompt or lets the target go: it *)
(* never waits for a target that is stopped, nor leaves one stopped when it   *)
(* ends.                                                                      *)
StopAnswered == (run = "stopped") ~> (pc \in Prompts \/ run # "stopped")

(* Quitting with SIGINT while the target runs puts back the original code at  *)
(* the breakpoints.                                                           *)
QuitRestores == (~Alive /\ left = "wait") => traps = {}

(* A frame that is restarted starts at its call, even if its arguments are    *)
(* not the same because no registers were recorded.                           *)
RestartsAtCall == [][\A a \in Sites : RestartFunc(a) => rip' = a]_vars

(* Where the program is: an int3 that was executed is not an instruction of   *)
(* its own.                                                                   *)
At == IF rip \in Insns \cup {Garbage} THEN rip ELSE rip - 1

Abstract ==
  INSTANCE Transparent WITH Elsewhere <- {Garbage},
                            orderly   <- Spaced /\ left = "none" /\ Alive,
                            at        <- At,
                            mode      <- run,
                            armed     <- keys,
                            prompt    <- InUI

(* Breakpoints a word apart are transparent until ddb ends: whatever it does  *)
(* to the text and to rip, the program executes its own instructions in its   *)
(* own order, is stopped before every one that has a breakpoint, and is moved *)
(* by the user's restart and resume only.                                     *)
ImplementsTransparent == Abstract!Spec
================================================================================
