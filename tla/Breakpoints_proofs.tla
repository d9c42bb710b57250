-------------------------- MODULE Breakpoints_proofs ---------------------------
(* Proofs about Breakpoints, for every word size, text, set of instructions   *)
(* and set of calls: the text agrees with break_point_map, no breakpoint is   *)
(* passed by, the target never resumes in the middle of an instruction, and   *)
(* Ctrl-C at a prompt leaves the program's own text behind.                   *)
EXTENDS Breakpoints, TLAPS

--------------------------------------------------------------------------------
(* The inductive invariant.                                                   *)

Good(address) == address \in Insns \cup {Garbage}

AtPrompt == pc \in Prompts \cup {"dispatch", "letgo", "refresh", "resetWrite", "resetRegs",
                                 "resetStep", "resetTrap", "setRead", "setWrite", "setEmplace"}

(* When ddb acts the target is stopped; when it waits, it let the target go.  *)
RunInv ==
  /\ AtPrompt => run = "stopped"
  /\ pc = "wait" => run # "stepping" /\ at_trap = 0
  /\ pc = "resetWait" => run # "running"
  /\ pc \in {"trapPrompt", "refresh", "resetWrite", "resetRegs", "resetStep", "resetWait",
             "resetTrap"} => at_trap = 1
  /\ pc \in {"dispatch", "segvPrompt", "uiTwice", "ui", "setRead", "setWrite",
             "setEmplace"} => at_trap = 0
  /\ pc = "exited" => run # "stepping"
  /\ Alive /\ ~Quitting => left = "none"

(* The text and the map, breakpoints spaced or not.                           *)
MapInv ==
  /\ Alive /\ ~Quitting => traps \subseteq keys \cup (IF pc = "setEmplace" THEN {addr} ELSE {})
  /\ \A a \in keys : orig_code[a] \subseteq keys /\ a \notin orig_code[a]
  /\ \A a \in Sites : regs[a] \in {a, Garbage}
  /\ pc \in {"refresh", "resetWrite"} \/ Stepping => h_rip \in keys
  /\ Stepping => h_rip \notin traps
  /\ pc \in {"setRead", "setWrite", "setEmplace"} => addr \in Sites
  /\ pc \in {"setWrite", "setEmplace"} => orig \subseteq keys

(* With breakpoints a word apart, the saved words have no int3.               *)
SpacedInv ==
  Spaced =>
    /\ \A a \in keys : orig_code[a] = {}
    /\ pc \in {"setWrite", "setEmplace"} => orig = keys \cap Bytes(addr)
    /\ Alive /\ ~Quitting => traps = (IF pc = "setEmplace" THEN keys \cup {addr}
                                      ELSE IF Stepping THEN keys \ {h_rip} ELSE keys)

(* Where rip is.                                                              *)
RipInv ==
  /\ pc = "wait" /\ run = "running" => Good(rip)
  /\ pc \in {"wait", "dispatch"} /\ run = "stopped" =>
       Good(rip) \/ (sig = "TRAP" /\ rip - 1 \in keys)
  /\ pc = "trapPrompt" => h_rip = rip - 1 /\ (Good(rip) \/ h_rip \in keys)
  /\ pc \in {"refresh", "resetWrite", "resetRegs"} => h_rip = rip - 1
  /\ pc = "resetStep" \/ (pc = "resetWait" /\ run = "stepping") => rip = h_rip
  /\ pc = "resetWait" /\ run = "stopped" => Good(rip)
  /\ pc \in {"resetTrap", "letgo", "segvPrompt", "uiTwice", "ui", "setRead", "setWrite",
             "setEmplace"} =>
       Good(rip)

(* The SIGINT handler, when it interrupted a wait for the target ...          *)
QuitWaitInv ==
  Quitting /\ Executable =>
    /\ left \in {"wait", "resetWait"}
    /\ left = "wait" => at_trap = 0 /\ (Spaced => traps = keys)
    /\ left = "resetWait" =>
         pc = "quitRegs" /\ run = "stepping" /\ at_trap = 1 /\ rip = h_rip

(* ... and when it interrupted a prompt.                                      *)
QuitPromptInv ==
  left \in Prompts =>
    /\ Quitting \/ ~Alive
    /\ Quitting => run = "stopped"
    /\ pc = "quitRegs" =>
         /\ at_trap = (IF left = "trapPrompt" THEN 1 ELSE 0)
         /\ IF left = "trapPrompt" THEN h_rip = rip - 1 ELSE Good(rip)
         /\ Spaced => traps = keys
    /\ pc = "quitWrite" =>
         /\ IF left = "trapPrompt" THEN h_rip = rip ELSE Good(rip)
         /\ Spaced => traps = todo
    /\ ~Alive /\ Spaced =>
         /\ traps = {}
         /\ (left = "trapPrompt" => h_rip \in keys) => Good(rip)

IInv == TypeOK /\ RunInv /\ MapInv /\ SpacedInv /\ RipInv /\ QuitWaitInv /\ QuitPromptInv

--------------------------------------------------------------------------------
USE DEF vars, targetVars, mapVars, setVars, quitVars

(* The addresses are integers.                                                *)
LEMMA AddressTypes == Sites \subseteq Insns /\ Insns \subseteq Addrs /\ Addrs \subseteq Int
BY SitesAssumption, InsnsAssumption, LastAddrAssumption DEF Addrs

(* A word contains its first byte.                                            *)
LEMMA InItsWord == \A a \in Int : a \in Bytes(a)
BY WordAssumption DEF Bytes

(* Where breakpoints are a word apart, writing the word of one leaves the     *)
(* others alone.                                                              *)
LEMMA SpacedWord ==
  ASSUME TypeOK, Spaced, NEW a \in keys, NEW W \in SUBSET keys
  PROVE  W \ Bytes(a) = W \ {a}
BY AddressTypes, InItsWord DEF TypeOK, Spaced

(* Breakpoints are added and never taken away.                                *)
LEMMA SpacedBefore == ASSUME [Next]_vars, Spaced' PROVE Spaced
<1>1. keys \subseteq keys'
  BY DEF Next, Target, Loop, Reset, Commands, Quit, ExecInsn, ExecTrap, Exits, SignalStops,
     PtraceLetgo, WaitReturns, StopAtTrap, StopAtSegv, StopAtInt, StopAtOther,
     FindBreakpoint, RefreshRegs, WriteOriginal, MoveBack, PtraceSinglestep, StepReturns,
     WriteTrap, AskCheckpoint, ReadWord, WriteBreakpoint, Emplace, LeaveUI, ResumeExe,
     RestartFunc, RestartFails, Sigint, RewindRip, RestoreBreakpoint, DetachAndExit, QuitFails
<1>2. QED
  BY <1>1 DEF Spaced, Bytes

(* Type correctness.                                                          *)
LEMMA TypeOKStep == ASSUME IInv, [Next]_vars PROVE TypeOK'
<1> USE DEF IInv, TypeOK, MapInv, Addrs, Garbage, WordWritten, Trapped, PCs, Signals, InUI,
   AfterUI, Prompts, Alive, Quitting, Stepping
<1>1. CASE Target
  <2>1. CASE ExecInsn
    BY <2>1, AddressTypes DEF ExecInsn
  <2>2. CASE ExecTrap
    BY <2>2, AddressTypes DEF ExecTrap
  <2>3. CASE Exits
    BY <2>3, AddressTypes DEF Exits
  <2>4. ASSUME NEW s \in Signals, SignalStops(s) PROVE TypeOK'
    BY <2>4, AddressTypes DEF SignalStops
  <2>5. QED
    BY <1>1, <2>1, <2>2, <2>3, <2>4 DEF Target
<1>2. CASE Loop
  <2>1. CASE PtraceLetgo
    BY <2>1, AddressTypes DEF PtraceLetgo
  <2>2. CASE WaitReturns
    BY <2>2, AddressTypes DEF WaitReturns
  <2>3. CASE StopAtTrap
    BY <2>3, AddressTypes DEF StopAtTrap
  <2>4. CASE StopAtSegv
    BY <2>4, AddressTypes DEF StopAtSegv
  <2>5. CASE StopAtInt
    BY <2>5, AddressTypes DEF StopAtInt
  <2>6. CASE StopAtOther
    BY <2>6, AddressTypes DEF StopAtOther
  <2>7. QED
    BY <1>2, <2>1, <2>2, <2>3, <2>4, <2>5, <2>6 DEF Loop
<1>3. CASE Reset
  <2>1. CASE FindBreakpoint
    BY <2>1, AddressTypes DEF FindBreakpoint
  <2>2. CASE RefreshRegs
    BY <2>2, AddressTypes DEF RefreshRegs
  <2>3. CASE WriteOriginal
    BY <2>3, AddressTypes DEF WriteOriginal
  <2>4. CASE MoveBack
    BY <2>4, AddressTypes DEF MoveBack
  <2>5. CASE PtraceSinglestep
    BY <2>5, AddressTypes DEF PtraceSinglestep
  <2>6. CASE StepReturns
    BY <2>6, AddressTypes DEF StepReturns
  <2>7. CASE WriteTrap
    BY <2>7, AddressTypes DEF WriteTrap
  <2>8. QED
    BY <1>3, <2>1, <2>2, <2>3, <2>4, <2>5, <2>6, <2>7 DEF Reset
<1>4. CASE Commands
  <2>1. CASE AskCheckpoint
    BY <2>1, AddressTypes DEF AskCheckpoint
  <2>2. CASE ReadWord
    BY <2>2, AddressTypes DEF ReadWord
  <2>3. CASE WriteBreakpoint
    BY <2>3, AddressTypes DEF WriteBreakpoint
  <2>4. CASE Emplace
    BY <2>4, AddressTypes DEF Emplace
  <2>5. CASE LeaveUI
    BY <2>5, AddressTypes DEF LeaveUI
  <2>6. CASE ResumeExe
    BY <2>6, AddressTypes DEF ResumeExe
  <2>7. ASSUME NEW a \in Sites, RestartFunc(a) PROVE TypeOK'
    BY <2>7, AddressTypes DEF RestartFunc
  <2>8. ASSUME NEW a \in Sites, RestartFails(a) PROVE TypeOK'
    BY <2>8, AddressTypes DEF RestartFails
  <2>9. QED
    BY <1>4, <2>1, <2>2, <2>3, <2>4, <2>5, <2>6, <2>7, <2>8 DEF Commands
<1>5. CASE Sigint
  BY <1>5, AddressTypes DEF Sigint
<1>6. CASE Quit
  <2>1. CASE RewindRip
    BY <2>1, AddressTypes DEF RewindRip
  <2>2. CASE RestoreBreakpoint
    BY <2>2, AddressTypes DEF RestoreBreakpoint
  <2>3. CASE DetachAndExit
    BY <2>3, AddressTypes DEF DetachAndExit
  <2>4. CASE QuitFails
    BY <2>4, AddressTypes DEF QuitFails
  <2>5. QED
    BY <1>6, <2>1, <2>2, <2>3, <2>4 DEF Quit
<1>7. CASE UNCHANGED vars
  BY <1>7, AddressTypes
<1>8. QED
  BY <1>1, <1>2, <1>3, <1>4, <1>5, <1>6, <1>7 DEF Next

(* What ddb and the target are doing.                                         *)
LEMMA RunInvStep == ASSUME IInv, [Next]_vars PROVE RunInv'
<1> USE DEF IInv, TypeOK, RunInv, AtPrompt, Executable, Traced, Signals, InUI, AfterUI,
   Prompts, Alive, Quitting, Stepping
<1>1. CASE Target
  <2>1. CASE ExecInsn
    BY <2>1 DEF ExecInsn
  <2>2. CASE ExecTrap
    BY <2>2 DEF ExecTrap
  <2>3. CASE Exits
    BY <2>3 DEF Exits
  <2>4. ASSUME NEW s \in Signals, SignalStops(s) PROVE RunInv'
    BY <2>4 DEF SignalStops
  <2>5. QED
    BY <1>1, <2>1, <2>2, <2>3, <2>4 DEF Target
<1>2. CASE Loop
  BY <1>2 DEF Loop, PtraceLetgo, WaitReturns, StopAtTrap, StopAtSegv, StopAtInt, StopAtOther
<1>3. CASE Reset
  BY <1>3 DEF Reset, FindBreakpoint, RefreshRegs, WriteOriginal, MoveBack, PtraceSinglestep,
     StepReturns, WriteTrap
<1>4. CASE Commands
  BY <1>4 DEF Commands, AskCheckpoint, ReadWord, WriteBreakpoint, Emplace, LeaveUI,
     ResumeExe, RestartFunc, RestartFails
<1>5. CASE Sigint
  BY <1>5 DEF Sigint
<1>6. CASE Quit
  BY <1>6 DEF Quit, RewindRip, RestoreBreakpoint, DetachAndExit, QuitFails
<1>7. CASE UNCHANGED vars
  BY <1>7
<1>8. QED
  BY <1>1, <1>2, <1>3, <1>4, <1>5, <1>6, <1>7 DEF Next

(* The text and the map.                                                      *)
LEMMA MapInvStep == ASSUME IInv, [Next]_vars PROVE MapInv'
<1> USE DEF IInv, TypeOK, RunInv, MapInv, RipInv, WordWritten, Trapped, Garbage, Signals,
   InUI, AfterUI, Prompts, Alive, Quitting, Stepping
<1>1. CASE Target
  BY <1>1, AddressTypes, InItsWord DEF Target, ExecInsn, ExecTrap, Exits, SignalStops
<1>2. CASE Loop
  BY <1>2, AddressTypes, InItsWord DEF Loop, PtraceLetgo, WaitReturns, StopAtTrap,
     StopAtSegv, StopAtInt, StopAtOther
<1>3. CASE Reset
  <2>1. CASE FindBreakpoint
    BY <2>1, AddressTypes, InItsWord DEF FindBreakpoint
  <2>2. CASE RefreshRegs
    BY <2>2, AddressTypes, InItsWord DEF RefreshRegs
  <2>3. CASE WriteOriginal
    <3>1. h_rip \in keys /\ h_rip \in Bytes(h_rip) /\ h_rip \notin orig_code[h_rip]
      BY <2>3, AddressTypes, InItsWord DEF WriteOriginal
    <3>2. traps' \subseteq keys /\ h_rip \notin traps'
      BY <2>3, <3>1 DEF WriteOriginal
    <3>3. QED
      BY <2>3, <3>1, <3>2 DEF WriteOriginal
  <2>4. CASE MoveBack
    BY <2>4, AddressTypes, InItsWord DEF MoveBack
  <2>5. CASE PtraceSinglestep
    BY <2>5, AddressTypes, InItsWord DEF PtraceSinglestep
  <2>6. CASE StepReturns
    BY <2>6, AddressTypes, InItsWord DEF StepReturns
  <2>7. CASE WriteTrap
    BY <2>7, AddressTypes, InItsWord DEF WriteTrap
  <2>8. QED
    BY <1>3, <2>1, <2>2, <2>3, <2>4, <2>5, <2>6, <2>7 DEF Reset
<1>4. CASE Commands
  <2>1. CASE AskCheckpoint
    BY <2>1, AddressTypes, InItsWord DEF AskCheckpoint
  <2>2. CASE ReadWord
    BY <2>2, AddressTypes, InItsWord DEF ReadWord
  <2>3. CASE WriteBreakpoint
    BY <2>3, AddressTypes, InItsWord DEF WriteBreakpoint
  <2>4. CASE Emplace
    <3>1. addr \in Sites /\ orig \subseteq keys /\ keys' = keys \cup {addr}
      BY <2>4 DEF Emplace
    <3>2. \A a \in keys' : orig_code'[a] \subseteq keys' /\ a \notin orig_code'[a]
      BY <2>4, <3>1 DEF Emplace
    <3>3. \A a \in Sites : regs'[a] \in {a, Garbage}
      BY <2>4, <3>1 DEF Emplace
    <3>4. QED
      BY <2>4, <3>1, <3>2, <3>3 DEF Emplace
  <2>5. CASE LeaveUI
    BY <2>5, AddressTypes, InItsWord DEF LeaveUI
  <2>6. CASE ResumeExe
    BY <2>6, AddressTypes, InItsWord DEF ResumeExe
  <2>7. ASSUME NEW a \in Sites, RestartFunc(a) PROVE MapInv'
    BY <2>7, AddressTypes, InItsWord DEF RestartFunc
  <2>8. ASSUME NEW a \in Sites, RestartFails(a) PROVE MapInv'
    BY <2>8, AddressTypes, InItsWord DEF RestartFails
  <2>9. QED
    BY <1>4, <2>1, <2>2, <2>3, <2>4, <2>5, <2>6, <2>7, <2>8 DEF Commands
<1>5. CASE Sigint
  BY <1>5, AddressTypes, InItsWord DEF Sigint
<1>6. CASE Quit
  BY <1>6, AddressTypes, InItsWord DEF Quit, RewindRip, RestoreBreakpoint, DetachAndExit,
     QuitFails
<1>7. CASE UNCHANGED vars
  BY <1>7, AddressTypes, InItsWord
<1>8. QED
  BY <1>1, <1>2, <1>3, <1>4, <1>5, <1>6, <1>7 DEF Next

(* The text and the map, breakpoints a word apart.                            *)
LEMMA SpacedInvStep == ASSUME IInv, [Next]_vars PROVE SpacedInv'
<1> USE DEF IInv, TypeOK, RunInv, MapInv, SpacedInv, WordWritten, Trapped, AtPrompt,
   Signals, InUI, AfterUI, Prompts, Alive, Quitting, Stepping
<1>1. CASE Target
  BY <1>1, SpacedWord, SpacedBefore DEF Target, ExecInsn, ExecTrap, Exits, SignalStops
<1>2. CASE Loop
  BY <1>2, SpacedWord, SpacedBefore DEF Loop, PtraceLetgo, WaitReturns, StopAtTrap,
     StopAtSegv, StopAtInt, StopAtOther
<1>3. CASE Reset
  <2>1. CASE FindBreakpoint
    BY <2>1, SpacedWord, SpacedBefore DEF FindBreakpoint
  <2>2. CASE RefreshRegs
    BY <2>2, SpacedWord, SpacedBefore DEF RefreshRegs
  <2>3. CASE WriteOriginal
    BY <2>3, SpacedWord, SpacedBefore DEF WriteOriginal
  <2>4. CASE MoveBack
    BY <2>4, SpacedWord, SpacedBefore DEF MoveBack
  <2>5. CASE PtraceSinglestep
    BY <2>5, SpacedWord, SpacedBefore DEF PtraceSinglestep
  <2>6. CASE StepReturns
    BY <2>6, SpacedWord, SpacedBefore DEF StepReturns
  <2>7. CASE WriteTrap
    <3> SUFFICES ASSUME Spaced'
                 PROVE  (\A a \in keys : orig_code[a] = {}) /\ traps' = keys
      BY <2>7 DEF WriteTrap
    <3>1. Spaced /\ h_rip \in keys /\ orig_code[h_rip] = {} /\ traps = keys \ {h_rip}
      BY <2>7, SpacedBefore DEF WriteTrap
    <3>2. traps \ Bytes(h_rip) = traps \ {h_rip}
      BY <3>1, SpacedWord
    <3>3. QED
      BY <2>7, <3>1, <3>2 DEF WriteTrap
  <2>8. QED
    BY <1>3, <2>1, <2>2, <2>3, <2>4, <2>5, <2>6, <2>7 DEF Reset
<1>4. CASE Commands
  <2>1. CASE AskCheckpoint
    BY <2>1, SpacedWord, SpacedBefore DEF AskCheckpoint
  <2>2. CASE ReadWord
    BY <2>2, SpacedWord, SpacedBefore DEF ReadWord
  <2>3. CASE WriteBreakpoint
    BY <2>3, SpacedWord, SpacedBefore DEF WriteBreakpoint
  <2>4. CASE Emplace
    <3> SUFFICES ASSUME Spaced'
                 PROVE  (\A a \in keys' : orig_code'[a] = {}) /\ traps' = keys'
      BY <2>4 DEF Emplace
    <3>1. Spaced /\ addr \in Sites /\ keys' = keys \cup {addr} /\ traps' = traps
      BY <2>4, SpacedBefore DEF Emplace
    <3>2. traps = keys \cup {addr} /\ orig = keys \cap Bytes(addr)
      BY <2>4, <3>1 DEF Emplace
    <3>3. addr \notin keys => orig = {}
      BY <3>1, <3>2, AddressTypes, InItsWord DEF Spaced, Bytes
    <3>4. QED
      BY <2>4, <3>1, <3>2, <3>3 DEF Emplace
  <2>5. CASE LeaveUI
    BY <2>5, SpacedWord, SpacedBefore DEF LeaveUI
  <2>6. CASE ResumeExe
    BY <2>6, SpacedWord, SpacedBefore DEF ResumeExe
  <2>7. ASSUME NEW a \in Sites, RestartFunc(a) PROVE SpacedInv'
    BY <2>7, SpacedWord, SpacedBefore DEF RestartFunc
  <2>8. ASSUME NEW a \in Sites, RestartFails(a) PROVE SpacedInv'
    BY <2>8, SpacedWord, SpacedBefore DEF RestartFails
  <2>9. QED
    BY <1>4, <2>1, <2>2, <2>3, <2>4, <2>5, <2>6, <2>7, <2>8 DEF Commands
<1>5. CASE Sigint
  BY <1>5, SpacedWord, SpacedBefore DEF Sigint
<1>6. CASE Quit
  BY <1>6, SpacedWord, SpacedBefore DEF Quit, RewindRip, RestoreBreakpoint, DetachAndExit,
     QuitFails
<1>7. CASE UNCHANGED vars
  BY <1>7, SpacedWord, SpacedBefore DEF Spaced
<1>8. QED
  BY <1>1, <1>2, <1>3, <1>4, <1>5, <1>6, <1>7 DEF Next

(* Where rip is.                                                              *)
LEMMA RipInvStep == ASSUME IInv, [Next]_vars PROVE RipInv'
<1> USE DEF IInv, TypeOK, RunInv, MapInv, RipInv, Good, AtPrompt, Executable, Traced,
   Garbage, Signals, InUI, AfterUI, Prompts, Alive, Quitting, Stepping
<1>1. CASE Target
  <2>1. CASE ExecInsn
    BY <2>1, AddressTypes DEF ExecInsn
  <2>2. CASE ExecTrap
    BY <2>2, AddressTypes DEF ExecTrap
  <2>3. CASE Exits
    BY <2>3, AddressTypes DEF Exits
  <2>4. ASSUME NEW s \in Signals, SignalStops(s) PROVE RipInv'
    BY <2>4, AddressTypes DEF SignalStops
  <2>5. QED
    BY <1>1, <2>1, <2>2, <2>3, <2>4 DEF Target
<1>2. CASE Loop
  <2>1. CASE PtraceLetgo
    BY <2>1, AddressTypes DEF PtraceLetgo
  <2>2. CASE WaitReturns
    BY <2>2, AddressTypes DEF WaitReturns
  <2>3. CASE StopAtTrap
    BY <2>3, AddressTypes DEF StopAtTrap
  <2>4. CASE StopAtSegv
    BY <2>4, AddressTypes DEF StopAtSegv
  <2>5. CASE StopAtInt
    BY <2>5, AddressTypes DEF StopAtInt
  <2>6. CASE StopAtOther
    BY <2>6, AddressTypes DEF StopAtOther
  <2>7. QED
    BY <1>2, <2>1, <2>2, <2>3, <2>4, <2>5, <2>6 DEF Loop
<1>3. CASE Reset
  <2>1. CASE FindBreakpoint
    BY <2>1, AddressTypes DEF FindBreakpoint
  <2>2. CASE RefreshRegs
    BY <2>2, AddressTypes DEF RefreshRegs
  <2>3. CASE WriteOriginal
    BY <2>3, AddressTypes DEF WriteOriginal
  <2>4. CASE MoveBack
    BY <2>4, AddressTypes DEF MoveBack
  <2>5. CASE PtraceSinglestep
    BY <2>5, AddressTypes DEF PtraceSinglestep
  <2>6. CASE StepReturns
    BY <2>6, AddressTypes DEF StepReturns
  <2>7. CASE WriteTrap
    BY <2>7, AddressTypes DEF WriteTrap
  <2>8. QED
    BY <1>3, <2>1, <2>2, <2>3, <2>4, <2>5, <2>6, <2>7 DEF Reset
<1>4. CASE Commands
  BY <1>4, AddressTypes DEF Commands, AskCheckpoint, ReadWord, WriteBreakpoint, Emplace,
     LeaveUI, ResumeExe, RestartFunc, RestartFails
<1>5. CASE Sigint
  BY <1>5, AddressTypes DEF Sigint
<1>6. CASE Quit
  BY <1>6, AddressTypes DEF Quit, RewindRip, RestoreBreakpoint, DetachAndExit, QuitFails
<1>7. CASE UNCHANGED vars
  BY <1>7, AddressTypes
<1>8. QED
  BY <1>1, <1>2, <1>3, <1>4, <1>5, <1>6, <1>7 DEF Next

(* SIGINT while ddb waits for the target.                                     *)
LEMMA QuitWaitInvStep == ASSUME IInv, [Next]_vars PROVE QuitWaitInv'
<1> USE DEF IInv, TypeOK, PCs, RunInv, SpacedInv, RipInv, QuitWaitInv, AtPrompt, Executable,
   Traced, Signals, InUI, AfterUI, Prompts, Alive, Quitting, Stepping
<1>1. CASE Target
  <2>1. CASE ExecInsn
    BY <2>1, SpacedBefore DEF ExecInsn
  <2>2. CASE ExecTrap
    BY <2>2, SpacedBefore DEF ExecTrap
  <2>3. CASE Exits
    BY <2>3, SpacedBefore DEF Exits
  <2>4. ASSUME NEW s \in Signals, SignalStops(s) PROVE QuitWaitInv'
    BY <2>4, SpacedBefore DEF SignalStops
  <2>5. QED
    BY <1>1, <2>1, <2>2, <2>3, <2>4 DEF Target
<1>2. CASE Loop
  BY <1>2, SpacedBefore DEF Loop, PtraceLetgo, WaitReturns, StopAtTrap, StopAtSegv,
     StopAtInt, StopAtOther
<1>3. CASE Reset
  BY <1>3, SpacedBefore DEF Reset, FindBreakpoint, RefreshRegs, WriteOriginal, MoveBack,
     PtraceSinglestep, StepReturns, WriteTrap
<1>4. CASE Commands
  BY <1>4, SpacedBefore DEF Commands, AskCheckpoint, ReadWord, WriteBreakpoint, Emplace,
     LeaveUI, ResumeExe, RestartFunc, RestartFails
<1>5. CASE Sigint
  BY <1>5, SpacedBefore DEF Sigint
<1>6. CASE Quit
  <2>1. CASE RewindRip
    BY <2>1, SpacedBefore DEF RewindRip
  <2>2. CASE RestoreBreakpoint
    BY <2>2, SpacedBefore DEF RestoreBreakpoint
  <2>3. CASE DetachAndExit
    BY <2>3, SpacedBefore DEF DetachAndExit
  <2>4. CASE QuitFails
    BY <2>4, SpacedBefore DEF QuitFails
  <2>5. QED
    BY <1>6, <2>1, <2>2, <2>3, <2>4 DEF Quit
<1>7. CASE UNCHANGED vars
  BY <1>7, SpacedBefore DEF Spaced
<1>8. QED
  BY <1>1, <1>2, <1>3, <1>4, <1>5, <1>6, <1>7 DEF Next

(* SIGINT at a prompt.                                                        *)
LEMMA QuitPromptInvStep == ASSUME IInv, [Next]_vars PROVE QuitPromptInv'
<1> USE DEF IInv, TypeOK, RunInv, MapInv, SpacedInv, RipInv, QuitWaitInv, QuitPromptInv,
   AtPrompt, Executable, Traced, Good, Garbage, WordWritten, Signals, InUI, AfterUI,
   Prompts, Alive, Quitting, Stepping
<1>1. CASE Target
  <2>1. CASE ExecInsn
    BY <2>1, AddressTypes, SpacedWord, SpacedBefore DEF ExecInsn
  <2>2. CASE ExecTrap
    BY <2>2, AddressTypes, SpacedWord, SpacedBefore DEF ExecTrap
  <2>3. CASE Exits
    BY <2>3, AddressTypes, SpacedWord, SpacedBefore DEF Exits
  <2>4. ASSUME NEW s \in Signals, SignalStops(s) PROVE QuitPromptInv'
    BY <2>4, AddressTypes, SpacedWord, SpacedBefore DEF SignalStops
  <2>5. QED
    BY <1>1, <2>1, <2>2, <2>3, <2>4 DEF Target
<1>2. CASE Loop
  <2>1. CASE PtraceLetgo
    BY <2>1, AddressTypes, SpacedWord, SpacedBefore DEF PtraceLetgo
  <2>2. CASE WaitReturns
    BY <2>2, AddressTypes, SpacedWord, SpacedBefore DEF WaitReturns
  <2>3. CASE StopAtTrap
    BY <2>3, AddressTypes, SpacedWord, SpacedBefore DEF StopAtTrap
  <2>4. CASE StopAtSegv
    BY <2>4, AddressTypes, SpacedWord, SpacedBefore DEF StopAtSegv
  <2>5. CASE StopAtInt
    BY <2>5, AddressTypes, SpacedWord, SpacedBefore DEF StopAtInt
  <2>6. CASE StopAtOther
    BY <2>6, AddressTypes, SpacedWord, SpacedBefore DEF StopAtOther
  <2>7. QED
    BY <1>2, <2>1, <2>2, <2>3, <2>4, <2>5, <2>6 DEF Loop
<1>3. CASE Reset
  BY <1>3, AddressTypes, SpacedWord, SpacedBefore DEF Reset, FindBreakpoint, RefreshRegs,
     WriteOriginal, MoveBack, PtraceSinglestep, StepReturns, WriteTrap
<1>4. CASE Commands
  BY <1>4, AddressTypes, SpacedWord, SpacedBefore DEF Commands, AskCheckpoint, ReadWord,
     WriteBreakpoint, Emplace, LeaveUI, ResumeExe, RestartFunc, RestartFails
<1>5. CASE Sigint
  BY <1>5, AddressTypes, SpacedWord, SpacedBefore DEF Sigint
<1>6. CASE Quit
  <2>1. CASE RewindRip
    BY <2>1, AddressTypes, SpacedWord, SpacedBefore DEF RewindRip
  <2>2. CASE RestoreBreakpoint
    <3> SUFFICES ASSUME left \in Prompts, Spaced PROVE traps' = todo'
      BY <2>2, SpacedBefore DEF RestoreBreakpoint, Spaced
    <3>1. PICK a \in todo : traps' = (traps \ Bytes(a)) \cup orig_code[a] /\ todo' = todo \ {a}
      BY <2>2 DEF RestoreBreakpoint
    <3>2. a \in keys /\ orig_code[a] = {} /\ traps = todo /\ todo \in SUBSET keys
      BY <2>2, <3>1 DEF RestoreBreakpoint
    <3>3. traps \ Bytes(a) = traps \ {a}
      BY <3>2, SpacedWord
    <3>4. QED
      BY <3>1, <3>2, <3>3
  <2>3. CASE DetachAndExit
    BY <2>3, AddressTypes, SpacedWord, SpacedBefore DEF DetachAndExit
  <2>4. CASE QuitFails
    BY <2>4, AddressTypes, SpacedWord, SpacedBefore DEF QuitFails
  <2>5. QED
    BY <1>6, <2>1, <2>2, <2>3, <2>4 DEF Quit
<1>7. CASE UNCHANGED vars
  BY <1>7, AddressTypes, SpacedWord, SpacedBefore DEF Spaced
<1>8. QED
  BY <1>1, <1>2, <1>3, <1>4, <1>5, <1>6, <1>7 DEF Next

--------------------------------------------------------------------------------
(* The invariant holds in every reachable state.                              *)
LEMMA Inductive == Spec => []IInv
<1>1. Init => IInv
  BY AddressTypes DEF Init, Signals, IInv, TypeOK, RunInv, MapInv, SpacedInv, RipInv, QuitWaitInv,
     QuitPromptInv, AtPrompt, Alive, Stepping, Quitting, Prompts, PCs, Good, Garbage
<1>2. IInv /\ [Next]_vars => IInv'
  BY TypeOKStep, RunInvStep, MapInvStep, SpacedInvStep, RipInvStep, QuitWaitInvStep,
     QuitPromptInvStep DEF IInv
<1>3. QED
  BY <1>1, <1>2, PTL DEF Spec

(* Type correctness: every variable has its type.                             *)
THEOREM TypeCorrectness == Spec => []TypeOK
<1>1. IInv => TypeOK
  BY DEF IInv
<1>2. QED
  BY <1>1, Inductive, PTL

(* set_breakpoint_at_addr() and reset_breakpoint() keep the target's text and *)
(* break_point_map in agreement, whatever the order of hits, insertions and   *)
(* restarts, as long as breakpoints are a word apart.                         *)
THEOREM TextFollowsMap == Spec => []TextExact
<1>1. IInv => TextExact
  BY DEF IInv, SpacedInv, TextExact
<1>2. QED
  BY <1>1, Inductive, PTL

(* reset_breakpoint() moves rip back from every int3 of ddb's before it lets  *)
(* the target go, so it never resumes in the middle of an instruction.        *)
THEOREM ResumesAtInsn == Spec => []NeverMidInsn
<1>1. IInv => NeverMidInsn
  <2> SUFFICES ASSUME IInv, Alive, ~Quitting, Executable PROVE Good(rip)
    BY DEF NeverMidInsn, Good
  <2>1. pc \in {"wait", "resetWait"}
    BY DEF IInv, TypeOK, PCs, RunInv, AtPrompt, Prompts, Alive, Quitting, Executable
  <2>2. CASE pc = "wait"
    BY <2>2 DEF IInv, RunInv, RipInv, Executable
  <2>3. CASE pc = "resetWait"
    <3>1. rip = h_rip /\ h_rip \in keys
      BY <2>3 DEF IInv, RunInv, MapInv, RipInv, Stepping, Executable
    <3>2. QED
      BY <3>1, AddressTypes DEF IInv, TypeOK, Good
  <2>4. QED
    BY <2>1, <2>2, <2>3
<1>2. QED
  BY <1>1, Inductive, PTL

(* sighandler() at a prompt leaves the program's own text, and the target     *)
(* where it was, before the int3 it had executed.                             *)
THEOREM QuitsCleanly == Spec => []CleanQuit
<1>1. IInv => CleanQuit
  BY DEF IInv, QuitPromptInv, CleanQuit, Good, Alive
<1>2. QED
  BY <1>1, Inductive, PTL

(* A breakpoint's own instruction is executed only by the single step of      *)
(* reset_breakpoint(): the target never runs past a breakpoint unnoticed.     *)
THEOREM NonePassedBy == Spec => NoneMissed
<1>1. ASSUME IInv, ExecInsn, Alive, Spaced, rip \in keys
      PROVE  "resetWait" \in {pc, left} /\ rip = h_rip
  <2>1. CASE Quitting
    <3>1. left \in {"wait", "resetWait"} /\ (left = "wait" => traps = keys)
      BY <1>1, <2>1 DEF IInv, QuitWaitInv, ExecInsn
    <3>2. QED
      BY <1>1, <2>1, <3>1 DEF IInv, QuitWaitInv, ExecInsn
  <2>2. CASE ~Quitting
    <3>1. rip \notin traps /\ pc \in {"wait", "resetWait"}
      BY <1>1, <2>2 DEF IInv, TypeOK, PCs, RunInv, AtPrompt, Prompts, Alive, Quitting,
         Executable, ExecInsn
    <3>2. pc # "wait"
      BY <1>1, <2>2, <3>1 DEF IInv, SpacedInv, Stepping
    <3>3. pc = "resetWait" /\ rip = h_rip
      BY <1>1, <2>2, <3>1, <3>2 DEF IInv, RunInv, RipInv, Executable, ExecInsn
    <3>4. QED
      BY <3>3
  <2>3. QED
    BY <2>1, <2>2
<1>2. IInv /\ [Next]_vars =>
        [ExecInsn /\ Alive /\ Spaced /\ rip \in keys =>
           "resetWait" \in {pc, left} /\ rip = h_rip]_vars
  BY <1>1
<1>3. QED
  BY <1>2, Inductive, PTL DEF Spec, NoneMissed

(* restart_curr_frame() at a frame whose checkpoint has its registers         *)
(* recorded goes back to the checkpoint itself, where the int3 was replaced.  *)
THEOREM RestartsAtCheckpoint == Spec => RestartReturns
<1>1. ASSUME IInv, NEW a \in Sites, RestartFunc(a), a \in keys, regs[a] # Garbage
      PROVE  rip' = a
  BY <1>1 DEF IInv, MapInv, RestartFunc
<1>2. IInv /\ [Next]_vars =>
        [\A a \in Sites : RestartFunc(a) /\ a \in keys /\ regs[a] # Garbage => rip' = a]_vars
  BY <1>1
<1>3. QED
  BY <1>2, Inductive, PTL DEF Spec, RestartReturns

--------------------------------------------------------------------------------
(* Breakpoints implements Transparent.                                        *)

(* ddb quits only after a SIGINT.                                             *)
LeftInv == left = "none" => ~Quitting

LEMMA LeftInvStep == ASSUME IInv, LeftInv, [Next]_vars PROVE LeftInv'
<1> USE DEF LeftInv, IInv, RunInv, Alive, Quitting
<1>1. CASE Target
  BY <1>1 DEF Target, ExecInsn, ExecTrap, Exits, SignalStops, Executable
<1>2. CASE Loop
  BY <1>2 DEF Loop, PtraceLetgo, WaitReturns, StopAtTrap, StopAtSegv, StopAtInt, StopAtOther
<1>3. CASE Reset
  BY <1>3 DEF Reset, FindBreakpoint, RefreshRegs, WriteOriginal, MoveBack, PtraceSinglestep,
     StepReturns, WriteTrap
<1>4. CASE Commands
  BY <1>4 DEF Commands, AskCheckpoint, ReadWord, WriteBreakpoint, Emplace, LeaveUI,
     ResumeExe, RestartFunc, RestartFails, InUI, AfterUI
<1>5. CASE Sigint
  BY <1>5 DEF Sigint, TypeOK, PCs, Prompts
<1>6. CASE Quit
  BY <1>6 DEF Quit, RewindRip, RestoreBreakpoint, DetachAndExit, QuitFails
<1>7. CASE UNCHANGED vars
  BY <1>7
<1>8. QED
  BY <1>1, <1>2, <1>3, <1>4, <1>5, <1>6, <1>7 DEF Next

(* Behind a call's first byte there is no instruction.                        *)
LEMMA BehindSite == ASSUME NEW a \in Sites PROVE a + 1 \notin Insns \cup {Garbage}
BY SitesAssumption, LastAddrAssumption, InsnsAssumption DEF Addrs, Garbage

(* The promise holds: nothing is within a word of another breakpoint, no      *)
(* SIGINT has come, and ddb has not ended.                                    *)
Promised == Spaced /\ left = "none" /\ Alive

(* A step that changes nothing of what Transparent sees is hidden.            *)
LEMMA HiddenStep ==
  ASSUME Promised, Promised', At' = At, run' = run, keys' = keys, InUI' <=> InUI
  PROVE  UNCHANGED Abstract!vars
BY DEF Abstract!vars, Promised, InUI

LEMMA TargetImplements ==
  ASSUME IInv, LeftInv, Promised, Promised', Target
  PROVE  Abstract!Orderly
<1> USE DEF IInv, RunInv, LeftInv, Promised, Executable, Alive, Quitting
<1>1. pc' = pc /\ keys' = keys /\ (InUI' <=> InUI) /\ Executable
  BY DEF Target, ExecInsn, ExecTrap, Exits, SignalStops, InUI
<1>2. IF run = "stepping" THEN pc = "resetWait" ELSE pc = "wait"
  BY <1>1 DEF AtPrompt, TypeOK, PCs, Prompts
<1>3. IF run = "stepping" THEN rip = h_rip /\ rip \notin traps ELSE traps = keys
  BY <1>2 DEF RipInv, MapInv, SpacedInv, Stepping
<1>4. CASE ExecInsn
  <2>1. At = rip /\ At' = rip' /\ At' \in Insns
    BY <1>4 DEF ExecInsn, At
  <2>2. CASE run = "stepping"
    <3>1. Abstract!StepOver
      BY <1>1, <1>4, <2>1, <2>2 DEF ExecInsn, Abstract!StepOver, InUI
    <3>2. QED
      BY <3>1 DEF Abstract!Orderly
  <2>3. CASE run # "stepping"
    <3>1. Abstract!Step
      BY <1>1, <1>3, <1>4, <2>1, <2>3 DEF ExecInsn, Abstract!Step, InUI
    <3>2. QED
      BY <3>1 DEF Abstract!Orderly
  <2>4. QED
    BY <2>2, <2>3
<1>5. CASE ExecTrap
  <2>1. rip \in keys /\ run = "running" /\ rip' = rip + 1 /\ run' = "stopped"
    BY <1>2, <1>3, <1>5 DEF ExecTrap, Traced
  <2>2. rip \in Sites /\ rip \in Insns /\ rip \in Int
    BY <2>1, AddressTypes DEF TypeOK
  <2>3. At = rip /\ At' = rip
    BY <2>1, <2>2, BehindSite DEF At
  <2>4. Abstract!Stop
    BY <1>1, <2>1, <2>3 DEF Abstract!Stop, InUI
  <2>5. QED
    BY <2>4 DEF Abstract!Orderly
<1>6. CASE Exits \/ \E s \in Signals : SignalStops(s)
  <2>1. At' = At /\ run' \in {"stopped", "dead"}
    BY <1>6 DEF Exits, SignalStops, At
  <2>2. Abstract!Stop
    BY <1>1, <2>1 DEF Abstract!Stop, InUI
  <2>3. QED
    BY <2>2 DEF Abstract!Orderly
<1>7. QED
  BY <1>4, <1>5, <1>6 DEF Target

LEMMA LoopImplements ==
  ASSUME IInv, Promised, Promised', Loop \/ Reset
  PROVE  Abstract!Orderly \/ UNCHANGED Abstract!vars
<1> USE DEF IInv, RunInv, Promised, InUI
<1>1. CASE PtraceLetgo
  <2>1. At' = At /\ run = "stopped" /\ run' = "running" /\ keys' = keys /\ ~InUI /\ ~InUI'
    BY <1>1 DEF PtraceLetgo, At, AtPrompt
  <2>2. Abstract!Go
    BY <2>1 DEF Abstract!Go
  <2>3. QED
    BY <2>2 DEF Abstract!Orderly
<1>2. CASE StopAtInt \/ StopAtOther
  <2>1. At' = At /\ run = "stopped" /\ run' = run /\ keys' = keys /\ ~InUI /\ InUI'
    BY <1>2 DEF StopAtInt, StopAtOther, At, AtPrompt
  <2>2. Abstract!Ask
    BY <2>1 DEF Abstract!Ask
  <2>3. QED
    BY <2>2 DEF Abstract!Orderly
<1>3. CASE PtraceSinglestep
  <2>1. run = "stopped" /\ run' = "stepping" /\ keys' = keys /\ ~InUI /\ ~InUI' /\ rip' = rip
    BY <1>3 DEF PtraceSinglestep, AtPrompt
  <2>2. rip \in keys /\ At' = At /\ At = rip
    BY <1>3, <2>1, AddressTypes DEF PtraceSinglestep, RipInv, MapInv, Stepping, At, TypeOK
  <2>3. Abstract!Go
    BY <2>1, <2>2 DEF Abstract!Go
  <2>4. QED
    BY <2>3 DEF Abstract!Orderly
<1>4. CASE MoveBack
  <2>1. h_rip \in keys /\ rip = h_rip + 1 /\ rip' = h_rip /\ h_rip \in Insns
    BY <1>4, AddressTypes DEF MoveBack, RipInv, MapInv, Stepping, TypeOK
  <2>2. At' = At
    BY <2>1, BehindSite DEF At, TypeOK
  <2>3. QED
    BY <1>4, <2>2, HiddenStep DEF MoveBack
<1>5. CASE WaitReturns \/ StopAtTrap \/ StopAtSegv \/ FindBreakpoint \/ RefreshRegs
           \/ WriteOriginal \/ StepReturns \/ WriteTrap
  <2>1. UNCHANGED <<rip, run, keys>> /\ (InUI' <=> InUI)
    BY <1>5 DEF WaitReturns, StopAtTrap, StopAtSegv, FindBreakpoint, RefreshRegs,
       WriteOriginal, StepReturns, WriteTrap
  <2>2. At' = At
    BY <2>1 DEF At
  <2>3. QED
    BY <2>1, <2>2, HiddenStep
<1>6. QED
  BY <1>1, <1>2, <1>3, <1>4, <1>5 DEF Loop, Reset

LEMMA CommandsImplement ==
  ASSUME IInv, Promised, Promised', Commands
  PROVE  Abstract!Orderly \/ UNCHANGED Abstract!vars
<1> USE DEF IInv, RunInv, Promised, InUI
<1>1. CASE AskCheckpoint /\ pc' = "ui"
  <2>1. At' = At /\ run = "stopped" /\ run' = run /\ keys' = keys /\ ~InUI /\ InUI'
    BY <1>1 DEF AskCheckpoint, At, AtPrompt, Prompts
  <2>2. Abstract!Ask
    BY <2>1 DEF Abstract!Ask
  <2>3. QED
    BY <2>2 DEF Abstract!Orderly
<1>2. CASE (AskCheckpoint /\ pc' # "ui") \/ ReadWord \/ WriteBreakpoint
  <2>1. UNCHANGED <<rip, run, keys>> /\ (InUI' <=> InUI)
    BY <1>2 DEF AskCheckpoint, ReadWord, WriteBreakpoint
  <2>2. At' = At
    BY <2>1 DEF At
  <2>3. QED
    BY <2>1, <2>2, HiddenStep
<1>3. CASE Emplace
  <2>1. /\ At' = At /\ run = "stopped" /\ run' = run /\ ~InUI /\ InUI'
        /\ addr \in Sites /\ keys' = keys \cup {addr}
    BY <1>3 DEF Emplace, At, AtPrompt, MapInv
  <2>2. Abstract!Arm
    BY <2>1 DEF Abstract!Arm
  <2>3. QED
    BY <2>2 DEF Abstract!Orderly
<1>4. CASE LeaveUI
  <2>1. At' = At /\ run = "stopped" /\ run' = run /\ keys' = keys /\ InUI
    BY <1>4 DEF LeaveUI, At, AtPrompt, Prompts
  <2>2. CASE InUI'
    BY <2>1, <2>2, HiddenStep
  <2>3. CASE ~InUI'
    <3>1. Abstract!Answer
      BY <2>1, <2>3 DEF Abstract!Answer
    <3>2. QED
      BY <3>1 DEF Abstract!Orderly
  <2>4. QED
    BY <2>2, <2>3
<1>5. CASE ResumeExe \/ \E a \in Sites : RestartFunc(a)
  <2>1. run = "stopped" /\ run' = run /\ keys' = keys /\ InUI
    BY <1>5 DEF ResumeExe, RestartFunc, AtPrompt, Prompts
  <2>2. rip' \in Insns \cup {Garbage}
    BY <1>5, AddressTypes DEF ResumeExe, RestartFunc, MapInv
  <2>3. At' \in Insns \cup {Garbage}
    BY <2>2 DEF At
  <2>4. Abstract!Move
    BY <2>1, <2>3 DEF Abstract!Move
  <2>5. QED
    BY <2>4 DEF Abstract!Orderly
<1>6. ~\E a \in Sites : RestartFails(a)
  BY DEF RestartFails, Alive
<1>7. QED
  BY <1>1, <1>2, <1>3, <1>4, <1>5, <1>6 DEF Commands

(* While breakpoints are a word apart and until ddb ends, the program seen    *)
(* through ddb is the program itself: it is stopped before each instruction   *)
(* that has a breakpoint and moved by the user's commands only.               *)
THEOREM AlwaysTransparent == Spec => ImplementsTransparent
<1>1. Init => Abstract!Init /\ LeftInv
  BY DEF Init, Abstract!Init, LeftInv, Quitting, Alive, At, InUI, Spaced
<1>2. IInv /\ LeftInv /\ [Next]_vars => LeftInv'
  BY LeftInvStep
<1>3. ASSUME IInv, LeftInv, [Next]_vars
      PROVE  [Abstract!Next]_(Abstract!vars)
  <2>1. CASE ~Promised'
    BY <2>1 DEF Abstract!Next, Promised
  <2>2. CASE Promised'
    <3>1. left = "none"
      BY <1>3, <2>2 DEF Promised, IInv, TypeOK, PCs, Prompts, Next, Target, Loop, Reset,
         Commands, Quit, ExecInsn, ExecTrap, Exits, SignalStops, PtraceLetgo, WaitReturns,
         StopAtTrap, StopAtSegv, StopAtInt, StopAtOther, FindBreakpoint, RefreshRegs,
         WriteOriginal, MoveBack, PtraceSinglestep, StepReturns, WriteTrap, AskCheckpoint,
         ReadWord, WriteBreakpoint, Emplace, LeaveUI, ResumeExe, RestartFunc, RestartFails,
         Sigint, RewindRip, RestoreBreakpoint, DetachAndExit, QuitFails
    <3>2. Promised
      <4>1. Alive
        BY <1>3, <2>2 DEF Promised, Alive, Next, Target, Loop, Reset, Commands, Quit, ExecInsn,
           ExecTrap, Exits, SignalStops, PtraceLetgo, WaitReturns, StopAtTrap, StopAtSegv,
           StopAtInt, StopAtOther, FindBreakpoint, RefreshRegs, WriteOriginal, MoveBack,
           PtraceSinglestep, StepReturns, WriteTrap, AskCheckpoint, ReadWord, WriteBreakpoint,
           Emplace, LeaveUI, ResumeExe, RestartFunc, RestartFails, InUI, Sigint, RewindRip,
           RestoreBreakpoint, DetachAndExit, QuitFails
      <4>2. QED
        BY <1>3, <2>2, <3>1, <4>1, SpacedBefore DEF Promised
    <3>3. ~Quit
      BY <1>3, <3>1 DEF LeftInv, Quitting, Quit, RewindRip, RestoreBreakpoint, DetachAndExit,
         QuitFails
    <3>4. ~Sigint
      BY <1>3, <2>2 DEF Promised, Sigint, IInv, TypeOK, PCs, Prompts
    <3>5. CASE UNCHANGED vars
      BY <3>5, <3>2, <2>2, HiddenStep DEF vars, targetVars, mapVars, At, InUI
    <3>6. Target \/ Loop \/ Reset \/ Commands => Abstract!Orderly \/ UNCHANGED Abstract!vars
      BY <1>3, <2>2, <3>2, TargetImplements, LoopImplements, CommandsImplement
    <3>7. QED
      BY <1>3, <3>2, <3>3, <3>4, <3>5, <3>6 DEF Next, Promised, Abstract!Next
  <2>3. QED
    BY <2>1, <2>2
<1>4. QED
  BY <1>1, <1>2, <1>3, Inductive, PTL DEF Spec, ImplementsTransparent, Abstract!Spec
================================================================================
