------------------------------ MODULE Swap_proofs ------------------------------
(* Proofs about what Injection does to the library and the function: which    *)
(* calls the routines make, that a library is closed before it is opened      *)
(* again, and that what inject_func() reports is what happened; for every     *)
(* choice of tracers, restarted system calls and any number of injections.    *)
(* The last part proves that each step of the protocol is one of HotSwap's.   *)
EXTENDS Injection_proofs

--------------------------------------------------------------------------------
(* The inductive invariant, on top of IInv of Injection_proofs.               *)

Reg(r) == cpu.gpr[r]

(* What the registers and the top of the stack hold at each instruction of    *)
(* the routines.                                                              *)
InjectRegs ==
  cpu.at = "inject" =>
    /\ cpu.ip <= 4 => Reg("rdi") = "malloc" /\ Reg("rdx") = "dlopen"
    /\ cpu.ip <= 6 => Reg("rcx") = "length"
    /\ cpu.ip \in {4, 9, 10} => stack[cpu.sp] = "dlopen"
    /\ cpu.ip \in 5 .. 8 => stack[cpu.sp + 1] = "dlopen"
    /\ cpu.ip = 5 => Reg("rdi") = "malloc"
    /\ cpu.ip \in {6, 7} => Reg("r9") = "malloc"
    /\ cpu.ip = 7 => Reg("rdi") = "length"
    /\ cpu.ip \in 8 .. 10 => Reg("rax") \in {"null", "buffer"}
    /\ cpu.ip \in {11, 12} => Reg("rdx") = "dlopen"
    /\ cpu.ip \in 13 .. 15 => Reg("r9") = "dlopen"
    /\ cpu.ip \in 10 .. 13 /\ stage = "dlopen" => Reg("rax") = "buffer" /\ named
    /\ cpu.ip \in {14, 15} /\ stage = "dlopen" => Reg("rdi") = "buffer" /\ named
    /\ cpu.ip >= 16 => Reg("rdi") # "buffer"
    /\ cpu.ip \in 16 .. 18 => Reg("rax") = IF lib.refs = 1 THEN "library" ELSE "null"

EjectRegs ==
  cpu.at = "eject" =>
    /\ cpu.ip \in {1, 2, 3, MidPush} => Reg("rdi") = "dlclose"
    /\ cpu.ip \in {1, 2, 3, 4, MidPush} => Reg("rcx") = "handle"
    /\ cpu.ip \in {4, 5} => Reg("r9") = "dlclose"
    /\ cpu.ip = 5 => Reg("rdi") = "handle"

(* Where the routine is when it is started, runs and has returned, for each   *)
(* of the calls that it makes.                                                *)
Starts == [malloc |-> {2, 3}, dlopen |-> {10}, free |-> {18}, dlclose |-> {MidPush}]
During == [malloc |-> 0 .. 9, dlopen |-> 10 .. 17, free |-> 18 .. 23,
           dlclose |-> 1 .. 8 \cup {MidPush}]
After  == [malloc |-> 10, dlopen |-> 18, free |-> 24, dlclose |-> 9]

PositionInv ==
  /\ pc \in {"save", "write"} => stage \in {"malloc", "dlclose"}
  /\ pc \in {"write", "cont"} => cpu.ip \in Starts[stage]
  /\ pc = "sleep" =>
       /\ cpu.ip \in During[stage] \/ (cpu.ip = After[stage] /\ run # "running")
       /\ run = "stopped" /\ sig = "TRAP" => cpu.ip = After[stage]
  /\ pc \in {"returned", "checkloaded", "patch", "restoreText", "restoreRegs"} =>
       cpu.ip = After[stage]
  /\ pc \in {"restoreText", "restoreRegs"} =>
       IF ok THEN stage \in {"dlclose", "free"} ELSE stage # "free"
  /\ cpu.at = "inject" /\ stage = "dlopen" => cpu.ip >= 10

(* The loader's library and what the tracer knows of it.                      *)
Opened == cpu.at = "inject" /\ cpu.ip >= 16

LibraryInv ==
  /\ lib.refs <= 1 /\ (lib.refs = 1 => lib.gen > 0)
  /\ handle <= lib.gen /\ entry <= lib.gen
  /\ cpu.at = "inject" /\ cpu.ip <= 15 => lib.refs = 0
  /\ cpu.at = "eject" /\ cpu.ip \in 6 .. 9 => lib.refs = 0
  /\ lib.refs = 1 => IF Opened THEN handle < lib.gen ELSE handle = lib.gen
  /\ cpu.at = "inject" /\ cpu.ip \in 16 .. 18 /\ stage = "dlopen" /\ lib.refs = 1 =>
       entry < lib.gen
  /\ pc = "save" /\ stage = "malloc" => lib.refs = 0
  /\ pc \in {"checkloaded", "patch"} => lib.refs = 1
  /\ pc \in {"cont", "sleep", "returned", "restoreText", "restoreRegs"} /\ stage = "free" =>
       lib.refs = 1 /\ (PathFits => entry = lib.gen)
  /\ pc \in {"restoreText", "restoreRegs"} /\ ~ok => lib.refs = 0

ReportInv ==
  /\ Idle => /\ result = "zero" /\ PathFits => Live(handle) /\ entry = handle
             /\ result = "none" => entry = 0
  /\ ~PathFits => entry = 0 /\ pc # "patch"

(* Which calls were made on a stack that is not aligned: the stack pointer    *)
(* and the depth together stay what they were at the entry.                   *)
SkewInv ==
  cpu.at = "inject" =>
    /\ cpu.ip \in 8 .. 18 =>
         ("malloc" \in misaligned <=> ~(aligned <=> (cpu.sp + InjectDepth[cpu.ip]) % 2 = 0))
    /\ cpu.ip \in 16 .. 18 =>
         ("dlopen" \in misaligned <=> (aligned <=> (cpu.sp + InjectDepth[cpu.ip]) % 2 = 0))

SwapInv == InjectRegs /\ EjectRegs /\ PositionInv /\ LibraryInv /\ ReportInv /\ SkewInv

--------------------------------------------------------------------------------
(* Lemmas about the routines' code.                                           *)

(* The instructions of injectSharedLibrary() by their kind, and the operands  *)
(* that matter.                                                               *)
LEMMA InjectOps ==
  ASSUME NEW i \in 1 .. 28
  PROVE  /\ InjectSharedLibrary[i].op = "push" => i \in {1, 2, 3, 4, 11, 20}
         /\ InjectSharedLibrary[i].op = "pop"  => i \in {8, 10, 16, 19, 25, 26}
         /\ InjectSharedLibrary[i].op = "mov"  => i \in {5, 6, 12, 13, 18, 21}
         /\ InjectSharedLibrary[i].op = "load" => i \in {14, 22}
         /\ InjectSharedLibrary[i].op = "call" => i \in {7, 15, 24}
         /\ InjectSharedLibrary[i].op = "int3" => i \in {9, 17, 23, 27}
  <1> USE DEF InjectSharedLibrary, Push, Pop, Mov, Load, Call, Int3, Beyond
  <1>1. InjectSharedLibrary[i].op = "push" => i \in {1, 2, 3, 4, 11, 20}
    OBVIOUS
  <1>2. InjectSharedLibrary[i].op = "pop" => i \in {8, 10, 16, 19, 25, 26}
    OBVIOUS
  <1>3. InjectSharedLibrary[i].op = "mov" => i \in {5, 6, 12, 13, 18, 21}
    OBVIOUS
  <1>4. InjectSharedLibrary[i].op = "load" => i \in {14, 22}
    OBVIOUS
  <1>5. InjectSharedLibrary[i].op = "call" => i \in {7, 15, 24}
    OBVIOUS
  <1>6. InjectSharedLibrary[i].op = "int3" => i \in {9, 17, 23, 27}
    OBVIOUS
  <1> HIDE DEF InjectSharedLibrary
  <1> QED  BY <1>1, <1>2, <1>3, <1>4, <1>5, <1>6

LEMMA InjectOperands ==
  /\ InjectSharedLibrary[3].reg = "rdx" /\ InjectSharedLibrary[4].reg = "r9"
  /\ InjectSharedLibrary[8].reg = "r9" /\ InjectSharedLibrary[10].reg = "rdx"
  /\ InjectSharedLibrary[16].reg = "r9"
  /\ InjectSharedLibrary[19].reg = "rsi" /\ InjectSharedLibrary[25].reg = "rbx"
  /\ InjectSharedLibrary[26].reg = "rbp"
  /\ InjectSharedLibrary[5].src = "rdi"  /\ InjectSharedLibrary[5].reg = "r9"
  /\ InjectSharedLibrary[6].src = "rcx"  /\ InjectSharedLibrary[6].reg = "rdi"
  /\ InjectSharedLibrary[12].src = "rdx" /\ InjectSharedLibrary[12].reg = "r9"
  /\ InjectSharedLibrary[13].src = "rax" /\ InjectSharedLibrary[13].reg = "rdi"
  /\ InjectSharedLibrary[18].src = "rax" /\ InjectSharedLibrary[18].reg = "rdi"
  /\ InjectSharedLibrary[21].reg = "rbx"
  /\ InjectSharedLibrary[14].reg = "rsi" /\ InjectSharedLibrary[22].reg = "rsi"
  /\ InjectSharedLibrary[7].reg = "r9"   /\ InjectSharedLibrary[15].reg = "r9"
  BY DEF InjectSharedLibrary, Push, Pop, Mov, Load, Call, Int3, Beyond

(* The same of ejectSharedLibrary().                                          *)
LEMMA EjectOps ==
  ASSUME NEW i \in 1 .. 10
  PROVE  /\ EjectSharedLibrary[i].op = "push" => i \in {1, 2, 10}
         /\ EjectSharedLibrary[i].op = "pop"  => i \in {6, 7}
         /\ EjectSharedLibrary[i].op = "mov"  => i \in {3, 4}
         /\ EjectSharedLibrary[i].op # "load"
         /\ EjectSharedLibrary[i].op = "call" => i = 5
         /\ EjectSharedLibrary[i].op = "int3" => i = 8
  BY DEF EjectSharedLibrary, Push, Pop, Mov, Load, Call, Int3, Beyond

LEMMA EjectOperands ==
  /\ EjectSharedLibrary[3].src = "rdi" /\ EjectSharedLibrary[3].reg = "r9"
  /\ EjectSharedLibrary[4].src = "rcx" /\ EjectSharedLibrary[4].reg = "rdi"
  /\ EjectSharedLibrary[5].reg = "r9"
  BY DEF EjectSharedLibrary, Push, Pop, Mov, Load, Call, Int3, Beyond

(* What executing an instruction finds, and where it leads.                   *)
LEMMA Decoded ==
  ASSUME TypeOK, FrameInv, NEW op, Executing(op), op # "beyond"
  PROVE  /\ run = "running" /\ cpu.at \in Routines
         /\ cpu.at = "inject" =>
              /\ cpu.ip \in 1 .. 27 /\ Next_ip = cpu.ip + 1
              /\ Instruction = InjectSharedLibrary[cpu.ip] /\ Instruction.op = op
         /\ cpu.at = "eject" =>
              /\ cpu.ip \in 1 .. 8 \/ cpu.ip = MidPush
              /\ Next_ip = IF cpu.ip = MidPush THEN 3 ELSE cpu.ip + 1
              /\ Instruction = EjectSharedLibrary[cpu.ip] /\ Instruction.op = op
  <1>1. /\ cpu.at \in Routines /\ cpu.ip \in 1 .. 28
        /\ cpu.at = "eject" => cpu.ip \in 1 .. 10
    BY InstructionExists
  <1>2. run = "running" /\ Instruction.op = op
    BY DEF Executing, Fetching, Instruction
  <1>3. CASE cpu.at = "inject"
    <2>1. Instruction = InjectSharedLibrary[cpu.ip]
      BY <1>3 DEF Instruction, Code
    <2>2. cpu.ip # 28
      BY <1>2, <2>1 DEF InjectSharedLibrary, Beyond
    <2> QED  BY <1>1, <1>2, <1>3, <2>1, <2>2 DEF Next_ip, Following
  <1>4. CASE cpu.at = "eject"
    <2>1. Instruction = EjectSharedLibrary[cpu.ip]
      BY <1>4 DEF Instruction, Code
    <2>2. cpu.ip # 9
      BY <1>2, <2>1 DEF EjectSharedLibrary, Beyond
    <2> QED  BY <1>1, <1>2, <1>4, <2>1, <2>2 DEF Next_ip, Following, MidPush
  <1> QED  BY <1>1, <1>2, <1>3, <1>4 DEF Routines

(* What each kind of instruction does to the CPU and the stack.               *)
LEMMA Effects ==
  ASSUME TypeOK, FrameInv
  PROVE  /\ ExecPush =>
              /\ cpu'.at = cpu.at /\ cpu'.ip = Next_ip /\ cpu'.sp = cpu.sp - 1
              /\ cpu'.gpr = cpu.gpr /\ cpu.sp - 1 \in Slots
              /\ stack' = [stack EXCEPT ![cpu.sp - 1] = cpu.gpr[Instruction.reg]]
         /\ ExecPop =>
              /\ cpu'.at = cpu.at /\ cpu'.ip = Next_ip /\ cpu'.sp = cpu.sp + 1
              /\ cpu'.gpr = [cpu.gpr EXCEPT ![Instruction.reg] = stack[cpu.sp]]
              /\ stack' = stack
         /\ ExecMov =>
              /\ cpu'.at = cpu.at /\ cpu'.ip = Next_ip /\ cpu'.sp = cpu.sp
              /\ cpu'.gpr = [cpu.gpr EXCEPT ![Instruction.reg] = cpu.gpr[Instruction.src]]
              /\ stack' = stack
         /\ ExecLoad =>
              /\ cpu'.at = cpu.at /\ cpu'.ip = Next_ip /\ cpu'.sp = cpu.sp
              /\ cpu'.gpr = [cpu.gpr EXCEPT ![Instruction.reg] = Instruction.val]
              /\ stack' = stack
         /\ ExecInt3 =>
              /\ cpu'.at = cpu.at /\ cpu'.ip = Next_ip /\ cpu'.sp = cpu.sp
              /\ cpu'.gpr = cpu.gpr /\ stack' = stack
         /\ \A rax : Returns(rax) =>
              /\ cpu'.at = cpu.at /\ cpu'.ip = Next_ip /\ cpu'.sp = cpu.sp
              /\ cpu'.gpr["rax"] = rax /\ cpu'.gpr["rdi"] = "junk"
  <1>1. ASSUME ExecPush
        PROVE  /\ cpu'.at = cpu.at /\ cpu'.ip = Next_ip /\ cpu'.sp = cpu.sp - 1
               /\ cpu'.gpr = cpu.gpr /\ cpu.sp - 1 \in Slots
               /\ stack' = [stack EXCEPT ![cpu.sp - 1] = cpu.gpr[Instruction.reg]]
    BY <1>1, SpRange DEF ExecPush, TypeOK, Cpus
  <1>2. ASSUME ExecPop
        PROVE  /\ cpu'.at = cpu.at /\ cpu'.ip = Next_ip /\ cpu'.sp = cpu.sp + 1
               /\ cpu'.gpr = [cpu.gpr EXCEPT ![Instruction.reg] = stack[cpu.sp]]
               /\ stack' = stack
    BY <1>2 DEF ExecPop, TypeOK, Cpus, memoryVars
  <1>3. ASSUME ExecMov
        PROVE  /\ cpu'.at = cpu.at /\ cpu'.ip = Next_ip /\ cpu'.sp = cpu.sp
               /\ cpu'.gpr = [cpu.gpr EXCEPT ![Instruction.reg] = cpu.gpr[Instruction.src]]
               /\ stack' = stack
    BY <1>3 DEF ExecMov, TypeOK, Cpus, memoryVars
  <1>4. ASSUME ExecLoad
        PROVE  /\ cpu'.at = cpu.at /\ cpu'.ip = Next_ip /\ cpu'.sp = cpu.sp
               /\ cpu'.gpr = [cpu.gpr EXCEPT ![Instruction.reg] = Instruction.val]
               /\ stack' = stack
    BY <1>4 DEF ExecLoad, TypeOK, Cpus, memoryVars
  <1>5. ASSUME ExecInt3
        PROVE  /\ cpu'.at = cpu.at /\ cpu'.ip = Next_ip /\ cpu'.sp = cpu.sp
               /\ cpu'.gpr = cpu.gpr /\ stack' = stack
    BY <1>5 DEF ExecInt3, TypeOK, Cpus, memoryVars
  <1>6. ASSUME NEW rax, Returns(rax)
        PROVE  /\ cpu'.at = cpu.at /\ cpu'.ip = Next_ip /\ cpu'.sp = cpu.sp
               /\ cpu'.gpr["rax"] = rax /\ cpu'.gpr["rdi"] = "junk"
    BY <1>6 DEF Returns, TypeOK, Cpus, Registers, CallerSaved
  <1> QED  BY <1>1, <1>2, <1>3, <1>4, <1>5, <1>6

(* The steps that leave the CPU alone leave the library alone; they give stage*)
(* another value when no routine is being run, after malloc() and when it is  *)
(* free()'s turn.                                                             *)
LEMMA QuietStages ==
  ASSUME QuietStep
  PROVE  /\ lib' = lib
         /\ \/ UNCHANGED <<stage, named>>
            \/ InjectFuncMain
            \/ MallocReturned
            \/ stage' = "free" /\ named' = named
  BY DEF QuietStep, Attached, InjectFuncMain, PtraceDetach, WriteRoutine, PtraceCont,
         CheckTargetSig, GiveUp, DlcloseReturned, MallocReturned, DlopenReturned,
         CallFailed, CheckLoaded, Patch, FreeReturned, RestoreText, User, PtraceAttach,
         InjectUnderPtrace, PtraceLetgo, WaitReturns, Departure, TracerKilled, Interrupt,
         Halts, Faults, vars, tracerVars, heapVars

(* The target's own steps leave alone what only the tracer writes.            *)
LEMMA ExecSteps ==
  ASSUME ExecPush \/ ExecPop \/ ExecMov \/ ExecLoad \/ ExecInt3 \/ Calling \/ StrayAdd
         \/ RestartSyscall
  PROVE  UNCHANGED <<tracerVars, entry, aligned, text, atStop, traced, pendingStop>>
  BY DEF ExecPush, ExecPop, ExecMov, ExecLoad, ExecInt3, Calling, CallMalloc, CallDlopen,
         CallDlclose, CallFree, StrayAdd, RestartSyscall, tracerVars, kernelVars, heapVars,
         memoryVars

(* A signal in the application resets the CPU to it, elsewhere it changes     *)
(* nothing that the routines see.                                             *)
LEMMA SignalSteps ==
  ASSUME NEW s \in {"STOP", "OTHER", "SEGV"}, SignalStops(s)
  PROVE  /\ run = "running" /\ run' = "stopped" /\ sig' = s
         /\ UNCHANGED <<tracerVars, heapVars, text>>
         /\ \/ UNCHANGED <<cpu, stack, aligned, misaligned, atStop>>
            \/ cpu.at = "app" /\ cpu'.at = "app"
  BY DEF SignalStops, AppCpu

(* Only calls change the library and the buffer's name.                       *)
LEMMA StraightSteps ==
  ASSUME ExecPush \/ ExecPop \/ ExecMov \/ ExecLoad \/ ExecInt3 \/ StrayAdd \/ RestartSyscall
  PROVE  UNCHANGED <<lib, named, misaligned>>
  BY DEF ExecPush, ExecPop, ExecMov, ExecLoad, ExecInt3, StrayAdd, RestartSyscall, heapVars

(* A restarted system call moves the routine's entry back to its first        *)
(* instruction or the byte before.                                            *)
LEMMA RestartedEntry ==
  ASSUME TypeOK, FrameInv, RestartSyscall
  PROVE  /\ cpu'.at = cpu.at /\ cpu'.sp = cpu.sp /\ cpu'.gpr = cpu.gpr /\ stack' = stack
         /\ cpu.at \in Routines /\ run' = run
         /\ cpu.at = "inject" => cpu.ip \in {2, 3} /\ cpu'.ip \in {0, 1}
         /\ cpu.at = "eject" => cpu.ip = MidPush /\ cpu'.ip = 1
  BY DEF RestartSyscall, TypeOK, Cpus, FrameInv, PendingRestart, OpenEntry, InjectOffset,
         CloseEntry, TwoBytesBack, Wild, memoryVars, kernelVars

--------------------------------------------------------------------------------
(* The registers.                                                             *)

(* In injectSharedLibrary(), instruction by instruction.                      *)
LEMMA InjectRegsExec ==
  ASSUME TypeOK, FrameInv, InjectRegs, PositionInv, LibraryInv,
         ExecPush \/ ExecPop \/ ExecMov \/ ExecLoad \/ ExecInt3
  PROVE  InjectRegs'
  <1> SUFFICES ASSUME cpu'.at = "inject" PROVE InjectRegs'
    BY DEF InjectRegs
  <1>1. UNCHANGED <<stage, lib, named>>
    BY ExecSteps, StraightSteps DEF tracerVars
  <1>2. cpu.gpr \in [Registers -> Values] /\ stack \in [Slots -> Values] /\ cpu.sp \in Int
    BY DEF TypeOK, Cpus, Slots
  <1>3. {"rdi", "rdx", "rcx", "r9", "rax", "rsi", "rbx", "rbp"} \subseteq Registers
    BY DEF Registers
  <1> USE DEF InjectRegs, Reg
  <1>4. CASE ExecPush
    <2>1. Executing("push")
      BY <1>4 DEF ExecPush
    <2>2. /\ cpu.at = "inject" /\ cpu.ip \in {1, 2, 3, 4, 11, 20} /\ cpu'.ip = cpu.ip + 1
          /\ cpu'.gpr = cpu.gpr /\ cpu'.sp = cpu.sp - 1 /\ cpu.sp - 1 \in Slots
          /\ stack' = [stack EXCEPT ![cpu.sp - 1] = cpu.gpr[InjectSharedLibrary[cpu.ip].reg]]
      BY <1>4, <2>1, Decoded, Effects, InjectOps
    <2>3. cpu.ip = 3 => stack'[cpu'.sp] = "dlopen"
      BY <1>2, <2>2, InjectOperands
    <2>4. cpu.ip = 4 => stack'[cpu'.sp + 1] = "dlopen"
      BY <1>2, <2>2
    <2> QED  BY <1>1, <2>2, <2>3, <2>4
  <1>5. CASE ExecPop
    <2>1. Executing("pop")
      BY <1>5 DEF ExecPop
    <2>2. /\ cpu.at = "inject" /\ cpu.ip \in {8, 10, 16, 19, 25, 26} /\ cpu'.ip = cpu.ip + 1
          /\ cpu'.gpr = [cpu.gpr EXCEPT ![InjectSharedLibrary[cpu.ip].reg] = stack[cpu.sp]]
          /\ cpu'.sp = cpu.sp + 1 /\ stack' = stack
      BY <1>5, <2>1, Decoded, Effects, InjectOps
    <2>3. /\ cpu'.gpr["rdi"] = cpu.gpr["rdi"] /\ cpu'.gpr["rax"] = cpu.gpr["rax"]
          /\ cpu.ip = 10 => cpu'.gpr["rdx"] = stack[cpu.sp]
      BY <1>2, <1>3, <2>2, InjectOperands
    <2> QED  BY <1>1, <1>2, <2>2, <2>3
  <1>6. CASE ExecMov
    <2>1. Executing("mov")
      BY <1>6 DEF ExecMov
    <2>2. /\ cpu.at = "inject" /\ cpu.ip \in {5, 6, 12, 13, 18, 21} /\ cpu'.ip = cpu.ip + 1
          /\ cpu'.gpr = [cpu.gpr EXCEPT ![InjectSharedLibrary[cpu.ip].reg]
                                          = cpu.gpr[InjectSharedLibrary[cpu.ip].src]]
          /\ cpu'.sp = cpu.sp /\ stack' = stack
      BY <1>6, <2>1, Decoded, Effects, InjectOps
    <2>3. /\ cpu'.gpr["rax"] = cpu.gpr["rax"] /\ cpu'.gpr["rcx"] = cpu.gpr["rcx"]
          /\ cpu.ip \in {5, 12, 21} => cpu'.gpr["rdi"] = cpu.gpr["rdi"]
          /\ cpu.ip = 5 => cpu'.gpr["r9"] = cpu.gpr["rdi"]
          /\ cpu.ip = 6 => cpu'.gpr["rdi"] = cpu.gpr["rcx"] /\ cpu'.gpr["r9"] = cpu.gpr["r9"]
          /\ cpu.ip = 12 => cpu'.gpr["r9"] = cpu.gpr["rdx"]
          /\ cpu.ip = 13 => cpu'.gpr["rdi"] = cpu.gpr["rax"] /\ cpu'.gpr["r9"] = cpu.gpr["r9"]
          /\ cpu.ip = 18 => cpu'.gpr["rdi"] = cpu.gpr["rax"]
      BY <1>2, <1>3, <2>2, InjectOperands
    <2> QED  BY <1>1, <1>2, <2>2, <2>3
  <1>7. CASE ExecLoad
    <2>1. Executing("load")
      BY <1>7 DEF ExecLoad
    <2>2. /\ cpu.at = "inject" /\ cpu.ip \in {14, 22} /\ cpu'.ip = cpu.ip + 1
          /\ cpu'.gpr = [cpu.gpr EXCEPT !["rsi"] = Instruction.val]
          /\ cpu'.sp = cpu.sp /\ stack' = stack
      BY <1>7, <2>1, Decoded, Effects, InjectOps, InjectOperands
    <2>3. \A r \in {"rdi", "r9", "rax"} : cpu'.gpr[r] = cpu.gpr[r]
      BY <1>2, <1>3, <2>2
    <2> QED  BY <1>1, <1>2, <2>2, <2>3
  <1>8. CASE ExecInt3
    <2>1. Executing("int3")
      BY <1>8 DEF ExecInt3
    <2>2. /\ cpu.at = "inject" /\ cpu.ip \in {9, 17, 23, 27} /\ cpu'.ip = cpu.ip + 1
          /\ cpu'.gpr = cpu.gpr /\ cpu'.sp = cpu.sp /\ stack' = stack
      BY <1>8, <2>1, Decoded, Effects, InjectOps
    <2>3. cpu.ip = 9 => stage # "dlopen"
      BY <2>2 DEF PositionInv
    <2> QED  BY <1>1, <2>2, <2>3
  <1> QED  BY <1>4, <1>5, <1>6, <1>7, <1>8

(* Which function is called, at each of the calls.                            *)
LEMMA Called ==
  ASSUME TypeOK, FrameInv, InjectRegs, EjectRegs, Calling
  PROVE  /\ run = "running" /\ cpu.at \in Routines
         /\ cpu'.at = cpu.at /\ cpu'.ip = cpu.ip + 1 /\ cpu'.sp = cpu.sp
         /\ cpu'.gpr["rdi"] = "junk" /\ stack' = stack /\ kernelVars' = kernelVars
         /\ cpu.at = "inject" => cpu.ip \in {7, 15, 24}
         /\ cpu.at = "inject" /\ cpu.ip = 7  => CallMalloc
         /\ cpu.at = "inject" /\ cpu.ip = 15 => CallDlopen
         /\ cpu.at = "inject" /\ cpu.ip = 24 => Reg("rdi") # "buffer"
         /\ cpu.at = "eject" => cpu.ip = 5 /\ CallDlclose
  <1>1. Executing("call") /\ stack' = stack /\ kernelVars' = kernelVars
    BY DEF Calling, CallMalloc, CallDlopen, CallDlclose, CallFree, Calls, memoryVars
  <1>2. \E rax : Returns(rax)
    BY DEF Calling, CallMalloc, CallDlopen, CallDlclose, CallFree
  <1>3. cpu'.at = cpu.at /\ cpu'.ip = Next_ip /\ cpu'.sp = cpu.sp /\ cpu'.gpr["rdi"] = "junk"
    BY <1>2, Effects
  <1>4. run = "running" /\ cpu.at \in Routines
    BY <1>1, Decoded
  <1>5. CASE cpu.at = "inject"
    <2>1. /\ cpu.ip \in {7, 15, 24} /\ Next_ip = cpu.ip + 1
          /\ Instruction = InjectSharedLibrary[cpu.ip]
      BY <1>1, <1>5, Decoded, InjectOps
    <2>2. cpu.ip = 7 => cpu.gpr[Instruction.reg] = "malloc"
      BY <1>5, <2>1, InjectOperands DEF InjectRegs, Reg
    <2>3. cpu.ip = 15 => cpu.gpr[Instruction.reg] = "dlopen"
      BY <1>5, <2>1, InjectOperands DEF InjectRegs, Reg
    <2>4. cpu.ip = 24 => Reg("rdi") # "buffer"
      BY <1>5 DEF InjectRegs
    <2> QED  BY <1>1, <1>3, <1>4, <1>5, <2>1, <2>2, <2>3, <2>4
             DEF Calling, CallMalloc, CallDlopen, CallDlclose, CallFree, Calls
  <1>6. CASE cpu.at = "eject"
    <2>1. cpu.ip = 5 /\ Next_ip = 6 /\ Instruction = EjectSharedLibrary[5]
      BY <1>1, <1>6, Decoded, EjectOps DEF MidPush
    <2>2. cpu.gpr[Instruction.reg] = "dlclose"
      BY <1>6, <2>1, EjectOperands DEF EjectRegs, Reg
    <2> QED  BY <1>1, <1>3, <1>4, <1>6, <2>1, <2>2
             DEF Calling, CallMalloc, CallDlopen, CallDlclose, CallFree, Calls
  <1> QED  BY <1>4, <1>5, <1>6 DEF Routines

(* The library that the tracer's handle is of is open only before dlopen().   *)
LEMMA OpenedCalls ==
  ASSUME TypeOK, FrameInv, InjectRegs, EjectRegs, LibraryInv, Calling, cpu.at = "inject"
  PROVE  cpu.ip # 15 => lib' = lib
  <1>1. CASE CallMalloc \/ CallFree
    BY <1>1 DEF CallMalloc, CallFree
  <1>2. CASE CallDlopen
    <2>1. cpu.ip = 24 => Reg("rdi") # "buffer"
      BY Called
    <2>2. cpu.ip = 7 => ~Calls("dlopen")
      BY Decoded, InjectOperands DEF Calls, InjectRegs, Reg
    <2> QED  BY <1>2, <2>1, <2>2, Called DEF CallDlopen, Reg
  <1>3. CASE CallDlclose
    <2>1. cpu.ip = 24 => ~Live(handle)
      BY DEF LibraryInv, Opened, Live, TypeOK
    <2>2. cpu.ip = 7 => ~Calls("dlclose")
      BY Decoded, InjectOperands DEF Calls, InjectRegs, Reg
    <2> QED  BY <1>3, <2>1, <2>2, Called DEF CallDlclose
  <1> QED  BY <1>1, <1>2, <1>3 DEF Calling

(* dlopen() of what is not loaded: NULL and nothing, or the library.          *)
LEMMA OpenedLibrary ==
  ASSUME TypeOK, FrameInv, CallDlopen, lib.refs = 0
  PROVE  \/ cpu'.gpr["rax"] = "null" /\ lib' = lib
         \/ /\ cpu'.gpr["rax"] = "library" /\ cpu.gpr["rdi"] = "buffer" /\ named
            /\ lib' = [gen |-> lib.gen + 1, refs |-> 1]
  BY Effects DEF CallDlopen

LEMMA InjectRegsCall ==
  ASSUME TypeOK, FrameInv, InjectRegs, EjectRegs, PositionInv, LibraryInv, Calling
  PROVE  InjectRegs'
  <1> SUFFICES ASSUME cpu'.at = "inject" PROVE InjectRegs'
    BY DEF InjectRegs
  <1>1. /\ cpu.at = "inject" /\ cpu.ip \in {7, 15, 24} /\ cpu'.ip = cpu.ip + 1
        /\ cpu'.sp = cpu.sp /\ cpu'.gpr["rdi"] = "junk" /\ stack' = stack /\ stage' = stage
    BY Called, ExecSteps DEF tracerVars
  <1>2. CASE cpu.ip = 7
    <2>1. cpu'.gpr["rax"] \in {"null", "buffer"}
      BY <1>1, <1>2, Called, Effects DEF CallMalloc
    <2> QED  BY <1>1, <1>2, <2>1 DEF InjectRegs, Reg
  <1>3. CASE cpu.ip = 15
    <2>1. lib.refs = 0 /\ CallDlopen
      BY <1>1, <1>3, Called DEF LibraryInv
    <2>2. cpu'.gpr["rax"] = IF lib'.refs = 1 THEN "library" ELSE "null"
      BY <2>1, OpenedLibrary
    <2> QED  BY <1>1, <1>3, <2>2 DEF InjectRegs, Reg
  <1>4. CASE cpu.ip = 24
    BY <1>1, <1>4 DEF InjectRegs, Reg
  <1> QED  BY <1>1, <1>2, <1>3, <1>4

(* The tracer's steps and the kernel's.                                       *)
LEMMA InjectRegsStep ==
  ASSUME TypeOK, FrameInv, ContextInv, InjectRegs, EjectRegs, PositionInv, LibraryInv,
         [Next]_vars
  PROVE  InjectRegs'
  <1> SUFFICES ASSUME cpu'.at = "inject" PROVE InjectRegs'
    BY DEF InjectRegs
  <1>1. CASE QuietStep
    <2>1. UNCHANGED <<cpu, stack, lib>>
      BY <1>1, QuietSteps, QuietStages
    <2>2. CASE UNCHANGED <<stage, named>>
      BY <2>1, <2>2 DEF InjectRegs, Reg
    <2>3. CASE InjectFuncMain
      BY <2>1, <2>3 DEF InjectFuncMain, ContextInv, Idle, AppCpu
    <2>4. CASE MallocReturned
      <3>1. cpu.ip = 10 /\ Reg("rax") = "buffer" /\ named'
        BY <2>1, <2>4 DEF MallocReturned, PositionInv, After, InjectRegs, Reg
      <3> QED  BY <2>1, <3>1 DEF InjectRegs, Reg
    <2>5. CASE stage' = "free" /\ named' = named
      BY <2>1, <2>5 DEF InjectRegs, Reg
    <2> QED  BY <1>1, <2>2, <2>3, <2>4, <2>5, QuietStages
  <1>2. CASE SetRegs
    <2>1. cpu'.ip \in {2, 3} /\ Routine = "inject"
      BY <1>2 DEF SetRegs, TypeOK, Cpus, OpenEntry, InjectOffset, Routine
    <2>2. /\ cpu'.gpr["rdi"] = "malloc" /\ cpu'.gpr["rdx"] = "dlopen"
          /\ cpu'.gpr["rcx"] = "length"
      BY <1>2, <2>1 DEF SetRegs, TypeOK, Cpus, Arguments, Registers
    <2> QED  BY <2>1, <2>2 DEF InjectRegs, Reg
  <1>3. CASE RestoreRegs
    BY <1>3 DEF RestoreRegs, ContextInv, AppCpu
  <1>4. CASE RestartSyscall
    <2>1. /\ cpu.at = "inject" /\ cpu.ip \in {2, 3} /\ cpu'.ip \in {0, 1}
          /\ cpu'.gpr = cpu.gpr
      BY <1>4, RestartedEntry
    <2> QED  BY <2>1 DEF InjectRegs, Reg
  <1>5. ASSUME NEW s \in {"STOP", "OTHER", "SEGV"}, SignalStops(s) PROVE InjectRegs'
    BY <1>5, SignalSteps DEF InjectRegs, Reg, tracerVars, heapVars
  <1>6. CASE ExecPush \/ ExecPop \/ ExecMov \/ ExecLoad \/ ExecInt3
    BY <1>6, InjectRegsExec
  <1>7. CASE Calling
    BY <1>7, InjectRegsCall
  <1>8. CASE StrayAdd
    <2>1. /\ cpu'.at = cpu.at /\ cpu.ip = 0 /\ cpu'.ip = 3 /\ cpu'.gpr = cpu.gpr
          /\ stack' = stack
      BY <1>8 DEF StrayAdd, Wild, TypeOK, Cpus
    <2> QED  BY <2>1 DEF InjectRegs, Reg
  <1> QED  BY <1>1, <1>2, <1>3, <1>4, <1>5, <1>6, <1>7, <1>8, OtherSteps

(* In ejectSharedLibrary().                                                   *)
LEMMA EjectRegsStep ==
  ASSUME TypeOK, FrameInv, ContextInv, InjectRegs, EjectRegs, [Next]_vars
  PROVE  EjectRegs'
  <1> SUFFICES ASSUME cpu'.at = "eject" PROVE EjectRegs'
    BY DEF EjectRegs
  <1>a. cpu.gpr \in [Registers -> Values]
    BY DEF TypeOK, Cpus
  <1>b. {"rdi", "rcx", "r9"} \subseteq Registers
    BY DEF Registers
  <1>1. CASE QuietStep
    BY <1>1, QuietSteps DEF EjectRegs, Reg
  <1>2. CASE SetRegs
    <2>1. cpu'.ip = MidPush /\ Routine = "eject"
      BY <1>2 DEF SetRegs, TypeOK, Cpus, CloseEntry, Routine
    <2>2. cpu'.gpr["rdi"] = "dlclose" /\ cpu'.gpr["rcx"] = "handle"
      BY <1>2, <2>1 DEF SetRegs, TypeOK, Cpus, Arguments, Registers
    <2> QED  BY <2>1, <2>2 DEF EjectRegs, Reg, MidPush
  <1>3. CASE RestoreRegs
    BY <1>3 DEF RestoreRegs, ContextInv, AppCpu
  <1>4. CASE RestartSyscall
    BY <1>4, RestartedEntry DEF EjectRegs, Reg
  <1>5. ASSUME NEW s \in {"STOP", "OTHER", "SEGV"}, SignalStops(s) PROVE EjectRegs'
    BY <1>5, SignalSteps DEF EjectRegs, Reg
  <1>6. CASE ExecPush
    <2>1. Executing("push")
      BY <1>6 DEF ExecPush
    <2>2. cpu.at = "eject" /\ cpu'.ip \in {2, 3} /\ cpu'.gpr = cpu.gpr /\ cpu.ip \in {1, 2, 10}
      BY <1>6, <2>1, Decoded, Effects, EjectOps DEF MidPush
    <2> QED  BY <2>2 DEF EjectRegs, Reg, MidPush
  <1>7. CASE ExecPop
    <2>1. Executing("pop")
      BY <1>7 DEF ExecPop
    <2>2. cpu'.ip \in {7, 8}
      BY <1>7, <2>1, Decoded, Effects, EjectOps DEF MidPush
    <2> QED  BY <2>2 DEF EjectRegs, MidPush
  <1>8. CASE ExecMov
    <2>1. Executing("mov")
      BY <1>8 DEF ExecMov
    <2>2. /\ cpu.at = "eject" /\ cpu.ip \in {3, 4} /\ cpu'.ip = cpu.ip + 1
          /\ cpu'.gpr = [cpu.gpr EXCEPT ![EjectSharedLibrary[cpu.ip].reg]
                                          = cpu.gpr[EjectSharedLibrary[cpu.ip].src]]
      BY <1>8, <2>1, Decoded, Effects, EjectOps DEF MidPush
    <2>3. /\ cpu.ip = 3 => /\ cpu'.gpr["r9"] = cpu.gpr["rdi"]
                           /\ cpu'.gpr["rcx"] = cpu.gpr["rcx"]
          /\ cpu.ip = 4 => /\ cpu'.gpr["rdi"] = cpu.gpr["rcx"]
                           /\ cpu'.gpr["r9"] = cpu.gpr["r9"]
      BY <1>a, <1>b, <2>2, EjectOperands
    <2> QED  BY <2>2, <2>3 DEF EjectRegs, Reg, MidPush
  <1>9. CASE ExecLoad
    <2>1. Executing("load")
      BY <1>9 DEF ExecLoad
    <2>2. cpu.at = "eject" /\ cpu.ip \in 1 .. 10 /\ EjectSharedLibrary[cpu.ip].op = "load"
      BY <1>9, <2>1, Decoded, Effects DEF MidPush
    <2> QED  BY <2>2, EjectOps
  <1>10. CASE ExecInt3
    <2>1. Executing("int3")
      BY <1>10 DEF ExecInt3
    <2>2. cpu'.ip = 9
      BY <1>10, <2>1, Decoded, Effects, EjectOps DEF MidPush
    <2> QED  BY <2>2 DEF EjectRegs, MidPush
  <1>11. CASE Calling
    BY <1>11, Called DEF EjectRegs, MidPush
  <1>12. CASE StrayAdd
    BY <1>12 DEF StrayAdd, FrameInv, EjectFrame, TypeOK, Cpus, Wild
  <1> QED  BY <1>1, <1>2, <1>3, <1>4, <1>5, <1>6, <1>7, <1>8, <1>9, <1>10, <1>11, <1>12,
              OtherSteps

--------------------------------------------------------------------------------
(* Where the routine is.                                                      *)

(* An instruction leads to another of the same call; the INT 3 at its end     *)
(* stops the target.                                                          *)
LEMMA PositionExec ==
  ASSUME TypeOK, FrameInv, ContextInv, StoppedInv, InjectRegs, EjectRegs, PositionInv,
         ExecPush \/ ExecPop \/ ExecMov \/ ExecLoad \/ ExecInt3 \/ Calling
  PROVE  PositionInv'
  <1>1. UNCHANGED <<pc, stage, ok>>
    BY ExecSteps DEF tracerVars
  <1>2. PICK op \in {"push", "pop", "mov", "load", "int3", "call"} :
          Executing(op) /\ (ExecInt3 => op = "int3") /\ (~ExecInt3 => op # "int3")
    <2>1. CASE ExecInt3
      BY <2>1 DEF ExecInt3
    <2>2. CASE ~ExecInt3
      BY <2>2 DEF ExecPush, ExecPop, ExecMov, ExecLoad, Calling, CallMalloc, CallDlopen,
                  CallDlclose, CallFree, Calls
    <2> QED  BY <2>1, <2>2
  <1>3. run = "running"
    BY <1>2, Decoded
  <1>4. cpu'.at = cpu.at /\ cpu'.ip = Next_ip
    BY Effects DEF Calling, CallMalloc, CallDlopen, CallDlclose, CallFree
  <1>5. IF ExecInt3 THEN run' # "running" ELSE run' = run
    BY <1>3 DEF ExecPush, ExecPop, ExecMov, ExecLoad, ExecInt3, Calling, CallMalloc,
                CallDlopen, CallDlclose, CallFree, kernelVars
  <1>6. pc \notin {"save", "write", "cont", "returned", "checkloaded", "patch",
                   "restoreText", "restoreRegs"}
    BY <1>3 DEF StoppedInv, PtraceNeverFails
  <1>7. ASSUME pc = "sleep"
        PROVE  IF ExecInt3 THEN cpu'.ip = After[stage] ELSE cpu'.ip \in During[stage]
    <2>1. cpu.at = Routine /\ cpu.ip \in During[stage]
      BY <1>3, <1>7 DEF ContextInv, PositionInv
    <2>2. CASE stage = "dlclose"
      <3>1. cpu.at = "eject" /\ cpu.ip \in 1 .. 10 /\ EjectSharedLibrary[cpu.ip].op = op
            /\ Next_ip = IF cpu.ip = 10 THEN 3 ELSE cpu.ip + 1
        BY <1>2, <2>1, <2>2, Decoded DEF Routine, MidPush
      <3>2. cpu.ip # 9 /\ (op = "int3" <=> cpu.ip = 8)
        BY <2>1, <2>2, <3>1, EjectOps DEF During, MidPush, EjectSharedLibrary, Int3
      <3> QED  BY <1>2, <1>4, <2>2, <3>1, <3>2 DEF During, After, MidPush
    <2>3. CASE stage # "dlclose"
      <3>1. cpu.at = "inject" /\ cpu.ip \in 1 .. 27 /\ InjectSharedLibrary[cpu.ip].op = op
            /\ Next_ip = cpu.ip + 1
        BY <1>2, <2>1, <2>3, Decoded DEF Routine
      <3>2. op = "int3" <=> cpu.ip \in {9, 17, 23, 27}
        BY <3>1, InjectOps DEF InjectSharedLibrary, Int3
      <3>3. stage \in {"malloc", "dlopen", "free"}
        BY <2>3 DEF TypeOK
      <3> QED  BY <1>2, <1>4, <2>1, <3>1, <3>2, <3>3 DEF During, After
    <2> QED  BY <2>2, <2>3
  <1>8. cpu'.at = "inject" /\ stage = "dlopen" => cpu'.ip >= 10
    BY <1>2, <1>4, Decoded DEF PositionInv
  <1> QED  BY <1>1, <1>3, <1>5, <1>6, <1>7, <1>8 DEF PositionInv

LEMMA PositionStep ==
  ASSUME TypeOK, TypeOK', FrameInv, ContextInv, StoppedInv, InjectRegs, EjectRegs,
         PositionInv, [Next]_vars
  PROVE  PositionInv'
  <1>1. CASE ExecPush \/ ExecPop \/ ExecMov \/ ExecLoad \/ ExecInt3 \/ Calling
    BY <1>1, PositionExec
  <1>2. CASE SetRegs
    <2>1. /\ pc = "save" /\ pc' = "write" /\ stage' = stage /\ cpu'.at = Routine
          /\ cpu'.ip = IF Routine = "eject" THEN CloseEntry ELSE OpenEntry(InjectOffset)
      BY <1>2 DEF SetRegs, TypeOK, Cpus
    <2>2. stage \in {"malloc", "dlclose"}
      BY <2>1 DEF PositionInv
    <2>3. cpu'.ip \in Starts[stage]
      BY <2>1, <2>2 DEF Routine, CloseEntry, OpenEntry, InjectOffset, Starts
    <2> QED  BY <2>1, <2>2, <2>3 DEF PositionInv
  <1>3. CASE RestoreRegs
    <2>1. cpu'.at = "app" /\ pc' \in {"save", "detach", "prompt"}
          /\ (pc' = "save" => stage' = "malloc")
      BY <1>3 DEF RestoreRegs, ContextInv, AppCpu
    <2> QED  BY <2>1 DEF PositionInv
  <1>4. CASE RestartSyscall
    <2>1. /\ cpu.at \in Routines /\ cpu'.at = cpu.at /\ run' = run /\ run = "running"
          /\ cpu.at = "inject" => cpu.ip \in {2, 3} /\ cpu'.ip \in {0, 1}
          /\ cpu.at = "eject" => cpu.ip = 10 /\ cpu'.ip = 1
          /\ UNCHANGED <<pc, stage, ok>>
      BY <1>4, RestartedEntry, ExecSteps DEF RestartSyscall, tracerVars, MidPush
    <2>2. pc \notin {"save", "write", "cont", "returned", "checkloaded", "patch",
                     "restoreText", "restoreRegs"}
      BY <2>1 DEF StoppedInv, PtraceNeverFails
    <2>3. cpu.at = "inject" => stage # "dlopen"
      BY <2>1 DEF PositionInv
    <2>4. ASSUME pc = "sleep" PROVE cpu'.ip \in During[stage]
      <3>1. cpu.at = Routine /\ cpu.ip \in During[stage]
        BY <2>1, <2>4 DEF ContextInv, PositionInv
      <3> QED  BY <2>1, <2>3, <3>1 DEF During, Routine, TypeOK
    <2> QED  BY <2>1, <2>2, <2>3, <2>4 DEF PositionInv
  <1>5. ASSUME NEW s \in {"STOP", "OTHER", "SEGV"}, SignalStops(s) PROVE PositionInv'
    <2>1. /\ run = "running" /\ run' = "stopped" /\ sig' = s /\ UNCHANGED <<pc, stage, ok>>
          /\ cpu' = cpu \/ (cpu.at = "app" /\ cpu'.at = "app")
      BY <1>5, SignalSteps DEF tracerVars
    <2>2. pc \notin {"save", "write", "cont", "returned", "checkloaded", "patch",
                     "restoreText", "restoreRegs"}
      BY <2>1 DEF StoppedInv, PtraceNeverFails
    <2>3. pc = "sleep" => cpu.at # "app"
      BY DEF ContextInv, Routine
    <2> QED  BY <2>1, <2>2, <2>3 DEF PositionInv
  <1>6. CASE StrayAdd
    <2>1. /\ cpu'.at = cpu.at /\ cpu.ip = 0 /\ cpu'.ip = 3 /\ cpu.at # "app"
          /\ run = "running" /\ run' = run
      BY <1>6 DEF StrayAdd, Wild, TypeOK, Cpus, Fetching, kernelVars
    <2>2. UNCHANGED <<pc, stage, ok>>
      BY <1>6, ExecSteps DEF tracerVars
    <2>3. pc \notin {"save", "write", "cont", "returned", "checkloaded", "patch",
                     "restoreText", "restoreRegs"}
      BY <2>1 DEF StoppedInv, PtraceNeverFails
    <2>4. cpu.at = "inject" /\ stage # "dlopen"
      BY <2>1 DEF FrameInv, EjectFrame, PositionInv, TypeOK, Cpus, Routines, MidPush
    <2>5. ASSUME pc = "sleep" PROVE stage = "malloc"
      <3>1. stage # "dlclose" /\ cpu.ip \in During[stage]
        BY <2>1, <2>4, <2>5 DEF ContextInv, Routine, PositionInv
      <3> QED  BY <2>1, <2>4, <3>1 DEF During, TypeOK
    <2> QED  BY <2>1, <2>2, <2>3, <2>4, <2>5 DEF PositionInv, During
  <1>7. CASE Attached \/ InjectFuncMain \/ PtraceDetach \/ User
    <2>1. cpu' = cpu /\ cpu.at = "app"
          /\ pc' \in {"main", "save", "ready", "attach", "wait", "prompt"}
          /\ (pc' = "save" => stage' \in {"malloc", "dlclose"})
      BY <1>7 DEF Attached, InjectFuncMain, PtraceDetach, User, PtraceAttach,
              InjectUnderPtrace, PtraceLetgo, WaitReturns, ContextInv, Idle, AppCpu
    <2> QED  BY <2>1 DEF PositionInv
  <1>8. CASE Departure \/ GiveUp
    <2>1. cpu' = cpu /\ pc' \in {"gone", "gaveup"} /\ stage' = stage
      BY <1>8 DEF Departure, TracerKilled, Interrupt, GiveUp
    <2> QED  BY <2>1 DEF PositionInv
  <1>9. CASE WriteRoutine \/ PtraceCont \/ CheckTargetSig
    <2>1. cpu' = cpu /\ stage' = stage /\ ok' = ok
      BY <1>9 DEF WriteRoutine, PtraceCont, CheckTargetSig
    <2>2. /\ WriteRoutine => pc = "write" /\ pc' = "cont"
          /\ PtraceCont => pc = "cont" /\ pc' = "sleep" /\ run' = "running"
          /\ CheckTargetSig => pc = "sleep" /\ pc' = "returned" /\ run = "stopped"
                               /\ sig = "TRAP"
      BY DEF WriteRoutine, PtraceCont, CheckTargetSig
    <2>3. \A t \in {"malloc", "dlopen", "free", "dlclose"} : Starts[t] \subseteq During[t]
      BY DEF Starts, During, MidPush
    <2> QED  BY <1>9, <2>1, <2>2, <2>3 DEF PositionInv, TypeOK
  <1>10. CASE DlcloseReturned \/ MallocReturned \/ DlopenReturned \/ CallFailed
              \/ FreeReturned
    <2>1. cpu' = cpu /\ pc = "returned" /\ cpu.ip = After[stage]
      BY <1>10 DEF DlcloseReturned, MallocReturned, DlopenReturned, CallFailed, FreeReturned,
               PositionInv
    <2>2. CASE MallocReturned
      BY <2>1, <2>2 DEF MallocReturned, After, Starts, PositionInv
    <2>3. CASE DlopenReturned
      BY <2>1, <2>3 DEF DlopenReturned, PositionInv
    <2>4. CASE DlcloseReturned \/ CallFailed \/ FreeReturned
      BY <2>1, <2>4 DEF DlcloseReturned, CallFailed, FreeReturned, PositionInv
    <2> QED  BY <1>10, <2>2, <2>3, <2>4
  <1>11. CASE CheckLoaded \/ Patch
    <2>1. cpu' = cpu /\ cpu.ip = After["dlopen"] /\ stage = "dlopen"
      BY <1>11 DEF CheckLoaded, Patch, PositionInv, ContextInv
    <2>2. pc' \in {"patch", "cont"} /\ (pc' = "cont" => stage' = "free")
          /\ (pc' = "patch" => stage' = stage)
      BY <1>11 DEF CheckLoaded, Patch
    <2>3. cpu.ip = 18 /\ 18 \in Starts["free"]
      BY <2>1 DEF After, Starts
    <2> QED  BY <2>1, <2>2, <2>3 DEF PositionInv
  <1>12. CASE RestoreText
    BY <1>12 DEF RestoreText, PositionInv
  <1>13. CASE Halts \/ Faults \/ UNCHANGED vars
    <2>1. UNCHANGED <<cpu, pc, stage, ok>>
      BY <1>13 DEF Halts, Faults, vars, tracerVars
    <2>2. \/ run' = run /\ sig' = sig
          \/ run' \in {"halted", "dead"}
          \/ run' = "stopped" /\ sig' = "SEGV"
      BY <1>13 DEF Halts, Faults, vars, kernelVars
    <2> QED  BY <2>1, <2>2 DEF PositionInv
  <1> QED  BY <1>1, <1>2, <1>3, <1>4, <1>5, <1>6, <1>7, <1>8, <1>9, <1>10, <1>11, <1>12,
              <1>13, OtherSteps DEF QuietStep
--------------------------------------------------------------------------------
(* The library.                                                               *)

(* Only the call of dlopen() leads behind it, only that of dlclose() behind   *)
(* that.                                                                      *)
LEMMA StraightPositions ==
  ASSUME TypeOK, FrameInv,
         ExecPush \/ ExecPop \/ ExecMov \/ ExecLoad \/ ExecInt3 \/ StrayAdd \/ RestartSyscall
  PROVE  /\ cpu'.at = cpu.at /\ cpu.at \in Routines /\ run = "running"
         /\ cpu.at = "inject" => /\ cpu'.ip <= 15 => cpu.ip <= 15
                                 /\ cpu'.ip >= 16 => cpu.ip >= 16
                                 /\ cpu'.ip <= 18 => cpu.ip <= 18
         /\ cpu.at = "eject" /\ cpu'.ip \in 6 .. 9 => cpu.ip \in 6 .. 9
  <1>1. CASE RestartSyscall
    BY <1>1, RestartedEntry DEF RestartSyscall, MidPush
  <1>2. CASE StrayAdd
    <2>1. /\ cpu'.at = cpu.at /\ cpu.at \in Routines /\ run = "running" /\ cpu.ip = 0
          /\ cpu'.ip = 3
      BY <1>2 DEF StrayAdd, Fetching, TypeOK, Cpus, Wild
    <2> QED  BY <2>1
  <1>3. CASE ExecPush \/ ExecPop \/ ExecMov \/ ExecLoad \/ ExecInt3
    <2>1. PICK op \in {"push", "pop", "mov", "load", "int3"} : Executing(op)
      BY <1>3 DEF ExecPush, ExecPop, ExecMov, ExecLoad, ExecInt3
    <2>2. cpu'.at = cpu.at /\ cpu'.ip = Next_ip
      BY <1>3, Effects
    <2>3. /\ run = "running" /\ cpu.at \in Routines
          /\ cpu.at = "inject" =>
               /\ cpu.ip \in 1 .. 27 /\ cpu'.ip = cpu.ip + 1
               /\ InjectSharedLibrary[cpu.ip].op = op
          /\ cpu.at = "eject" =>
               /\ cpu.ip \in 1 .. 10 /\ cpu'.ip = IF cpu.ip = 10 THEN 3 ELSE cpu.ip + 1
               /\ EjectSharedLibrary[cpu.ip].op = op
      BY <2>1, <2>2, Decoded DEF MidPush
    <2>4. cpu.at = "inject" => cpu.ip # 15
      BY <2>1, <2>3 DEF InjectSharedLibrary, Call
    <2>5. cpu.at = "eject" => cpu.ip # 5
      BY <2>1, <2>3 DEF EjectSharedLibrary, Call
    <2>6. cpu.at = "inject" /\ cpu'.ip <= 18 => cpu.ip <= 18
      BY <2>3
    <2> QED  BY <2>2, <2>3, <2>4, <2>5, <2>6
  <1> QED  BY <1>1, <1>2, <1>3

LEMMA LibraryExec ==
  ASSUME TypeOK, TypeOK', FrameInv, LibraryInv,
         ExecPush \/ ExecPop \/ ExecMov \/ ExecLoad \/ ExecInt3 \/ StrayAdd \/ RestartSyscall
  PROVE  LibraryInv'
  <1>1. UNCHANGED <<lib, entry, handle, pc, stage, ok>>
    BY ExecSteps, StraightSteps DEF tracerVars
  <1>2. cpu.ip \in Nat /\ cpu'.ip \in Nat /\ cpu'.at = cpu.at
    BY StraightPositions DEF TypeOK, Cpus
  <1>3. cpu.at = "inject" => /\ cpu'.ip <= 15 => cpu.ip <= 15
                             /\ cpu'.ip >= 16 => cpu.ip >= 16
                             /\ cpu'.ip <= 18 => cpu.ip <= 18
    BY StraightPositions
  <1>4. cpu.at = "eject" /\ cpu'.ip \in 6 .. 9 => cpu.ip \in 6 .. 9
    BY StraightPositions
  <1>5. lib.refs = 1 => (Opened' <=> Opened)
    BY <1>2, <1>3 DEF Opened, LibraryInv
  <1> QED  BY <1>1, <1>2, <1>3, <1>4, <1>5 DEF LibraryInv, Opened

LEMMA LibraryCalls ==
  ASSUME TypeOK, FrameInv, ContextInv, StoppedInv, InjectRegs, EjectRegs, PositionInv,
         LibraryInv, Calling
  PROVE  LibraryInv'
  <1>1. /\ run = "running" /\ cpu.at \in Routines /\ cpu'.at = cpu.at /\ cpu'.ip = cpu.ip + 1
        /\ UNCHANGED <<entry, handle, pc, stage, ok>>
    BY Called, ExecSteps DEF tracerVars
  <1>2. pc \notin {"save", "cont", "returned", "checkloaded", "patch", "restoreText",
                   "restoreRegs"}
    BY <1>1 DEF StoppedInv, PtraceNeverFails
  <1>3. pc = "sleep" => cpu.ip \in During[stage]
    BY <1>1 DEF PositionInv
  <1>4. lib.gen \in Nat /\ lib.refs \in Nat /\ handle \in Nat /\ entry \in Nat
    BY DEF TypeOK
  <1>5. CASE cpu.at = "inject" /\ cpu.ip = 15
    <2>1. lib.refs = 0 /\ CallDlopen
      BY <1>5, Called DEF LibraryInv
    <2>2. pc = "sleep" => stage # "free"
      BY <1>3, <1>5 DEF During
    <2>3. \/ lib' = lib
          \/ lib' = [gen |-> lib.gen + 1, refs |-> 1]
      BY <2>1, OpenedLibrary
    <2> QED  BY <1>1, <1>2, <1>4, <1>5, <2>1, <2>2, <2>3 DEF LibraryInv, Opened
  <1>6. CASE cpu.at = "inject" /\ cpu.ip # 15
    <2>1. lib' = lib /\ cpu.ip \in {7, 24}
      BY <1>6, OpenedCalls, Called
    <2> QED  BY <1>1, <1>2, <1>6, <2>1 DEF LibraryInv, Opened
  <1>7. CASE cpu.at = "eject"
    <2>1. cpu.ip = 5 /\ CallDlclose
      BY <1>7, Called
    <2>2. pc = "sleep" => stage # "free"
      BY <1>7 DEF ContextInv, Routine
    <2>3. lib'.refs = 0 /\ lib'.gen = lib.gen
      <3>1. lib.refs = 1 => Live(handle)
        BY <1>4, <1>7 DEF LibraryInv, Opened, Live
      <3>2. lib.refs \in {0, 1}
        BY <1>4 DEF LibraryInv
      <3> QED  BY <2>1, <3>1, <3>2 DEF CallDlclose, Live, TypeOK
    <2> QED  BY <1>1, <1>2, <1>4, <1>7, <2>1, <2>2, <2>3 DEF LibraryInv, Opened
  <1> QED  BY <1>1, <1>5, <1>6, <1>7 DEF Routines

LEMMA LibraryStep ==
  ASSUME TypeOK, TypeOK', FrameInv, ContextInv, StoppedInv, InjectRegs, EjectRegs,
         PositionInv, LibraryInv, [Next]_vars
  PROVE  LibraryInv'
  <1>a. lib.gen \in Nat /\ lib.refs \in Nat /\ handle \in Nat /\ entry \in Nat
    BY DEF TypeOK
  <1>1. CASE ExecPush \/ ExecPop \/ ExecMov \/ ExecLoad \/ ExecInt3 \/ StrayAdd
             \/ RestartSyscall
    BY <1>1, LibraryExec
  <1>2. CASE Calling
    BY <1>2, LibraryCalls
  <1>3. ASSUME NEW s \in {"STOP", "OTHER", "SEGV"}, SignalStops(s) PROVE LibraryInv'
    <2>1. /\ UNCHANGED <<lib, entry, handle, pc, stage, ok>>
          /\ cpu' = cpu \/ (cpu.at = "app" /\ cpu'.at = "app")
      BY <1>3, SignalSteps DEF tracerVars, heapVars
    <2> QED  BY <2>1 DEF LibraryInv, Opened
  <1>4. CASE SetRegs
    <2>a. UNCHANGED <<lib, entry, handle, stage, ok>> /\ pc = "save" /\ pc' = "write"
      BY <1>4 DEF SetRegs, heapVars
    <2>b. /\ cpu'.at = Routine
          /\ cpu'.ip = IF Routine = "eject" THEN CloseEntry ELSE OpenEntry(InjectOffset)
      BY <1>4 DEF SetRegs, TypeOK, Cpus
    <2>1. /\ Routine = "inject" => cpu'.ip \in {2, 3}
          /\ Routine = "eject" => cpu'.ip = 10
      BY <2>b DEF OpenEntry, InjectOffset, CloseEntry, MidPush
    <2>2. cpu.at = "app"
      BY <2>a DEF ContextInv, AppCpu
    <2>3. Routine = "inject" => lib.refs = 0
      BY <2>a DEF PositionInv, LibraryInv, Routine
    <2> QED  BY <2>a, <2>b, <2>1, <2>2, <2>3 DEF LibraryInv, Opened, Routine
  <1>5. CASE RestoreRegs
    <2>1. /\ pc = "restoreRegs" /\ UNCHANGED <<lib, entry, ok>> /\ cpu'.at = "app"
          /\ pc' \in {"save", "detach", "prompt"}
      BY <1>5 DEF RestoreRegs, ContextInv, AppCpu, heapVars
    <2>2. cpu.at = Routine /\ cpu.ip = After[stage]
      BY <2>1 DEF ContextInv, PositionInv
    <2>3. CASE stage = "dlclose" /\ ok
      <3>1. handle' = handle /\ cpu.at = "eject" /\ cpu.ip = 9
        BY <1>5, <2>2, <2>3 DEF RestoreRegs, Routine, After
      <3>2. lib.refs = 0
        BY <3>1 DEF LibraryInv
      <3> QED  BY <2>1, <3>1, <3>2 DEF LibraryInv, Opened
    <2>4. CASE ~ (stage = "dlclose" /\ ok)
      <3>1. handle' = IF ok THEN lib.gen ELSE handle
        BY <1>5, <2>4 DEF RestoreRegs
      <3>2. ~ok => lib.refs = 0
        BY <2>1 DEF LibraryInv
      <3>3. pc' # "save"
        BY <1>5, <2>4 DEF RestoreRegs
      <3> QED  BY <1>a, <2>1, <3>1, <3>2, <3>3 DEF LibraryInv, Opened
    <2> QED  BY <2>3, <2>4
  <1>6. CASE InjectFuncMain
    <2>1. /\ UNCHANGED <<cpu, lib, entry, handle, ok>> /\ pc' = "save"
          /\ stage' = IF handle # 0 THEN "dlclose" ELSE "malloc"
      BY <1>6 DEF InjectFuncMain, heapVars
    <2>2. cpu.at = "app"
      BY <1>6 DEF InjectFuncMain, ContextInv, Idle, AppCpu
    <2>3. handle = 0 => lib.refs = 0
      BY <1>a, <2>2 DEF LibraryInv, Opened
    <2> QED  BY <2>1, <2>2, <2>3 DEF LibraryInv, Opened
  <1>7. CASE Attached \/ PtraceDetach \/ User \/ Departure \/ GiveUp \/ Halts \/ Faults
             \/ UNCHANGED vars
    <2>1. /\ UNCHANGED <<cpu, lib, entry, handle, stage, ok>>
          /\ pc' = pc \/ pc' \in {"main", "ready", "attach", "wait", "prompt", "gone", "gaveup"}
      BY <1>7 DEF Attached, PtraceDetach, User, PtraceAttach, InjectUnderPtrace, PtraceLetgo,
                  WaitReturns, Departure, TracerKilled, Interrupt, GiveUp, Halts, Faults, vars,
                  tracerVars, heapVars
    <2> QED  BY <2>1 DEF LibraryInv, Opened
  <1>8. CASE WriteRoutine \/ PtraceCont \/ CheckTargetSig \/ RestoreText
    <2>1. /\ UNCHANGED <<cpu, lib, entry, handle, stage, ok>>
          /\ \/ pc = "write" /\ pc' = "cont"
             \/ pc = "cont" /\ pc' = "sleep"
             \/ pc = "sleep" /\ pc' = "returned"
             \/ pc = "restoreText" /\ pc' = "restoreRegs"
      BY <1>8 DEF WriteRoutine, PtraceCont, CheckTargetSig, RestoreText, heapVars
    <2>2. pc = "write" => stage # "free"
      BY DEF PositionInv
    <2> QED  BY <2>1, <2>2 DEF LibraryInv, Opened
  <1>9. CASE DlcloseReturned \/ CallFailed \/ FreeReturned
    <2>1. /\ UNCHANGED <<cpu, lib, entry, handle, stage>> /\ pc = "returned"
          /\ pc' = "restoreText"
      BY <1>9 DEF DlcloseReturned, CallFailed, FreeReturned, heapVars
    <2>2. cpu.at = Routine /\ cpu.ip = After[stage]
      BY <2>1 DEF ContextInv, PositionInv
    <2>3. ~ok' => lib.refs = 0
      <3>1. CASE DlcloseReturned
        BY <2>2, <3>1 DEF DlcloseReturned, Routine, After, LibraryInv
      <3>2. CASE CallFailed
        <4>1. stage = "malloc" => lib.refs = 0
          BY <2>2 DEF Routine, After, LibraryInv
        <4>2. stage = "dlopen" => lib.refs = 0
          <5>1. stage = "dlopen" => cpu.at = "inject" /\ cpu.ip = 18
            BY <2>2 DEF Routine, After
          <5>2. Reg("rax") = "null"
            BY <3>2 DEF CallFailed, Reg
          <5>3. lib.refs \in {0, 1}
            BY <1>a DEF LibraryInv
          <5> QED  BY <5>1, <5>2, <5>3 DEF InjectRegs
        <4> QED  BY <3>2, <4>1, <4>2 DEF CallFailed
      <3>3. CASE FreeReturned
        BY <3>3 DEF FreeReturned
      <3> QED  BY <1>9, <3>1, <3>2, <3>3
    <2> QED  BY <2>1, <2>3 DEF LibraryInv, Opened
  <1>10. CASE MallocReturned
    <2>1. /\ UNCHANGED <<cpu, lib, entry, handle, ok>> /\ pc' = "cont" /\ stage' = "dlopen"
          /\ pc = "returned" /\ stage = "malloc"
      BY <1>10 DEF MallocReturned
    <2>2. cpu.ip = 10
      BY <2>1 DEF PositionInv, After
    <2> QED  BY <2>1, <2>2 DEF LibraryInv, Opened
  <1>11. CASE DlopenReturned
    <2>1. /\ UNCHANGED <<cpu, lib, entry, handle, stage, ok>> /\ pc' = "checkloaded"
          /\ pc = "returned" /\ stage = "dlopen" /\ Reg("rax") # "null"
      BY <1>11 DEF DlopenReturned, Reg, heapVars
    <2>2. cpu.at = "inject" /\ cpu.ip = 18
      BY <2>1 DEF ContextInv, Routine, PositionInv, After
    <2>3. lib.refs = 1
      BY <2>1, <2>2 DEF InjectRegs
    <2> QED  BY <2>1, <2>3 DEF LibraryInv, Opened
  <1>12. CASE CheckLoaded
    <2>1. /\ UNCHANGED <<cpu, lib, entry, handle, ok>> /\ pc = "checkloaded"
          /\ \/ pc' = "patch" /\ stage' = stage
             \/ ~PathFits /\ pc' = "cont" /\ stage' = "free"
      BY <1>12 DEF CheckLoaded, heapVars
    <2> QED  BY <2>1 DEF LibraryInv, Opened
  <1>13. CASE Patch
    <2>1. /\ UNCHANGED <<cpu, lib, handle, ok>> /\ pc = "patch" /\ pc' = "cont"
          /\ entry' = lib.gen /\ stage' = "free"
      BY <1>13 DEF Patch
    <2> QED  BY <1>a, <2>1 DEF LibraryInv, Opened
  <1> QED  BY <1>1, <1>2, <1>3, <1>4, <1>5, <1>6, <1>7, <1>8, <1>9, <1>10, <1>11, <1>12,
              <1>13, OtherSteps DEF QuietStep

--------------------------------------------------------------------------------
(* The report.                                                                *)

LEMMA ReportStep ==
  ASSUME TypeOK, ContextInv, PositionInv, LibraryInv, ReportInv, [Next]_vars
  PROVE  ReportInv'
  <1>1. CASE ExecPush \/ ExecPop \/ ExecMov \/ ExecLoad \/ ExecInt3 \/ StrayAdd
             \/ RestartSyscall \/ Calling
    <2>1. UNCHANGED <<pc, result, handle, entry>>
      BY <1>1, ExecSteps DEF tracerVars
    <2>2. ~Idle
      BY <1>1 DEF ExecPush, ExecPop, ExecMov, ExecLoad, ExecInt3, StrayAdd, RestartSyscall,
                  Calling, CallMalloc, CallDlopen, CallDlclose, CallFree, Calls, Executing,
                  Fetching, ContextInv, AppCpu
    <2> QED  BY <2>1, <2>2 DEF ReportInv, Idle
  <1>2. CASE \/ \E s \in {"STOP", "OTHER", "SEGV"} : SignalStops(s)
             \/ Halts \/ Faults \/ UNCHANGED vars
    <2>1. UNCHANGED <<pc, result, handle, entry, lib>>
      BY <1>2 DEF SignalStops, Halts, Faults, vars, tracerVars, heapVars
    <2> QED  BY <2>1 DEF ReportInv, Idle, Live
  <1>3. CASE Attached \/ PtraceDetach \/ User
    <2>1. Idle /\ UNCHANGED <<result, handle, entry, lib>> /\ pc' # "patch"
      BY <1>3 DEF Attached, PtraceDetach, User, PtraceAttach, InjectUnderPtrace, PtraceLetgo,
                  WaitReturns, heapVars, Idle
    <2> QED  BY <2>1 DEF ReportInv, Live
  <1>4. CASE RestoreRegs
    <2>1. pc = "restoreRegs" /\ UNCHANGED <<entry, lib, ok>> /\ pc' # "patch"
      BY <1>4 DEF RestoreRegs, heapVars
    <2>2. CASE stage = "dlclose" /\ ok
      BY <1>4, <2>1, <2>2 DEF RestoreRegs, ReportInv, Idle
    <2>3. CASE ~ (stage = "dlclose" /\ ok)
      <3>1. /\ handle' = IF ok THEN lib.gen ELSE handle
            /\ result' = IF ok THEN "zero" ELSE "three"
        BY <1>4, <2>3 DEF RestoreRegs
      <3>2. ok => lib.refs = 1 /\ lib.gen > 0 /\ (PathFits => entry = lib.gen)
        BY <2>1, <2>3 DEF PositionInv, LibraryInv
      <3> QED  BY <2>1, <3>1, <3>2 DEF ReportInv, Live, TypeOK
    <2> QED  BY <2>2, <2>3
  <1>5. CASE InjectFuncMain \/ SetRegs \/ WriteRoutine \/ PtraceCont \/ CheckTargetSig \/ GiveUp
             \/ DlcloseReturned \/ MallocReturned \/ DlopenReturned \/ CallFailed
             \/ FreeReturned \/ RestoreText \/ Departure
    <2>1. ~Idle' /\ entry' = entry /\ pc' # "patch"
      BY <1>5 DEF InjectFuncMain, SetRegs, WriteRoutine, PtraceCont, CheckTargetSig, GiveUp,
                  DlcloseReturned, MallocReturned, DlopenReturned, CallFailed, FreeReturned,
                  RestoreText, Departure, TracerKilled, Interrupt, heapVars, Idle
    <2> QED  BY <2>1 DEF ReportInv
  <1>6. CASE CheckLoaded \/ Patch
    BY <1>6 DEF CheckLoaded, Patch, ReportInv, Idle, heapVars
  <1> QED  BY <1>1, <1>2, <1>3, <1>4, <1>5, <1>6, OtherSteps DEF QuietStep

--------------------------------------------------------------------------------
(* The alignment of the calls.                                                *)

(* The stack pointer and the depth together are the same at each instruction. *)
LEMMA SamePlace ==
  ASSUME TypeOK, FrameInv, cpu.at = "inject",
         ExecPush \/ ExecPop \/ ExecMov \/ ExecLoad \/ ExecInt3 \/ Calling
  PROVE  /\ cpu.ip \in 1 .. 27 /\ cpu'.ip = cpu.ip + 1
         /\ cpu'.sp + InjectDepth[cpu'.ip] = cpu.sp + InjectDepth[cpu.ip]
  <1>1. PICK op \in {"push", "pop", "mov", "load", "int3", "call"} :
          /\ Executing(op)
          /\ cpu'.sp = cpu.sp + (IF op = "push" THEN -1 ELSE IF op = "pop" THEN 1 ELSE 0)
          /\ cpu'.ip = Next_ip
    <2>1. cpu.sp \in Int
      BY DEF TypeOK, Cpus, Slots
    <2>2. CASE ExecPush
      BY <2>1, <2>2, Effects DEF ExecPush
    <2>3. CASE ExecPop
      BY <2>1, <2>3, Effects DEF ExecPop
    <2>4. CASE ExecMov
      BY <2>1, <2>4, Effects DEF ExecMov
    <2>5. CASE ExecLoad
      BY <2>1, <2>5, Effects DEF ExecLoad
    <2>6. CASE ExecInt3
      BY <2>1, <2>6, Effects DEF ExecInt3
    <2>7. CASE Calling
      <3>1. Executing("call") /\ \E rax : Returns(rax)
        BY <2>7 DEF Calling, CallMalloc, CallDlopen, CallDlclose, CallFree, Calls
      <3> QED  BY <2>1, <3>1, Effects
    <2> QED  BY <2>2, <2>3, <2>4, <2>5, <2>6, <2>7
  <1>2. /\ cpu.ip \in 1 .. 27 /\ cpu'.ip = cpu.ip + 1
        /\ InjectSharedLibrary[cpu.ip].op = op
    BY <1>1, Decoded
  <1>3. /\ cpu.sp \in Int /\ cpu.ip \in 1 .. 28
        /\ InjectDepth[cpu.ip] \in 0 .. 4 /\ InjectDepth[cpu'.ip] \in 0 .. 4
    BY <1>2, DepthBounds DEF TypeOK, Cpus, Slots
  <1>4. InjectDepth[cpu'.ip] = InjectDepth[cpu.ip]
                               + (IF op = "push" THEN 1 ELSE IF op = "pop" THEN -1 ELSE 0)
    <2>1. /\ op = "push" => InjectDepth[cpu.ip + 1] = InjectDepth[cpu.ip] + 1
          /\ op = "pop" => InjectDepth[cpu.ip + 1] = InjectDepth[cpu.ip] - 1
          /\ op \notin {"push", "pop"} => InjectDepth[cpu.ip + 1] = InjectDepth[cpu.ip]
      BY <1>2, <1>3, InjectDepths
    <2> QED  BY <1>2, <1>3, <2>1
  <1> QED  BY <1>1, <1>2, <1>3, <1>4

LEMMA SkewStep ==
  ASSUME TypeOK, FrameInv, ContextInv, InjectRegs, EjectRegs, LibraryInv, SkewInv, [Next]_vars
  PROVE  SkewInv'
  <1> SUFFICES ASSUME cpu'.at = "inject" PROVE SkewInv'
    BY DEF SkewInv
  <1>1. CASE QuietStep
    <2>1. UNCHANGED <<cpu, aligned>> /\ misaligned' = misaligned
      BY <1>1, QuietSteps
      DEF QuietStep, Attached, InjectFuncMain, PtraceDetach, WriteRoutine, PtraceCont,
         CheckTargetSig, GiveUp, DlcloseReturned, MallocReturned, DlopenReturned,
         CallFailed, CheckLoaded, Patch, FreeReturned, RestoreText, User, PtraceAttach,
         InjectUnderPtrace, PtraceLetgo, WaitReturns, Departure, TracerKilled, Interrupt,
         Halts, Faults, vars
    <2> QED  BY <2>1 DEF SkewInv
  <1>2. CASE SetRegs
    <2>1. cpu'.ip = OpenEntry(InjectOffset)
      BY <1>2 DEF SetRegs, TypeOK, Cpus, Routine
    <2> QED  BY <2>1 DEF SkewInv, OpenEntry, InjectOffset
  <1>3. CASE RestoreRegs
    BY <1>3 DEF RestoreRegs, ContextInv, AppCpu
  <1>4. CASE RestartSyscall
    BY <1>4, RestartedEntry DEF SkewInv
  <1>5. CASE \E s \in {"STOP", "OTHER", "SEGV"} : SignalStops(s)
    BY <1>5, SignalSteps DEF SkewInv
  <1>6. CASE StrayAdd
    BY <1>6 DEF StrayAdd, SkewInv, TypeOK, Cpus
  <1>7. CASE ExecPush \/ ExecPop \/ ExecMov \/ ExecLoad \/ ExecInt3
    <2>1. cpu.at = "inject" /\ UNCHANGED <<aligned, misaligned>>
      BY <1>7, StraightPositions, StraightSteps, ExecSteps
    <2>2. cpu.ip \notin {7, 15}
      <3>1. PICK op \in {"push", "pop", "mov", "load", "int3"} : Executing(op)
        BY <1>7 DEF ExecPush, ExecPop, ExecMov, ExecLoad, ExecInt3
      <3>2. InjectSharedLibrary[cpu.ip].op # "call"
        BY <2>1, <3>1, Decoded
      <3> QED  BY <3>2 DEF InjectSharedLibrary, Call
    <2>3. /\ cpu.ip \in 1 .. 27 /\ cpu'.ip = cpu.ip + 1
          /\ cpu'.sp + InjectDepth[cpu'.ip] = cpu.sp + InjectDepth[cpu.ip]
      BY <1>7, <2>1, SamePlace
    <2>4. /\ cpu'.ip \in 16 .. 18 => cpu.ip \in 16 .. 18
          /\ cpu'.ip \in 8 .. 18 => cpu.ip \in 8 .. 18
      BY <2>2, <2>3
    <2> QED  BY <2>1, <2>3, <2>4 DEF SkewInv
  <1>8. CASE Calling
    <2>1. /\ cpu.at = "inject" /\ cpu.ip \in {7, 15, 24} /\ cpu'.ip = cpu.ip + 1
          /\ cpu'.sp = cpu.sp /\ aligned' = aligned
      BY <1>8, Called, ExecSteps
    <2>2. cpu.sp \in -4 .. 2
      BY DEF TypeOK, Cpus, Slots
    <2>3. CASE cpu.ip = 7
      <3>1. "malloc" \in misaligned' <=> ~(aligned <=> cpu.sp % 2 = 0)
        BY <1>8, <2>1, <2>3, Called DEF CallMalloc, NoteAlignment, StackAligned
      <3>2. InjectDepth[8] = 4 /\ cpu'.ip = 8
        BY <2>1, <2>3 DEF InjectDepth
      <3>3. (cpu.sp + 4) % 2 = 0 <=> cpu.sp % 2 = 0
        BY <2>2
      <3> QED  BY <2>1, <3>1, <3>2, <3>3 DEF SkewInv
    <2>4. CASE cpu.ip = 15
      <3>1. /\ "dlopen" \in misaligned' <=> ~(aligned <=> cpu.sp % 2 = 0)
            /\ "malloc" \in misaligned' <=> "malloc" \in misaligned
        BY <1>8, <2>1, <2>4, Called DEF CallDlopen, NoteAlignment, StackAligned
      <3>2. InjectDepth[15] = 3 /\ InjectDepth[16] = 3 /\ cpu'.ip = 16
        BY <2>1, <2>4 DEF InjectDepth
      <3>3. (cpu.sp + 3) % 2 = 0 <=> ~(cpu.sp % 2 = 0)
        BY <2>2
      <3> QED  BY <2>1, <2>4, <3>1, <3>2, <3>3 DEF SkewInv
    <2>5. CASE cpu.ip = 24
      BY <2>1, <2>5 DEF SkewInv
    <2> QED  BY <2>1, <2>3, <2>4, <2>5
  <1> QED  BY <1>1, <1>2, <1>3, <1>4, <1>5, <1>6, <1>7, <1>8, OtherSteps

--------------------------------------------------------------------------------
(* Theorems.                                                                  *)

LEMMA InitSwap == Init => SwapInv
  <1> SUFFICES ASSUME Init PROVE SwapInv
    OBVIOUS
  <1>1. cpu.at = "app" /\ pc \in {"ready", "wait"} /\ lib = [gen |-> 0, refs |-> 0]
        /\ handle = 0 /\ entry = 0 /\ result = "none"
    BY DEF Init, AppCpu
  <1> QED  BY <1>1 DEF SwapInv, InjectRegs, EjectRegs, PositionInv, LibraryInv, ReportInv, SkewInv

LEMMA NextSwap == IInv /\ SwapInv /\ [Next]_vars => (IInv /\ SwapInv)'
  <1> SUFFICES ASSUME IInv, SwapInv, [Next]_vars PROVE (IInv /\ SwapInv)'
    OBVIOUS
  <1>1. IInv' /\ TypeOK'
    BY NextIInv DEF IInv
  <1>2. InjectRegs' /\ EjectRegs'
    BY InjectRegsStep, EjectRegsStep DEF IInv, SwapInv
  <1>3. PositionInv' /\ LibraryInv'
    BY <1>1, PositionStep, LibraryStep DEF IInv, SwapInv
  <1>4. ReportInv' /\ SkewInv'
    BY ReportStep, SkewStep DEF IInv, SwapInv
  <1> QED  BY <1>1, <1>2, <1>3, <1>4 DEF SwapInv

LEMMA SwapInvariance == Spec => [](IInv /\ SwapInv)
  BY InitIInv, InitSwap, NextSwap, PTL DEF Spec

(* When inject_func() returns 0, the function's first bytes lead into the     *)
(* library whose handle it keeps, loaded: whatever failed before, as long as  *)
(* checkloaded() can find the library.                                        *)
THEOREM SuccessSwaps == ASSUME PathFits PROVE Spec => []SuccessMeansSwapped
  <1>1. IInv /\ SwapInv => SuccessMeansSwapped
    BY DEF SwapInv, ReportInv, SuccessMeansSwapped
  <1> QED  BY <1>1, SwapInvariance, PTL

(* A function left leading to an unloaded library was reported as a failure.  *)
THEOREM DanglingAlwaysReported == Spec => []DanglingReported
  <1>1. ASSUME IInv, SwapInv PROVE DanglingReported
    <2> SUFFICES ASSUME Idle, entry # 0, ~Live(entry) PROVE result = "three"
      BY DEF DanglingReported, Idle
    <2>1. PathFits /\ result # "none" /\ result # "zero"
      BY <1>1 DEF SwapInv, ReportInv, Live
    <2> QED  BY <1>1, <2>1 DEF IInv, TypeOK
  <1> QED  BY <1>1, SwapInvariance, PTL

(* The library never has two references.                                      *)
THEOREM NeverReferencedTwice == Spec => []OneReference
  <1>1. IInv /\ SwapInv => OneReference
    BY DEF SwapInv, LibraryInv, OneReference
  <1> QED  BY <1>1, SwapInvariance, PTL

(* The function's first bytes are replaced only while the target is stopped,  *)
(* by a jump into the library that is loaded.                                 *)
THEOREM PatchesLoaded == Spec => PatchOnlyLoaded
  <1>1. ASSUME IInv, SwapInv, [Next]_vars
        PROVE  [entry' # entry => run = "stopped" /\ Live(entry')]_vars
    <2> SUFFICES ASSUME entry' # entry PROVE run = "stopped" /\ Live(entry')
      OBVIOUS
    <2>1. Patch
      BY <1>1, OtherSteps, ExecSteps
      DEF SetRegs, RestoreRegs, SignalStops, QuietStep, Attached, InjectFuncMain, PtraceDetach,
         WriteRoutine, PtraceCont, CheckTargetSig, GiveUp, DlcloseReturned, MallocReturned,
         DlopenReturned, CallFailed, CheckLoaded, FreeReturned, RestoreText, User, PtraceAttach,
         InjectUnderPtrace, PtraceLetgo, WaitReturns, Departure, TracerKilled, Interrupt,
         Halts, Faults, vars, heapVars
    <2>2. run = "stopped"
      BY <1>1, <2>1 DEF Patch, IInv, StoppedInv, PtraceNeverFails
    <2>3. lib.refs = 1 /\ lib.gen > 0 /\ entry' = lib.gen
      BY <1>1, <2>1 DEF Patch, SwapInv, LibraryInv
    <2> QED  BY <2>2, <2>3 DEF Live
  <1> QED  BY <1>1, SwapInvariance, PTL DEF Spec, PatchOnlyLoaded

(* The target executes the routine that was written for it, from one of its   *)
(* instructions on.                                                           *)
THEOREM StubAlwaysInPlace == Spec => []StubInPlace
  <1>1. ASSUME IInv, SwapInv PROVE StubInPlace
    <2> SUFFICES ASSUME pc = "sleep", run = "running"
                 PROVE  /\ text = cpu.at /\ text = Routine
                        /\ IF cpu.ip = Wild THEN ~OffsetFits ELSE Instruction.op # "beyond"
      BY DEF StubInPlace
    <2>1. text = Routine /\ cpu.at = Routine /\ cpu.ip \in During[stage]
      BY <1>1 DEF IInv, ContextInv, SwapInv, PositionInv
    <2>2. ASSUME cpu.ip = Wild PROVE ~OffsetFits
      <3>1. cpu.at = "inject"
        BY <1>1, <2>1, <2>2 DEF IInv, FrameInv, EjectFrame, Wild, Routine
      <3>2. ~cpu.restart
        BY <1>1, <2>2, <3>1 DEF IInv, FrameInv, PendingRestart, OpenEntry, InjectOffset, Wild
      <3> QED  BY <1>1, <2>2, <3>1, <3>2 DEF IInv, FrameInv, FittingEntry
    <2>3. ASSUME cpu.ip # Wild PROVE Instruction.op # "beyond"
      <3>1. CASE Routine = "inject"
        <4>1. cpu.ip \in 1 .. 23
          BY <1>1, <2>1, <2>3, <3>1 DEF Routine, During, Wild, IInv, TypeOK
        <4> QED  BY <2>1, <3>1, <4>1 DEF Instruction, Code, InjectSharedLibrary, Push, Pop, Mov,
                                         Load, Call, Int3
      <3>2. CASE Routine = "eject"
        <4>1. cpu.ip \in 1 .. 8 \/ cpu.ip = 10
          BY <2>1, <3>2 DEF Routine, During, MidPush
        <4> QED  BY <2>1, <3>2, <4>1 DEF Instruction, Code, EjectSharedLibrary, Push, Pop, Mov,
                                         Call, Int3
      <3> QED  BY <3>1, <3>2 DEF Routine
    <2> QED  BY <2>1, <2>2, <2>3
  <1> QED  BY <1>1, SwapInvariance, PTL

(* Each call is of the function that the tracer waits for, with its argument. *)
THEOREM CallsAlwaysIntended == Spec => []CallsAsIntended
  <1>1. ASSUME IInv, SwapInv PROVE CallsAsIntended
    <2> SUFFICES ASSUME pc = "sleep", Executing("call")
                 PROVE  /\ cpu.gpr[Instruction.reg] = stage
                        /\ stage = "malloc"  => Reg("rdi") = "length"
                        /\ stage = "dlopen"  => Reg("rdi") = "buffer" /\ named
                        /\ stage = "dlclose" => Reg("rdi") = "handle"
      BY DEF CallsAsIntended, Reg
    <2>1. TypeOK /\ FrameInv /\ run = "running"
      BY <1>1, Decoded DEF IInv
    <2>2. cpu.at = Routine /\ cpu.ip \in During[stage]
      BY <1>1, <2>1 DEF IInv, ContextInv, SwapInv, PositionInv
    <2>3. CASE stage = "dlclose"
      <3>1. cpu.at = "eject" /\ cpu.ip = 5 /\ Instruction = EjectSharedLibrary[5]
        BY <2>1, <2>2, <2>3, Decoded, EjectOps DEF Routine, MidPush
      <3> QED  BY <1>1, <2>3, <3>1, EjectOperands DEF SwapInv, EjectRegs, Reg
    <2>4. CASE stage # "dlclose"
      <3>1. /\ cpu.at = "inject" /\ cpu.ip \in {7, 15, 24}
            /\ Instruction = InjectSharedLibrary[cpu.ip]
        BY <2>1, <2>2, <2>4, Decoded, InjectOps DEF Routine
      <3>2. \/ stage = "malloc" /\ cpu.ip = 7
            \/ stage = "dlopen" /\ cpu.ip = 15
        BY <2>1, <2>2, <2>4, <3>1 DEF During, TypeOK
      <3> QED  BY <1>1, <3>1, <3>2, InjectOperands DEF SwapInv, InjectRegs, Reg
    <2> QED  BY <2>3, <2>4
  <1> QED  BY <1>1, SwapInvariance, PTL

(* One of malloc() and __libc_dlopen_mode() is called on a stack that is not  *)
(* aligned, wherever the target was stopped.                                  *)
THEOREM OneCallSkewed == Spec => []OneSkewedCall
  <1>1. ASSUME IInv, SwapInv PROVE OneSkewedCall
    <2> SUFFICES ASSUME pc = "returned", stage = "dlopen"
                 PROVE  ("malloc" \in misaligned) # ("dlopen" \in misaligned)
      BY DEF OneSkewedCall
    <2>1. cpu.at = "inject" /\ cpu.ip = 18
      BY <1>1 DEF IInv, ContextInv, Routine, SwapInv, PositionInv, After
    <2> QED  BY <1>1, <2>1 DEF SwapInv, SkewInv
  <1> QED  BY <1>1, SwapInvariance, PTL

--------------------------------------------------------------------------------
(* Injection implements HotSwap.                                              *)

(* A step in which none of what HotSwap sees changes is hidden.               *)
LEMMA HiddenStep ==
  ASSUME Phase' = Phase, UNCHANGED <<lib, entry, handle, result>>
  PROVE  UNCHANGED Abstract!vars
  BY DEF Abstract!vars

(* The steps of the target between its stops: a call of dlopen() is a load,   *)
(* one of dlclose() an unload.                                                *)
LEMMA TargetImplements ==
  ASSUME IInv, SwapInv, ExecPush \/ ExecPop \/ ExecMov \/ ExecLoad \/ ExecInt3 \/ StrayAdd
                        \/ RestartSyscall \/ Calling
  PROVE  [Abstract!Next]_(Abstract!vars)
  <1> USE DEF IInv, SwapInv
  <1>1. UNCHANGED <<pc, entry, handle, result>>
    BY ExecSteps DEF tracerVars
  <1>2. cpu.at \in Routines /\ cpu'.at = cpu.at
    BY Called, StraightPositions
  <1>3. Phase' = Phase
    BY <1>1, <1>2 DEF Phase
  <1>4. Phase \in {"busy", "aborted"}
    BY <1>2 DEF ContextInv, Idle, AppCpu, Phase, Routines
  <1>5. lib.gen \in Nat /\ lib.refs \in {0, 1} /\ (lib.refs = 1 => lib.gen > 0)
    BY DEF TypeOK, LibraryInv
  <1>6. CASE lib' = lib
    BY <1>1, <1>3, <1>6, HiddenStep
  <1>7. CASE lib' # lib
    <2>1. Calling
      BY <1>7, StraightSteps
    <2>2. CASE cpu.at = "inject"
      <3>1. cpu.ip = 15 /\ lib.refs = 0 /\ CallDlopen
        BY <1>7, <2>1, <2>2, OpenedCalls, Called DEF LibraryInv
      <3>2. lib' = [gen |-> lib.gen + 1, refs |-> 1]
        BY <1>7, <3>1, OpenedLibrary
      <3>3. Abstract!Load
        BY <1>1, <1>3, <1>4, <1>5, <3>1, <3>2 DEF Abstract!Load
      <3> QED  BY <3>3 DEF Abstract!Next
    <2>3. CASE cpu.at = "eject"
      <3>1. CallDlclose
        BY <2>1, <2>3, Called
      <3>2. Live(handle) /\ lib' = [lib EXCEPT !.refs = @ - 1]
        BY <1>7, <3>1 DEF CallDlclose
      <3>3. /\ lib.refs = 1 /\ handle = lib.gen /\ lib'.refs = 0 /\ lib'.gen = lib.gen
            /\ lib.gen # 0
        BY <1>5, <3>2 DEF Live, TypeOK
      <3>4. Abstract!Unload
        BY <1>1, <1>3, <1>4, <3>3 DEF Abstract!Unload
      <3> QED  BY <3>4 DEF Abstract!Next
    <2> QED  BY <1>2, <2>2, <2>3 DEF Routines
  <1> QED  BY <1>6, <1>7

(* The end of an injection: the jump leads into the library, or no library is *)
(* left without a handle.                                                     *)
LEMMA ReturnImplements ==
  ASSUME IInv, SwapInv, PathFits, RestoreRegs
  PROVE  [Abstract!Next]_(Abstract!vars)
  <1> USE DEF IInv, SwapInv
  <1>1. pc = "restoreRegs" /\ UNCHANGED <<lib, entry, ok>> /\ Phase = "busy"
    BY DEF RestoreRegs, heapVars, Phase
  <1>2. cpu.at = Routine /\ cpu.ip = After[stage]
    BY <1>1 DEF ContextInv, PositionInv
  <1>3. CASE stage = "dlclose" /\ ok
    <2>1. pc' = "save" /\ UNCHANGED <<handle, result>>
      BY <1>3 DEF RestoreRegs
    <2>2. Phase' = "busy"
      BY <2>1 DEF Phase
    <2> QED  BY <1>1, <2>1, <2>2, HiddenStep
  <1>4. CASE ~ (stage = "dlclose" /\ ok)
    <2>1. /\ handle' = IF ok THEN lib.gen ELSE handle
          /\ result' = IF ok THEN "zero" ELSE "three"
          /\ pc' \in {"detach", "prompt"}
      BY <1>4 DEF RestoreRegs
    <2>2. Phase' = "idle"
      BY <2>1 DEF Phase
    <2>3. CASE ok
      <3>1. stage = "free"
        BY <1>1, <1>4, <2>3 DEF PositionInv
      <3>2. Opened
        BY <1>2, <3>1 DEF Opened, Routine, After
      <3>3. lib.refs = 1 /\ lib.gen > 0 /\ entry = lib.gen /\ handle < lib.gen
        BY <1>1, <3>1, <3>2 DEF LibraryInv
      <3>4. Abstract!Succeed
        BY <1>1, <2>1, <2>2, <2>3, <3>3 DEF Abstract!Succeed, TypeOK
      <3> QED  BY <3>4 DEF Abstract!Next
    <2>4. CASE ~ok
      <3>1. lib.refs = 0
        BY <1>1, <2>4 DEF LibraryInv
      <3>2. Abstract!Fail
        BY <1>1, <2>1, <2>2, <2>4, <3>1 DEF Abstract!Fail
      <3> QED  BY <3>2 DEF Abstract!Next
    <2> QED  BY <2>3, <2>4
  <1> QED  BY <1>3, <1>4

(* The steps that the library and the CPU have no part in.                    *)
LEMMA QuietImplements ==
  ASSUME IInv, SwapInv, QuietStep
  PROVE  [Abstract!Next]_(Abstract!vars)
  <1> USE DEF IInv, SwapInv
  <1>1. UNCHANGED <<cpu, lib>>
    BY QuietSteps, QuietStages
  <1>2. CASE Attached \/ InjectUnderPtrace
    <2>1. UNCHANGED <<entry, handle, result>> /\ pc \in {"attach", "prompt"} /\ pc' = "main"
      BY <1>2 DEF Attached, InjectUnderPtrace, heapVars
    <2>2. Phase = "idle" /\ Phase' = "busy"
      BY <2>1 DEF Phase
    <2>3. Abstract!Begin
      BY <1>1, <2>1, <2>2 DEF Abstract!Begin
    <2> QED  BY <2>3 DEF Abstract!Next
  <1>3. CASE PtraceDetach \/ PtraceAttach \/ PtraceLetgo \/ WaitReturns
    <2>1. /\ UNCHANGED <<entry, handle, result>>
          /\ pc \in {"ready", "wait", "prompt", "detach"}
          /\ pc' \in {"ready", "wait", "prompt", "attach"}
      BY <1>3 DEF PtraceDetach, PtraceAttach, PtraceLetgo, WaitReturns, heapVars
    <2>2. Phase' = Phase
      BY <2>1 DEF Phase
    <2> QED  BY <1>1, <2>1, <2>2, HiddenStep
  <1>4. CASE InjectFuncMain \/ WriteRoutine \/ PtraceCont \/ CheckTargetSig
             \/ DlcloseReturned \/ MallocReturned \/ DlopenReturned \/ CallFailed
             \/ CheckLoaded \/ FreeReturned \/ RestoreText
    <2>1. /\ UNCHANGED <<entry, handle, result>>
          /\ pc \in {"main", "write", "cont", "sleep", "returned", "checkloaded",
                     "restoreText"}
          /\ pc' \in {"save", "cont", "sleep", "returned", "checkloaded", "patch",
                      "restoreText", "restoreRegs"}
      BY <1>4 DEF InjectFuncMain, WriteRoutine, PtraceCont, CheckTargetSig, DlcloseReturned,
                  MallocReturned, DlopenReturned, CallFailed, CheckLoaded, FreeReturned,
                  RestoreText, heapVars
    <2>2. Phase' = Phase
      BY <2>1 DEF Phase
    <2> QED  BY <1>1, <2>1, <2>2, HiddenStep
  <1>5. CASE Patch
    <2>1. /\ UNCHANGED <<handle, result>> /\ pc = "patch" /\ pc' = "cont" /\ entry' = lib.gen
      BY <1>5 DEF Patch
    <2>2. Phase = "busy" /\ Phase' = "busy"
      BY <2>1 DEF Phase
    <2>3. cpu.at = "inject" /\ cpu.ip = 18 /\ stage = "dlopen"
      BY <2>1 DEF ContextInv, Routine, PositionInv, After
    <2>4. lib.refs = 1 /\ lib.gen > 0 /\ entry < lib.gen
      BY <2>1, <2>3 DEF LibraryInv
    <2>5. Abstract!Redirect
      BY <1>1, <2>1, <2>2, <2>4 DEF Abstract!Redirect, TypeOK
    <2> QED  BY <2>5 DEF Abstract!Next
  <1>6. CASE GiveUp \/ Departure
    <2>1. /\ UNCHANGED <<entry, handle, result>> /\ pc \notin {"gone", "gaveup"}
          /\ pc' \in {"gone", "gaveup"} /\ (GiveUp => pc = "sleep")
      BY <1>6 DEF GiveUp, Departure, TracerKilled, Interrupt, TracerAlive, heapVars
    <2>2. Phase' = IF cpu.at = "app" THEN "closed" ELSE "aborted"
      BY <1>1, <2>1 DEF Phase
    <2>3. CASE Phase = "idle"
      <3>1. cpu.at = "app"
        BY <2>1, <2>3 DEF Phase, ContextInv, Idle, AppCpu
      <3>2. Abstract!Leave
        BY <1>1, <2>1, <2>2, <2>3, <3>1 DEF Abstract!Leave
      <3> QED  BY <3>2 DEF Abstract!Next
    <2>4. CASE Phase # "idle"
      <3>1. Phase = "busy"
        BY <2>1, <2>4 DEF Phase
      <3>2. Abstract!Abort
        BY <1>1, <2>1, <2>2, <3>1 DEF Abstract!Abort
      <3> QED  BY <3>2 DEF Abstract!Next
    <2> QED  BY <2>3, <2>4
  <1>7. CASE Halts \/ Faults \/ UNCHANGED vars
    <2>1. UNCHANGED <<pc, entry, handle, result>>
      BY <1>7 DEF Halts, Faults, vars, tracerVars, heapVars
    <2>2. Phase' = Phase
      BY <1>1, <2>1 DEF Phase
    <2> QED  BY <1>1, <2>1, <2>2, HiddenStep
  <1> QED  BY <1>2, <1>3, <1>4, <1>5, <1>6, <1>7 DEF QuietStep, User

(* Every step of the protocol is one of HotSwap's, or hidden.                 *)
LEMMA StepImplements ==
  ASSUME IInv, SwapInv, PathFits, [Next]_vars
  PROVE  [Abstract!Next]_(Abstract!vars)
  <1>1. CASE QuietStep
    BY <1>1, QuietImplements
  <1>2. CASE SetRegs
    <2>1. pc = "save" /\ pc' = "write" /\ UNCHANGED <<lib, entry, handle, result>>
      BY <1>2 DEF SetRegs, heapVars
    <2>2. Phase' = Phase
      BY <2>1 DEF Phase
    <2> QED  BY <2>1, <2>2, HiddenStep
  <1>3. CASE RestoreRegs
    BY <1>3, ReturnImplements
  <1>4. ASSUME NEW s \in {"STOP", "OTHER", "SEGV"}, SignalStops(s)
        PROVE  [Abstract!Next]_(Abstract!vars)
    <2>1. /\ UNCHANGED <<pc, lib, entry, handle, result>>
          /\ cpu' = cpu \/ (cpu.at = "app" /\ cpu'.at = "app")
      BY <1>4, SignalSteps DEF tracerVars, heapVars
    <2>2. Phase' = Phase
      BY <2>1 DEF Phase
    <2> QED  BY <2>1, <2>2, HiddenStep
  <1>5. CASE ExecPush \/ ExecPop \/ ExecMov \/ ExecLoad \/ ExecInt3 \/ StrayAdd
             \/ RestartSyscall \/ Calling
    BY <1>5, TargetImplements
  <1> QED  BY <1>1, <1>2, <1>3, <1>4, <1>5, OtherSteps

(* The protocol implements HotSwap: with an injection seen as one busy phase, *)
(* each of its steps is a step of HotSwap or is hidden. (That an injection    *)
(* ends is left to TLC.)                                                      *)
THEOREM ImplementsSafety == ASSUME PathFits PROVE Spec => Abstract!Safety
  <1>1. Init => Abstract!Init
    <2> SUFFICES ASSUME Init PROVE Abstract!Init
      OBVIOUS
    <2>1. pc \in {"ready", "wait"} /\ lib.refs = 0 /\ lib.gen = 0 /\ entry = 0 /\ handle = 0
          /\ result = "none"
      BY DEF Init
    <2> QED  BY <2>1 DEF Abstract!Init, Phase
  <1>2. IInv /\ SwapInv /\ [Next]_vars => [Abstract!Next]_(Abstract!vars)
    BY StepImplements
  <1> QED  BY <1>1, <1>2, SwapInvariance, PTL DEF Spec, Abstract!Safety

================================================================================
