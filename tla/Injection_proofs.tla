--------------------------- MODULE Injection_proofs ----------------------------
(* Proofs about Injection, for every choice of tracers, restarted system      *)
(* calls and any number of injections: its type invariant, that every ptrace  *)
(* request of an injection finds the target stopped, that an injection puts   *)
(* text and registers back, and that a fitting inject_offset keeps the        *)
(* routines off the application's stack and memory.                           *)
EXTENDS Injection, TLAPS

--------------------------------------------------------------------------------
(* The inductive invariant.                                                   *)

(* How many words a routine entered at its first instruction has pushed       *)
(* before instruction i.                                                      *)
InjectDepth == << 0, 1, 2, 3, 4, 4, 4, 4, 3, 3, 2, 3, 3, 3, 3, 3, 2, 2, 2, 1,
                  2, 2, 2, 2, 2, 1, 0, 0 >>
EjectDepth == << 0, 1, 2, 2, 2, 2, 1, 0, 0, 0 >>

(* Where the stack pointer can be. It differs from the depth by the pushes    *)
(* the entry skipped: none, one or two.                                       *)
AppFrame == cpu.at = "app" => cpu.ip = 0 /\ cpu.sp = 0

InjectFrame ==
  cpu.at = "inject" =>
    /\ cpu.ip = Wild => cpu.sp = 0
    /\ cpu.ip # Wild => cpu.sp + InjectDepth[cpu.ip] \in 0 .. 2
    /\ cpu.ip = 1 => cpu.sp = 0
    /\ cpu.ip = 2 => cpu.sp <= 0

EjectFrame ==
  cpu.at = "eject" =>
    /\ cpu.ip \in 1 .. 10
    /\ cpu.sp + EjectDepth[cpu.ip] \in 0 .. 1
    /\ cpu.ip \in {1, MidPush} => cpu.sp = 0
    /\ cpu.ip = 2 => cpu.sp = -1

(* A restart is pending only at the entry, if it was pending at the stop.     *)
PendingRestart ==
  cpu.restart =>
    /\ atStop.restart
    /\ cpu.at = "inject" => cpu.ip = OpenEntry(InjectOffset) /\ cpu.sp = 0
    /\ cpu.at = "eject"  => cpu.ip = CloseEntry /\ cpu.sp = 0

(* With a fitting offset, the entry (after the restart) skips one push at     *)
(* most.                                                                      *)
FittingEntry ==
  (OffsetFits /\ cpu.at = "inject" /\ ~cpu.restart) =>
    cpu.ip # Wild /\ cpu.sp + InjectDepth[cpu.ip] <= 1

FrameInv == AppFrame /\ InjectFrame /\ EjectFrame /\ PendingRestart /\ FittingEntry

(* What pdlclose() and pdlopen() have saved and changed at each of their      *)
(* steps.                                                                     *)
ContextInv ==
  /\ atStop = AppCpu(atStop.restart)
  /\ Idle \/ pc = "save" => text = "app" /\ cpu = atStop
  /\ pc = "write" => text = "app" /\ cpu.at = Routine /\ oldregs = atStop
  /\ pc \in {"cont", "sleep", "returned", "checkloaded", "patch", "restoreText"} =>
       text = Routine /\ backup = "app" /\ cpu.at = Routine /\ oldregs = atStop
  /\ pc = "restoreRegs" => text = "app" /\ cpu.at = Routine /\ oldregs = atStop
  /\ pc \in {"checkloaded", "patch"} => stage = "dlopen"

StoppedInv == PtraceNeverFails /\ (pc = "prompt" => run = "stopped")

IInv == TypeOK /\ FrameInv /\ ContextInv /\ StoppedInv /\ AppMemoryIntact

--------------------------------------------------------------------------------
(* Lemmas about the routines' code.                                           *)

(* push and pop are the instructions that change the depth, by one word, also *)
(* where the next instruction is not in line.                                 *)
LEMMA InjectDepths ==
  ASSUME NEW i \in 1 .. 28, InjectSharedLibrary[i].op # "beyond"
  PROVE  /\ i + 1 \in 1 .. 28 /\ i + 1 # 1
         /\ InjectSharedLibrary[i].op = "push" =>
              InjectDepth[i + 1] = InjectDepth[i] + 1
         /\ InjectSharedLibrary[i].op = "pop" =>
              InjectDepth[i + 1] = InjectDepth[i] - 1 /\ i + 1 # 2
         /\ InjectSharedLibrary[i].op \notin {"push", "pop"} =>
              InjectDepth[i + 1] = InjectDepth[i] /\ i + 1 # 2
  BY DEF InjectSharedLibrary, InjectDepth, Push, Pop, Mov, Load, Call, Int3, Beyond

LEMMA EjectDepths ==
  ASSUME NEW i \in 1 .. 10, EjectSharedLibrary[i].op # "beyond"
  PROVE  LET j == Following("eject", i) IN
         /\ j \in 2 .. 9
         /\ j = 2 => i = 1
         /\ EjectSharedLibrary[i].op = "push" =>
              (EjectDepth[j] = EjectDepth[i] + 1 \/ (i = MidPush /\ j = 3))
         /\ EjectSharedLibrary[i].op = "pop" =>
              EjectDepth[j] = EjectDepth[i] - 1 /\ j # 2
         /\ EjectSharedLibrary[i].op \notin {"push", "pop"} =>
              EjectDepth[j] = EjectDepth[i] /\ j # 2
  BY DEF EjectSharedLibrary, EjectDepth, Push, Pop, Mov, Load, Call, Int3, Beyond,
         Following, MidPush

(* Depths are small, and no routine pushes at the depth of its entry twice.   *)
LEMMA DepthBounds ==
  /\ \A i \in 1 .. 28 : InjectDepth[i] \in 0 .. 4
  /\ \A i \in 1 .. 10 : EjectDepth[i] \in 0 .. 2
  /\ \A i \in 1 .. 28 : InjectSharedLibrary[i].op = "push" /\ InjectDepth[i] = 0 => i = 1
  /\ \A i \in 1 .. 28 : InjectSharedLibrary[i].op = "push" => InjectDepth[i] <= 3
  /\ \A i \in 1 .. 10 : EjectSharedLibrary[i].op = "push" => i \in {1, 2, MidPush}
  BY DEF InjectSharedLibrary, InjectDepth, EjectSharedLibrary, EjectDepth,
         Push, Pop, Mov, Load, Call, Int3, Beyond, MidPush

(* The operands are registers and values the model has.                       *)
LEMMA Operands ==
  ASSUME NEW r \in Routines, NEW i \in 1 .. 28, r = "eject" => i \in 1 .. 10
  PROVE  LET instruction == Code[r][i] IN
         /\ instruction.op \in {"push", "pop", "mov", "load", "call"} =>
              instruction.reg \in Registers
         /\ instruction.op = "mov" => instruction.src \in Registers
         /\ instruction.op = "load" => instruction.val \in Values
  BY DEF Routines, Code, InjectSharedLibrary, EjectSharedLibrary, Registers, Values,
         Push, Pop, Mov, Load, Call, Int3, Beyond

--------------------------------------------------------------------------------
(* Lemmas about single steps.                                                 *)

(* In the routine and not beyond its end, there is an instruction.            *)
LEMMA InstructionExists ==
  ASSUME TypeOK, FrameInv, NEW op, Executing(op)
  PROVE  /\ cpu.at \in Routines /\ cpu.ip \in 1 .. 28
         /\ cpu.at = "eject" => cpu.ip \in 1 .. 10
  BY DEF TypeOK, Cpus, Routines, FrameInv, EjectFrame, Executing, Fetching, Wild

(* Executing an instruction other than the last leads to one in the routine.  *)
LEMMA NextIp ==
  ASSUME TypeOK, FrameInv, NEW op, Executing(op), op # "beyond"
  PROVE  Next_ip \in 0 .. 28
  <1>1. cpu.at \in Routines /\ cpu.ip \in 1 .. 28 /\ (cpu.at = "eject" => cpu.ip \in 1 .. 10)
    BY InstructionExists
  <1>2. CASE cpu.at = "inject"
    BY <1>1, <1>2, InjectDepths DEF Next_ip, Following, Executing, Code
  <1>3. CASE cpu.at = "eject"
    BY <1>1, <1>3, EjectDepths DEF Next_ip, Executing, Code
  <1> QED  BY <1>1, <1>2, <1>3 DEF Routines

(* The stack pointer stays in the modelled slots over a push or a pop.        *)
LEMMA SpRange ==
  ASSUME TypeOK, FrameInv
  PROVE  /\ Executing("push") => cpu.sp - 1 \in Slots
         /\ Executing("pop") => cpu.sp + 1 \in Slots
  <1>1. ASSUME Executing("push") PROVE cpu.sp - 1 \in Slots
    <2>1. cpu.at \in Routines /\ cpu.ip \in 1 .. 28 /\ (cpu.at = "eject" => cpu.ip \in 1 .. 10)
      BY <1>1, InstructionExists
    <2>2. CASE cpu.at = "inject"
      <3>1. InjectDepth[cpu.ip] \in 0 .. 3
        BY <1>1, <2>1, <2>2, DepthBounds DEF Executing, Code
      <3>2. cpu.sp + InjectDepth[cpu.ip] \in 0 .. 2
        BY <2>1, <2>2 DEF FrameInv, InjectFrame, Wild
      <3> QED  BY <3>1, <3>2 DEF Slots, TypeOK, Cpus
    <2>3. CASE cpu.at = "eject"
      <3>1. EjectDepth[cpu.ip] \in 0 .. 2 /\ cpu.sp + EjectDepth[cpu.ip] \in 0 .. 1
        BY <2>1, <2>3, DepthBounds DEF FrameInv, EjectFrame
      <3> QED  BY <3>1 DEF Slots, TypeOK, Cpus
    <2> QED  BY <2>1, <2>2, <2>3 DEF Routines
  <1>2. ASSUME Executing("pop") PROVE cpu.sp + 1 \in Slots
    <2>1. cpu.at \in Routines /\ cpu.ip \in 1 .. 28 /\ (cpu.at = "eject" => cpu.ip \in 1 .. 10)
      BY <1>2, InstructionExists
    <2>2. CASE cpu.at = "inject"
      <3>1. InjectDepth[cpu.ip + 1] = InjectDepth[cpu.ip] - 1 /\ cpu.ip + 1 \in 1 .. 28
        BY <1>2, <2>1, <2>2, InjectDepths DEF Executing, Code
      <3>2. InjectDepth[cpu.ip + 1] \in 0 .. 4 /\ InjectDepth[cpu.ip] \in 0 .. 4
        BY <2>1, <3>1, DepthBounds
      <3>3. cpu.sp + InjectDepth[cpu.ip] \in 0 .. 2
        BY <2>1, <2>2 DEF FrameInv, InjectFrame, Wild
      <3> QED  BY <3>1, <3>2, <3>3 DEF Slots, TypeOK, Cpus
    <2>3. CASE cpu.at = "eject"
      <3>1. EjectDepth[cpu.ip] \in 0 .. 2 /\ cpu.sp + EjectDepth[cpu.ip] \in 0 .. 1
        BY <2>1, <2>3, DepthBounds DEF FrameInv, EjectFrame
      <3> QED  BY <3>1 DEF Slots, TypeOK, Cpus
    <2> QED  BY <2>1, <2>2, <2>3 DEF Routines
  <1> QED  BY <1>1, <1>2

(* What a call returns is a value, and its clobbers keep the CPU a CPU.       *)
LEMMA ReturnsType ==
  ASSUME TypeOK, FrameInv, Executing("call"), NEW rax \in Values, Returns(rax)
  PROVE  cpu' \in Cpus
  <1>1. Next_ip \in 0 .. 28
    BY NextIp
  <1> QED  BY <1>1 DEF Returns, TypeOK, Cpus, Values


LEMMA TypeStep ==
  ASSUME TypeOK, FrameInv, [Next]_vars
  PROVE  TypeOK'
  <1>1. CASE Attached
    BY <1>1 DEF TypeOK, Attached, PCs, kernelVars, memoryVars, heapVars
  <1>2. CASE InjectFuncMain
    BY <1>2 DEF TypeOK, InjectFuncMain, PCs, kernelVars, memoryVars, heapVars
  <1>3. CASE PtraceDetach
    <2>1. traced' \in BOOLEAN
      BY <1>3 DEF PtraceDetach
    <2> QED  BY <1>3, <2>1 DEF TypeOK, PtraceDetach, PCs, memoryVars, heapVars
  <1>4. CASE SetRegs
    <2>1. DOMAIN Arguments \subseteq Registers
          /\ \A r \in DOMAIN Arguments : Arguments[r] \in Values
      BY DEF Arguments, Registers, Values, Services
    <2> DEFINE first == IF Routine = "eject" THEN CloseEntry ELSE OpenEntry(InjectOffset)
               gpr == [r \in Registers |-> IF r \in DOMAIN Arguments THEN Arguments[r]
                                           ELSE cpu.gpr[r]]
    <2>a. gpr \in [Registers -> Values]
      BY <2>1 DEF TypeOK, Cpus
    <2>b. first \in 0 .. 28 /\ Routine \in Routines
      BY DEF Routine, Routines, CloseEntry, MidPush, OpenEntry, InjectOffset
    <2>c. cpu' = [cpu EXCEPT !.at = Routine, !.ip = first, !.gpr = gpr]
      BY <1>4 DEF SetRegs
    <2> HIDE DEF first, gpr
    <2>2. cpu' \in Cpus
      BY <2>a, <2>b, <2>c DEF TypeOK, Cpus
    <2> QED  BY <1>4, <2>2 DEF TypeOK, SetRegs, PCs, kernelVars, memoryVars, heapVars
  <1>5. CASE WriteRoutine
    BY <1>5 DEF TypeOK, WriteRoutine, PCs, Routine, Routines, kernelVars, heapVars
  <1>6. CASE PtraceCont
    BY <1>6 DEF TypeOK, PtraceCont, PCs, memoryVars, heapVars
  <1>7. CASE CheckTargetSig
    BY <1>7 DEF TypeOK, CheckTargetSig, PCs, kernelVars, memoryVars, heapVars
  <1>8. CASE GiveUp
    <2>1. traced' \in BOOLEAN
      BY <1>8 DEF GiveUp
    <2> QED  BY <1>8, <2>1 DEF TypeOK, GiveUp, PCs, memoryVars, heapVars
  <1>9. CASE DlcloseReturned
    BY <1>9 DEF TypeOK, DlcloseReturned, PCs, kernelVars, memoryVars, heapVars
  <1>10. CASE MallocReturned
    BY <1>10 DEF TypeOK, MallocReturned, PCs, kernelVars, memoryVars
  <1>11. CASE DlopenReturned
    BY <1>11 DEF TypeOK, DlopenReturned, PCs, kernelVars, memoryVars, heapVars
  <1>12. CASE CallFailed
    <2>1. ok' \in BOOLEAN
      BY <1>12 DEF CallFailed
    <2> QED  BY <1>12, <2>1 DEF TypeOK, CallFailed, PCs, kernelVars, memoryVars, heapVars
  <1>13. CASE CheckLoaded
    BY <1>13 DEF TypeOK, CheckLoaded, PCs, kernelVars, memoryVars, heapVars
  <1>14. CASE Patch
    BY <1>14 DEF TypeOK, Patch, PCs, kernelVars, memoryVars
  <1>15. CASE FreeReturned
    BY <1>15 DEF TypeOK, FreeReturned, PCs, kernelVars, memoryVars, heapVars
  <1>16. CASE RestoreText
    BY <1>16 DEF TypeOK, RestoreText, PCs, kernelVars, heapVars
  <1>17. CASE RestoreRegs
    BY <1>17 DEF TypeOK, RestoreRegs, PCs, kernelVars, memoryVars, heapVars
  <1>18. CASE User
    <2>1. CASE PtraceAttach
      BY <2>1 DEF TypeOK, PtraceAttach, PCs, memoryVars, heapVars
    <2>2. CASE InjectUnderPtrace
      BY <2>2 DEF TypeOK, InjectUnderPtrace, PCs, kernelVars, memoryVars, heapVars
    <2>3. CASE PtraceLetgo
      BY <2>3 DEF TypeOK, PtraceLetgo, PCs, memoryVars, heapVars
    <2>4. CASE WaitReturns
      BY <2>4 DEF TypeOK, WaitReturns, PCs, kernelVars, memoryVars, heapVars
    <2> QED  BY <1>18, <2>1, <2>2, <2>3, <2>4 DEF User
  <1>19. CASE TracerKilled
    <2>1. traced' \in BOOLEAN
      BY <1>19 DEF TracerKilled
    <2>2. run' \in {"running", "stopped", "halted", "dead"}
      BY <1>19 DEF TypeOK, TracerKilled
    <2> QED  BY <1>19, <2>1, <2>2 DEF TypeOK, TracerKilled, PCs, memoryVars, heapVars
  <1>20. CASE Interrupt
    <2>1. traced' \in BOOLEAN
      BY <1>20 DEF Interrupt
    <2> QED  BY <1>20, <2>1 DEF TypeOK, Interrupt, PCs, memoryVars, heapVars
  <1>21. ASSUME NEW s \in {"STOP", "OTHER", "SEGV"}, SignalStops(s) PROVE TypeOK'
    <2>1. \A r \in BOOLEAN : AppCpu(r) \in Cpus
      BY DEF AppCpu, Cpus, Slots, Values
    <2>2. cpu' \in Cpus /\ atStop' \in Cpus
      BY <1>21, <2>1, RestartAssumption DEF SignalStops, TypeOK
    <2>3. stack' \in [Slots -> Values] /\ data' \in {"intact", "damaged"}
      BY <1>21 DEF SignalStops, AppStack, Values, TypeOK
    <2>4. aligned' \in BOOLEAN /\ misaligned' \subseteq Services
      BY <1>21 DEF SignalStops, TypeOK
    <2> QED  BY <1>21, <2>2, <2>3, <2>4 DEF TypeOK, SignalStops, tracerVars, heapVars
  <1>22. CASE Halts
    <2>1. pendingStop' \in BOOLEAN
      BY <1>22 DEF Halts
    <2> QED  BY <1>22, <2>1 DEF TypeOK, Halts, tracerVars, memoryVars, heapVars
  <1>23. CASE RestartSyscall
    <2>1. TwoBytesBack(cpu.at, cpu.ip) \in 0 .. 28
      BY DEF TwoBytesBack, Wild
    <2>2. \A c \in Cpus, i \in 0 .. 28 :
            [c EXCEPT !.ip = i, !.restart = FALSE] \in Cpus
      BY DEF Cpus
    <2>3. cpu' \in Cpus
      BY <1>23, <2>1, <2>2 DEF TypeOK, RestartSyscall
    <2> QED  BY <1>23, <2>3 DEF TypeOK, RestartSyscall, tracerVars, kernelVars, memoryVars,
                                heapVars
  <1>24. CASE ExecPush
    <2>1. cpu.sp - 1 \in Slots /\ Next_ip \in 0 .. 28
      BY <1>24, SpRange, NextIp DEF ExecPush
    <2>2. Instruction.reg \in Registers
      BY <1>24, InstructionExists, Operands DEF ExecPush, Executing, Instruction
    <2>3. cpu' \in Cpus /\ stack' \in [Slots -> Values]
      BY <1>24, <2>1, <2>2 DEF ExecPush, TypeOK, Cpus
    <2> QED  BY <1>24, <2>3 DEF TypeOK, ExecPush, tracerVars, kernelVars, heapVars
  <1>25. CASE ExecPop
    <2>1. cpu.sp + 1 \in Slots /\ Next_ip \in 0 .. 28
      BY <1>25, SpRange, NextIp DEF ExecPop
    <2>2. Instruction.reg \in Registers
      BY <1>25, InstructionExists, Operands DEF ExecPop, Executing, Instruction
    <2>3. cpu' \in Cpus
      BY <1>25, <2>1, <2>2 DEF ExecPop, TypeOK, Cpus
    <2> QED  BY <1>25, <2>3 DEF TypeOK, ExecPop, tracerVars, kernelVars, memoryVars, heapVars
  <1>26. CASE ExecMov
    <2>1. Next_ip \in 0 .. 28
      BY <1>26, NextIp DEF ExecMov
    <2>2. Instruction.reg \in Registers /\ Instruction.src \in Registers
      BY <1>26, InstructionExists, Operands DEF ExecMov, Executing, Instruction
    <2>3. cpu' \in Cpus
      BY <1>26, <2>1, <2>2 DEF ExecMov, TypeOK, Cpus
    <2> QED  BY <1>26, <2>3 DEF TypeOK, ExecMov, tracerVars, kernelVars, memoryVars, heapVars
  <1>27. CASE ExecLoad
    <2>1. Next_ip \in 0 .. 28
      BY <1>27, NextIp DEF ExecLoad
    <2>2. Instruction.reg \in Registers /\ Instruction.val \in Values
      BY <1>27, InstructionExists, Operands DEF ExecLoad, Executing, Instruction
    <2>3. cpu' \in Cpus
      BY <1>27, <2>1, <2>2 DEF ExecLoad, TypeOK, Cpus
    <2> QED  BY <1>27, <2>3 DEF TypeOK, ExecLoad, tracerVars, kernelVars, memoryVars, heapVars
  <1>28. CASE ExecInt3
    <2>1. Next_ip \in 0 .. 28
      BY <1>28, NextIp DEF ExecInt3
    <2>2. cpu' \in Cpus
      BY <1>28, <2>1 DEF ExecInt3, TypeOK, Cpus
    <2> QED  BY <1>28, <2>2 DEF TypeOK, ExecInt3, tracerVars, memoryVars, heapVars
  <1>29. CASE CallMalloc
    <2>1. cpu' \in Cpus
      BY <1>29, ReturnsType DEF CallMalloc, Calls, Values
    <2>2. named' \in BOOLEAN
      BY <1>29 DEF CallMalloc, TypeOK
    <2>3. buffers' \in Int /\ misaligned' \subseteq Services
      BY <1>29 DEF CallMalloc, TypeOK, NoteAlignment, Services
    <2> QED  BY <1>29, <2>1, <2>2, <2>3 DEF TypeOK, CallMalloc, tracerVars, kernelVars,
                                            memoryVars
  <1>30. CASE CallDlopen
    <2>1. cpu' \in Cpus
      BY <1>30, ReturnsType DEF CallDlopen, Calls, Values
    <2> QED  BY <1>30, <2>1 DEF TypeOK, CallDlopen, NoteAlignment, Services, tracerVars,
                                kernelVars, memoryVars
  <1>31. CASE CallDlclose
    <2>1. cpu' \in Cpus
      BY <1>31, ReturnsType DEF CallDlclose, Calls, Values
    <2> QED  BY <1>31, <2>1 DEF TypeOK, CallDlclose, NoteAlignment, Services, Live, tracerVars,
                                kernelVars, memoryVars
  <1>32. CASE CallFree
    <2>1. cpu' \in Cpus
      BY <1>32, ReturnsType DEF CallFree, Calls, Values
    <2> QED  BY <1>32, <2>1 DEF TypeOK, CallFree, NoteAlignment, Services, tracerVars,
                                kernelVars, memoryVars
  <1>33. CASE Faults
    BY <1>33 DEF TypeOK, Faults, tracerVars, memoryVars, heapVars
  <1>34. CASE StrayAdd
    BY <1>34 DEF TypeOK, StrayAdd, Cpus, tracerVars, kernelVars, heapVars
  <1>35. CASE UNCHANGED vars
    BY <1>35 DEF TypeOK, vars, tracerVars, kernelVars, memoryVars, heapVars
  <1> QED
    BY <1>1, <1>2, <1>3, <1>4, <1>5, <1>6, <1>7, <1>8, <1>9, <1>10, <1>11, <1>12, <1>13,
       <1>14, <1>15, <1>16, <1>17, <1>18, <1>19, <1>20, <1>21, <1>22, <1>23, <1>24, <1>25,
       <1>26, <1>27, <1>28, <1>29, <1>30, <1>31, <1>32, <1>33, <1>34, <1>35
    DEF Next, Tracer, User, Departure, Kernel, Target, CallCrashes, StrayFetch

--------------------------------------------------------------------------------
(* The stack pointer.                                                         *)

(* The steps that leave the CPU and the application's memory alone.           *)
QuietStep ==
  \/ Attached \/ InjectFuncMain \/ PtraceDetach \/ WriteRoutine \/ PtraceCont
  \/ CheckTargetSig \/ GiveUp \/ DlcloseReturned \/ MallocReturned \/ DlopenReturned
  \/ CallFailed \/ CheckLoaded \/ Patch \/ FreeReturned \/ RestoreText
  \/ User \/ Departure \/ Halts \/ Faults \/ UNCHANGED vars

LEMMA QuietSteps ==
  ASSUME QuietStep
  PROVE  UNCHANGED <<client, cpu, atStop, stack, data, aligned>>
  BY DEF QuietStep, Attached, InjectFuncMain, PtraceDetach, WriteRoutine, PtraceCont,
         CheckTargetSig, GiveUp, DlcloseReturned, MallocReturned, DlopenReturned,
         CallFailed, CheckLoaded, Patch, FreeReturned, RestoreText, User, PtraceAttach,
         InjectUnderPtrace, PtraceLetgo, WaitReturns, Departure, TracerKilled, Interrupt,
         Halts, Faults, vars, tracerVars, memoryVars

(* The other steps.                                                           *)
Calling == CallMalloc \/ CallDlopen \/ CallDlclose \/ CallFree

LEMMA OtherSteps ==
  ASSUME [Next]_vars
  PROVE  \/ QuietStep
         \/ SetRegs \/ RestoreRegs \/ RestartSyscall
         \/ \E s \in {"STOP", "OTHER", "SEGV"} : SignalStops(s)
         \/ ExecPush \/ ExecPop \/ ExecMov \/ ExecLoad \/ ExecInt3 \/ Calling
         \/ StrayAdd
  BY DEF Next, Tracer, Kernel, Target, QuietStep, Calling, CallCrashes, StrayFetch

(* An instruction in the routine moves the stack pointer with the depth.      *)
LEMMA FrameAdvance ==
  ASSUME TypeOK, FrameInv, TypeOK', UNCHANGED <<client, atStop>>,
         NEW op, Executing(op), op # "beyond",
         cpu'.at = cpu.at, cpu'.ip = Next_ip, cpu'.restart = cpu.restart,
         cpu'.sp = cpu.sp + (IF op = "push" THEN -1 ELSE IF op = "pop" THEN 1 ELSE 0)
  PROVE  FrameInv'
  <1>1. /\ cpu.at \in Routines /\ cpu.ip \in 1 .. 28 /\ cpu.sp \in Int
        /\ cpu.at = "eject" => cpu.ip \in 1 .. 10
    BY InstructionExists DEF TypeOK, Cpus, Slots
  <1>2. ~cpu.restart /\ ~cpu'.restart
    BY DEF Executing, Fetching, TypeOK, Cpus
  <1>3. CASE cpu.at = "inject"
    <2>1. cpu'.ip = cpu.ip + 1 /\ InjectSharedLibrary[cpu.ip].op = op
      BY <1>3 DEF Next_ip, Following, Executing, Code
    <2>2. cpu'.ip \in 2 .. 28 /\ cpu'.sp + InjectDepth[cpu'.ip] = cpu.sp + InjectDepth[cpu.ip]
      <3>1. cpu.ip + 1 \in 2 .. 28
        BY <1>1, <2>1, InjectDepths
      <3>2. InjectDepth[cpu.ip + 1] \in 0 .. 4 /\ InjectDepth[cpu.ip] \in 0 .. 4
        BY <1>1, <3>1, DepthBounds
      <3>3. cpu'.sp + InjectDepth[cpu.ip + 1] = cpu.sp + InjectDepth[cpu.ip]
        <4>1. CASE op = "push"
          <5>1. InjectDepth[cpu.ip + 1] = InjectDepth[cpu.ip] + 1
            BY <1>1, <2>1, <4>1, InjectDepths
          <5>2. cpu'.sp = cpu.sp - 1
            BY <1>1, <4>1
          <5> QED  BY <1>1, <3>2, <5>1, <5>2
        <4>2. CASE op = "pop"
          <5>1. InjectDepth[cpu.ip + 1] = InjectDepth[cpu.ip] - 1
            BY <1>1, <2>1, <4>2, InjectDepths
          <5>2. cpu'.sp = cpu.sp + 1
            BY <1>1, <4>2
          <5> QED  BY <1>1, <3>2, <5>1, <5>2
        <4>3. CASE op \notin {"push", "pop"}
          BY <1>1, <2>1, <3>2, <4>3, InjectDepths
        <4> QED  BY <4>1, <4>2, <4>3
      <3> QED  BY <2>1, <3>1, <3>3
    <2>3. cpu'.ip = 2 => cpu'.sp <= 0
      <3> SUFFICES ASSUME cpu'.ip = 2 PROVE cpu'.sp <= 0
        OBVIOUS
      <3>1. cpu.ip = 1 /\ op = "push"
        BY <1>1, <2>1, InjectDepths
      <3> QED  BY <1>3, <3>1 DEF FrameInv, InjectFrame
    <2>4. InjectFrame'
      BY <1>1, <1>3, <2>2, <2>3 DEF FrameInv, InjectFrame, Wild
    <2>5. FittingEntry'
      BY <1>1, <1>2, <1>3, <2>2 DEF FrameInv, FittingEntry, OffsetFits, Wild
    <2> QED  BY <1>2, <1>3, <2>4, <2>5 DEF FrameInv, AppFrame, EjectFrame, PendingRestart
  <1>4. CASE cpu.at = "eject"
    <2>1. cpu'.ip = Following("eject", cpu.ip) /\ EjectSharedLibrary[cpu.ip].op = op
      BY <1>4 DEF Next_ip, Executing, Code
    <2>2. cpu'.ip \in 2 .. 9 /\ (cpu'.ip = 2 => cpu.ip = 1 /\ op = "push")
      BY <1>1, <1>4, <2>1, EjectDepths
    <2>3. EjectDepth[cpu'.ip] \in 0 .. 2 /\ EjectDepth[cpu.ip] \in 0 .. 2
      BY <1>1, <1>4, <2>2, DepthBounds
    <2>4. CASE cpu.ip = MidPush /\ cpu'.ip = 3 /\ op = "push"
      <3>1. cpu.sp = 0 /\ EjectDepth[3] = 2
        BY <1>4, <2>4 DEF FrameInv, EjectFrame, EjectDepth
      <3>2. EjectFrame'
        BY <1>4, <2>4, <3>1 DEF EjectFrame, MidPush
      <3> QED  BY <1>2, <1>4, <3>2 DEF FrameInv, AppFrame, InjectFrame, PendingRestart,
                                       FittingEntry
    <2>5. CASE ~ (cpu.ip = MidPush /\ cpu'.ip = 3 /\ op = "push")
      <3>1. cpu'.sp + EjectDepth[cpu'.ip] = cpu.sp + EjectDepth[cpu.ip]
        BY <1>1, <1>4, <2>1, <2>3, <2>5, EjectDepths
      <3>2. cpu'.ip = 2 => cpu'.sp = -1
        BY <1>4, <2>2 DEF FrameInv, EjectFrame
      <3>3. EjectFrame'
        BY <1>4, <2>2, <3>1, <3>2 DEF FrameInv, EjectFrame, MidPush
      <3> QED  BY <1>2, <1>4, <3>3 DEF FrameInv, AppFrame, InjectFrame, PendingRestart,
                                       FittingEntry
    <2> QED  BY <2>4, <2>5
  <1> QED  BY <1>1, <1>3, <1>4 DEF Routines

(* With a fitting offset, pushes happen at or below the application's stack   *)
(* pointer.                                                                   *)
LEMMA PushesBelow ==
  ASSUME TypeOK, FrameInv, OffsetFits, Executing("push")
  PROVE  cpu.sp <= 0
  <1>1. /\ cpu.at \in Routines /\ cpu.ip \in 1 .. 28 /\ cpu.sp \in Int
        /\ cpu.at = "eject" => cpu.ip \in 1 .. 10
    BY InstructionExists DEF TypeOK, Cpus, Slots
  <1>2. CASE cpu.at = "inject"
    <2>1. InjectSharedLibrary[cpu.ip].op = "push" /\ InjectDepth[cpu.ip] \in 0 .. 4
      BY <1>1, <1>2, DepthBounds DEF Executing, Code
    <2>2. cpu.sp + InjectDepth[cpu.ip] <= 1
      BY <1>1, <1>2 DEF FrameInv, FittingEntry, Executing, Fetching
    <2>3. InjectDepth[cpu.ip] = 0 => cpu.sp = 0
      BY <1>1, <1>2, <2>1, DepthBounds DEF FrameInv, InjectFrame
    <2> QED  BY <1>1, <2>1, <2>2, <2>3
  <1>3. CASE cpu.at = "eject"
    <2>1. cpu.ip \in {1, 2, MidPush}
      BY <1>1, <1>3, DepthBounds DEF Executing, Code
    <2> QED  BY <1>1, <1>3, <2>1 DEF FrameInv, EjectFrame
  <1> QED  BY <1>1, <1>2, <1>3 DEF Routines

(* An instruction other than push and pop leaves the stack pointer alone.     *)
LEMMA StraightFrame ==
  ASSUME TypeOK, FrameInv, TypeOK',
         ExecMov \/ ExecLoad \/ ExecInt3 \/ Calling
  PROVE  FrameInv'
  <1>1. UNCHANGED <<client, atStop>>
    BY DEF ExecMov, ExecLoad, ExecInt3, Calling, CallMalloc, CallDlopen, CallDlclose,
           CallFree, tracerVars
  <1>2. PICK op \in {"mov", "load", "int3", "call"} : Executing(op)
    BY DEF ExecMov, ExecLoad, ExecInt3, Calling, CallMalloc, CallDlopen, CallDlclose,
           CallFree, Calls
  <1>3. /\ cpu'.at = cpu.at /\ cpu'.ip = Next_ip
        /\ cpu'.restart = cpu.restart /\ cpu'.sp = cpu.sp
    BY DEF TypeOK, Cpus, ExecMov, ExecLoad, ExecInt3, Calling, CallMalloc, CallDlopen,
           CallDlclose, CallFree, Returns
  <1>4. cpu'.sp = cpu.sp + (IF op = "push" THEN -1 ELSE IF op = "pop" THEN 1 ELSE 0)
    BY <1>2, <1>3 DEF TypeOK, Cpus, Slots
  <1> QED  BY <1>1, <1>2, <1>3, <1>4, FrameAdvance

LEMMA FrameStep ==
  ASSUME TypeOK, FrameInv, ContextInv, TypeOK', [Next]_vars
  PROVE  FrameInv'
  <1>1. CASE QuietStep
    <2>1. UNCHANGED <<client, cpu, atStop>>
      BY <1>1, QuietSteps
    <2> QED  BY <2>1 DEF FrameInv, AppFrame, InjectFrame, EjectFrame, PendingRestart,
                         FittingEntry, OffsetFits, InjectOffset
  <1>2. CASE SetRegs
    <2>1. cpu = atStop /\ cpu.sp = 0
      BY <1>2 DEF SetRegs, ContextInv, AppCpu
    <2>2. /\ cpu'.at = Routine /\ cpu'.sp = 0 /\ cpu'.restart = cpu.restart
          /\ cpu'.ip = IF Routine = "eject" THEN CloseEntry ELSE OpenEntry(InjectOffset)
          /\ UNCHANGED <<client, atStop>>
      BY <1>2, <2>1 DEF SetRegs, TypeOK, Cpus
    <2>3. CASE Routine = "eject"
      BY <2>1, <2>2, <2>3 DEF FrameInv, AppFrame, InjectFrame, EjectFrame, PendingRestart,
           FittingEntry, CloseEntry, MidPush, EjectDepth
    <2>4. CASE Routine = "inject"
      <3>1. InjectDepth[2] = 1 /\ InjectDepth[3] = 2
        BY DEF InjectDepth
      <3>2. cpu'.ip = IF client = "demo1" THEN 3 ELSE 2
        BY <2>2, <2>4 DEF OpenEntry, InjectOffset
      <3>3. InjectFrame' /\ AppFrame' /\ EjectFrame'
        BY <2>2, <2>4, <3>1, <3>2 DEF InjectFrame, AppFrame, EjectFrame, Wild
      <3>4. PendingRestart'
        BY <2>1, <2>2, <2>4 DEF PendingRestart, InjectOffset
      <3>5. FittingEntry'
        <4>1. CASE client = "demo1"
          BY <2>1, <2>2, <4>1 DEF FittingEntry, OffsetFits
        <4>2. CASE client # "demo1"
          BY <2>2, <2>4, <3>1, <3>2, <4>2 DEF FittingEntry, Wild
        <4> QED  BY <4>1, <4>2
      <3> QED  BY <3>3, <3>4, <3>5 DEF FrameInv
    <2> QED  BY <2>3, <2>4 DEF Routine
  <1>3. CASE RestoreRegs
    <2>1. cpu' = atStop /\ UNCHANGED <<client, atStop>>
      BY <1>3 DEF RestoreRegs, ContextInv
    <2>2. atStop.at = "app" /\ atStop.ip = 0 /\ atStop.sp = 0
      BY DEF ContextInv, AppCpu
    <2> QED  BY <2>1, <2>2 DEF FrameInv, AppFrame, InjectFrame, EjectFrame, PendingRestart,
                               FittingEntry
  <1>4. CASE RestartSyscall
    <2>1. /\ cpu'.at = cpu.at /\ cpu'.sp = cpu.sp /\ ~cpu'.restart
          /\ cpu'.ip = TwoBytesBack(cpu.at, cpu.ip)
          /\ cpu.restart /\ cpu.at \in Routines /\ UNCHANGED <<client, atStop>>
      BY <1>4 DEF RestartSyscall, TypeOK, Cpus, tracerVars
    <2>2. atStop.restart /\ cpu.sp = 0
      BY <2>1 DEF FrameInv, PendingRestart, Routines
    <2>3. InjectDepth[1] = 0 /\ EjectDepth[1] = 0
      BY DEF InjectDepth, EjectDepth
    <2>4. CASE cpu.at = "eject"
      <3>1. cpu'.ip = 1
        BY <2>1, <2>4 DEF TwoBytesBack
      <3> QED  BY <2>1, <2>2, <2>3, <2>4, <3>1
               DEF FrameInv, AppFrame, InjectFrame, EjectFrame, PendingRestart, FittingEntry
    <2>5. CASE cpu.at = "inject"
      <3>1. cpu.ip = OpenEntry(InjectOffset)
        BY <2>1, <2>5 DEF FrameInv, PendingRestart
      <3>2. cpu'.ip = IF client = "demo1" THEN 1 ELSE Wild
        BY <2>1, <2>5, <3>1 DEF TwoBytesBack, OpenEntry, InjectOffset
      <3>3. InjectFrame' /\ AppFrame' /\ EjectFrame' /\ PendingRestart'
        BY <2>1, <2>2, <2>3, <2>5, <3>2
        DEF InjectFrame, AppFrame, EjectFrame, PendingRestart, Wild
      <3>4. FittingEntry'
        BY <2>1, <2>2, <2>3, <2>5, <3>2 DEF FittingEntry, OffsetFits, Wild
      <3> QED  BY <3>3, <3>4 DEF FrameInv
    <2> QED  BY <2>1, <2>4, <2>5 DEF Routines
  <1>5. ASSUME NEW s \in {"STOP", "OTHER", "SEGV"}, SignalStops(s) PROVE FrameInv'
    <2>1. CASE cpu.at = "app"
      <3>1. PICK r \in RestartAtStop : cpu' = AppCpu(r) /\ atStop' = AppCpu(r)
        BY <1>5, <2>1 DEF SignalStops
      <3> QED  BY <3>1 DEF FrameInv, AppFrame, InjectFrame, EjectFrame, PendingRestart,
                           FittingEntry, AppCpu
    <2>2. CASE cpu.at # "app"
      <3>1. UNCHANGED <<client, cpu, atStop>>
        BY <1>5, <2>2 DEF SignalStops, tracerVars
      <3> QED  BY <3>1 DEF FrameInv, AppFrame, InjectFrame, EjectFrame, PendingRestart,
                           FittingEntry, OffsetFits, InjectOffset
    <2> QED  BY <2>1, <2>2
  <1>6. CASE ExecPush
    <2>1. /\ Executing("push") /\ UNCHANGED <<client, atStop>>
          /\ cpu'.at = cpu.at /\ cpu'.ip = Next_ip /\ cpu'.restart = cpu.restart
          /\ cpu'.sp = cpu.sp + (-1)
      BY <1>6 DEF ExecPush, TypeOK, Cpus, Slots, tracerVars
    <2> QED  BY <2>1, FrameAdvance
  <1>7. CASE ExecPop
    <2>1. /\ Executing("pop") /\ UNCHANGED <<client, atStop>>
          /\ cpu'.at = cpu.at /\ cpu'.ip = Next_ip /\ cpu'.restart = cpu.restart
          /\ cpu'.sp = cpu.sp + 1
      BY <1>7 DEF ExecPop, TypeOK, Cpus, Slots, tracerVars
    <2> QED  BY <2>1, FrameAdvance
  <1>8. CASE ExecMov \/ ExecLoad \/ ExecInt3 \/ Calling
    BY <1>8, StraightFrame
  <1>9. CASE StrayAdd
    <2>1. /\ cpu'.at = cpu.at /\ cpu'.sp = cpu.sp /\ cpu'.ip = 3 /\ cpu'.restart = cpu.restart
          /\ cpu.ip = Wild /\ ~cpu.restart /\ cpu.at # "app" /\ UNCHANGED <<client, atStop>>
      BY <1>9 DEF StrayAdd, Fetching, TypeOK, Cpus, tracerVars
    <2>2. cpu.at = "inject" /\ cpu.sp = 0 /\ ~OffsetFits
      BY <2>1 DEF FrameInv, InjectFrame, EjectFrame, FittingEntry, Wild, TypeOK, Cpus, Routines
    <2>3. InjectDepth[3] = 2
      BY DEF InjectDepth
    <2> QED  BY <2>1, <2>2, <2>3 DEF FrameInv, AppFrame, InjectFrame, EjectFrame,
                                     PendingRestart, FittingEntry, OffsetFits, Wild
  <1> QED  BY <1>1, <1>2, <1>3, <1>4, <1>5, <1>6, <1>7, <1>8, <1>9, OtherSteps

LEMMA MemoryStep ==
  ASSUME TypeOK, FrameInv, AppMemoryIntact, [Next]_vars
  PROVE  AppMemoryIntact'
  <1>1. CASE QuietStep
    BY <1>1, QuietSteps DEF AppMemoryIntact, OffsetFits
  <1>2. CASE SetRegs \/ RestoreRegs \/ RestartSyscall \/ ExecPop \/ ExecMov \/ ExecLoad
             \/ ExecInt3 \/ Calling
    <2>1. UNCHANGED <<client, atStop, stack, data>>
      BY <1>2 DEF SetRegs, RestoreRegs, RestartSyscall, ExecPop, ExecMov, ExecLoad, ExecInt3,
                  Calling, CallMalloc, CallDlopen, CallDlclose, CallFree, tracerVars, memoryVars
    <2> QED  BY <2>1 DEF AppMemoryIntact, OffsetFits
  <1>3. ASSUME NEW s \in {"STOP", "OTHER", "SEGV"}, SignalStops(s) PROVE AppMemoryIntact'
    <2>1. CASE cpu.at = "app"
      BY <1>3, <2>1 DEF SignalStops, AppMemoryIntact, AppStack, Slots
    <2>2. CASE cpu.at # "app"
      BY <1>3, <2>2 DEF SignalStops, AppMemoryIntact, OffsetFits, tracerVars
    <2> QED  BY <2>1, <2>2
  <1>4. CASE ExecPush
    <2>1. UNCHANGED <<client, atStop, data>>
      BY <1>4 DEF ExecPush, tracerVars
    <2>2. ASSUME OffsetFits PROVE stack'[0] = stack[0] /\ stack'[1] = stack[1]
      <3>1. cpu.sp <= 0 /\ cpu.sp \in Int
        BY <1>4, <2>2, PushesBelow DEF ExecPush, TypeOK, Cpus, Slots
      <3> QED  BY <1>4, <3>1 DEF ExecPush, TypeOK, Slots
    <2> QED  BY <2>1, <2>2 DEF AppMemoryIntact, OffsetFits
  <1>5. CASE StrayAdd
    <2>1. UNCHANGED <<client, atStop>> /\ ~OffsetFits
      BY <1>5 DEF StrayAdd, Fetching, FrameInv, FittingEntry, EjectFrame, Wild, tracerVars,
                  TypeOK, Cpus, Routines
    <2> QED  BY <2>1 DEF AppMemoryIntact, OffsetFits
  <1> QED  BY <1>1, <1>2, <1>3, <1>4, <1>5, OtherSteps

--------------------------------------------------------------------------------
(* Text, registers and stops.                                                 *)

(* The target's own steps need it to run outside the application, and change  *)
(* neither the tracer's state nor the text.                                   *)
TargetStep == RestartSyscall \/ Target

LEMMA TargetSteps ==
  ASSUME TypeOK, TargetStep
  PROVE  /\ run = "running" /\ cpu.at # "app" /\ cpu'.at = cpu.at
         /\ UNCHANGED <<client, pc, stage, oldregs, backup, text, atStop>>
  <1>1. CASE RestartSyscall
    BY <1>1 DEF RestartSyscall, TypeOK, Cpus, tracerVars, memoryVars
  <1>2. CASE ExecPush \/ ExecPop \/ ExecMov \/ ExecLoad \/ ExecInt3
    BY <1>2 DEF ExecPush, ExecPop, ExecMov, ExecLoad, ExecInt3, Executing, Fetching,
                TypeOK, Cpus, tracerVars, memoryVars
  <1>3. CASE CallMalloc \/ CallDlopen \/ CallDlclose \/ CallFree
    BY <1>3 DEF CallMalloc, CallDlopen, CallDlclose, CallFree, Calls, Returns, Executing,
                Fetching, TypeOK, Cpus, tracerVars, memoryVars
  <1>4. CASE CallCrashes \/ StrayFetch
    BY <1>4 DEF CallCrashes, StrayFetch, Calls, Executing, Fetching, Faults, tracerVars,
                memoryVars
  <1>5. CASE StrayAdd
    BY <1>5 DEF StrayAdd, Fetching, TypeOK, Cpus, tracerVars
  <1> QED  BY <1>1, <1>2, <1>3, <1>4, <1>5 DEF TargetStep, Target

LEMMA ContextStep ==
  ASSUME TypeOK, ContextInv, [Next]_vars
  PROVE  ContextInv'
  <1> USE DEF Idle, ContextInv
  <1>1. CASE TargetStep
    BY <1>1, TargetSteps DEF Routine, AppCpu
  <1>2. ASSUME NEW s \in {"STOP", "OTHER", "SEGV"}, SignalStops(s) PROVE ContextInv'
    <2>1. UNCHANGED <<pc, stage, oldregs, backup, text>>
      BY <1>2 DEF SignalStops, tracerVars
    <2>2. CASE cpu.at = "app"
      <3>1. PICK r \in RestartAtStop : cpu' = AppCpu(r) /\ atStop' = AppCpu(r)
        BY <1>2, <2>2 DEF SignalStops
      <3>2. AppCpu(r).restart = r
        BY DEF AppCpu
      <3> QED  BY <2>1, <2>2, <3>1, <3>2 DEF Routine
    <2>3. CASE cpu.at # "app"
      <3>1. UNCHANGED <<cpu, atStop>>
        BY <1>2, <2>3 DEF SignalStops
      <3> QED  BY <2>1, <3>1 DEF Routine, AppCpu
    <2> QED  BY <2>2, <2>3
  <1>3. CASE Halts \/ UNCHANGED vars
    BY <1>3 DEF Halts, vars, tracerVars, memoryVars, Routine, AppCpu
  <1>4. CASE User
    BY <1>4 DEF User, PtraceAttach, InjectUnderPtrace, PtraceLetgo, WaitReturns, memoryVars,
                AppCpu
  <1>5. CASE Departure
    BY <1>5 DEF Departure, TracerKilled, Interrupt, AppCpu
  <1>6. CASE SetRegs
    BY <1>6 DEF SetRegs, TypeOK, Cpus, memoryVars, Routine, AppCpu
  <1>7. CASE Attached \/ InjectFuncMain \/ PtraceDetach
    BY <1>7 DEF Attached, InjectFuncMain, PtraceDetach, memoryVars, AppCpu
  <1>8. CASE WriteRoutine \/ RestoreText \/ PtraceCont \/ CheckTargetSig
    BY <1>8 DEF WriteRoutine, RestoreText, PtraceCont, CheckTargetSig, memoryVars, Routine,
                AppCpu
  <1>9. CASE GiveUp \/ DlcloseReturned \/ DlopenReturned \/ CallFailed \/ FreeReturned
    BY <1>9 DEF GiveUp, DlcloseReturned, DlopenReturned, CallFailed, FreeReturned, memoryVars,
                Routine, AppCpu
  <1>10. CASE MallocReturned \/ CheckLoaded \/ Patch
    <2>1. stage # "dlclose" => stage' # "dlclose"
      BY <1>10 DEF MallocReturned, CheckLoaded, Patch
    <2> QED  BY <1>10, <2>1 DEF MallocReturned, CheckLoaded, Patch, memoryVars, Routine, AppCpu
  <1>11. CASE RestoreRegs
    BY <1>11 DEF RestoreRegs, memoryVars, AppCpu
  <1> QED
    BY <1>1, <1>2, <1>3, <1>4, <1>5, <1>6, <1>7, <1>8, <1>9, <1>10, <1>11
    DEF Next, Tracer, Kernel, TargetStep

LEMMA StoppedStep ==
  ASSUME TypeOK, StoppedInv, [Next]_vars
  PROVE  StoppedInv'
  <1> USE DEF StoppedInv, PtraceNeverFails
  <1>1. CASE TargetStep
    BY <1>1, TargetSteps
  <1>2. ASSUME NEW s \in {"STOP", "OTHER", "SEGV"}, SignalStops(s) PROVE StoppedInv'
    BY <1>2 DEF SignalStops, tracerVars
  <1>3. CASE Halts \/ UNCHANGED vars
    BY <1>3 DEF Halts, vars, tracerVars, kernelVars
  <1>4. CASE User
    BY <1>4 DEF User, PtraceAttach, InjectUnderPtrace, PtraceLetgo, WaitReturns, kernelVars
  <1>5. CASE Departure
    BY <1>5 DEF Departure, TracerKilled, Interrupt
  <1>6. CASE Tracer
    BY <1>6 DEF Tracer, Attached, InjectFuncMain, PtraceDetach, SetRegs, WriteRoutine,
         PtraceCont, CheckTargetSig, GiveUp, DlcloseReturned, MallocReturned, DlopenReturned,
         CallFailed, CheckLoaded, Patch, FreeReturned, RestoreText, RestoreRegs, kernelVars
  <1> QED
    BY <1>1, <1>2, <1>3, <1>4, <1>5, <1>6 DEF Next, Kernel, TargetStep

--------------------------------------------------------------------------------
(* Theorems.                                                                  *)

LEMMA InitIInv == Init => IInv
  <1> SUFFICES ASSUME Init PROVE IInv
    OBVIOUS
  <1>1. AppCpu(FALSE) \in Cpus
    BY DEF AppCpu, Cpus, Slots, Values
  <1>2. \A r : AppCpu(r).restart = r /\ AppCpu(r).at = "app" /\ AppCpu(r).ip = 0
               /\ AppCpu(r).sp = 0
    BY DEF AppCpu
  <1>3. /\ ok \in BOOLEAN /\ pendingStop \in BOOLEAN /\ named \in BOOLEAN
        /\ traced \in BOOLEAN /\ aligned \in BOOLEAN
    BY DEF Init
  <1>a. client \in {"demo1", "ddb"} /\ pc \in PCs
    BY ClientsAssumption DEF Init, PCs
  <1>b. stack \in [Slots -> Values] /\ lib \in [gen : Nat, refs : Nat]
    BY DEF Init, AppStack, Values
  <1>c. backup \in {"app"} \cup Routines /\ text \in {"app"} \cup Routines
    BY DEF Init
  <1>d. oldregs \in Cpus /\ cpu \in Cpus /\ atStop \in Cpus
    BY <1>1 DEF Init
  <1>e. /\ stage \in {"dlclose", "malloc", "dlopen", "free"}
        /\ handle \in Nat /\ result \in {"none", "zero", "three"} /\ injections \in Nat
        /\ run \in {"running", "stopped", "halted", "dead"}
        /\ sig \in {"STOP", "TRAP", "SEGV", "OTHER"}
        /\ data \in {"intact", "damaged"} /\ entry \in Nat /\ buffers \in Int
        /\ misaligned \subseteq Services
    BY DEF Init
  <1>4. TypeOK
    BY <1>3, <1>a, <1>b, <1>c, <1>d, <1>e DEF TypeOK
  <1>5. FrameInv
    BY <1>2 DEF Init, FrameInv, AppFrame, InjectFrame, EjectFrame, PendingRestart,
                FittingEntry
  <1>6. ContextInv
    BY <1>2 DEF Init, ContextInv, Idle
  <1>7. StoppedInv /\ AppMemoryIntact
    BY DEF Init, StoppedInv, PtraceNeverFails, AppMemoryIntact, AppStack, Slots
  <1> QED  BY <1>4, <1>5, <1>6, <1>7 DEF IInv

LEMMA NextIInv == IInv /\ [Next]_vars => IInv'
  BY TypeStep, FrameStep, ContextStep, StoppedStep, MemoryStep DEF IInv

LEMMA Invariance == Spec => []IInv
  BY InitIInv, NextIInv, PTL DEF Spec

(* Every variable keeps its type: in particular, however the routines are     *)
(* entered, left and resumed, the stack pointer stays within four words below *)
(* and two above the application's.                                           *)
THEOREM TypeCorrectness == Spec => []TypeOK
  BY Invariance, PTL DEF IInv

(* pdlclose() and pdlopen() put text and registers back whichever way they    *)
(* end.                                                                       *)
THEOREM RestoredAlways == Spec => []Restored
  <1>1. IInv => Restored
    BY DEF IInv, ContextInv, Restored, AppCpu
  <1> QED  BY <1>1, Invariance, PTL

(* No ptrace() request of an injection is made of a running target.           *)
THEOREM PtraceAlwaysStopped == Spec => []PtraceNeverFails
  BY Invariance, PTL DEF IInv, StoppedInv

(* With the offset that fits the stop, an injection leaves the application's  *)
(* stack and memory as they were, also when the tracer dies in the middle.    *)
THEOREM MemoryIntact == Spec => []AppMemoryIntact
  BY Invariance, PTL DEF IInv
================================================================================
