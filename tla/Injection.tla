------------------------------- MODULE Injection -------------------------------
(* One FunctionInjector replacing one function of one single-threaded target: *)
(* inject_func() / inject_func_under_ptrace(), pdlclose() and pdlopen() on the *)
(* tracer's side, call by call; the target's CPU executing the copied         *)
(* routines instruction by instruction; the kernel's ptrace stops, signals    *)
(* and system call restarts between them.                                     *)
(*                                                                            *)
(* The tracer is demo1 (watches a file, attaches for each injection, passes   *)
(* RUNNING) or ddb (has the target traced all along, injects at the prompt it *)
(* shows when the target stops, passes STOPPED).                              *)
EXTENDS InjectedCode

CONSTANTS
  Clients,        \* which tracers to consider, a subset of {"demo1", "ddb"}
  RestartAtStop,  \* may a stop interrupt a system call the kernel will restart
  PathFits,       \* does the library's path fit checkloaded()'s line buffer
  MaxInjections   \* bound: requests for an injection in one behaviour

ASSUME ClientsAssumption == Clients \subseteq {"demo1", "ddb"}
ASSUME RestartAssumption == RestartAtStop \subseteq BOOLEAN /\ RestartAtStop # {}
ASSUME PathAssumption == PathFits \in BOOLEAN
ASSUME MaxAssumption == MaxInjections \in Nat

VARIABLES
  \* the tracer
  client,       \* "demo1" or "ddb"
  pc,           \* the step it takes next
  stage,        \* the routine call the stub is making: dlclose, malloc, dlopen, free
  ok,           \* what pdlclose() / pdlopen() is about to report
  oldregs,      \* their copy of the registers
  backup,       \* their copy of the text the stub overwrites
  handle,       \* func_info.handle: 0 is NULL, else the load it came from
  result,       \* what the last inject_func() returned: "none", "zero", "three"
  injections,   \* requests so far
  \* the target
  run,          \* "running", "stopped" (ptrace), "halted" (job control), "dead"
  sig,          \* the signal of the last ptrace stop
  traced,
  pendingStop,  \* PTRACE_ATTACH's SIGSTOP is not delivered yet
  cpu,          \* where it executes, its stack pointer and registers
  stack,        \* words around the application's stack pointer, which is 0
  aligned,      \* was that stack pointer a multiple of 16
  data,         \* the application's memory elsewhere, since the stop
  text,         \* what the page at freespaceaddr() holds
  entry,        \* target function's first bytes: 0 its own, else a trampoline
  lib,          \* the library: which load is the last, how many references
  buffers,      \* path buffers allocated and not freed
  named,        \* has the last of them been filled in
  misaligned,   \* the calls made with a misaligned stack pointer
  atStop        \* history: the registers when the application was stopped

tracerVars == <<client, pc, stage, ok, oldregs, backup, handle, result, injections>>
kernelVars == <<run, sig, traced, pendingStop>>
heapVars   == <<entry, lib, buffers, named>>
memoryVars == <<stack, data, text>>
vars == <<tracerVars, kernelVars, cpu, aligned, memoryVars, heapVars, misaligned, atStop>>

Registers   == {"rax", "rbx", "rcx", "rdx", "rsi", "rdi", "rbp", "r9"}
CallerSaved == {"rcx", "rdx", "rsi", "rdi", "r9"}
Services    == {"malloc", "free", "dlopen", "dlclose"}

(* Register and stack contents: "app" or a register's name is what the        *)
(* application had there, the rest are the arguments and results that the     *)
(* tracer and the libc functions put in.                                      *)
Values == Registers \cup Services \cup
          {"app", "length", "handle", "buffer", "library", "null", "error",
           "lazy", "zero", "junk"}

Slots == -4 .. 2

PCs == {"ready", "wait", "prompt", "attach", "main", "save", "write", "cont", "sleep",
        "returned", "checkloaded", "patch", "restoreText", "restoreRegs", "detach",
        "gaveup", "gone"}

Cpus == [at : {"app"} \cup Routines, ip : 0 .. 28, sp : Slots,
         gpr : [Registers -> Values], restart : BOOLEAN]

(* The application's own registers; restart: rax says that the interrupted    *)
(* system call is to be restarted.                                            *)
AppCpu(restart) ==
  [at |-> "app", ip |-> 0, sp |-> 0, gpr |-> [r \in Registers |-> r], restart |-> restart]

AppStack == [i \in Slots |-> "app"]

Live(load) == load # 0 /\ load = lib.gen /\ lib.refs > 0

Routine == IF stage = "dlclose" THEN "eject" ELSE "inject"

(* Mutant: the two offsets are swapped.                                       *)
InjectOffset_Swapped == IF client = "demo1" THEN 1 ELSE 2

InjectOffset == IF client = "demo1" THEN 2 ELSE 1

--------------------------------------------------------------------------------
Init ==
  /\ client \in Clients
  /\ pc = IF client = "demo1" THEN "ready" ELSE "wait"
  /\ stage = "malloc" /\ ok = FALSE /\ oldregs = AppCpu(FALSE) /\ backup = "app"
  /\ handle = 0 /\ result = "none" /\ injections = 0
  /\ run = "running" /\ sig = "STOP" /\ traced = (client = "ddb") /\ pendingStop = FALSE
  /\ cpu = AppCpu(FALSE) /\ atStop = AppCpu(FALSE) /\ aligned = TRUE
  /\ stack = AppStack /\ data = "intact" /\ text = "app"
  /\ entry = 0 /\ lib = [gen |-> 0, refs |-> 0] /\ buffers = 0 /\ named = FALSE
  /\ misaligned = {}

--------------------------------------------------------------------------------
(* The tracer outside pdlclose() and pdlopen().                               *)

(* demo1's inject_func() sends PTRACE_ATTACH ...                              *)
PtraceAttach ==
  /\ pc = "ready" /\ run = "running" /\ injections < MaxInjections
  /\ injections' = injections + 1
  /\ traced' = TRUE /\ pendingStop' = TRUE
  /\ pc' = "attach"
  /\ UNCHANGED <<client, stage, ok, oldregs, backup, handle, result, run, sig, cpu,
                 aligned, memoryVars, heapVars, misaligned, atStop>>

(* ... and waitpid() takes the first stop, whichever signal it is.            *)
Attached ==
  /\ pc = "attach" /\ run = "stopped"
  /\ pc' = "main"
  /\ UNCHANGED <<client, stage, ok, oldregs, backup, handle, result, injections,
                 kernelVars, cpu, aligned, memoryVars, heapVars, misaligned, atStop>>

(* ddb's loop: ptrace_letgo(), wait(), the prompt, inject_func_under_ptrace() *)
PtraceLetgo ==
  /\ pc = "prompt"
  /\ pc' = "wait" /\ run' = "running"
  /\ UNCHANGED <<client, stage, ok, oldregs, backup, handle, result, injections, sig,
                 traced, pendingStop, cpu, aligned, memoryVars, heapVars, misaligned, atStop>>

WaitReturns ==
  /\ pc = "wait" /\ run = "stopped"
  /\ pc' = "prompt"
  /\ UNCHANGED <<client, stage, ok, oldregs, backup, handle, result, injections,
                 kernelVars, cpu, aligned, memoryVars, heapVars, misaligned, atStop>>

InjectUnderPtrace ==
  /\ pc = "prompt" /\ injections < MaxInjections
  /\ injections' = injections + 1
  /\ pc' = "main"
  /\ UNCHANGED <<client, stage, ok, oldregs, backup, handle, result, kernelVars, cpu,
                 aligned, memoryVars, heapVars, misaligned, atStop>>

(* Mutant: the library is not closed before it is opened again.               *)
InjectFuncMain_NeverCloses ==
  /\ pc = "main"
  /\ stage' = "malloc"
  /\ pc' = "save"
  /\ UNCHANGED <<client, ok, oldregs, backup, handle, result, injections, kernelVars, cpu,
                 aligned, memoryVars, heapVars, misaligned, atStop>>

(* inject_func_main(): a library that is loaded is closed first.              *)
InjectFuncMain ==
  /\ pc = "main"
  /\ stage' = IF handle # 0 THEN "dlclose" ELSE "malloc"
  /\ pc' = "save"
  /\ UNCHANGED <<client, ok, oldregs, backup, handle, result, injections, kernelVars, cpu,
                 aligned, memoryVars, heapVars, misaligned, atStop>>

PtraceDetach ==
  /\ pc = "detach"
  /\ pc' = "ready" /\ run' = "running" /\ traced' = FALSE
  /\ UNCHANGED <<client, stage, ok, oldregs, backup, handle, result, injections, sig,
                 pendingStop, cpu, aligned, memoryVars, heapVars, misaligned, atStop>>

--------------------------------------------------------------------------------
(* pdlclose() and pdlopen().                                                  *)

(* Mutant: the addresses of free() and __libc_dlopen_mode() are swapped.      *)
Arguments_Swapped ==
  IF Routine = "eject"
  THEN [rdi |-> "dlclose", rcx |-> "handle"]
  ELSE [rdi |-> "malloc", rsi |-> "dlopen", rdx |-> "free", rcx |-> "length"]

Arguments ==
  IF Routine = "eject"
  THEN [rdi |-> "dlclose", rcx |-> "handle"]
  ELSE [rdi |-> "malloc", rsi |-> "free", rdx |-> "dlopen", rcx |-> "length"]

(* ptrace_getregs() and ptrace_setregs(): save the registers, then aim rip at *)
(* the routine and load its arguments. rax and orig_rax stay what they were.  *)
SetRegs ==
  /\ pc = "save"
  /\ oldregs' = cpu
  /\ cpu' = [cpu EXCEPT !.at = Routine,
                        !.ip = IF Routine = "eject" THEN CloseEntry
                               ELSE OpenEntry(InjectOffset),
                        !.gpr = [r \in Registers |->
                                   IF r \in DOMAIN Arguments THEN Arguments[r] ELSE @[r]]]
  /\ pc' = "write"
  /\ UNCHANGED <<client, stage, ok, backup, handle, result, injections, kernelVars,
                 aligned, memoryVars, heapVars, misaligned, atStop>>

(* Mutant: the routine is written over only when no library is open.          *)
WriteRoutine_OnlyFirst ==
  /\ pc = "write"
  /\ backup' = text /\ text' = IF handle = 0 THEN Routine ELSE text
  /\ pc' = "cont"
  /\ UNCHANGED <<client, stage, ok, oldregs, handle, result, injections, kernelVars, cpu,
                 aligned, stack, data, heapVars, misaligned, atStop>>

(* ptrace_read() the bytes in the way, ptrace_write() the routine over them.  *)
WriteRoutine ==
  /\ pc = "write"
  /\ backup' = text /\ text' = Routine
  /\ pc' = "cont"
  /\ UNCHANGED <<client, stage, ok, oldregs, handle, result, injections, kernelVars, cpu,
                 aligned, stack, data, heapVars, misaligned, atStop>>

(* ptrace_cont(): PTRACE_CONT without a signal, then sleep for 5 ms.          *)
PtraceCont ==
  /\ pc = "cont"
  /\ run' = "running" /\ pc' = "sleep"
  /\ UNCHANGED <<client, stage, ok, oldregs, backup, handle, result, injections, sig, traced,
                 pendingStop, cpu, aligned, memoryVars, heapVars, misaligned, atStop>>

(* Mutant: the signal is not looked at, nor whether the target stopped.       *)
CheckTargetSig_Trusts ==
  /\ pc = "sleep"
  /\ pc' = "returned"
  /\ UNCHANGED <<client, stage, ok, oldregs, backup, handle, result, injections,
                 kernelVars, cpu, aligned, memoryVars, heapVars, misaligned, atStop>>

(* checktargetsig() after the sleep: the target stopped with SIGTRAP.         *)
CheckTargetSig ==
  /\ pc = "sleep" /\ run = "stopped" /\ sig = "TRAP"
  /\ pc' = "returned"
  /\ UNCHANGED <<client, stage, ok, oldregs, backup, handle, result, injections,
                 kernelVars, cpu, aligned, memoryVars, heapVars, misaligned, atStop>>

(* Mutant: a target that has not stopped yet is waited for.                   *)
GiveUp_Waits ==
  /\ pc = "sleep" /\ run = "stopped" /\ sig # "TRAP"
  /\ pc' = "gaveup" /\ traced' = FALSE
  /\ run' = "running"
  /\ UNCHANGED <<client, stage, ok, oldregs, backup, handle, result, injections, sig,
                 pendingStop, cpu, aligned, memoryVars, heapVars, misaligned, atStop>>

(* It stopped with another signal: continue it without that signal, exit(1).  *)
(* It did not stop yet: PTRACE_GETSIGINFO fails, exit(1).                     *)
GiveUp ==
  /\ pc = "sleep" /\ ~ (run = "stopped" /\ sig = "TRAP")
  /\ pc' = "gaveup" /\ traced' = FALSE
  /\ run' = IF run = "stopped" THEN "running" ELSE run
  /\ UNCHANGED <<client, stage, ok, oldregs, backup, handle, result, injections, sig,
                 pendingStop, cpu, aligned, memoryVars, heapVars, misaligned, atStop>>

(* pdlclose() reads dlclose()'s return value; anything but 0 is a failure.    *)
DlcloseReturned ==
  /\ pc = "returned" /\ stage = "dlclose"
  /\ ok' = (cpu.gpr["rax"] = "null")
  /\ pc' = "restoreText"
  /\ UNCHANGED <<client, stage, oldregs, backup, handle, result, injections, kernelVars,
                 cpu, aligned, memoryVars, heapVars, misaligned, atStop>>

(* pdlopen() reads malloc()'s return value, writes the path to the buffer.    *)
MallocReturned ==
  /\ pc = "returned" /\ stage = "malloc" /\ cpu.gpr["rax"] # "null"
  /\ named' = TRUE
  /\ stage' = "dlopen" /\ pc' = "cont"
  /\ UNCHANGED <<client, ok, oldregs, backup, handle, result, injections, kernelVars, cpu,
                 aligned, memoryVars, entry, lib, buffers, misaligned, atStop>>

(* Mutant: the result of __libc_dlopen_mode() is not checked.                 *)
DlopenReturned_Unchecked ==
  /\ pc = "returned" /\ stage = "dlopen"
  /\ pc' = "checkloaded"
  /\ UNCHANGED <<client, stage, ok, oldregs, backup, handle, result, injections,
                 kernelVars, cpu, aligned, memoryVars, heapVars, misaligned, atStop>>

(* pdlopen() reads __libc_dlopen_mode()'s return value.                       *)
DlopenReturned ==
  /\ pc = "returned" /\ stage = "dlopen" /\ cpu.gpr["rax"] # "null"
  /\ pc' = "checkloaded"
  /\ UNCHANGED <<client, stage, ok, oldregs, backup, handle, result, injections,
                 kernelVars, cpu, aligned, memoryVars, heapVars, misaligned, atStop>>

(* Mutant: the early return forgets restoreStates().                          *)
CallFailed_NoRestore ==
  /\ pc = "returned" /\ stage \in {"malloc", "dlopen"} /\ cpu.gpr["rax"] = "null"
  /\ ok' = FALSE /\ result' = "three"
  /\ pc' = IF client = "demo1" THEN "detach" ELSE "prompt"
  /\ UNCHANGED <<client, stage, oldregs, backup, handle, injections, kernelVars,
                 cpu, aligned, memoryVars, heapVars, misaligned, atStop>>

(* NULL from either: bail out through restoreStates().                        *)
CallFailed ==
  /\ pc = "returned" /\ stage \in {"malloc", "dlopen"} /\ cpu.gpr["rax"] = "null"
  /\ ok' = FALSE
  /\ pc' = "restoreText"
  /\ UNCHANGED <<client, stage, oldregs, backup, handle, result, injections, kernelVars,
                 cpu, aligned, memoryVars, heapVars, misaligned, atStop>>

(* checkloaded() looks for the path in /proc/<pid>/maps, a line buffer at a   *)
(* time. If it finds it and then not the symbol, bin_dlsym() exits            *)
(* (TracerKilled covers that); if it does not find it, pdlopen() goes on.     *)
CheckLoaded ==
  /\ pc = "checkloaded"
  /\ \/ PathFits /\ pc' = "patch" /\ stage' = stage
     \/ ~PathFits /\ pc' = "cont" /\ stage' = "free"
  /\ UNCHANGED <<client, ok, oldregs, backup, handle, result, injections,
                 kernelVars, cpu, aligned, memoryVars, heapVars, misaligned, atStop>>

(* Mutant: the jump goes to the function in the library loaded before.        *)
Patch_Stale ==
  /\ pc = "patch"
  /\ entry' = handle
  /\ stage' = "free" /\ pc' = "cont"
  /\ UNCHANGED <<client, ok, oldregs, backup, handle, result, injections, kernelVars, cpu,
                 aligned, memoryVars, lib, buffers, named, misaligned, atStop>>

(* ptrace_write() a jump to the new function over the old one.                *)
Patch ==
  /\ pc = "patch"
  /\ entry' = lib.gen
  /\ stage' = "free" /\ pc' = "cont"
  /\ UNCHANGED <<client, ok, oldregs, backup, handle, result, injections, kernelVars, cpu,
                 aligned, memoryVars, lib, buffers, named, misaligned, atStop>>

(* The third ptrace_cont() came back; whatever it did, pdlopen() succeeded.   *)
FreeReturned ==
  /\ pc = "returned" /\ stage = "free"
  /\ ok' = TRUE
  /\ pc' = "restoreText"
  /\ UNCHANGED <<client, stage, oldregs, backup, handle, result, injections, kernelVars,
                 cpu, aligned, memoryVars, heapVars, misaligned, atStop>>

(* restoreStates(): the text, then the registers.                             *)
RestoreText ==
  /\ pc = "restoreText"
  /\ text' = backup
  /\ pc' = "restoreRegs"
  /\ UNCHANGED <<client, stage, ok, oldregs, backup, handle, result, injections, kernelVars,
                 cpu, aligned, stack, data, heapVars, misaligned, atStop>>

(* Mutant: inject_func_main() does not look at what pdlopen() returned.       *)
RestoreRegs_Unchecked ==
  /\ pc = "restoreRegs"
  /\ cpu' = oldregs
  /\ \/ /\ stage = "dlclose" /\ ok
        /\ stage' = "malloc" /\ pc' = "save"
        /\ UNCHANGED <<handle, result>>
     \/ /\ ~ (stage = "dlclose" /\ ok)
        /\ handle' = IF ok THEN lib.gen ELSE handle
        /\ result' = "zero"
        /\ pc' = IF client = "demo1" THEN "detach" ELSE "prompt"
        /\ stage' = stage
  /\ UNCHANGED <<client, ok, oldregs, backup, injections, kernelVars,
                 aligned, memoryVars, heapVars, misaligned, atStop>>

(* After a successful pdlclose() comes pdlopen(); otherwise the injection is  *)
(* over, and INJECT_RETURN records the handle unless it is NULL.              *)
RestoreRegs ==
  /\ pc = "restoreRegs"
  /\ cpu' = oldregs
  /\ \/ /\ stage = "dlclose" /\ ok
        /\ stage' = "malloc" /\ pc' = "save"
        /\ UNCHANGED <<handle, result>>
     \/ /\ ~ (stage = "dlclose" /\ ok)
        /\ handle' = IF ok THEN lib.gen ELSE handle
        /\ result' = IF ok THEN "zero" ELSE "three"
        /\ pc' = IF client = "demo1" THEN "detach" ELSE "prompt"
        /\ stage' = stage
  /\ UNCHANGED <<client, ok, oldregs, backup, injections, kernelVars,
                 aligned, memoryVars, heapVars, misaligned, atStop>>

--------------------------------------------------------------------------------
(* The end of the tracer, between any two of its steps.                       *)

TracerAlive == pc \notin {"gaveup", "gone"}

(* It is killed (Ctrl-C in demo1) or calls exit(): the kernel detaches the    *)
(* target and delivers the signal of its current stop after all.              *)
TracerKilled ==
  /\ TracerAlive
  /\ pc' = "gone" /\ traced' = FALSE
  /\ run' \in IF run # "stopped" THEN {run}
              ELSE CASE sig \in {"TRAP", "SEGV"} -> {"dead"}
                     [] sig = "STOP"  -> {"halted"}
                     [] sig = "OTHER" -> {"running", "dead"}
  /\ UNCHANGED <<client, stage, ok, oldregs, backup, handle, result, injections, sig,
                 pendingStop, cpu, aligned, memoryVars, heapVars, misaligned, atStop>>

(* ddb's SIGINT handler: ptrace_detach() and exit(0), or, when the target is  *)
(* running, a failing ptrace call and exit(1). (Breakpoints.tla models what   *)
(* the handler does to the breakpoints.)                                      *)
Interrupt ==
  /\ TracerAlive /\ client = "ddb"
  /\ pc' = "gone" /\ traced' = FALSE
  /\ run' = IF run = "stopped" THEN "running" ELSE run
  /\ UNCHANGED <<client, stage, ok, oldregs, backup, handle, result, injections, sig,
                 pendingStop, cpu, aligned, memoryVars, heapVars, misaligned, atStop>>

--------------------------------------------------------------------------------
(* The kernel.                                                                *)

(* A signal stops the traced target. If it was executing the application, it  *)
(* is anywhere in it: in a system call or not, its stack aligned or not.      *)
SignalStops(s) ==
  /\ run = "running" /\ traced
  /\ s = "STOP" => pendingStop
  /\ s = "SEGV" => cpu.at = "app"
  /\ run' = "stopped" /\ sig' = s
  /\ pendingStop' = (pendingStop /\ s # "STOP")
  /\ IF cpu.at = "app"
     THEN /\ \E r \in RestartAtStop :
               /\ s = "SEGV" => ~r
               /\ cpu' = AppCpu(r) /\ atStop' = AppCpu(r)
          /\ aligned' \in BOOLEAN
          /\ stack' = AppStack /\ data' = "intact" /\ misaligned' = {}
     ELSE UNCHANGED <<cpu, atStop, aligned, stack, data, misaligned>>
  /\ UNCHANGED <<tracerVars, traced, text, heapVars>>

(* The SIGSTOP arrives after the tracer has left.                             *)
Halts ==
  /\ run = "running" /\ ~traced /\ pendingStop
  /\ run' = "halted" /\ pendingStop' = FALSE
  /\ UNCHANGED <<tracerVars, sig, traced, cpu, aligned, memoryVars, heapVars, misaligned, atStop>>

(* Resuming with rax = -ERESTART...: rip is moved back over the two bytes of  *)
(* a syscall instruction.                                                     *)
RestartSyscall ==
  /\ run = "running" /\ ~pendingStop /\ cpu.at # "app" /\ cpu.restart
  /\ cpu' = [cpu EXCEPT !.ip = TwoBytesBack(cpu.at, @), !.restart = FALSE]
  /\ UNCHANGED <<tracerVars, kernelVars, aligned, memoryVars, heapVars, misaligned, atStop>>

(* A fault stops the target for its tracer, or kills it.                      *)
Faults ==
  /\ run' = IF traced THEN "stopped" ELSE "dead"
  /\ sig' = IF traced THEN "SEGV" ELSE sig
  /\ UNCHANGED <<tracerVars, traced, pendingStop, cpu, aligned, memoryVars, heapVars,
                 misaligned, atStop>>

--------------------------------------------------------------------------------
(* The target's CPU at rip in the page the stub is copied to.                 *)

Fetching == run = "running" /\ ~pendingStop /\ cpu.at # "app" /\ ~cpu.restart

Executing(op) ==
  Fetching /\ text = cpu.at /\ cpu.ip # Wild /\ Code[cpu.at][cpu.ip].op = op

Instruction == Code[cpu.at][cpu.ip]

Next_ip == Following(cpu.at, cpu.ip)

ExecPush ==
  /\ Executing("push")
  /\ stack' = [stack EXCEPT ![cpu.sp - 1] = cpu.gpr[Instruction.reg]]
  /\ cpu' = [cpu EXCEPT !.sp = @ - 1, !.ip = Next_ip]
  /\ UNCHANGED <<tracerVars, kernelVars, aligned, data, text, heapVars, misaligned, atStop>>

ExecPop ==
  /\ Executing("pop")
  /\ cpu' = [cpu EXCEPT !.gpr[Instruction.reg] = stack[cpu.sp], !.sp = @ + 1, !.ip = Next_ip]
  /\ UNCHANGED <<tracerVars, kernelVars, aligned, memoryVars, heapVars, misaligned, atStop>>

ExecMov ==
  /\ Executing("mov")
  /\ cpu' = [cpu EXCEPT !.gpr[Instruction.reg] = cpu.gpr[Instruction.src], !.ip = Next_ip]
  /\ UNCHANGED <<tracerVars, kernelVars, aligned, memoryVars, heapVars, misaligned, atStop>>

ExecLoad ==
  /\ Executing("load")
  /\ cpu' = [cpu EXCEPT !.gpr[Instruction.reg] = Instruction.val, !.ip = Next_ip]
  /\ UNCHANGED <<tracerVars, kernelVars, aligned, memoryVars, heapVars, misaligned, atStop>>

ExecInt3 ==
  /\ Executing("int3")
  /\ cpu' = [cpu EXCEPT !.ip = Next_ip]
  /\ run' = IF traced THEN "stopped" ELSE "dead"
  /\ sig' = IF traced THEN "TRAP" ELSE sig
  /\ UNCHANGED <<tracerVars, traced, pendingStop, aligned, memoryVars, heapVars, misaligned, atStop>>

(* A call to a libc function: its result in rax, the caller-saved registers   *)
(* clobbered, the stack pointer aligned at the call or not.                   *)
Calls(service) == Executing("call") /\ cpu.gpr[Instruction.reg] = service

Returns(rax) ==
  cpu' = [cpu EXCEPT !.ip = Next_ip,
                     !.gpr = [r \in Registers |-> IF r = "rax" THEN rax
                                                  ELSE IF r \in CallerSaved THEN "junk"
                                                  ELSE @[r]]]

StackAligned == aligned <=> (cpu.sp % 2 = 0)

NoteAlignment(service) ==
  misaligned' = IF StackAligned THEN misaligned \ {service} ELSE misaligned \cup {service}

CallMalloc ==
  /\ Calls("malloc")
  /\ \/ Returns("null") /\ UNCHANGED <<buffers, named>>
     \/ Returns("buffer") /\ buffers' = buffers + 1 /\ named' = FALSE
  /\ NoteAlignment("malloc")
  /\ UNCHANGED <<tracerVars, kernelVars, aligned, memoryVars, entry, lib, atStop>>

(* dlopen() of the path: a library that is loaded gets one more reference.    *)
CallDlopen ==
  /\ Calls("dlopen")
  /\ \/ Returns("null") /\ lib' = lib
     \/ /\ cpu.gpr["rdi"] = "buffer" /\ named
        /\ Returns("library")
        /\ lib' = IF lib.refs = 0 THEN [gen |-> lib.gen + 1, refs |-> 1]
                  ELSE [lib EXCEPT !.refs = @ + 1]
  /\ NoteAlignment("dlopen")
  /\ UNCHANGED <<tracerVars, kernelVars, aligned, memoryVars, entry, buffers, named, atStop>>

(* dlclose() of a handle whose library is gone reads freed memory: any result.*)
CallDlclose ==
  /\ Calls("dlclose")
  /\ \/ Live(handle) /\ Returns("null") /\ lib' = [lib EXCEPT !.refs = @ - 1]
     \/ ~Live(handle) /\ (Returns("null") \/ Returns("error")) /\ lib' = lib
  /\ NoteAlignment("dlclose")
  /\ UNCHANGED <<tracerVars, kernelVars, aligned, memoryVars, entry, buffers, named, atStop>>

(* free(): of the path buffer, or of what is no buffer (undefined).           *)
CallFree ==
  /\ Calls("free")
  /\ buffers' = IF cpu.gpr["rdi"] = "buffer" THEN buffers - 1 ELSE buffers
  /\ Returns("junk")
  /\ NoteAlignment("free")
  /\ UNCHANGED <<tracerVars, kernelVars, aligned, memoryVars, entry, lib, named, atStop>>

(* A call that crashes: the library's constructors, undefined behaviour, or   *)
(* what the application had where the address of free() was expected.         *)
CallCrashes ==
  /\ \/ Calls("dlopen")
     \/ Calls("dlclose") /\ ~Live(handle)
     \/ Calls("free") /\ cpu.gpr["rdi"] # "buffer"
     \/ Executing("call") /\ cpu.gpr[Instruction.reg] \notin Services
  /\ Faults

(* The page holds something else than the routine rip was aimed at, or rip is *)
(* not in the routine.                                                        *)
StrayFetch ==
  /\ Fetching
  /\ text # cpu.at \/ cpu.ip = Wild \/ Executing("beyond")
  /\ Faults

(* The byte before the routine is 0 and with the routine's first two bytes it *)
(* makes add %dl, 0x56(%rbp): if that address is mapped, a byte of the        *)
(* application's memory changes, and push %rdx comes next.                    *)
StrayAdd ==
  /\ Fetching /\ text = cpu.at /\ cpu.ip = Wild
  /\ data' = "damaged"
  /\ cpu' = [cpu EXCEPT !.ip = 3]
  /\ UNCHANGED <<tracerVars, kernelVars, aligned, stack, text, heapVars, misaligned, atStop>>

--------------------------------------------------------------------------------
Tracer ==
  \/ Attached \/ InjectFuncMain \/ PtraceDetach
  \/ SetRegs \/ WriteRoutine \/ PtraceCont \/ CheckTargetSig \/ GiveUp
  \/ DlcloseReturned \/ MallocReturned \/ DlopenReturned \/ CallFailed
  \/ CheckLoaded \/ Patch \/ FreeReturned \/ RestoreText \/ RestoreRegs

User == PtraceAttach \/ InjectUnderPtrace \/ PtraceLetgo \/ WaitReturns

Departure == TracerKilled \/ Interrupt

Kernel == (\E s \in {"STOP", "OTHER", "SEGV"} : SignalStops(s)) \/ Halts \/ RestartSyscall

Target ==
  \/ ExecPush \/ ExecPop \/ ExecMov \/ ExecLoad \/ ExecInt3
  \/ CallMalloc \/ CallDlopen \/ CallDlclose \/ CallFree \/ CallCrashes
  \/ StrayFetch \/ StrayAdd

Next == Tracer \/ User \/ Departure \/ Kernel \/ Target

Spec == Init /\ [][Next]_vars

(* The tracer's process is scheduled and its sleeps end; the kernel delivers  *)
(* PTRACE_ATTACH's SIGSTOP. Nothing is assumed of the target's own progress,  *)
(* which may wait for a lock the application holds, nor of the user.          *)
FairSpec == Spec /\ WF_vars(Tracer) /\ WF_vars(SignalStops("STOP"))

--------------------------------------------------------------------------------
(* Properties.                                                                *)

(* The states in which the tracer is not inside pdlclose() or pdlopen().      *)
Idle == pc \in {"ready", "wait", "prompt", "attach", "main", "detach"}

(* The stop suits the inject_offset the tracer uses: 2 is right exactly when  *)
(* a system call is restarted, 1 exactly when none is.                        *)
OffsetFits == client = "demo1" <=> atStop.restart

(* Every variable has its type; the stack pointer stays in the modelled slots.*)
TypeOK ==
  /\ client \in {"demo1", "ddb"} /\ pc \in PCs
  /\ stage \in {"dlclose", "malloc", "dlopen", "free"} /\ ok \in BOOLEAN
  /\ oldregs \in Cpus /\ backup \in {"app"} \cup Routines
  /\ handle \in Nat /\ result \in {"none", "zero", "three"} /\ injections \in Nat
  /\ run \in {"running", "stopped", "halted", "dead"}
  /\ sig \in {"STOP", "TRAP", "SEGV", "OTHER"} /\ traced \in BOOLEAN /\ pendingStop \in BOOLEAN
  /\ cpu \in Cpus /\ atStop \in Cpus /\ aligned \in BOOLEAN
  /\ stack \in [Slots -> Values] /\ data \in {"intact", "damaged"}
  /\ text \in {"app"} \cup Routines
  /\ entry \in Nat /\ lib \in [gen : Nat, refs : Nat] /\ buffers \in Int /\ named \in BOOLEAN
  /\ misaligned \subseteq Services

(* restoreStates(), whichever way pdlclose() and pdlopen() end, puts back     *)
(* what they changed: outside them the page at freespaceaddr() holds its own  *)
(* bytes, the target is executing the application, and while it is stopped    *)
(* its registers, a restart of its system call included, are those it was     *)
(* stopped with.                                                              *)
Restored ==
  Idle => /\ text = "app" /\ cpu.at = "app"
          /\ run = "stopped" => cpu = atStop

(* No ptrace() request of an injection is made of a target that is running,   *)
(* where it would fail with ESRCH and exit(1) in the middle.                  *)
PtraceNeverFails ==
  pc \in {"main", "save", "write", "cont", "returned", "checkloaded", "patch",
          "restoreText", "restoreRegs", "detach"} => run = "stopped"

(* With an offset that fits the stop, the routines write below the            *)
(* application's stack pointer only: pushes that the entry skips are no fewer *)
(* than the pops that the third INT 3 leaves unexecuted.                      *)
AppMemoryIntact ==
  OffsetFits => stack[0] = "app" /\ stack[1] = "app" /\ data = "intact"

(* As long as the tracer waits for it, the target executes the routine that   *)
(* was written for it, from an instruction of the routine on (or, where the   *)
(* offset does not fit, from the byte before it).                             *)
StubInPlace ==
  (pc = "sleep" /\ run = "running" /\ cpu.at # "app") =>
    /\ text = cpu.at /\ text = Routine
    /\ IF cpu.ip = Wild THEN ~OffsetFits ELSE Instruction.op # "beyond"

(* Whatever pushes the entry skipped, a routine calls the function of its     *)
(* stage with that function's argument: malloc() with the length, dlopen()    *)
(* with the buffer after the path was written to it, dlclose() with the       *)
(* handle.                                                                    *)
CallsAsIntended ==
  (pc = "sleep" /\ Executing("call")) =>
    LET service  == cpu.gpr[Instruction.reg]
        argument == cpu.gpr["rdi"]
    IN  /\ service = stage
        /\ service = "malloc"  => argument = "length"
        /\ service = "dlopen"  => argument = "buffer" /\ named
        /\ service = "dlclose" => argument = "handle"

(* The stack holds one word more at the call of malloc() than at the call of  *)
(* __libc_dlopen_mode(), so wherever the target was stopped exactly one of    *)
(* them is called with a stack pointer that is not a multiple of 16.          *)
OneSkewedCall ==
  (pc = "returned" /\ stage = "dlopen") =>
    ("malloc" \in misaligned) # ("dlopen" \in misaligned)

(* inject_func() returns 0 only after the function's first bytes were         *)
(* replaced by a jump into the library whose handle it keeps, loaded.         *)
SuccessMeansSwapped ==
  (Idle /\ pc # "main" /\ result = "zero") => Live(handle) /\ entry = handle

(* Between injections, the function's first bytes lead to a library that was  *)
(* unloaded only if the last injection reported a failure.                    *)
DanglingReported ==
  (pc \in {"ready", "wait", "prompt", "detach"} /\ entry # 0 /\ ~Live(entry)) =>
    result = "three"

(* However injections fail, the library never has two references, so that the *)
(* next dlclose() unloads it and dlopen() loads the new code.                 *)
OneReference == lib.refs <= 1

(* A step that replaces the function's first bytes makes them lead to the     *)
(* library loaded at that moment, and no step replaces them while the target  *)
(* runs.                                                                      *)
PatchOnlyLoaded ==
  [][entry' # entry => run = "stopped" /\ Live(entry')]_vars

(* The third step of pdlopen(), as a courtesy, frees the path buffer.         *)
BufferFreed == (pc \in {"ready", "prompt"} /\ result = "zero") => buffers = 0

(* The words of the application's stack survive an injection into a running   *)
(* target with the inject_offset hot_swap.hpp prescribes for it.              *)
RunningStackIntact == stack[0] = "app"

(* An injection that has begun ends, in a report to the caller or in the      *)
(* tracer's exit, although the target may never come back from the stub.      *)
InjectionEnds == pc \in {"attach", "main"} ~> pc \in {"ready", "prompt", "gaveup", "gone"}

(* An injection in the eyes of its caller: what goes on in the target, and in *)
(* which order, is hidden behind the phase.                                   *)
Phase ==
  CASE pc \in {"ready", "wait", "prompt", "attach", "detach"} -> "idle"
    [] pc \in {"gaveup", "gone"} -> IF cpu.at = "app" THEN "closed" ELSE "aborted"
    [] OTHER -> "busy"

Abstract ==
  INSTANCE HotSwap WITH phase   <- Phase,
                        library <- IF lib.refs > 0 THEN lib.gen ELSE 0,
                        loads   <- lib.gen,
                        jump    <- entry,
                        kept    <- handle,
                        report  <- result

(* The protocol keeps the promises of HotSwap, its fairness included: one     *)
(* library at a time, loaded and unloaded only within an injection, the       *)
(* function led only into it, a success reported only when it was, a failure  *)
(* leaving nothing behind without a handle, and an end to every injection.    *)
ImplementsHotSwap == Abstract!Spec
================================================================================
