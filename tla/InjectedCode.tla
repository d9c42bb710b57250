----------------------------- MODULE InjectedCode -----------------------------
(* The two routines that hot_swap.cpp copies into the target: the machine     *)
(* instructions of injectSharedLibrary() and ejectSharedLibrary(), one record *)
(* per instruction, with their RET already overwritten by the INT 3 that      *)
(* pdlopen() and pdlclose() put there.                                        *)
(*                                                                            *)
(* The routines start with three pushes of one byte each, so the entry point  *)
(* that regs.rip selects (start + 1, start + 2, or two bytes before those     *)
(* when the kernel restarts an interrupted system call) decides how many of   *)
(* these pushes are skipped while their pops still run.                       *)
EXTENDS Integers, Sequences

Push(r)    == [op |-> "push", reg |-> r]
Pop(r)     == [op |-> "pop",  reg |-> r]
Mov(s, d)  == [op |-> "mov",  src |-> s, reg |-> d]
Load(v, d) == [op |-> "load", val |-> v, reg |-> d]
Call(r)    == [op |-> "call", reg |-> r]
Int3       == [op |-> "int3"]

(* The last INT 3 is followed by padding and then by unrelated bytes.         *)
Beyond == [op |-> "beyond"]

(* Mutant: rbx is saved at the start, with the other registers.               *)
InjectSharedLibrary_SavesRbx ==
  << Push("rbp"), Push("rsi"), Push("rdx"), Push("rbx"),
     Push("r9"), Mov("rdi", "r9"), Mov("rcx", "rdi"), Call("r9"), Pop("r9"), Int3,
     Pop("rdx"), Push("r9"), Mov("rdx", "r9"), Mov("rax", "rdi"),
     Load("lazy", "rsi"), Call("r9"), Pop("r9"), Int3,
     Mov("rax", "rdi"), Pop("rsi"), Mov("rsi", "rbx"),
     Load("zero", "rsi"), Int3, Call("rbx"), Pop("rbx"), Pop("rbp"), Int3,
     Beyond >>

(* Mutant: r9 is not saved before the call of __libc_dlopen_mode().           *)
InjectSharedLibrary_NoSave ==
  << Push("rbp"), Push("rsi"), Push("rdx"),
     Push("r9"), Mov("rdi", "r9"), Mov("rcx", "rdi"), Call("r9"), Pop("r9"), Int3,
     Pop("rdx"), Mov("rdx", "r9"), Mov("rax", "rdi"),
     Load("lazy", "rsi"), Call("r9"), Pop("r9"), Int3,
     Mov("rax", "rdi"), Pop("rsi"), Push("rbx"), Mov("rsi", "rbx"),
     Load("zero", "rsi"), Int3, Call("rbx"), Pop("rbx"), Pop("rbp"), Int3,
     Beyond >>

InjectSharedLibrary ==
  << Push("rbp"), Push("rsi"), Push("rdx"),
     \* malloc(length of the path)
     Push("r9"), Mov("rdi", "r9"), Mov("rcx", "rdi"), Call("r9"), Pop("r9"), Int3,
     \* __libc_dlopen_mode(buffer, RTLD_LAZY)
     Pop("rdx"), Push("r9"), Mov("rdx", "r9"), Mov("rax", "rdi"),
     Load("lazy", "rsi"), Call("r9"), Pop("r9"), Int3,
     \* free()
     Mov("rax", "rdi"), Pop("rsi"), Push("rbx"), Mov("rsi", "rbx"),
     Load("zero", "rsi"), Int3, Call("rbx"), Pop("rbx"), Pop("rbp"), Int3,
     Beyond >>

(* The last element is not in line: it is byte 2 of the routine, the second   *)
(* byte of push %r9, which decoded on its own is push %rcx.                   *)
EjectSharedLibrary ==
  << Push("rbp"), Push("r9"), Mov("rdi", "r9"), Mov("rcx", "rdi"), Call("r9"),
     Pop("r9"), Pop("rbp"), Int3,
     Beyond, Push("rcx") >>

Code == [inject |-> InjectSharedLibrary, eject |-> EjectSharedLibrary]

Routines == {"inject", "eject"}

MidPush == 10

(* The instruction executed after instruction i; 3 follows byte 2.            *)
Following(routine, i) ==
  IF routine = "eject" /\ i = MidPush THEN 3 ELSE i + 1

(* Instruction 0 of "inject" stands for the byte before the routine: the last *)
(* byte of the 8 bytes that freespaceaddr() + sizeof(long) steps over.        *)
Wild == 0

(* The instruction regs.rip points to after pdlopen() adds inject_offset, and *)
(* after pdlclose() adds 2.                                                   *)
OpenEntry(inject_offset) == inject_offset + 1
CloseEntry == MidPush

(* The instruction two bytes before entry point i.                            *)
TwoBytesBack(routine, i) ==
  IF routine = "inject" /\ i = OpenEntry(1) THEN Wild ELSE 1
===============================================================================
