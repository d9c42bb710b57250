# Verification of c_code_hot_swap

`c_code_hot_swap` replaces functions of a running C program. It compiles the
new version of one function into a shared library, makes the target process
load it (a small routine is copied into the target with `ptrace` and run there
to call `malloc()` and `__libc_dlopen_mode()`), and overwrites the first bytes
of the old function with a jump to the new one. Two programs use this: `demo1`
watches a source file and injects after each edit, `ddb` is a small debugger
with breakpoints, restart and resume of stack frames, and injection at its
prompt.

This directory holds TLA+ models of that code, TLC configurations that check
them and TLAPS proofs about them. Source references are to `src/`.

## The system

| Component | State | Operations | Interacts with |
|---|---|---|---|
| Injection protocol: `hot_swap.cpp`, `libs/ptrace.c` | saved registers and text, the target's registers, text, stack, heap, loader | `pdlopen`, `pdlclose`, `ptrace_*`, `checktargetsig`, `restoreStates`, the copied routines | target and kernel (stops, signals, 5 ms timer), `FunctionInjector` |
| `FunctionInjector` | sources -> functions -> (library path, handle) | `assign_source`, `compile_func`, `inject_func`, `inject_func_under_ptrace` | `demo1`, `ddb`, injection protocol, compiler |
| `ddb.cpp` | `break_point_map`, `at_trap`, the registers of the last stop | the wait loop, set / reset / restore breakpoints, restart, SIGINT handler | target, user, `StackUnwinder`, `FunctionInjector` |
| `demo1.cpp` | last modification time | the watching loop | file system, `FunctionInjector` |
| `StackUnwinder` | libunwind cursors, the selected frame's index (`user_stack_trace_idx`) | up, down, resume, restart, call address | `ddb` |
| `libs/utils.c`, `libs/bin_dlsym.cpp` | none | `/proc/<pid>/maps` and ELF lookups | `pdlopen` |
| `cparser.cpp` | the working directory, two files, locals | copies a function and what it may need from a C file | `compile_func_in_file` |

What is hard in it: the tracer and the target run concurrently and meet only at
`ptrace` stops; a stop can come for any signal, in a system call that the kernel
will restart, with the stack aligned or not; the tracer waits for the target
with a timer instead of `wait()`; any of `dlclose`, `malloc`, `dlopen` can fail
or never return half-way through an injection; either process can die between
any two requests; breakpoints live in words of text that can overlap; a SIGINT
handler does `ptrace` work between any two steps of the main program; saved
registers and words go stale; the user injects a function, or restarts, while
frames of it are on the stack; the isolation of a function scans text line by
line without a grammar. `PROJECT.json` lists each hazard at its line.

What makes each component correct:

* injection: outside `pdlopen`/`pdlclose` the target has its own text and
  registers; its stack and memory survive; each call is the intended one with
  its argument; a reported success is a real swap; a jump into an unloaded
  library is reported as a failure; the library is never referenced twice; no
  request is made of a running target; an injection ends;
* breakpoints: text and map agree; no breakpoint is passed unnoticed or stays
  disarmed; the target never resumes in the middle of an instruction; restart
  goes to the checkpoint; Ctrl-C at a prompt undoes everything; every stop is
  answered, by a prompt or by letting the target go on; to the user the breakpoints
  are those of an ideal debugger;
* frames: whatever is restarted, resumed, injected and checkpointed in whatever
  order, the target only executes code, and a restart goes to the frame that the
  user selected;
* `FunctionInjector`: a success means that the function runs what its library
  file holds; a dangling jump was reported and its handle is kept; no library is
  referenced twice, however compiling and loading fail;
* `demo1`: the last edit comes to run, whenever edits come;
* `cparser`: the copy holds the function, whole and once, with the directives,
  types and variables before it, in their order, and no other function; it says
  whether it found it; it ends.

## Modules

| Module | Models |
|---|---|
| `InjectedCode` | `injectSharedLibrary()` and `ejectSharedLibrary()` as sequences of instructions, their entry points |
| `Injection` (extends `InjectedCode`) | one `FunctionInjector` and one function of one target: `inject_func*`, `pdlclose`, `pdlopen`, the `ptrace` primitives; the target's CPU; kernel and libc |
| `HotSwap` | what an injection promises its caller, without `ptrace`; `Injection` implements it (`ImplementsHotSwap`) |
| `MCInjection` | the configurations of `Injection` |
| `Injection_proofs` | theorems about `Injection`: types, restored context, stack |
| `Swap_proofs` | theorems about what `Injection` loads, calls and reports, and that it implements `HotSwap` |
| `Breakpoints` | ddb's loop, breakpoints, restart, resume, SIGINT |
| `Transparent` | what breakpoints promise the user, without int3 and words; `Breakpoints` implements it (`ImplementsTransparent`) |
| `MCBreakpoints` | the configurations of `Breakpoints` |
| `Breakpoints_proofs` | theorems about `Breakpoints` |
| `FunctionInjector` | class `FunctionInjector` with its compiler: sources, functions, library files, the map of entries, the loader's references |
| `MCFunctionInjector` | its configurations |
| `FunctionInjector_proofs` | theorems about `FunctionInjector` and `Watch` |
| `Watch` (extends `FunctionInjector`) | demo1's loop over modification times |
| `MCWatch` | its configuration |
| `Ddb` | ddb as a whole, one action per command: start-up, frames, checkpoints and injection at the prompt |
| `MCDdb` | its configuration: a recursive program |
| `Ddb_proofs` | theorems about `Ddb` |
| `FunctionIsolation` | `isolateFunction()` and all it calls in `cparser.cpp` and `libs/utils.c` |
| `MCFunctionIsolation` | its configurations: the kinds of items that files are made of |
| `SequenceFacts` | what `FlattenSeq` of the community modules computes, by induction |
| `FunctionIsolation_facts` | what the operators of `FunctionIsolation` return: places of lines, depths, kinds, copies |
| `FunctionIsolation_proofs` | theorems about `FunctionIsolation` |

Operators whose name has a suffix after an underscore (`Patch_Stale`) and whose
comment begins with "Mutant:" are faulty variants of the definition that follows
them. No specification uses them; each shows that a property fails when the code
has that fault (`PROJECT.json`, "mutants").

### Injection

`pc` is the tracer's position. One action is one `ptrace` request or one
decision between requests; `stage` is the libc call in progress, so
`cont`/`sleep`/`returned` stand for each of the calls of `ptrace_cont()`.

* `SetRegs`, `WriteRoutine`, `PtraceCont`, `CheckTargetSig` / `GiveUp`,
  `DlcloseReturned`, `MallocReturned`, `DlopenReturned`, `CallFailed`,
  `CheckLoaded`, `Patch`, `FreeReturned`, `RestoreText`, `RestoreRegs` follow
  `pdlclose()` and `pdlopen()` line by line; both share the actions, `Routine`,
  `Arguments` and the entry point make the difference.
* `PtraceAttach`, `Attached`, `PtraceDetach` are `inject_func()` (demo1);
  `PtraceLetgo`, `WaitReturns`, `InjectUnderPtrace` are ddb's loop around
  `inject_func_under_ptrace()`. `InjectFuncMain` decides on `dlclose`.
* `Exec*` run the copied routine one instruction at a time, with a stack and
  eight registers holding symbolic values. The entry point skips one or two of
  the pushes: `regs.rip` is the start plus 1 (ddb) or 2 (demo1, `pdlclose`), and
  two less when the kernel restarts a system call (`RestartSyscall`). Entered
  one byte before its first instruction the routine decodes differently
  (`StrayAdd`); byte 2 of the other routine is the second half of `push %r9`,
  which alone is `push %rcx` (`MidPush`).
* `Call*` are the libc functions: they may fail, crash, or not be taken (the
  call never returns). `NoteAlignment` records the stack's alignment.
* `SignalStops`, `Halts`, `Faults`: a signal stops the target at any instruction;
  without a tracer it halts or kills it. While the application itself runs its
  registers and stack are arbitrary, so it is one location: each stop starts
  from a fresh reference `atStop`.
* `TracerKilled`, `Interrupt`: the tracer dies between any two steps.

`entry` and `handle` name libraries by the load they come from, so `entry =
handle` and `Live(handle)` say that the jump leads into code that is mapped.
`InjectFuncMain` reads `handle`, which only `INJECT_RETURN` (part of
`RestoreRegs`) sets, so a failed `dlopen` after a good `dlclose` leaves a stale
handle, as in the code.

### Breakpoints

Text is the set `traps` of bytes that hold an int3 and should not; a word of
text is the set of those within `Bytes(a)`. `ptrace_read` of a word is an
intersection, `ptrace_write` replaces it whole (`WordWritten`), so overlapping
breakpoints spoil each other exactly as in the code. `pc` follows `main()`,
`reset_breakpoint()` (`FindBreakpoint` ... `WriteTrap`),
`set_breakpoint_at_addr()` (`ReadWord`, `WriteBreakpoint`, `Emplace`), the
prompt's commands and `sighandler()` (`Sigint`, `RewindRip`,
`RestoreBreakpoint`, `DetachAndExit`, or `QuitFails` when a request fails).
`Sigint` is enabled between any two requests. The target is an arbitrary
program: from any instruction to any other, faulting, exiting, receiving
signals. `checkpoint.regs` is `Garbage` until recorded; a restart with it loads
those registers (`RestartFunc`) or ends ddb, which first reads the word at that `rip`
(`RestartFails`). The prompt of a SIGINT
stop is followed by another, because the case falls through (`uiTwice`).

### FunctionInjector and Watch

Sources, their edits and library files are numbered by version: `content` is the
version in the source, `isolated` the one in the temporary `.c` file, `so` the
one a library file was built from, `loaded[l].ver` the one that was loaded from
it. A library file is named by the last component of the source's path and the
function (`Library`), so two sources of one name share it. `built`, `path` and
`handle` are the entries of `sources_to_compiled_functions`; `Record` keeps an
entry that is there, as `emplace()` does. `pc` goes through `isolate`
(`isolateFunction()` returns, or does not: `IsolateFunctionStays`), `compile` (three
ends: `Compiled`, `CompileFailed`, `CompilerKilled`), `inject`, `close` and `open`,
each one call of the code; what happens inside `pdlclose()` and
`pdlopen()` is module `Injection`'s subject. The loader opens by path: a library
that is referenced is returned again, with its old contents. `TracerEnds` and
`NewTracer` end a tracer at any step and start another on the same target; a first
compile that fails ends it by itself, at `strlen()` of the NULL that was recorded as
the library's path (`NullPath`).
`undefined` records that a handle was closed twice.

`Watch` adds the clock in seconds, `mtime` and `last_modify`. `Notice` is one
round of the loop that sees a difference; `CompileAndInject` are the actions of
`FunctionInjector`; `Save` may come between any two of them.

### Refinements

`HotSwap` is the interface of `inject_func()`: an injection begins, libraries are
unloaded and loaded one at a time, the function is led into a loaded one, and
the injection succeeds, fails or is aborted. `Abstract` in `Injection` maps to it:
`Phase` is "busy" from the decision to inject to its report, and "aborted" once
the tracer is gone while the copied routine may still run in the target, so that
a library can come or go after that; the library is the loader's, the jump is
`entry`, the kept handle `handle`. A tracer that
is killed or gives up is `Abort`. `HotSwap` is fair in `Succeed \/ Fail \/ Abort`; that is a
consequence of the fairness of `Injection`, which the run checks with the rest.

`Transparent` is an ideal debugger: the program's own step is never taken at an
armed instruction except as a single step that the debugger asked for, and only
the user moves it (`Elsewhere` after a restart with unrecorded registers). `At`
undoes what the int3 does to `rip`: at the stop of a breakpoint the program is at
the call, one byte before. `orderly` ends where `Breakpoints` promises nothing any
more: with breakpoints closer than a word, and with ddb's end.

### Ddb

`Breakpoints` and `Injection` look at one mechanism request by request. `Ddb` puts
them together at the level of commands: a stop, a command and a continuation
are one step each, and what the mechanisms leave in the text is state: `jump`
(the load that a function's first bytes lead to), `live` (the loads of it that are
mapped, one for each source it was injected from), `traps` (calls with an int3), `mixed` (functions whose first bytes are
part jump, part restored word). A frame is a function and the version of its
code; the program calls along `Callee`, from one place in each function, so a
frame's code also names its call. `pos` is how far the innermost frame is.

* `Init`, `Construct`, `Letgo`, `Execs` are the start-up, with `-p` (stopped,
  attached) and `-e` (forked, perhaps not yet at its exec).
* `WaitReturns` makes a new `StackUnwinder`: `unwinder` keeps the frames it found,
  also for the second prompt of a SIGINT stop (`again`), when a command at the
  first may already have changed the target's registers.
* `UpStack`, `DownStack`, `ResumeCurrFrame`, `RestartCurrFrame`, `RestartCheckpoint`
  (or `RestartUnrecorded`), `InsertCheckpoint` and `ResetBreakpoint` are the commands
  about frames. The user's index may reach the number of frames, one past the
  outermost, and what each command does there is modelled. The address of a call is
  the return address minus 5, which is wrong for indirect calls (`shape.indirect`);
  registers of a checkpoint are those of the frame that last hit it, and stay when
  the frame is gone.
* `handle_injection()` has four ends. `Inject`: the function leads into the new
  library. `InjectFails`: `malloc()` or `dlopen()` failed, or `checkloaded()` did not
  find the library, after the old one was closed or not. `InjectCrashes`: ddb dies
  at the NULL recorded by a first compile that failed, or in `isolateFunction()`.
  `InjectAbandoned`: the tracer gives up at some request, and the target goes on in
  the copied routine, with whatever was closed, opened or written by then.
* `Sigint` is Ctrl-C at a prompt, `SigintElsewhere` while ddb waits or starts. Ctrl-C
  between two requests of a command is in `Breakpoints` and, for an injection, in
  `Injection` and `InjectAbandoned`.

ddb does not check any of what can go wrong, so a frame can come to execute what
is not there (`pos = "wild"`), or the target can be left with int3 bytes of a ddb
that has ended. The model names each step at which a *limit* of the tool is crossed, in
the comment of the action, and remembers it in `lapsed`:

* the target goes on, or ddb ends, while a frame executes or returns into an unloaded
  library or an overwritten call (`Letgo`, `Sigint`, `SigintElsewhere`);
* a checkpoint at an indirect call, or a restart there (`InsertCheckpoint`,
  `RestartCurrFrame`);
* a restart at a checkpoint whose registers were never recorded (`RestartUnrecorded`);
* an index past the outermost frame that is used (`PastEnd`, `ResumeCurrFrame`);
* a checkpoint that an injection overwrites or unloads (`Inject`, `InjectFails`);
* a failed injection that leaves the function leading into a library that it closed
  (`InjectFails`);
* a function whose first compile from a source fails, or at which `isolateFunction()`
  crashes (`InjectCrashes`);
* an injection that the tracer gives up in the middle: a call of the target that takes
  longer than the timer, another signal, Ctrl-C, or, with `-e`, wrong addresses
  (`InjectAbandoned`);
* Ctrl-C elsewhere than at a prompt while a checkpoint is set (`SigintElsewhere`).

`StaysInCode`, `TextMatches` and `RestartsSelected` hold in every order of commands and
events within these limits; about what happens beyond them they say nothing. Each limit
is needed: without any one of them (its `Lapse` replaced by `FALSE`) the run finds
`StaysInCode` or `TextMatches` violated. In practice this means that ddb promises less
than it seems: an injection of a library that is slow to load is already beyond them.

With `-e` the constructor of `FunctionInjector` looks for libc in the target's maps
when the target is at its exec, where the dynamic linker has not loaded it, or
before it, where the maps are ddb's (`addrs`): an injection then calls what is not
`malloc()`, and only `InjectAbandoned` and `InjectCrashes` are left of the four ends.

### FunctionIsolation

A file is a sequence of items, an item of lines, a line of the tokens the scanner
looks for. `pc` names the loop of `isolateFunction()`, `resolveDefine()`,
`checkAndWriteFunc()` or the loops over a type or comment; each action is one
iteration. Reading is modelled with its ends (`Read`): the empty line after the
last newline, then -1 with the buffer unchanged, so that loops that do not test
for it never end (pc "endless") and -1 taken for a size crashes (pc "crashed").
`line` and `start` share a buffer until another line is read for a declaration
(`shared`), and a change of one is seen in the other, as in the code.

The reference is what the items ask for (`Isolated`): each has a role (context,
variable, dropped, other, target). Which items the scanner deals with is told from
their lines alone:

* `Followed`: the scanner is at the end of the item when the item is over, as deep in
  brackets as it should be. The item is a directive, a comment or a blank line, a type
  of several lines, the function or its prototype or what is taken for it, or other
  statements, each of which shows in its line what it is. Not followed are a type in
  one line and a function whose name is in another line than its type.
* `InStyle`: moreover what is copied of it is what its role asks for. Not in the style
  are a header that is not there, an initialised table (dropped as code), a function
  behind a `;` in one line (found, but the variable before it is written twice), and a
  function that `strstr_strict()` takes for the one looked for, as it only examines
  the character after the name.

`Regular` files consist of followed items; `Tame` ones of items in the style, with a
newline at their end. `IsolatesTarget` is about tame files, `TracksDepth` and
`IsolationEnds` about regular ones, `Undisturbed` about both, `OutputInOrder` and
`ComesCloser` about every file.

## Runs

| Run | Question | Result |
|---|---|---|
| `injection` | does an injection leave the target as it was, and report what happened? | 13 properties hold (48,860 states) |
| `breakpoints` | do text, map and registers stay in agreement? | 9 properties hold (390,955 states) |
| `injector` | does the map of entries describe what is loaded, and success what runs? | 4 properties hold (177,416 states) |
| `watch` | does the last edit come to run, if nothing fails? | 2 properties hold (4,385 states) |
| `ddb` | do frames, checkpoints and injections leave each other intact, in any order of commands? | 4 properties hold (2,361,715 states) |
| `isolation` | is what is compiled the function and its context, from every file? | 7 properties hold (516,810 states) |
| `injector_restart` | does 0 mean success (`FunctionInjector.h:80`) for a second tracer too? | no: `dlopen` gives it the old library |
| `running_stack` | does offset 2 suit every running target (`hot_swap.hpp:40`)? | no: the top stack word is overwritten |
| `buffer_leak` | is the buffer freed (`hot_swap.cpp:334`)? | no: the routine stops before the call |
| `quit_running` | does SIGINT restore the breakpoints (`ddb.cpp:97`)? | not while the target runs |
| `isolation_found` | is 0 for a function that is not there (`cparser.cpp`)? | no: a one-line typedef swallows the rest of the file |
| `restart_unrecorded` | are only the arguments uncertain in a restart without registers (`ddb.cpp:205`)? | no: `rip` too, and ddb may exit |

Bounds. `injection`: `MaxInjections = 3` requests per behaviour, from which a
third injection meets every combination of the two before it (success, failure
of each call, stale handle); both clients; stops with and without a system call
to restart. The number of stops is not bounded. `breakpoints`: a word of 4 bytes
instead of 8, an 11-byte text with four instructions, three of them calls; one
call has no other within a word, the other two share one. Three is the fewest
that has both cases at once; stops, hits and restarts are not bounded.
`injector`: two sources of one function, one edit, three loads, one restart of
the tracer; a second function adds states (6 million) but no case, as functions
share nothing but the tracer. With three versions and four loads (2.3 million
states) the result is the same. `watch`: one source and function, four versions
within four seconds, so that edits share a second, fall into a compile or an
injection, and come after the last one was handled; `clock` stops at `MaxClock`,
which takes nothing from the loop. Its injections are bounded by the edits.
`ddb`: main calls f, which calls itself, at most three frames, two loads, and two
shapes: f calls within its first 16 bytes and main indirectly; or main calls within
them, and both directly. Recursion makes two frames with one call, an injected
version under or over an old one, and a checkpoint hit in an outer frame while an
inner one is recorded; three frames have an innermost, a middle and an outermost
one, and two loads a library that replaces another or, from another source, joins it.
`isolation`: every
file of up to three items of 26 kinds, with and without a last newline: an item, what
precedes it and what follows. `PathFits = TRUE` in `injection`: a path that
`checkloaded()` does not find makes `SuccessMeansSwapped` fail, as `pdlopen()` then
writes no jump and still returns 0.
`CHECK_DEADLOCK FALSE`: isolation returns; the tracer exits, the target dies, demo1 runs out of
requests.

Fairness. `Injection`: weak fairness of the tracer's own steps (an ordinary
process whose `nanosleep` ends) and of the delivery of `PTRACE_ATTACH`'s
SIGSTOP. None of the target: its call may wait for a lock that the stopped
application holds. `InjectionEnds` holds because the 5 ms sleep is not a wait.
`Breakpoints`: weak fairness of ddb's steps between prompts, and of the target
while it is single-stepped. None of the user and none of the running target.
`FunctionIsolation`: weak fairness of `Next`, a sequential function. `Ddb`: none, its
properties are safety. `HotSwap`'s is checked, not assumed.
`Watch`: weak fairness of the loop and of compiling and injecting: gcc ends, and an
injection ends (`InjectionEnds`). That `isolateFunction()` ends is not assumed: it may
as well go to `noReturn`, as it does for files that `FunctionIsolation` finds. None of
the user, the clock or the tracer's end. `EditsRun` exempts edits that share a second,
edits whose compile or injection fails, and three ends of demo1: killed by the user or
ended in an injection (`gone`, `lost`), `noReturn`, and the crash at the NULL path
(`nullPath`), this one only as long as nothing was injected. So it does say that once
a library was loaded no failure of an earlier edit keeps the last one from running.

## Proofs

`Injection_proofs` proves, for all values of the constants (no bound on the
number of injections), `TypeOK`, `Restored`, `PtraceNeverFails` and
`AppMemoryIntact`. Type correctness itself needs an argument: the model's stack
has seven words and the routines must stay within them. So `IInv` adds
`FrameInv`: at instruction *i* of a routine, the stack pointer plus the number
of pushes that come before *i* (`InjectDepth`, `EjectDepth`) is the number of
pushes the entry skipped, at most two; at most one if the offset fits the stop.
`ContextInv` says what is saved and what is in place at each step of
`pdlopen()`, and `StoppedInv` that the target is stopped. The lemmas
`InjectDepths` and its like check the two depth tables against the code once.

`Swap_proofs` adds `SwapInv` to that invariant and proves the other properties of
`Injection`. `InjectRegs` and `EjectRegs` say, instruction by instruction, which
registers hold the arguments the tracer passed; `PositionInv` at which call of
which routine the target is at each step of the tracer; `LibraryInv` ties the
library's references to the handle the tracer has; `ReportInv` ties the function's
first bytes and the result to both; `SkewInv` gives the alignment of the stack at
each call. `SuccessSwaps` and `ImplementsSafety` assume `PathFits`;
without it both fail, as under "Bounds". `ImplementsSafety` maps the tracer's attaching to
`Begin`, the target's call of `dlopen` to `Load` and of `dlclose` to `Unload`,
`Patch` to `Redirect`, the return of `inject_func()` to `Succeed` or `Fail`, a
tracer that dies or gives up to `Leave` or `Abort`; the other steps are hidden. It
is the safety part of `ImplementsHotSwap`.

`Breakpoints_proofs` proves, for any word size, text and set of calls, `TypeOK`,
`TextExact`, `NeverMidInsn`, `CleanQuit`, `NoneMissed` and `RestartReturns`.
`IInv` has six parts besides the type: who runs at each step (`RunInv`); the text
and the map, breakpoints spaced or not (`MapInv`); the same with breakpoints a
word apart, where a saved word has no int3 at all (`SpacedInv`); where `rip` is
(`RipInv`); and what SIGINT interrupted, a wait (`QuitWaitInv`) or a prompt
(`QuitPromptInv`). The key lemma is `SpacedWord`: writing the word of one
breakpoint leaves the others alone. `SpacedBefore` carries the hypothesis
backwards: breakpoints are only ever added. `AlwaysTransparent` proves the
refinement `ImplementsTransparent` from the same invariant and `LeftInv` (ddb is in
its handler only when a SIGINT has been recorded), one lemma for each group
of actions; `HiddenStep` gives the steps the user does not see.

`FunctionInjector_proofs` proves `TypeOK`, `RunsWhatWasBuilt`, `DanglingKept` and
`OneReference` for any number of sources, functions, edits and loads, and
`RunsWhatWasBuilt` for demo1's loop (`WatchRunsFile`), which compiles again without
assigning the source again (`NoticeStep`) and is otherwise a use of it. The
invariant `Books` ties the tracer's map to the loader: every load has its number
(`LoadsNumbered`), the handle of an entry is the last load of its library and the
library has at most one reference (`HandlesFollow`), the library is unreferenced
when `dlopen` is called (`ClosedFirst`), and a function jumps into a load whose
handle one of its entries has (`EntriesFollow`). Three of them have the hypothesis
`Orderly`: one tracer, no handle closed twice, no two sources of one name.
`OrderlyBefore` carries it backwards.

`Ddb_proofs` proves `TypeOK`, `StaysInCode`, `TextMatches` and
`RestartsSelected` for every program, depth of the stack and number of loads.
All but the first hold as long as no limit was crossed (`~lapsed`); `lapsed` is
never reset, so `LapsedBefore` carries the hypothesis backwards. `RunInv` says
who runs at each step and what a stop at a checkpoint means, `SigInv` that a
signal ddb has not taken is there only while it waits or is gone; `TextInv` adds
to `TextMatches` that every checkpoint still has its call; `CodeInv` says that
the target is let go only with frames whose code is there. `HandledText` says
what an injection, however it ends, does to the text. `FreshInv` is the heart of
`RestartsSelected`: if a frame of the stack, or of the frames the unwinder read,
is in a call whose registers were recorded at its last hit, then the recorded
frames are that frame and its callers (`Follows`). Pushing, popping and resuming
frames keep it by `FollowsPrefix` and `OneMore`, a recursive hit ends it for
that call.

`FunctionIsolation_proofs` proves `TypeOK`, `IsolatesTarget`, `TracksDepth`,
`OutputInOrder`, `Undisturbed` and `ComesCloser` for files of any number of items,
over any set of items of any number of lines: the 26 kinds of `MCItems` are the examples, `Followed`
and `InStyle` the hypotheses. There are three invariants, each using the one before.
`TypeInv` keeps what is held a line of the source or the rest of one. `PosInv` is the
argument of the proof: by stage (`AtScan`, `AtDefine`, `AtType`, `AtHeader`,
`AtBody`, ...) in which item and line of it the scanner is, what it holds of the item
and that what it has written is `CopiedTo` there; from that, in a regular file, the
count of brackets, the end of each loop inside its item, and the result follow.
`OrderInv` says that what is written is of lines before the one that is held, and what
is held of lines before the one that is read next; it needs `PosInv` for two steps
only, where a line that is not what it seemed would be written twice. `ComesCloser`
needs only `TypeInv`: each step lowers (`ReadsLeft`, `StagesLeft[pc]`, the rest of the
line), in this order, none of which is negative (`MeasureType`); with `NeverEndless`
it is what `IsolationEnds` says, but for the fairness and that there is a step
(`ENABLED`). All three invariants were checked as invariants of the `isolation` configuration before they were proved.

What a scan computes is a statement about sequences of any length, and the library's
induction theorems cannot be used (they take an operator). `SequenceFacts` does
without them: `NatLessThanWellFounded` and `WFMin` give that each set of numbers has a
least element (`NatMin`), hence that a set with 0 and each successor is `Nat`
(`NatClosed`); from these, that a recursive function over 0 .. n has values
(`SumExists`, `FlatExists`), and from the definition of `FlattenSeq` that it appends
one sequence after another (`FlattenMore`) and puts each element at its place
(`FlattenIndex`). `FunctionIsolation_facts` applies this to the text, the depth
(`DepthWithin`: within an item it is the item's own) and the copies (`CopiedFacts`,
`IsolatedIs`).

Assumptions: those the modules state (`ASSUME`), notably that breakpoints are
set at call instructions, longer than one byte, whose word lies in the text.

Only model-checked: liveness (`InjectionEnds`, `Rearmed`, `StopAnswered`, `EditsRun`,
`IsolationEnds`, and in `ImplementsHotSwap` that an injection ends). Every invariant
and every action property that a passing run checks is a theorem.

## Abstractions

* The target has one thread. Its routines were compiled as the Makefile does
  (`-no-pie -O2`), without `endbr64`, so that they begin with the one-byte
  `push %rbp`.
* A `ptrace_read` or `ptrace_write` of several words is one step in `Injection`
  (the target is stopped); its crash points inside a transfer are left out. Text
  in the way of the routine is one value.
* The routine's pushes overwrite the red zone below the application's stack
  pointer; only the words at and above it are compared.
* `Injection` has one function; libc results are "null" or not; a handle of an
  unloaded library gives any result or a crash.
* In `FunctionInjector` saving a file is one step, and so are a compile and each
  libc call with what `pdlopen()` does around it. A failed link may remove the
  library file.
* In `Breakpoints` an address is a call or not; how it is computed, and injection at
  the prompt, are in `Ddb`.
* In `Ddb` libunwind finds the frames that are there; a function calls from one
  place; an injection is one step, with the four ends named above; the sources from
  which one function is injected have different file names, so each has its library
  (`FunctionInjector` has the other case); the target dies by a signal that ddb gives to nobody only when ddb is gone.
* In `FunctionIsolation` indentation and the text between tokens are left out; a
  file is not changed while it is read.
* `PTRACE_PEEKTEXT` returning the word -1 for an error (`libs/ptrace.c:128`) and the
  transfer of the 12-byte jump as two words are left out: word contents are
  abstract.

Not modelled: `libs/pdlsym.c` (third-party, no target of the Makefile links it);
`libs/bin_dlsym.cpp` (a lookup in an ELF file and its linker flags, without state);
`findProcessByName()` (a search through `/proc`); the playground, the demos and
test programs, which are stand-alone experiments or targets; printing.

## Plan

1. Done: `InjectedCode`, `Injection`, `Breakpoints`, their runs and first proofs.
2. Done: `FunctionInjector`, `Watch` and the proofs about the former.
3. Done: `Ddb` (frames, call addresses, injection at the prompt, start-up).
4. Done: the abstract specifications `HotSwap` and `Transparent`.
5. Done: `FunctionIsolation`.
6. Done: the proofs of the remaining properties of `Injection` and, for safety, of
   both refinements.
7. Done: the proofs about `FunctionIsolation`, for files of any length, and about
   `Watch`.
8. Left: what else the safety side of the liveness properties allows to prove, as
   `ComesCloser` does for `IsolationEnds`.
