----------------------------------- MODULE Ddb ---------------------------------
(* ddb as a whole, one action per command: starting or attaching to a target, *)
(* frames of the target selected, restarted, resumed (StackUnwinder),         *)
(* checkpoints at the calls of frames, and functions injected at the prompt   *)
(* while frames of theirs are on the stack. What Breakpoints and Injection    *)
(* show of one breakpoint's and one injection's steps is one step here; this  *)
(* module is about what they do to each other and to the frames.              *)
EXTENDS Integers, Sequences

CONSTANTS
  Callee,    \* the function that each function calls, at one place
  Main,      \* the outermost one
  Shapes,    \* [early, indirect]: functions whose call and its return address
             \* lie in the first 16 bytes; whose call is not 5 bytes long
  MaxDepth,  \* bound: frames on the stack
  MaxLoads   \* bound: libraries loaded

Fn == DOMAIN Callee

ASSUME CalleeAssumption == Callee \in [Fn -> Fn] /\ Main \in Fn
ASSUME ShapesAssumption == Shapes \subseteq [early : SUBSET Fn, indirect : SUBSET Fn]
ASSUME BoundsAssumption == MaxDepth \in Nat \ {0} /\ MaxLoads \in Nat

VARIABLES
  shape,
  \* the target
  run,       \* "forked" (not yet at its exec), "running", "stopped", "dead"
  sig,       \* the signal that stopped it, until ddb has taken it
  stack,     \* its frames, outermost first: [fn, ver], ver 0 for the program's own
             \* code, otherwise the load of the library it is in
  pos,       \* where the innermost one is, see Positions
  jump,      \* per function, the load its first bytes lead to, 0 for none
  live,      \* per function, the loads that are mapped: one for each of its sources
             \* that was injected
  mixed,     \* functions whose first bytes are part jump, part saved word
  traps,     \* calls, named by the frame's code, with an int3 in the text
  \* ddb
  pc,        \* "construct", "letgo", "wait", "trap", "segv", "ui", "gone"
  unwinder,  \* [frames, pos]: what StackUnwinder() found, NoFrames when there is none
  user,      \* its user_stack_trace_idx
  again,     \* is a second prompt to come
  keys,      \* calls in break_point_map
  recorded,  \* the stack when their registers were recorded, <<>> for never
  addrs,     \* are the addresses in injector->addrs those of the target's libc
  loads,     \* libraries loaded so far
  fresh,     \* history: calls recorded at their last hit, not made recursively;
             \* none after a restart with registers that were not
  lapsed     \* history: something was done that ddb does not cope with

targetVars == <<run, sig, stack, pos>>
textVars   == <<jump, live, mixed, traps>>
promptVars == <<unwinder, user, again>>
mapVars    == <<keys, recorded, fresh>>
vars == <<shape, targetVars, textVars, pc, promptVars, mapVars, addrs, loads, lapsed>>

(* The entry; the first 16 bytes; elsewhere in the function; at its call; in  *)
(* nothing that is code.                                                      *)
Positions == {"start", "prologue", "body", "call", "wild"}

Frames == [fn : Fn, ver : 0 .. MaxLoads]
Top == stack[Len(stack)]
NoFrames == [frames |-> <<>>, pos |-> "start"]

(* A jump was written over the call of the frame's function.                  *)
CallLost(frame) == frame.ver = 0 /\ jump[frame.fn] # 0 /\ frame.fn \in shape.early

LibraryLost(frame) == frame.ver # 0 /\ frame.ver \notin live[frame.fn]

(* The first bytes of f lead to a library that was closed.                    *)
Dangling(f) == jump[f] # 0 /\ jump[f] \notin live[f]

(* What a frame executes at p is not there any more.                          *)
Ruined(frame, p) ==
  \/ LibraryLost(frame)
  \/ CallLost(frame) /\ p = "call"
  \/ frame.ver = 0 /\ jump[frame.fn] # 0 /\ p = "prologue"

(* What some frame of the target executes, returns to or may come to is not.  *)
Stale ==
  \/ Ruined(Top, pos)
  \/ \E i \in DOMAIN stack :
       \/ LibraryLost(stack[i])
       \/ CallLost(stack[i]) /\ (i < Len(stack) \/ pos # "start")

(* Crossing a limit of ddb's use, which a comment names where it can happen.  *)
Lapse(condition) == lapsed' = (lapsed \/ condition)

(* With -p ddb has attached and waited for the stop, with -e it has forked.   *)
Init ==
  /\ shape \in Shapes
  /\ run \in {"forked", "stopped"} /\ sig = "none"
  /\ stack = <<[fn |-> Main, ver |-> 0]>> /\ pos = IF run = "forked" THEN "start" ELSE "body"
  /\ jump = [f \in Fn |-> 0] /\ live = [f \in Fn |-> {}] /\ mixed = {} /\ traps = {}
  /\ pc = "construct" /\ unwinder = NoFrames /\ user = 0 /\ again = FALSE
  /\ keys = {} /\ recorded = [c \in Frames |-> <<>>] /\ fresh = {}
  /\ addrs = FALSE /\ loads = 0 /\ lapsed = FALSE

--------------------------------------------------------------------------------
(* The target.                                                                *)

Keep == UNCHANGED <<shape, textVars, pc, promptVars, mapVars, addrs, loads, lapsed>>

(* It stops for ddb, or dies of what nobody takes from it.                    *)
StopsWith(s) == run' = (IF pc = "gone" THEN "dead" ELSE "stopped") /\ sig' = s

Execs ==
  /\ run = "forked"
  /\ run' = IF pc = "gone" THEN "running" ELSE "stopped"
  /\ UNCHANGED <<sig, stack, pos>> /\ Keep

Executing(p) == run = "running" /\ pos = p /\ ~Ruined(Top, pos)

(* The first bytes of a function: its own, or a jump into a library.          *)
Enter ==
  /\ Executing("start")
  /\ IF Top.fn \in mixed \/ Dangling(Top.fn) THEN pos' = "wild" /\ stack' = stack
     ELSE /\ pos' = IF jump[Top.fn] = 0 THEN "prologue" ELSE "body"
          /\ stack' = [stack EXCEPT ![Len(stack)].ver = jump[Top.fn]]
  /\ UNCHANGED <<run, sig>> /\ Keep

Goes ==
  /\ \/ Executing("prologue") /\ pos' = "body"
     \/ Executing("body") /\ pos' = "call"
  /\ UNCHANGED <<run, sig, stack>> /\ Keep

CalleeFrame == [fn |-> Callee[Top.fn], ver |-> 0]

(* At a call whose address was taken for 5 bytes before its end and is not,   *)
(* the int3 is inside an instruction.                                         *)
Calls ==
  /\ Executing("call") /\ Len(stack) < MaxDepth
  /\ \/ Top \notin traps
        /\ stack' = Append(stack, CalleeFrame) /\ pos' = "start" /\ UNCHANGED <<run, sig>>
     \/ Top \in traps /\ Top.fn \notin shape.indirect
        /\ StopsWith("TRAP") /\ UNCHANGED <<stack, pos>>
     \/ Top \in traps /\ Top.fn \in shape.indirect
        /\ pos' = "wild" /\ UNCHANGED <<run, sig, stack>>
  /\ Keep

Returns ==
  /\ Executing("body") /\ Len(stack) > 1
  /\ stack' = SubSeq(stack, 1, Len(stack) - 1)
  /\ pos' = IF LibraryLost(stack[Len(stack) - 1]) \/ CallLost(stack[Len(stack) - 1])
            THEN "wild" ELSE "body"
  /\ UNCHANGED <<run, sig>> /\ Keep

Strays ==
  /\ run = "running" /\ pos # "wild" /\ Ruined(Top, pos)
  /\ pos' = "wild"
  /\ UNCHANGED <<run, sig, stack>> /\ Keep

Faults ==
  /\ run = "running" /\ pos \in {"prologue", "body", "wild"}
  /\ StopsWith("SEGV")
  /\ UNCHANGED <<stack, pos>> /\ Keep

Signalled ==
  /\ run = "running"
  /\ \E s \in {"INT", "OTHER"} : StopsWith(s)
  /\ UNCHANGED <<stack, pos>> /\ Keep

Exits ==
  /\ run = "running" /\ run' = "dead"
  /\ UNCHANGED <<sig, stack, pos>> /\ Keep

--------------------------------------------------------------------------------
(* Start-up and main()'s loop.                                                *)

(* init_target_useful_func_addrs() looks for libc in /proc/<pid>/maps. It is  *)
(* not there at the exec of the child; before that it is ddb's own.           *)
Construct ==
  /\ pc = "construct" /\ pc' = "letgo"
  /\ addrs' = (pos # "start")
  /\ UNCHANGED <<shape, targetVars, textVars, promptVars, mapVars, loads, lapsed>>

(* ddb ends, and its memory with it.                                          *)
Gone ==
  /\ pc' = "gone"
  /\ unwinder' = NoFrames /\ user' = 0 /\ again' = FALSE
  /\ keys' = {} /\ recorded' = [c \in Frames |-> <<>>] /\ fresh' = {}
  /\ loads' = 0

(* PTRACE_CONT fails if the child has not stopped yet, and ddb exits. Limit:  *)
(* no frame is left that is stale.                                            *)
Letgo ==
  /\ pc = "letgo"
  /\ IF run = "stopped" THEN /\ run' = "running" /\ pc' = "wait"
                            /\ UNCHANGED <<promptVars, mapVars, loads>>
     ELSE run' = run /\ Gone
  /\ Lapse(Stale)
  /\ UNCHANGED <<shape, sig, stack, pos, textVars, addrs>>

(* The frames, found by stepping a cursor from the innermost outwards.        *)
Unwound == [frames |-> stack, pos |-> pos]

(* A new StackUnwinder is at frame 0; it exits if the target is dead. After   *)
(* the prompt of SIGINT comes that of the default case.                       *)
WaitReturns ==
  /\ pc = "wait" /\ run \in {"stopped", "dead"}
  /\ IF run = "dead" THEN Gone
     ELSE /\ pc' = CASE sig = "TRAP" -> "trap"
                     [] sig = "SEGV" -> "segv"
                     [] sig \in {"INT", "OTHER"} -> "ui"
          /\ unwinder' = Unwound /\ user' = 0 /\ again' = (sig = "INT")
          /\ UNCHANGED <<mapVars, loads>>
  /\ sig' = "none"
  /\ UNCHANGED <<shape, run, stack, pos, textVars, addrs, lapsed>>

(* Functions whose first bytes the saved words of the calls in cs damage.     *)
Damaged(cs) == {c.fn : c \in {c \in cs : CallLost(c)}}

(* The call is stepped over.                                                  *)
StepOver ==
  /\ mixed' = mixed \cup Damaged({Top})
  /\ stack' = Append(stack, CalleeFrame) /\ pos' = "start"
  /\ pc' = "letgo" /\ unwinder' = NoFrames

Recursive(c) == \E i \in 1 .. Len(stack) - 1 : stack[i] = c

(* Mutant: the registers are recorded after the step.                         *)
ResetBreakpoint_RecordsLate ==
  /\ pc = "trap"
  /\ \/ recorded' = [recorded EXCEPT ![Top] = Append(stack, CalleeFrame)]
        /\ fresh' = IF Recursive(Top) THEN fresh \ {Top} ELSE fresh \cup {Top}
     \/ recorded' = recorded /\ fresh' = fresh \ {Top}
  /\ StepOver
  /\ UNCHANGED <<shape, run, sig, jump, live, traps, user, again, keys, addrs, loads, lapsed>>

(* reset_breakpoint(): the registers are recorded if the user says so.        *)
ResetBreakpoint ==
  /\ pc = "trap"
  /\ \/ recorded' = [recorded EXCEPT ![Top] = stack]
        /\ fresh' = IF Recursive(Top) THEN fresh \ {Top} ELSE fresh \cup {Top}
     \/ recorded' = recorded /\ fresh' = fresh \ {Top}
  /\ StepOver
  /\ UNCHANGED <<shape, run, sig, jump, live, traps, user, again, keys, addrs, loads, lapsed>>

--------------------------------------------------------------------------------
(* Frames. Frame k of the user is frames[Depth - k].                          *)

Depth == Len(unwinder.frames)
Caller == unwinder.frames[Depth - user - 1]
Callers == SubSeq(unwinder.frames, 1, Depth - user - 1)

(* It takes the nearest frame there is to the number that was typed.          *)
GoToFrame == user' \in 0 .. Depth - 1

(* The outermost frame has no call that is known. Limit: the call is a direct *)
(* one.                                                                       *)
InsertCheckpoint ==
  /\ pc = "segv" /\ pc' = "ui"
  /\ \/ UNCHANGED <<user, traps, mixed, mapVars, lapsed>>
     \/ /\ GoToFrame
        /\ IF user' = Depth - 1 THEN UNCHANGED <<traps, mixed, mapVars, lapsed>>
           ELSE LET c == unwinder.frames[Depth - user' - 1] IN
                /\ keys' = keys \cup {c} /\ traps' = traps \cup {c}
                /\ UNCHANGED <<recorded, fresh>>
                /\ mixed' = mixed \cup Damaged({c})
                /\ Lapse(c.fn \in shape.indirect)
  /\ UNCHANGED <<shape, targetVars, unwinder, again, jump, live, addrs, loads>>

(* Mutant: the index is not compared with the number of frames.               *)
UpStack_Unbounded ==
  /\ pc = "ui" /\ user < MaxDepth + 1
  /\ user' = user + 1
  /\ UNCHANGED <<shape, targetVars, textVars, pc, unwinder, again, mapVars, addrs, loads, lapsed>>

(* The index may reach the number of frames.                                  *)
UpStack ==
  /\ pc = "ui" /\ user < Depth
  /\ user' = user + 1
  /\ UNCHANGED <<shape, targetVars, textVars, pc, unwinder, again, mapVars, addrs, loads, lapsed>>

(* ddb dies at the prompt: the kernel lets the target go as it is.            *)
Crashes ==
  /\ Gone /\ run' = "running"
  /\ Lapse(TRUE)
  /\ UNCHANGED <<shape, sig, stack, pos, textVars, addrs>>

(* print_curr_frame() and others then read a cursor past the last, and may    *)
(* crash. Limit: the index is not past the end.                               *)
PastEnd == pc = "ui" /\ user = Depth /\ Crashes

DownStack ==
  /\ pc = "ui" /\ user > 0
  /\ user' = user - 1
  /\ UNCHANGED <<shape, targetVars, textVars, pc, unwinder, again, mapVars, addrs, loads, lapsed>>

(* start_ui() returns. Before a second prompt the unwinder stays as it is.    *)
Leave ==
  /\ pc = "ui" /\ again' = FALSE
  /\ IF again THEN UNCHANGED <<pc, unwinder, user>>
     ELSE pc' = "letgo" /\ unwinder' = NoFrames /\ user' = 0
  /\ UNCHANGED <<shape, run, sig, textVars, keys, recorded, addrs, loads>>

(* End of input or an unknown command. The outermost frame is not restarted.  *)
LeaveUI == Leave /\ UNCHANGED <<stack, pos, fresh, lapsed>>

(* Limit: the index is not past the end.                                      *)
ResumeCurrFrame ==
  /\ Leave
  /\ IF user = Depth THEN stack' = stack /\ pos' = "wild"
     ELSE /\ stack' = SubSeq(unwinder.frames, 1, Depth - user)
          /\ pos' = IF user = 0 THEN unwinder.pos ELSE "body"
  /\ Lapse(user = Depth)
  /\ fresh' = fresh

(* The frame of the caller, with rip 5 bytes before the return address.       *)
(* Limit: the call is a direct one.                                           *)
RestartCurrFrame ==
  /\ Leave
  /\ user < Depth - 1 /\ Caller \notin keys
  /\ stack' = Callers
  /\ pos' = IF Caller.fn \in shape.indirect THEN "wild" ELSE "call"
  /\ Lapse(Caller.fn \in shape.indirect)
  /\ fresh' = fresh

(* All registers are those recorded when the call was hit, in whichever frame *)
(* of the function that was.                                                  *)
RestartCheckpoint ==
  /\ Leave
  /\ user < Depth - 1 /\ Caller \in keys /\ recorded[Caller] # <<>>
  /\ stack' = recorded[Caller] /\ pos' = "call"
  /\ fresh' = IF Caller \in fresh THEN fresh ELSE {}
  /\ lapsed' = lapsed

(* They never were: what is in their place may not be an address that can be  *)
(* read, and ptrace_read() exits, or it becomes the target's registers.       *)
(* Limit: the registers of a checkpoint that is restarted are recorded.       *)
RestartUnrecorded ==
  /\ pc = "ui" /\ user < Depth - 1 /\ Caller \in keys /\ recorded[Caller] = <<>>
  /\ \/ Crashes
     \/ Leave /\ stack' = stack /\ pos' = "wild" /\ fresh' = {} /\ Lapse(TRUE)

--------------------------------------------------------------------------------
(* handle_injection(): the function of the selected frame.                    *)

Selected == unwinder.frames[Depth - user].fn

(* pdlclose() is of the load that was injected from the same source, if any.  *)
Closable == {{}} \cup {{load} : load \in live[Selected]}

(* Checkpoints not in code that is unloaded or, if led, overwritten.          *)
Surviving(closed, led) ==
  {c \in traps : c.fn = Selected => IF c.ver # 0 THEN c.ver \notin closed
                                    ELSE ~(led /\ c.fn \in shape.early)}

(* The loads in closed are unloaded, those in opened are mapped, and, if led, *)
(* the first bytes of the function lead to the new one.                       *)
Handled(closed, opened, led) ==
  /\ live' = [live EXCEPT ![Selected] = (@ \ closed) \cup opened]
  /\ jump' = IF led THEN [jump EXCEPT ![Selected] = loads + 1] ELSE jump
  /\ mixed' = IF led THEN mixed \ {Selected} ELSE mixed

(* Mutant: the function that is injected again keeps its jump.                *)
Inject_KeepsJump ==
  /\ pc = "ui" /\ user < Depth /\ loads < MaxLoads /\ addrs
  /\ loads' = loads + 1
  /\ \E closed \in Closable :
       /\ Handled(closed, {loads'}, jump[Selected] = 0)
       /\ traps' = Surviving(closed, TRUE)
  /\ Lapse(traps' # traps)
  /\ UNCHANGED <<shape, targetVars, pc, promptVars, mapVars, addrs>>

(* Limit: no checkpoint is lost; its entry stays.                             *)
Inject ==
  /\ pc = "ui" /\ user < Depth /\ loads < MaxLoads /\ addrs
  /\ loads' = loads + 1
  /\ \E closed \in Closable :
       Handled(closed, {loads'}, TRUE) /\ traps' = Surviving(closed, TRUE)
  /\ Lapse(traps' # traps)
  /\ UNCHANGED <<shape, targetVars, pc, promptVars, mapVars, addrs>>

(* malloc() or dlopen() fails, or checkloaded() does not find the library.    *)
(* Limit, besides: what was closed is not where the function's bytes lead.    *)
InjectFails ==
  /\ pc = "ui" /\ user < Depth /\ addrs
  /\ \E closed \in Closable :
       /\ \/ loads' = loads /\ Handled(closed, {}, FALSE)
          \/ loads < MaxLoads /\ loads' = loads + 1 /\ Handled(closed, {loads'}, FALSE)
       /\ traps' = Surviving(closed, FALSE)
  /\ UNCHANGED <<shape, targetVars, pc, promptVars, mapVars, addrs>>
  /\ Lapse(traps' # traps \/ Dangling(Selected)')

(* The first compile of the function from a source fails: NULL is recorded as *)
(* its library's path, and strlen() of it crashes. So may isolateFunction()   *)
(* (FunctionIsolation). Limit: the function is found and compiles.            *)
InjectCrashes == pc = "ui" /\ user < Depth /\ Crashes

(* The tracer gives up at a step of the injection: the call is late or stopped*)
(* by a signal of its own, or what is called is not malloc(), in a target that*)
(* ddb has started; or Ctrl-C, whose handler may put the words back. The      *)
(* target goes on in the routine. Limit: none of these comes.                 *)
InjectAbandoned ==
  /\ pc = "ui" /\ user < Depth
  /\ \E closed \in Closable, opened \in SUBSET {loads + 1}, led \in BOOLEAN :
       /\ opened = {} \/ (addrs /\ loads < MaxLoads)
       /\ led => opened # {}
       /\ Handled(closed, opened, led) /\ traps' \in {Surviving(closed, led), {}}
  /\ pos' = "wild" /\ run' = "running" /\ Gone
  /\ Lapse(TRUE)
  /\ UNCHANGED <<shape, sig, stack, addrs>>

--------------------------------------------------------------------------------
(* Ctrl-C. (In the middle of a command's requests: Breakpoints.)              *)

(* The handler writes the words back in the order of their addresses, and     *)
(* fails at the first that is in a library that was closed.                   *)
RestoreBreakpoints ==
  LET there == {c \in keys : ~LibraryLost(c)} IN
  \E restored \in IF there = keys THEN {keys} ELSE SUBSET there :
    traps' = traps \ restored /\ mixed' = mixed \cup Damaged(restored)

(* Mutant: the handler detaches without restore_breakpoints().                *)
Sigint_NotRestored ==
  /\ pc \in {"trap", "segv", "ui"}
  /\ run' = "running" /\ Gone
  /\ Lapse(Stale)
  /\ UNCHANGED <<shape, sig, stack, pos, textVars, addrs>>

(* At a prompt. At a breakpoint rip is moved back to it, so pos stays. Limit: *)
(* as for Letgo.                                                              *)
Sigint ==
  /\ pc \in {"trap", "segv", "ui"}
  /\ RestoreBreakpoints
  /\ run' = "running" /\ Gone
  /\ Lapse(Stale)
  /\ UNCHANGED <<shape, sig, stack, pos, jump, live, addrs>>

(* Elsewhere the target may run, or not be there yet: the first request fails,*)
(* and ddb exits. If it has stopped at a breakpoint and wait() has not yet    *)
(* returned, rip is not moved back. Limit: with no checkpoint in the map only.*)
SigintElsewhere ==
  /\ pc \in {"construct", "letgo", "wait"}
  /\ IF run = "stopped"
     THEN /\ RestoreBreakpoints /\ run' = "running"
          /\ pos' = IF sig = "TRAP" THEN "wild" ELSE pos
     ELSE UNCHANGED <<run, pos, traps, mixed>>
  /\ Gone
  /\ Lapse(keys # {} \/ Stale)
  /\ UNCHANGED <<shape, sig, stack, jump, live, addrs>>

--------------------------------------------------------------------------------
Target == Execs \/ Enter \/ Goes \/ Calls \/ Returns \/ Strays \/ Faults \/ Signalled \/ Exits

Loop == Construct \/ Letgo \/ WaitReturns \/ ResetBreakpoint \/ InsertCheckpoint

Commands ==
  \/ UpStack \/ PastEnd \/ DownStack \/ LeaveUI \/ ResumeCurrFrame
  \/ RestartCurrFrame \/ RestartCheckpoint \/ RestartUnrecorded
  \/ Inject \/ InjectFails \/ InjectCrashes \/ InjectAbandoned

Next == Target \/ Loop \/ Commands \/ Sigint \/ SigintElsewhere

Spec == Init /\ [][Next]_vars

--------------------------------------------------------------------------------
(* Properties.                                                                *)

(* Every variable has its type; the selected frame is one of the stack's, or  *)
(* the one past the outermost.                                                *)
TypeOK ==
  /\ shape \in Shapes /\ run \in {"forked", "running", "stopped", "dead"}
  /\ sig \in {"none", "TRAP", "SEGV", "INT", "OTHER"}
  /\ stack \in Seq(Frames) /\ Len(stack) \in 1 .. MaxDepth /\ pos \in Positions
  /\ jump \in [Fn -> 0 .. MaxLoads] /\ live \in [Fn -> SUBSET (1 .. MaxLoads)] /\ mixed \subseteq Fn
  /\ traps \subseteq Frames /\ keys \subseteq Frames /\ fresh \subseteq keys
  /\ recorded \in [Frames -> Seq(Frames)]
  /\ pc \in {"construct", "letgo", "wait", "trap", "segv", "ui", "gone"}
  /\ unwinder.frames \in Seq(Frames) /\ unwinder.pos \in Positions
  /\ user \in 0 .. Depth /\ again \in BOOLEAN /\ loads \in 0 .. MaxLoads
  /\ addrs \in BOOLEAN /\ lapsed \in BOOLEAN

(* Within the limits that the actions name, whatever is inserted, injected,   *)
(* restarted and resumed, in whatever order: the target never executes what is*)
(* not its code. Before it goes on, a frame of a function whose library was   *)
(* closed or whose call was overwritten has been left by restarting it or an  *)
(* outer one, and every restart and each checkpoint finds a call.             *)
StaysInCode == pos = "wild" => lapsed

(* Within those limits, checkpoints and injections leave each other's bytes   *)
(* alone: an int3 at each call in the map and nowhere else, none once ddb has *)
(* ended and the target goes on, and each function's first bytes its own or a *)
(* jump into a library of its that is loaded.                                 *)
TextMatches ==
  ~lapsed => /\ mixed = {} /\ \A f \in Fn : ~Dangling(f)
             /\ pc # "gone" => traps = keys
             /\ pc = "gone" /\ run = "running" => traps = {}

(* A restart at a checkpoint whose registers were recorded at its last hit    *)
(* goes to the frame that called the selected one, at its call: whatever was  *)
(* restarted, resumed or injected since. A call that was hit recursively is   *)
(* exempt: then an inner frame's registers are taken for an outer one's.      *)
RestartsSelected ==
  [][RestartCheckpoint /\ ~lapsed /\ Caller \in fresh =>
       pos' = "call" /\ stack' = Callers]_vars
================================================================================
