--------------------------------- MODULE Watch ---------------------------------
(* demo1's main(): once a second it compares the modification time of the     *)
(* source file, in whole seconds, with the one it saw last, and if they       *)
(* differ compiles the function and injects it, whatever came of compiling.   *)
EXTENDS FunctionInjector

CONSTANT MaxClock  \* bound: seconds in one behaviour

ASSUME MaxClockAssumption == MaxClock \in Nat

VARIABLES
  clock,         \* the file system's time in seconds
  mtime,         \* st_mtim.tv_sec of the source
  stamp,         \* history: when each version was saved
  last_modify

watchVars == <<clock, mtime, stamp, last_modify>>

WatchInit ==
  /\ Init
  /\ clock = 0 /\ mtime = 0 /\ last_modify = 0
  /\ stamp = [v \in 1 .. MaxEdits |-> 0]

Tick ==
  /\ clock < MaxClock
  /\ clock' = clock + 1
  /\ UNCHANGED <<vars, mtime, stamp, last_modify>>

Save ==
  /\ Edit(source)
  /\ mtime' = clock /\ stamp' = [stamp EXCEPT ![edits + 1] = clock]
  /\ UNCHANGED <<clock, last_modify>>

(* Mutant: the time of noticing is kept instead of the file's.                *)
Notice_Now ==
  /\ pc = "idle" /\ mtime # last_modify
  /\ last_modify' = clock
  /\ pc' = "isolate"
  /\ UNCHANGED <<fileVars, jobVars, mapVars, result, restarts, targetVars, clock, mtime, stamp>>

(* sleep(1), stat(); the source was assigned before the loop.                 *)
Notice ==
  /\ pc = "idle" /\ mtime # last_modify
  /\ last_modify' = mtime
  /\ pc' = "isolate"
  /\ UNCHANGED <<fileVars, jobVars, mapVars, result, restarts, targetVars, clock, mtime, stamp>>

CompileAndInject == (Compile \/ Inject) /\ UNCHANGED watchVars

Killed == TracerEnds /\ UNCHANGED watchVars

WatchNext == Tick \/ Save \/ Notice \/ CompileAndInject \/ Killed

(* demo1 is scheduled, gcc ends, and isolateFunction() does or is known not   *)
(* to. Nothing is assumed of user and clock.                                  *)
WatchSpec ==
  /\ WatchInit /\ [][WatchNext]_<<vars, watchVars>>
  /\ WF_<<vars, watchVars>>(Notice) /\ WF_<<vars, watchVars>>(CompileAndInject)

--------------------------------------------------------------------------------
(* Properties.                                                                *)

(* The last edit did not fall into the same second as another version.        *)
LastAlone == edits > 1 /\ \A v \in 1 .. edits - 1 : stamp[v] # stamp[edits]

(* demo1 has injected the last edit, or compiling or injecting it failed.     *)
Handled ==
  /\ pc = "idle" /\ isolated = edits
  /\ \/ so[ThisLibrary] # edits
     \/ result = "three"
     \/ entry[funcname] = loaded[ThisLibrary].gen /\ loaded[ThisLibrary].ver = edits

(* Whenever edits come, while demo1 compiles or injects an earlier one too,   *)
(* the last one comes to run in the target, unless it shares its second with  *)
(* an earlier one, or compiling or injecting it fails. Three ends are exempt: *)
(* demo1 was killed or has exited in an injection; isolateFunction() does not *)
(* return (FunctionIsolation has the files for which it does); or the first   *)
(* compile of all failed, which crashes demo1. No later failure does.         *)
EditsRun ==
  <>[](LastAlone => \/ Handled
                    \/ pc \in {"gone", "lost", "noReturn"}
                    \/ pc = "nullPath" /\ loads = 0)
================================================================================
