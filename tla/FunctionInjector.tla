--------------------------- MODULE FunctionInjector ----------------------------
(* Class FunctionInjector: which source a function is compiled from, which    *)
(* library file it is compiled to, which library is loaded in the target and  *)
(* which one the function's first bytes jump into. The client is ddb's        *)
(* handle_injection(): assign a source, compile a function of it, inject it.  *)
(* Each libc call made in the target is one step here; module Injection has   *)
(* its parts.                                                                 *)
EXTENDS Integers

CONSTANTS
  Sources,      \* paths of source files
  Functions,    \* functions of the target that are replaced
  FileName,     \* the last component of each source's path
  MaxEdits,     \* bound: versions of the sources, the first one included
  MaxLoads,     \* bound: loads of libraries after which no injection is asked for
  MaxRestarts   \* bound: tracers started again on the same target

ASSUME SourcesAssumption == DOMAIN FileName = Sources
ASSUME MaxEditsAssumption == MaxEdits \in Nat
ASSUME MaxLoadsAssumption == MaxLoads \in Nat
ASSUME MaxRestartsAssumption == MaxRestarts \in Nat

VARIABLES
  \* files
  edits,      \* versions so far; an edit makes the next one
  content,    \* version of each source
  so,         \* version each library file was built from, 0 if there is none
  \* the tracer
  pc,         \* the step it takes next
  source,     \* srcFilePath, which compiled_functions belongs to
  funcname,
  isolated,   \* version in the temporary .c file
  built,      \* entries of sources_to_compiled_functions
  path,       \* shared_obj_path of each: is it a path or NULL
  handle,     \* handle of each: 0 is NULL, else the load it came from
  result,     \* what the last injection returned
  restarts,
  \* the target
  loaded,     \* per library path: last load, version loaded, references
  loads,      \* loads so far
  entry,      \* function's first bytes: 0 its own, else a jump into that load
  undefined   \* history: a handle was closed that had been closed before

fileVars   == <<edits, content, so>>
jobVars    == <<source, funcname, isolated>>
mapVars    == <<built, path, handle>>
targetVars == <<loaded, loads, entry, undefined>>
vars == <<fileVars, pc, jobVars, mapVars, result, restarts, targetVars>>

Pairs == Sources \X Functions

(* ./tmp/<file name>-<function>.so                                            *)
Library(s, f) == <<FileName[s], f>>

Libraries == {Library(s, f) : s \in Sources, f \in Functions}

This == <<source, funcname>>
ThisLibrary == Library(source, funcname)

Live(load) == \E l \in Libraries : loaded[l].gen = load /\ loaded[l].refs > 0

(* noReturn: in isolateFunction(), which will not return; nullPath: ended by  *)
(* the NULL that was recorded as a path; gone: ended outside an injection;    *)
(* lost: in one.                                                              *)
PCs == {"idle", "isolate", "compile", "inject", "close", "open",
        "noReturn", "nullPath", "gone", "lost"}

Init ==
  /\ edits = 1 /\ content = [s \in Sources |-> 1] /\ so = [l \in Libraries |-> 0]
  /\ pc = "idle" /\ source \in Sources /\ funcname \in Functions /\ isolated = 0
  /\ built = {} /\ path = [e \in Pairs |-> FALSE] /\ handle = [e \in Pairs |-> 0]
  /\ result = "none" /\ restarts = 0
  /\ loaded = [l \in Libraries |-> [gen |-> 0, ver |-> 0, refs |-> 0]] /\ loads = 0
  /\ entry = [f \in Functions |-> 0] /\ undefined = FALSE

--------------------------------------------------------------------------------
(* The user saves a source file.                                              *)
Edit(s) ==
  /\ edits < MaxEdits
  /\ edits' = edits + 1 /\ content' = [content EXCEPT ![s] = edits + 1]
  /\ UNCHANGED <<so, pc, jobVars, mapVars, result, restarts, targetVars>>

(* assign_source(): the entries of a source it had before are found again.    *)
AssignSource(s, f) ==
  /\ pc = "idle" /\ loads < MaxLoads
  /\ source' = s /\ funcname' = f /\ pc' = "isolate"
  /\ UNCHANGED <<fileVars, isolated, mapVars, result, restarts, targetVars>>

(* compile_func(): isolateFunction() reads the source ...                     *)
IsolateFunction ==
  /\ pc = "isolate"
  /\ isolated' = content[source]
  /\ pc' = "compile"
  /\ UNCHANGED <<fileVars, source, funcname, mapVars, result, restarts, targetVars>>

(* ... or does not return: it loops at the end of a file that is no regular   *)
(* one, or reads a NULL there and crashes (module FunctionIsolation).         *)
IsolateFunctionStays ==
  /\ pc = "isolate"
  /\ pc' = "noReturn"
  /\ UNCHANGED <<fileVars, jobVars, mapVars, result, restarts, targetVars>>

(* Mutant: a new entry takes the place of the one that is there.              *)
Record_Overwrites(isPath) ==
  /\ built' = built \cup {This}
  /\ path' = [path EXCEPT ![This] = isPath]
  /\ handle' = [handle EXCEPT ![This] = 0]

(* ... gcc writes the library, and emplace() keeps an entry that is there.    *)
Record(isPath) ==
  /\ built' = built \cup {This}
  /\ path' = IF This \in built THEN path ELSE [path EXCEPT ![This] = isPath]
  /\ handle' = IF This \in built THEN handle ELSE [handle EXCEPT ![This] = 0]

Compiled ==
  /\ pc = "compile"
  /\ so' = [so EXCEPT ![ThisLibrary] = isolated]
  /\ Record(TRUE)
  /\ pc' = "inject"
  /\ UNCHANGED <<edits, content, jobVars, result, restarts, targetVars>>

(* The function is not found or gcc fails (its linker then removes the        *)
(* library file): compile_func_in_file() returns NULL, and so does realpath().*)
CompileFailed ==
  /\ pc = "compile"
  /\ so' \in {so, [so EXCEPT ![ThisLibrary] = 0]}
  /\ Record(FALSE)
  /\ pc' = "inject"
  /\ UNCHANGED <<edits, content, jobVars, result, restarts, targetVars>>

(* gcc is killed by a signal: WEXITSTATUS is 0, which counts as success. The  *)
(* library file, if there is one, is the one built before; without one        *)
(* realpath() returns NULL.                                                   *)
CompilerKilled ==
  /\ pc = "compile"
  /\ Record(so[ThisLibrary] # 0)
  /\ pc' = "inject"
  /\ UNCHANGED <<fileVars, jobVars, result, restarts, targetVars>>

(* Mutant: a library that is loaded is not closed.                            *)
InjectFunc_NeverCloses ==
  /\ pc = "inject"
  /\ pc' = "open"
  /\ UNCHANGED <<fileVars, jobVars, mapVars, result, restarts, targetVars>>

(* inject_func_main() closes the library the entry has a handle of. (That     *)
(* INJECT_INIT finds an entry is what compile_func() has just seen to.)       *)
InjectFunc ==
  /\ pc = "inject"
  /\ pc' = IF handle[This] # 0 THEN "close" ELSE "open"
  /\ UNCHANGED <<fileVars, jobVars, mapVars, result, restarts, targetVars>>

Drop(l) == loaded' = [loaded EXCEPT ![l].refs = @ - 1]

(* Mutant: the routine comes to call dlclose() twice.                         *)
Pdlclose_Twice ==
  /\ pc = "close"
  /\ \E l \in Libraries :
       /\ loaded[l].gen = handle[This] /\ loaded[l].refs > 0
       /\ loaded' = [loaded EXCEPT ![l].refs = @ - 2]
  /\ pc' = "open"
  /\ UNCHANGED <<fileVars, jobVars, mapVars, result, restarts, loads, entry, undefined>>

(* dlclose() of the library the handle is of.                                 *)
Pdlclose ==
  /\ pc = "close"
  /\ \E l \in Libraries :
       loaded[l].gen = handle[This] /\ loaded[l].refs > 0 /\ Drop(l)
  /\ pc' = "open"
  /\ UNCHANGED <<fileVars, jobVars, mapVars, result, restarts, loads, entry, undefined>>

(* The handle was closed before, when dlopen() failed afterwards: dlclose()   *)
(* reads freed memory, which may be another library's by now.                 *)
PdlcloseAgain ==
  /\ pc = "close" /\ ~Live(handle[This])
  /\ undefined' = TRUE
  /\ \/ pc' = "open" /\ result' = result /\ loaded' = loaded
     \/ pc' = "idle" /\ result' = "three" /\ loaded' = loaded
     \/ /\ pc' = "open" /\ result' = result
        /\ \E l \in Libraries : loaded[l].refs > 0 /\ Drop(l)
  /\ UNCHANGED <<fileVars, jobVars, mapVars, restarts, loads, entry>>

(* dlopen() of a path that is loaded gives that library, whatever the file    *)
(* holds by now; the function's first bytes and the handle follow. The file   *)
(* has to be there: dlopen() or checkloaded() opens it.                       *)
Pdlopen ==
  /\ pc = "open" /\ path[This]
  /\ LET l == ThisLibrary
         isNew == loaded[l].refs = 0
         load  == IF isNew THEN loads + 1 ELSE loaded[l].gen
     IN  /\ so[l] # 0
         /\ loads' = IF isNew THEN loads + 1 ELSE loads
         /\ loaded' = [loaded EXCEPT ![l] =
                         [gen |-> load, ver |-> IF isNew THEN so[l] ELSE @.ver,
                          refs |-> @.refs + 1]]
         /\ entry' = [entry EXCEPT ![funcname] = load]
         /\ handle' = [handle EXCEPT ![This] = load]
  /\ result' = "zero" /\ pc' = "idle"
  /\ UNCHANGED <<fileVars, jobVars, built, path, restarts, undefined>>

(* Mutant: the failure is not passed on.                                      *)
PdlopenFailed_Unreported ==
  /\ pc = "open" /\ path[This]
  /\ result' = "zero" /\ pc' = "idle"
  /\ UNCHANGED <<fileVars, jobVars, mapVars, restarts, targetVars>>

(* malloc() or dlopen() returned NULL, and so does pdlopen(). (Nothing is     *)
(* assumed of a library file that is there: its symbols may be missing.)      *)
PdlopenFailed ==
  /\ pc = "open" /\ path[This]
  /\ result' = "three" /\ pc' = "idle"
  /\ UNCHANGED <<fileVars, jobVars, mapVars, restarts, targetVars>>

(* strlen() of the NULL that compile_func() recorded: the tracer crashes.     *)
NullPath ==
  /\ pc = "open" /\ ~path[This]
  /\ pc' = "nullPath"
  /\ UNCHANGED <<fileVars, jobVars, mapVars, result, restarts, targetVars>>

(* The user ends the tracer between two injections, or it exits in one (the   *)
(* target is then lost in the copied routine).                                *)
TracerEnds ==
  /\ \/ pc \in {"idle", "isolate", "noReturn", "compile", "inject"} /\ pc' = "gone"
     \/ pc \in {"close", "open"} /\ pc' = "lost"
  /\ UNCHANGED <<fileVars, jobVars, mapVars, result, restarts, targetVars>>

(* A new tracer starts with an empty map, on a target that has the libraries. *)
NewTracer ==
  /\ pc \in {"gone", "nullPath"} /\ restarts < MaxRestarts
  /\ restarts' = restarts + 1
  /\ built' = {} /\ path' = [e \in Pairs |-> FALSE] /\ handle' = [e \in Pairs |-> 0]
  /\ result' = "none" /\ pc' = "idle"
  /\ UNCHANGED <<fileVars, jobVars, targetVars>>

--------------------------------------------------------------------------------
Compile ==
  IsolateFunction \/ IsolateFunctionStays \/ Compiled \/ CompileFailed \/ CompilerKilled

Inject ==
  InjectFunc \/ Pdlclose \/ PdlcloseAgain \/ Pdlopen \/ PdlopenFailed \/ NullPath

Next ==
  \/ \E s \in Sources : Edit(s)
  \/ \E s \in Sources, f \in Functions : AssignSource(s, f)
  \/ Compile \/ Inject \/ TracerEnds \/ NewTracer

Spec == Init /\ [][Next]_vars

--------------------------------------------------------------------------------
(* Properties.                                                                *)

(* No two sources have the same file name, one tracer has served the target   *)
(* from the start, and no handle was closed twice.                            *)
Orderly ==
  /\ \A s, t \in Sources : FileName[s] = FileName[t] => s = t
  /\ restarts = 0 /\ ~undefined

(* Every variable has its type.                                               *)
TypeOK ==
  /\ edits \in Nat /\ content \in [Sources -> Nat] /\ so \in [Libraries -> Nat]
  /\ pc \in PCs /\ source \in Sources /\ funcname \in Functions /\ isolated \in Nat
  /\ built \subseteq Pairs /\ path \in [Pairs -> BOOLEAN] /\ handle \in [Pairs -> Nat]
  /\ result \in {"none", "zero", "three"} /\ restarts \in Nat
  /\ loaded \in [Libraries -> [gen : Nat, ver : Nat, refs : Nat]]
  /\ loads \in Nat /\ entry \in [Functions -> Nat] /\ undefined \in BOOLEAN

(* inject_func() returned 0: the function runs the code that the library file *)
(* compiled for it holds.                                                     *)
Swapped ==
  (pc = "idle" /\ result = "zero") =>
    /\ loaded[ThisLibrary].refs > 0
    /\ entry[funcname] = loaded[ThisLibrary].gen
    /\ loaded[ThisLibrary].ver = so[ThisLibrary]

RunsWhatWasBuilt == Orderly => Swapped

(* A function jumps into an unloaded library only while the library is being  *)
(* replaced, or after a failure to replace it, for which the entry it came    *)
(* from keeps the handle.                                                     *)
DanglingKept ==
  Orderly => \A f \in Functions :
    entry[f] # 0 /\ ~Live(entry[f]) =>
      /\ \E s \in Sources : handle[<<s, f>>] = entry[f]
      /\ pc = "idle" /\ funcname = f /\ handle[This] = entry[f] => result = "three"

(* No library is referenced twice, so that the next dlclose() unloads it.     *)
OneReference == Orderly => \A l \in Libraries : loaded[l].refs <= 1
================================================================================
