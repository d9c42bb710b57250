------------------------ MODULE FunctionInjector_proofs ------------------------
(* The invariants of FunctionInjector, for any number of sources, functions,  *)
(* edits and injections; and of Watch, which uses it without assigning the    *)
(* source again.                                                              *)
EXTENDS Watch, TLAPS

--------------------------------------------------------------------------------
(* Types.                                                                     *)

(* The library a source and a function are compiled to is one of Libraries.   *)
LEMMA LibraryType ==
  ASSUME NEW s \in Sources, NEW f \in Functions
  PROVE  Library(s, f) \in Libraries /\ <<s, f>> \in Pairs
BY DEF Libraries, Pairs

(* A step of the program keeps the types.                                     *)
LEMMA TypeStep == TypeOK /\ [Next]_vars => TypeOK'
<1> SUFFICES ASSUME TypeOK, [Next]_vars PROVE TypeOK'
  OBVIOUS
<1> USE DEF TypeOK, fileVars, jobVars, mapVars, targetVars, PCs
<1>t. This \in Pairs /\ ThisLibrary \in Libraries
  BY LibraryType DEF This, ThisLibrary
<1>1. ASSUME NEW s \in Sources, Edit(s) PROVE TypeOK'
  BY <1>1 DEF Edit
<1>2. ASSUME NEW s \in Sources, NEW f \in Functions, AssignSource(s, f) PROVE TypeOK'
  BY <1>2 DEF AssignSource
<1>3. CASE IsolateFunction \/ IsolateFunctionStays
  BY <1>3 DEF IsolateFunction, IsolateFunctionStays
<1>4. ASSUME NEW b \in BOOLEAN, Record(b)
      PROVE  built' \subseteq Pairs /\ path' \in [Pairs -> BOOLEAN] /\ handle' \in [Pairs -> Nat]
  BY <1>4, <1>t DEF Record
<1>5. CASE Compiled
  BY <1>5, <1>4, <1>t DEF Compiled
<1>6. CASE CompileFailed
  <2>1. so' \in [Libraries -> Nat]
    BY <1>6, <1>t DEF CompileFailed
  <2> QED
    BY <2>1, <1>6, <1>4 DEF CompileFailed
<1>7. CASE CompilerKilled
  BY <1>7, <1>4, <1>t DEF CompilerKilled
<1>8. CASE InjectFunc
  BY <1>8 DEF InjectFunc
<1>d. ASSUME NEW l \in Libraries, loaded[l].refs > 0, Drop(l)
      PROVE  loaded' \in [Libraries -> [gen : Nat, ver : Nat, refs : Nat]]
  <2>1. loaded[l].refs \in Nat /\ loaded[l].refs - 1 \in Nat
    BY <1>d
  <2> QED
    BY <2>1, <1>d DEF Drop
<1>9. CASE Pdlclose
  BY <1>9, <1>d DEF Pdlclose
<1>10. CASE PdlcloseAgain
  BY <1>10, <1>d DEF PdlcloseAgain
<1>11. CASE Pdlopen
  <2> DEFINE isNew == loaded[ThisLibrary].refs = 0
             load  == IF isNew THEN loads + 1 ELSE loaded[ThisLibrary].gen
             rec   == [gen |-> load,
                       ver |-> IF isNew THEN so[ThisLibrary] ELSE loaded[ThisLibrary].ver,
                       refs |-> loaded[ThisLibrary].refs + 1]
  <2>1. load \in Nat /\ rec \in [gen : Nat, ver : Nat, refs : Nat]
    BY <1>t
  <2>2. /\ loads' = IF isNew THEN loads + 1 ELSE loads
        /\ loaded' = [loaded EXCEPT ![ThisLibrary] = rec]
        /\ entry' = [entry EXCEPT ![funcname] = load]
        /\ handle' = [handle EXCEPT ![This] = load]
        /\ result' = "zero" /\ pc' = "idle"
        /\ UNCHANGED <<edits, content, so, source, funcname, isolated, built, path, restarts, undefined>>
    BY <1>11 DEF Pdlopen
  <2> HIDE DEF rec, load, isNew
  <2> QED
    BY <2>1, <2>2, <1>t
<1>12. CASE PdlopenFailed
  BY <1>12 DEF PdlopenFailed
<1>13. CASE NullPath
  BY <1>13 DEF NullPath
<1>14. CASE TracerEnds
  BY <1>14 DEF TracerEnds
<1>15. CASE NewTracer
  BY <1>15 DEF NewTracer
<1>16. CASE UNCHANGED vars
  BY <1>16 DEF vars
<1> QED
  BY <1>1, <1>2, <1>3, <1>5, <1>6, <1>7, <1>8, <1>9, <1>10, <1>11, <1>12, <1>13, <1>14,
     <1>15, <1>16 DEF Next, Compile, Inject

(* The types hold at the start.                                               *)
LEMMA InitTypes == Init => TypeOK
<1> SUFFICES ASSUME Init PROVE TypeOK
  OBVIOUS
<1>1. so \in [Libraries -> Nat] /\ content \in [Sources -> Nat] /\ entry \in [Functions -> Nat]
  BY DEF Init
<1>2. loaded \in [Libraries -> [gen : Nat, ver : Nat, refs : Nat]]
  BY DEF Init
<1>3. path \in [Pairs -> BOOLEAN] /\ handle \in [Pairs -> Nat] /\ built \subseteq Pairs
  BY DEF Init
<1> QED
  BY <1>1, <1>2, <1>3 DEF Init, TypeOK, PCs

(* Every variable has its type, for any sources, functions and bounds.        *)
THEOREM TypeCorrectness == Spec => []TypeOK
<1> QED
  BY InitTypes, TypeStep, PTL DEF Spec

--------------------------------------------------------------------------------
(* The invariant that ties the tracer's map to what the target has loaded.    *)

(* Every load has a number of its own, and a referenced one's is not 0.       *)
LoadsNumbered ==
  /\ \A l \in Libraries :
       loaded[l].gen <= loads /\ (loaded[l].refs > 0 => loaded[l].gen # 0)
  /\ \A l, k \in Libraries : loaded[l].gen = loaded[k].gen /\ loaded[l].gen # 0 => l = k

(* The handle of an entry is the last load of its library, and only entries   *)
(* that are in the map have one.                                              *)
HandlesFollow ==
  \A s \in Sources, f \in Functions :
    /\ handle[<<s, f>>] = loaded[Library(s, f)].gen
    /\ handle[<<s, f>>] # 0 => <<s, f>> \in built
    /\ loaded[Library(s, f)].refs <= 1

(* A library is closed before it is opened again.                             *)
ClosedFirst ==
  /\ pc \in {"inject", "close", "open"} => This \in built
  /\ pc = "close" => handle[This] # 0
  /\ pc = "open" => loaded[ThisLibrary].refs = 0

(* A function jumps into a library that one of its entries has the handle of. *)
EntriesFollow ==
  \A f \in Functions : entry[f] # 0 => \E s \in Sources : handle[<<s, f>>] = entry[f]

(* A function left jumping into an unloaded library was reported.             *)
Reported ==
  \A f \in Functions :
    entry[f] # 0 /\ ~Live(entry[f]) /\ pc = "idle" /\ funcname = f /\ handle[This] = entry[f]
      => result = "three"

Books ==
  LoadsNumbered /\ HandlesFollow /\ ClosedFirst /\ EntriesFollow /\ Reported /\ Swapped

IInv == TypeOK /\ (Orderly => Books)

(* Different functions, and sources of different names, have libraries of     *)
(* their own.                                                                 *)
LEMMA LibraryOfItsOwn ==
  ASSUME Orderly, NEW s \in Sources, NEW t \in Sources, NEW f \in Functions, NEW g \in Functions,
         Library(s, f) = Library(t, g)
  PROVE  s = t /\ f = g
BY DEF Orderly, Library

(* A tracer that is not the first, or a handle closed twice, stays so.        *)
LEMMA OrderlyBefore ==
  ASSUME TypeOK, [Next]_vars, Orderly'
  PROVE  Orderly /\ ~PdlcloseAgain /\ ~NewTracer
<1> USE DEF TypeOK, fileVars, jobVars, mapVars, targetVars
<1>1. ~PdlcloseAgain
  BY DEF PdlcloseAgain, Orderly
<1>2. ~NewTracer
  BY DEF NewTracer, Orderly
<1>3. UNCHANGED <<restarts, undefined>>
  BY <1>1, <1>2 DEF Next, Compile, Inject, Edit, AssignSource, IsolateFunction,
     IsolateFunctionStays, Compiled, CompileFailed, CompilerKilled, InjectFunc, Pdlclose, Pdlopen, PdlopenFailed, NullPath,
     TracerEnds, vars
<1> QED
  BY <1>1, <1>2, <1>3 DEF Orderly

(* emplace() changes no handle.                                               *)
LEMMA RecordKeeps ==
  ASSUME TypeOK, Books, NEW b \in BOOLEAN, Record(b)
  PROVE  handle' = handle /\ built' = built \cup {This}
<1>1. source \in Sources /\ funcname \in Functions
  BY DEF TypeOK
<1>2. CASE This \in built
  BY <1>2 DEF Record
<1>3. CASE This \notin built
  <2>1. handle[This] = 0
    BY <1>1, <1>3 DEF Books, HandlesFollow, This
  <2>2. handle \in [Pairs -> Nat]
    BY DEF TypeOK
  <2> QED
    BY <2>1, <2>2, <1>3 DEF Record
<1> QED
  BY <1>2, <1>3

(* Steps between the injections do not disturb the books.                     *)
LEMMA QuietStep ==
  ASSUME TypeOK, Books,
         UNCHANGED <<loaded, loads, entry, handle>>, built \subseteq built',
         pc' \in {"isolate", "compile", "inject", "noReturn", "nullPath", "gone", "lost"},
         pc' = "inject" => This' \in built'
  PROVE  Books'
<1>1. LoadsNumbered'
  BY DEF Books, LoadsNumbered
<1>2. HandlesFollow'
  BY DEF Books, HandlesFollow
<1>3. ClosedFirst'
  BY DEF ClosedFirst
<1>4. EntriesFollow'
  BY DEF Books, EntriesFollow
<1>5. Reported' /\ Swapped'
  BY DEF Reported, Swapped
<1> QED
  BY <1>1, <1>2, <1>3, <1>4, <1>5 DEF Books

(* dlclose() leaves the function's own library, and only it, unreferenced.    *)
LEMMA PdlcloseStep ==
  ASSUME TypeOK, Orderly, Books, Pdlclose
  PROVE  Books'
<1> USE DEF TypeOK, jobVars, mapVars, fileVars
<1>1. /\ This \in Pairs /\ ThisLibrary \in Libraries /\ This \in built
      /\ handle[This] = loaded[ThisLibrary].gen /\ handle[This] # 0
      /\ loaded[ThisLibrary].refs <= 1
  BY LibraryType DEF Pdlclose, Books, ClosedFirst, HandlesFollow, This, ThisLibrary
<1>2. PICK l \in Libraries : loaded[l].gen = handle[This] /\ loaded[l].refs > 0 /\ Drop(l)
  BY DEF Pdlclose
<1>3. l = ThisLibrary
  BY <1>1, <1>2 DEF Books, LoadsNumbered
<1>4. /\ \A k \in Libraries : loaded'[k].gen = loaded[k].gen
      /\ \A k \in Libraries : k # ThisLibrary => loaded'[k] = loaded[k]
      /\ loaded'[ThisLibrary].refs = 0
  <2>1. loaded[l].refs = 1
    BY <1>1, <1>2, <1>3
  <2> QED
    BY <2>1, <1>2, <1>3 DEF Drop
<1>5. /\ pc' = "open" /\ This' = This /\ ThisLibrary' = ThisLibrary
      /\ UNCHANGED <<handle, built, loads, entry>>
  BY DEF Pdlclose, This, ThisLibrary
<1>6. LoadsNumbered'
  <2>1. \A k \in Libraries : loaded[k].gen <= loads /\ (loaded'[k].refs > 0 => loaded[k].gen # 0)
    BY <1>4 DEF Books, LoadsNumbered
  <2> QED
    BY <2>1, <1>4, <1>5 DEF Books, LoadsNumbered
<1>7. HandlesFollow'
  <2> SUFFICES ASSUME NEW s \in Sources, NEW f \in Functions
               PROVE  /\ handle[<<s, f>>] = loaded'[Library(s, f)].gen
                      /\ handle[<<s, f>>] # 0 => <<s, f>> \in built
                      /\ loaded'[Library(s, f)].refs <= 1
    BY <1>5 DEF HandlesFollow
  <2>1. Library(s, f) \in Libraries
    BY LibraryType
  <2> QED
    BY <2>1, <1>4 DEF Books, HandlesFollow
<1>8. ClosedFirst' /\ Reported' /\ Swapped'
  BY <1>1, <1>4, <1>5 DEF ClosedFirst, Reported, Swapped
<1>9. EntriesFollow'
  BY <1>5 DEF Books, EntriesFollow
<1> QED
  BY <1>6, <1>7, <1>8, <1>9 DEF Books

(* dlopen() of the unreferenced library loads what the file holds, and the    *)
(* handle and the function's first bytes follow.                              *)
LEMMA PdlopenStep ==
  ASSUME TypeOK, Orderly, Books, Pdlopen
  PROVE  Books'
<1> USE DEF TypeOK, jobVars, mapVars, fileVars
<1>1. /\ This \in Pairs /\ ThisLibrary \in Libraries /\ This \in built
      /\ loaded[ThisLibrary].refs = 0
  BY LibraryType DEF Pdlopen, Books, ClosedFirst, This, ThisLibrary
<1>2. /\ loads' = loads + 1
      /\ loaded' = [loaded EXCEPT ![ThisLibrary] =
                       [gen |-> loads + 1, ver |-> so[ThisLibrary],
                        refs |-> loaded[ThisLibrary].refs + 1]]
      /\ entry' = [entry EXCEPT ![funcname] = loads + 1]
      /\ handle' = [handle EXCEPT ![This] = loads + 1]
      /\ pc' = "idle" /\ UNCHANGED <<source, funcname, built, so>>
  BY <1>1 DEF Pdlopen
<1>3. /\ loaded'[ThisLibrary].gen = loads + 1 /\ loaded'[ThisLibrary].refs = 1
      /\ loaded'[ThisLibrary].ver = so[ThisLibrary]
      /\ \A k \in Libraries : k # ThisLibrary => loaded'[k] = loaded[k]
  BY <1>1, <1>2
<1>4. This' = This /\ ThisLibrary' = ThisLibrary
  BY <1>2 DEF This, ThisLibrary
<1>5. LoadsNumbered'
  <2>1. \A k \in Libraries : /\ loaded[k].gen \in Nat /\ loaded[k].gen <= loads
                            /\ (loaded[k].refs > 0 => loaded[k].gen # 0)
    BY DEF Books, LoadsNumbered
  <2>2. \A k \in Libraries :
          loaded'[k].gen <= loads' /\ (loaded'[k].refs > 0 => loaded'[k].gen # 0)
    BY <2>1, <1>2, <1>3
  <2>3. \A k, m \in Libraries :
          loaded'[k].gen = loaded'[m].gen /\ loaded'[k].gen # 0 => k = m
    BY <2>1, <1>3 DEF Books, LoadsNumbered
  <2> QED
    BY <2>2, <2>3 DEF LoadsNumbered
<1>6. HandlesFollow'
  <2> SUFFICES ASSUME NEW s \in Sources, NEW f \in Functions
               PROVE  /\ handle'[<<s, f>>] = loaded'[Library(s, f)].gen
                      /\ handle'[<<s, f>>] # 0 => <<s, f>> \in built'
                      /\ loaded'[Library(s, f)].refs <= 1
    BY DEF HandlesFollow
  <2>1. Library(s, f) \in Libraries /\ <<s, f>> \in Pairs
    BY LibraryType
  <2>2. CASE <<s, f>> = This
    <3>1. Library(s, f) = ThisLibrary /\ handle'[<<s, f>>] = loads + 1
      BY <2>2, <1>1, <1>2 DEF This, ThisLibrary
    <3> QED
      BY <3>1, <2>2, <1>1, <1>2, <1>3
  <2>3. CASE <<s, f>> # This
    <3>1. Library(s, f) # ThisLibrary
      BY <2>3, LibraryOfItsOwn DEF This, ThisLibrary
    <3>2. handle'[<<s, f>>] = handle[<<s, f>>] /\ loaded'[Library(s, f)] = loaded[Library(s, f)]
      BY <3>1, <2>1, <2>3, <1>2, <1>3
    <3> QED
      BY <3>2, <1>2 DEF Books, HandlesFollow
  <2> QED
    BY <2>2, <2>3
<1>7. ClosedFirst'
  BY <1>2 DEF ClosedFirst
<1>8. EntriesFollow'
  <2> SUFFICES ASSUME NEW f \in Functions, entry'[f] # 0
               PROVE  \E s \in Sources : handle'[<<s, f>>] = entry'[f]
    BY DEF EntriesFollow
  <2>1. CASE f = funcname
    BY <2>1, <1>1, <1>2 DEF This
  <2>2. CASE f # funcname
    <3>1. PICK s \in Sources : handle[<<s, f>>] = entry[f]
      BY <2>2, <1>2 DEF Books, EntriesFollow
    <3>2. handle'[<<s, f>>] = handle[<<s, f>>]
      BY <2>2, <1>2, LibraryType DEF This
    <3> QED
      BY <3>1, <3>2, <2>2, <1>2
  <2> QED
    BY <2>1, <2>2
<1>9. entry'[funcname] = loads + 1 /\ Live(entry[funcname])'
  <2>1. entry'[funcname] = loads + 1 /\ funcname' = funcname
    BY <1>2
  <2>2. loaded'[ThisLibrary].gen = entry'[funcname'] /\ loaded'[ThisLibrary].refs > 0
    BY <2>1, <1>3
  <2> QED
    BY <2>1, <2>2, <1>1 DEF Live
<1>10. Reported'
  <2>1. funcname' = funcname
    BY <1>2
  <2> QED
    BY <2>1, <1>9 DEF Reported
<1>11. Swapped'
  BY <1>2, <1>3, <1>4, <1>9 DEF Swapped
<1> QED
  BY <1>5, <1>6, <1>7, <1>8, <1>10, <1>11 DEF Books

(* A step of the program keeps the invariant.                                 *)
LEMMA BooksStep ==
  ASSUME TypeOK, Orderly, Books, [Next]_vars, Orderly'
  PROVE  Books'
<1> USE DEF TypeOK, fileVars, jobVars, mapVars, targetVars
<1>0. ~PdlcloseAgain /\ ~NewTracer
  BY OrderlyBefore
<1>t. This \in Pairs /\ ThisLibrary \in Libraries
  BY LibraryType DEF This, ThisLibrary
<1>1. ASSUME NEW s \in Sources, Edit(s) PROVE Books'
  BY <1>1 DEF Edit, Books, LoadsNumbered, HandlesFollow, ClosedFirst, EntriesFollow, Reported,
     Swapped, Live, This, ThisLibrary
<1>2. ASSUME NEW s \in Sources, NEW f \in Functions, AssignSource(s, f) PROVE Books'
  BY <1>2, QuietStep DEF AssignSource
<1>3. CASE IsolateFunction \/ IsolateFunctionStays
  BY <1>3, QuietStep DEF IsolateFunction, IsolateFunctionStays
<1>4. CASE Compiled \/ CompileFailed \/ CompilerKilled
  <2>1. /\ \E b \in BOOLEAN : Record(b)
        /\ pc' = "inject" /\ UNCHANGED <<loaded, loads, entry, source, funcname>>
    BY <1>4 DEF Compiled, CompileFailed, CompilerKilled
  <2>2. handle' = handle /\ built' = built \cup {This} /\ This' = This
    BY <2>1, RecordKeeps DEF This
  <2> QED
    BY <2>1, <2>2, QuietStep
<1>5. CASE InjectFunc
  <2>1. handle[This] = loaded[ThisLibrary].gen /\ This \in built
    BY <1>5 DEF InjectFunc, Books, HandlesFollow, ClosedFirst, This, ThisLibrary
  <2>2. handle[This] = 0 => loaded[ThisLibrary].refs = 0
    <3>1. loaded[ThisLibrary].refs > 0 => loaded[ThisLibrary].gen # 0
      BY <1>t DEF Books, LoadsNumbered
    <3>2. loaded[ThisLibrary].refs \in Nat
      BY <1>t
    <3> QED
      BY <3>1, <3>2, <2>1
  <2>3. /\ This' = This /\ ThisLibrary' = ThisLibrary
        /\ UNCHANGED <<loaded, loads, handle, entry, built>>
        /\ pc' = IF handle[This] # 0 THEN "close" ELSE "open"
    BY <1>5 DEF InjectFunc, This, ThisLibrary
  <2>4. ClosedFirst' /\ Reported' /\ Swapped'
    BY <2>1, <2>2, <2>3 DEF ClosedFirst, Reported, Swapped
  <2>5. LoadsNumbered' /\ HandlesFollow' /\ EntriesFollow'
    BY <2>3 DEF Books, LoadsNumbered, HandlesFollow, EntriesFollow
  <2> QED
    BY <2>4, <2>5 DEF Books
<1>6. CASE Pdlclose
  BY <1>6, PdlcloseStep
<1>7. CASE Pdlopen
  BY <1>7, PdlopenStep
<1>8. CASE PdlopenFailed
  <2>1. /\ result' = "three" /\ pc' = "idle"
        /\ UNCHANGED <<loaded, loads, handle, entry, built>>
    BY <1>8 DEF PdlopenFailed
  <2>2. ClosedFirst' /\ Reported' /\ Swapped'
    BY <2>1 DEF ClosedFirst, Reported, Swapped
  <2>3. LoadsNumbered' /\ HandlesFollow' /\ EntriesFollow'
    BY <2>1 DEF Books, LoadsNumbered, HandlesFollow, EntriesFollow
  <2> QED
    BY <2>2, <2>3 DEF Books
<1>9. CASE NullPath
  BY <1>9, QuietStep DEF NullPath
<1>10. CASE TracerEnds
  <2>1. /\ pc' \in {"gone", "lost"} /\ UNCHANGED <<loaded, loads, entry, handle, built>>
    BY <1>10 DEF TracerEnds
  <2> QED
    BY <2>1, QuietStep
<1>11. CASE UNCHANGED vars
  BY <1>11 DEF vars, Books, LoadsNumbered, HandlesFollow, ClosedFirst, EntriesFollow, Reported,
     Swapped, Live, This, ThisLibrary
<1> QED
  BY <1>0, <1>1, <1>2, <1>3, <1>4, <1>5, <1>6, <1>7, <1>8, <1>9, <1>10, <1>11
  DEF Next, Compile, Inject

(* The books are right at the start.                                          *)
LEMMA BooksStart == Init => IInv
<1> SUFFICES ASSUME Init PROVE Books
  BY InitTypes DEF IInv
<1>1. \A l \in Libraries : loaded[l].gen = 0 /\ loaded[l].refs = 0
  BY DEF Init
<1>2. /\ \A e \in Pairs : handle[e] = 0
      /\ \A f \in Functions : entry[f] = 0
      /\ pc = "idle" /\ result = "none" /\ loads = 0
  BY DEF Init
<1>3. HandlesFollow
  <2> SUFFICES ASSUME NEW s \in Sources, NEW f \in Functions
               PROVE  /\ handle[<<s, f>>] = loaded[Library(s, f)].gen
                      /\ handle[<<s, f>>] # 0 => <<s, f>> \in built
                      /\ loaded[Library(s, f)].refs <= 1
    BY DEF HandlesFollow
  <2>1. Library(s, f) \in Libraries /\ <<s, f>> \in Pairs
    BY LibraryType
  <2> QED
    BY <2>1, <1>1, <1>2
<1> QED
  BY <1>1, <1>2, <1>3
  DEF Books, LoadsNumbered, ClosedFirst, EntriesFollow, Reported, Swapped

(* A step of the program keeps them.                                          *)
LEMMA BooksNext == IInv /\ [Next]_vars => IInv'
BY TypeStep, OrderlyBefore, BooksStep DEF IInv

(* The books are kept.                                                        *)
THEOREM BooksKept == Spec => []IInv
<1> QED
  BY BooksStart, BooksNext, PTL DEF Spec

(* A reported success is one: the function runs the code of its library file, *)
(* for any number of sources, functions, edits and injections.                *)
THEOREM SuccessRunsFile == Spec => []RunsWhatWasBuilt
<1>1. IInv => RunsWhatWasBuilt
  BY DEF IInv, Books, RunsWhatWasBuilt
<1> QED
  BY <1>1, BooksKept, PTL

(* A function that is left jumping into an unloaded library was reported.     *)
THEOREM DanglingAlwaysKept == Spec => []DanglingKept
<1>1. IInv => DanglingKept
  BY DEF IInv, Books, EntriesFollow, Reported, DanglingKept
<1> QED
  BY <1>1, BooksKept, PTL

(* No library is referenced twice.                                            *)
THEOREM AlwaysOneReference == Spec => []OneReference
<1>1. IInv => OneReference
  <2> SUFFICES ASSUME IInv, Orderly, NEW l \in Libraries PROVE loaded[l].refs <= 1
    BY DEF OneReference
  <2>1. PICK s \in Sources, f \in Functions : l = Library(s, f)
    BY DEF Libraries
  <2> QED
    BY <2>1 DEF IInv, Books, HandlesFollow
<1> QED
  BY <1>1, BooksKept, PTL

--------------------------------------------------------------------------------
(* The watching loop.                                                         *)

(* demo1 compiles again without assigning the source again, as often as it    *)
(* likes: the books do not depend on what it was that began an injection.     *)
LEMMA NoticeStep == IInv /\ Notice => IInv'
<1> SUFFICES ASSUME IInv, Notice PROVE IInv'
  OBVIOUS
<1> USE DEF fileVars, jobVars, mapVars, targetVars
<1>1. TypeOK'
  BY DEF IInv, TypeOK, Notice, PCs
<1>2. Orderly' => Orderly
  BY DEF Orderly, Notice
<1>3. Orderly /\ Books => Books'
  BY QuietStep DEF IInv, Notice
<1> QED
  BY <1>1, <1>2, <1>3 DEF IInv

(* The books are kept in the loop too: its other steps are steps of the       *)
(* FunctionInjector, or leave it alone.                                       *)
LEMMA WatchBooks == WatchSpec => []IInv
<1>1. WatchInit => IInv
  BY BooksStart DEF WatchInit
<1>2. IInv /\ [WatchNext]_<<vars, watchVars>> => IInv'
  <2> SUFFICES ASSUME IInv, [WatchNext]_<<vars, watchVars>> PROVE IInv'
    OBVIOUS
  <2>1. CASE Notice
    BY <2>1, NoticeStep
  <2>2. CASE Save
    <3>1. source \in Sources
      BY DEF IInv, TypeOK
    <3>2. [Next]_vars
      BY <2>2, <3>1 DEF Save, Next
    <3> QED
      BY <3>2, BooksNext
  <2>3. CASE Tick \/ CompileAndInject \/ Killed \/ UNCHANGED <<vars, watchVars>>
    <3>1. [Next]_vars
      BY <2>3 DEF Tick, CompileAndInject, Killed, Next
    <3> QED
      BY <3>1, BooksNext
  <2> QED
    BY <2>1, <2>2, <2>3 DEF WatchNext
<1> QED
  BY <1>1, <1>2, PTL DEF WatchSpec

(* While edits come at any time, also during a compile or an injection of     *)
(* demo1, an injection that it counts as a success runs what was built last.  *)
THEOREM WatchRunsFile == WatchSpec => []RunsWhatWasBuilt
<1>1. IInv => RunsWhatWasBuilt
  BY DEF IInv, Books, RunsWhatWasBuilt
<1> QED
  BY <1>1, WatchBooks, PTL
================================================================================
