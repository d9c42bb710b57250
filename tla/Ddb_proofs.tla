------------------------------- MODULE Ddb_proofs ------------------------------
(* Proofs about Ddb, for every program, depth of the stack and number of      *)
(* loads: whatever commands are given in whatever order, within the named     *)
(* limits the target executes only code, checkpoints and injections leave     *)
(* each other's bytes alone, and a restart goes to the selected frame.        *)
EXTENDS Ddb, SequenceTheorems, TLAPS

--------------------------------------------------------------------------------
(* The inductive invariant.                                                   *)

AtPrompt == pc \in {"trap", "segv", "ui"}

(* Who runs at each step; what a stop at a checkpoint means; how far the user *)
(* and the registers that were recorded can point.                            *)
RunInv ==
  /\ pc \in {"construct", "letgo"} => run \in {"forked", "stopped"}
  /\ AtPrompt => run = "stopped"
  /\ pc = "wait" => run # "forked"
  /\ pc = "gone" => run # "stopped"
  /\ run = "forked" => keys = {} /\ traps = {}
  /\ pc = "wait" /\ run = "stopped" => sig # "none"
  /\ pc = "trap" \/ (pc = "wait" /\ run = "stopped" /\ sig = "TRAP") =>
       pos = "call" /\ Top \in traps /\ Len(stack) < MaxDepth
  /\ pc # "gone" => traps \subseteq keys
  /\ pc = "gone" => fresh = {}
  /\ IF AtPrompt THEN Depth \in 1 .. MaxDepth ELSE Depth = 0
  /\ pc # "ui" => user = 0
  /\ \A c \in Frames : Len(recorded[c]) <= MaxDepth

(* A signal is taken in wait() only.                                          *)
SigInv == pc \in {"wait", "gone"} \/ sig = "none"

(* Nobody has crossed a limit: the text, and that all checkpoints have a call.*)
TextInv ==
  ~lapsed =>
    /\ mixed = {} /\ \A f \in Fn : ~Dangling(f)
    /\ pc # "gone" => traps = keys
    /\ pc = "gone" /\ run # "dead" => traps = {}
    /\ \A c \in keys : c.fn \notin shape.indirect /\ ~CallLost(c) /\ ~LibraryLost(c)

(* The same: the target has its code, and is let go only with frames whose    *)
(* code is there.                                                             *)
CodeInv ==
  ~lapsed =>
    /\ pos # "wild" /\ unwinder.pos # "wild"
    /\ run \in {"running", "forked"} \/ pc = "segv" \/ (pc = "wait" /\ run = "stopped") => ~Stale
    /\ pc = "segv" => unwinder.frames = stack

(* The registers that regs has for a call in calls are those of the frame     *)
(* that is still in that call, if there is one.                               *)
Follows(frames, calls, regs) ==
  \A c \in calls : \A i \in 1 .. Len(frames) - 1 :
    frames[i] = c => /\ Len(regs[c]) = i
                     /\ \A j \in 1 .. i : regs[c][j] = frames[j]

FreshInv ==
  ~lapsed => /\ Follows(stack, fresh, recorded)
             /\ Follows(unwinder.frames, fresh, recorded)

IInv == TypeOK /\ RunInv /\ SigInv /\ TextInv /\ CodeInv /\ FreshInv

--------------------------------------------------------------------------------
(* Frames and sequences of them.                                              *)

(* The frames that the actions speak of are frames.                           *)
LEMMA FrameTypes ==
  ASSUME TypeOK
  PROVE  /\ Top \in Frames /\ Top.fn \in Fn /\ Top.ver \in 0 .. MaxLoads
         /\ CalleeFrame \in Frames
         /\ \A i \in 1 .. Depth : unwinder.frames[i] \in Frames
         /\ \A i \in 1 .. Len(stack) : stack[i] \in Frames
<1>1. stack \in Seq(Frames) /\ Len(stack) \in 1 .. Len(stack)
  BY DEF TypeOK
<1>2. Top \in Frames /\ \A i \in 1 .. Len(stack) : stack[i] \in Frames
  BY <1>1, ElementOfSeq DEF Top
<1>3. Top.fn \in Fn /\ Top.ver \in 0 .. MaxLoads
  BY <1>2 DEF Frames
<1>4. CalleeFrame \in Frames
  BY <1>3, CalleeAssumption, BoundsAssumption DEF CalleeFrame, Frames
<1>5. \A i \in 1 .. Depth : unwinder.frames[i] \in Frames
  BY ElementOfSeq DEF TypeOK, Depth
<1>6. QED
  BY <1>1, <1>2, <1>3, <1>4, <1>5

(* A prefix of the frames.                                                    *)
LEMMA Prefix ==
  ASSUME NEW s \in Seq(Frames), NEW n \in 0 .. Len(s)
  PROVE  /\ SubSeq(s, 1, n) \in Seq(Frames) /\ Len(SubSeq(s, 1, n)) = n
         /\ \A i \in 1 .. n : SubSeq(s, 1, n)[i] = s[i]
<1>1. Len(s) \in Nat /\ \A i \in 1 .. n : s[i] \in Frames
  BY LenProperties, ElementOfSeq
<1>2. QED
  BY <1>1, SubSeqProperties

(* One more frame.                                                            *)
LEMMA OneMore ==
  ASSUME NEW s \in Seq(Frames), NEW frame \in Frames
  PROVE  /\ Append(s, frame) \in Seq(Frames) /\ Len(Append(s, frame)) = Len(s) + 1
         /\ \A i \in 1 .. Len(s) : Append(s, frame)[i] = s[i]
         /\ Append(s, frame)[Len(s) + 1] = frame
BY AppendProperties

--------------------------------------------------------------------------------
(* Types.                                                                     *)

LEMMA InitIInv == Init => IInv
<1> SUFFICES ASSUME Init PROVE IInv
  OBVIOUS
<1> USE DEF Init, NoFrames
<1>1. TypeOK
  <2>1. <<[fn |-> Main, ver |-> 0]>> \in Seq(Frames) /\ Len(<<[fn |-> Main, ver |-> 0]>>) = 1
    BY CalleeAssumption, BoundsAssumption DEF Frames
  <2>2. <<>> \in Seq(Frames) /\ Len(<<>>) = 0
    BY EmptySeq
  <2>3. Depth = 0 /\ unwinder.frames = <<>> /\ unwinder.pos = "start"
    BY <2>2 DEF Depth
  <2>4. jump \in [Fn -> 0 .. MaxLoads] /\ live \in [Fn -> SUBSET (1 .. MaxLoads)]
    BY BoundsAssumption
  <2>5. recorded \in [Frames -> Seq(Frames)]
    BY <2>2
  <2>6. stack \in Seq(Frames) /\ Len(stack) \in 1 .. MaxDepth /\ pos \in Positions
    BY <2>1, BoundsAssumption DEF Positions
  <2>7. again \in BOOLEAN /\ addrs \in BOOLEAN /\ lapsed \in BOOLEAN
    OBVIOUS
  <2>8. mixed \subseteq Fn /\ traps \subseteq Frames /\ keys \subseteq Frames /\ fresh \subseteq keys
    OBVIOUS
  <2>9. unwinder.frames \in Seq(Frames) /\ unwinder.pos \in Positions /\ user \in 0 .. Depth
    BY <2>2, <2>3 DEF Positions
  <2>10. loads \in 0 .. MaxLoads /\ sig = "none" /\ pc = "construct"
    BY BoundsAssumption
  <2>11. QED
    BY <2>4, <2>5, <2>6, <2>7, <2>8, <2>9, <2>10 DEF TypeOK
<1>2. RunInv
  BY CalleeAssumption, BoundsAssumption DEF RunInv, AtPrompt, Depth
<1>3. TextInv
  BY DEF TextInv, Dangling
<1>4. CodeInv
  BY DEF CodeInv, Stale, Ruined, LibraryLost, CallLost, Top
<1>5. FreshInv
  BY DEF FreshInv, Follows
<1>6. QED
  BY <1>1, <1>2, <1>3, <1>4, <1>5 DEF IInv, SigInv

(* One lemma per group of actions.                                            *)
LEMMA TypeTarget == ASSUME TypeOK, RunInv, Target PROVE TypeOK'
<1> USE DEF TypeOK, Keep, targetVars, textVars, promptVars, mapVars, Depth, Executing, StopsWith,
        Positions
<1>1. CASE Execs
  BY <1>1 DEF Execs
<1>2. CASE Enter
  <2>1. stack' \in Seq(Frames) /\ Len(stack') = Len(stack)
    <3>1. CASE stack' = stack
      BY <3>1
    <3>2. CASE stack' = [stack EXCEPT ![Len(stack)].ver = jump[Top.fn]]
      <4>1. [stack[Len(stack)] EXCEPT !.ver = jump[Top.fn]] \in Frames
        BY FrameTypes DEF Frames, Top
      <4>2. QED
        BY <3>2, <4>1, ExceptSeq
    <3>3. QED
      BY <1>2, <3>1, <3>2 DEF Enter
  <2>2. QED
    BY <1>2, <2>1 DEF Enter
<1>3. CASE Goes
  BY <1>3 DEF Goes
<1>4. CASE Calls
  <2>1. stack' \in Seq(Frames) /\ Len(stack') \in 1 .. MaxDepth
    <3>1. CASE stack' = stack
      BY <3>1
    <3>2. CASE stack' = Append(stack, CalleeFrame)
      <4>1. CalleeFrame \in Frames /\ stack \in Seq(Frames)
        BY FrameTypes
      <4>2. Append(stack, CalleeFrame) \in Seq(Frames)
            /\ Len(Append(stack, CalleeFrame)) = Len(stack) + 1
        BY <4>1, OneMore
      <4>3. Len(stack) < MaxDepth
        BY <1>4 DEF Calls
      <4>4. QED
        BY <3>2, <4>2, <4>3, BoundsAssumption
    <3>3. QED
      BY <1>4, <3>1, <3>2 DEF Calls
  <2>2. /\ run' \in {"running", "stopped", "dead"} /\ sig' \in {sig, "TRAP"}
        /\ pos' \in {"start", "wild", pos}
    BY <1>4 DEF Calls
  <2>3. Keep
    BY <1>4 DEF Calls
  <2>4. QED
    BY <2>1, <2>2, <2>3
<1>5. CASE Returns
  <2>1. stack' \in Seq(Frames) /\ Len(stack') = Len(stack) - 1
    BY <1>5, Prefix DEF Returns
  <2>2. Len(stack) > 1 /\ pos' \in {"wild", "body"} /\ UNCHANGED <<run, sig>> /\ Keep
    BY <1>5 DEF Returns
  <2>3. Len(stack') \in 1 .. MaxDepth
    BY <2>1, <2>2, BoundsAssumption
  <2>4. QED
    BY <2>1, <2>2, <2>3
<1>6. CASE Strays
  BY <1>6 DEF Strays
<1>7. CASE Faults
  BY <1>7 DEF Faults
<1>8. CASE Signalled
  BY <1>8 DEF Signalled
<1>9. CASE Exits
  BY <1>9 DEF Exits
<1>10. QED
  BY <1>1, <1>2, <1>3, <1>4, <1>5, <1>6, <1>7, <1>8, <1>9 DEF Target

(* What ddb's end leaves.                                                     *)
LEMMA GoneTypes ==
  ASSUME Gone
  PROVE  /\ pc' = "gone" /\ unwinder' = NoFrames /\ user' = 0 /\ again' = FALSE
         /\ unwinder'.frames \in Seq(Frames) /\ Len(unwinder'.frames) = 0
         /\ unwinder'.pos = "start"
         /\ keys' = {} /\ fresh' = {} /\ loads' = 0
         /\ recorded' \in [Frames -> Seq(Frames)]
         /\ \A c \in Frames : Len(recorded'[c]) = 0
BY EmptySeq DEF Gone, NoFrames

LEMMA LapseType == ASSUME NEW c, Lapse(c), lapsed \in BOOLEAN PROVE lapsed' \in BOOLEAN
BY DEF Lapse

LEMMA TypeLoop == ASSUME TypeOK, RunInv, Loop \/ Sigint \/ SigintElsewhere PROVE TypeOK'
<1> USE DEF targetVars, textVars, promptVars, mapVars, Depth, Positions
<1>1. CASE Construct
  BY <1>1 DEF Construct, TypeOK
<1>2. CASE Letgo
  <2>1. lapsed' \in BOOLEAN
    BY <1>2, LapseType DEF Letgo, TypeOK
  <2>2. CASE run = "stopped"
    BY <1>2, <2>1, <2>2 DEF Letgo, TypeOK
  <2>3. CASE run # "stopped"
    BY <1>2, <2>1, <2>3, GoneTypes, BoundsAssumption DEF Letgo, TypeOK
  <2>4. QED
    BY <2>2, <2>3
<1>3. CASE WaitReturns
  <2>1. CASE run = "dead"
    BY <1>3, <2>1, GoneTypes, BoundsAssumption DEF WaitReturns, TypeOK
  <2>2. CASE run # "dead"
    <3>1. unwinder'.frames = stack /\ unwinder'.pos = pos /\ user' = 0 /\ again' \in BOOLEAN
      BY <1>3, <2>2 DEF WaitReturns, Unwound
    <3>2. pc' \in {"trap", "segv", "ui"}
      BY <1>3, <2>2 DEF WaitReturns, RunInv, TypeOK
    <3>3. QED
      BY <1>3, <2>2, <3>1, <3>2 DEF WaitReturns, TypeOK
  <2>3. QED
    BY <2>1, <2>2
<1>4. CASE ResetBreakpoint
  <2>1. stack' \in Seq(Frames) /\ Len(stack') = Len(stack) + 1
    BY <1>4, FrameTypes, OneMore DEF ResetBreakpoint, StepOver, TypeOK
  <2>2. Top \in keys /\ Top \in Frames /\ Len(stack) < MaxDepth /\ user = 0
    BY <1>4, FrameTypes DEF ResetBreakpoint, RunInv
  <2>3. unwinder'.frames \in Seq(Frames) /\ Len(unwinder'.frames) = 0 /\ unwinder'.pos = "start"
    BY <1>4, EmptySeq DEF ResetBreakpoint, StepOver, NoFrames
  <2>4. recorded' \in [Frames -> Seq(Frames)] /\ fresh' \subseteq keys
    BY <1>4, <2>2 DEF ResetBreakpoint, TypeOK
  <2>5. mixed' \subseteq Fn
    BY <1>4, <2>2, FrameTypes DEF ResetBreakpoint, StepOver, Damaged, TypeOK
  <2>6. /\ UNCHANGED <<shape, run, sig, jump, live, traps, user, again, keys, addrs, loads, lapsed>>
        /\ pos' = "start" /\ pc' = "letgo"
    BY <1>4 DEF ResetBreakpoint, StepOver
  <2>7. Len(stack') \in 1 .. MaxDepth /\ user' \in 0 .. Len(unwinder'.frames)
    BY <2>1, <2>2, <2>3, <2>6, BoundsAssumption DEF TypeOK
  <2>8. QED
    BY <2>1, <2>3, <2>4, <2>5, <2>6, <2>7 DEF TypeOK
<1>5. CASE InsertCheckpoint
  <2>1. CASE UNCHANGED <<user, traps, mixed, mapVars, lapsed>>
    BY <1>5, <2>1 DEF InsertCheckpoint, TypeOK
  <2>2. CASE ~ UNCHANGED <<user, traps, mixed, mapVars, lapsed>>
    <3>1. user' \in 0 .. Len(unwinder.frames) - 1 /\ Len(unwinder.frames) \in Nat
      BY <1>5, <2>2, LenProperties DEF InsertCheckpoint, GoToFrame, TypeOK
    <3>2. CASE user' = Depth - 1
      <4>1. /\ UNCHANGED <<traps, mixed, mapVars, lapsed>> /\ pc' = "ui"
            /\ UNCHANGED <<shape, targetVars, unwinder, again, jump, live, addrs, loads>>
        BY <1>5, <2>2, <3>2 DEF InsertCheckpoint
      <4>2. user' \in 0 .. Len(unwinder'.frames)
        BY <3>1, <4>1
      <4>3. QED
        BY <4>1, <4>2 DEF TypeOK
    <3>3. CASE user' # Depth - 1
      <4> DEFINE c == unwinder.frames[Depth - user' - 1]
      <4>1. c \in Frames /\ c.fn \in Fn
        BY <3>1, <3>3, FrameTypes DEF Frames
      <4>2. /\ keys' = keys \cup {c} /\ traps' = traps \cup {c} /\ mixed' = mixed \cup Damaged({c})
            /\ UNCHANGED <<recorded, fresh>> /\ lapsed' \in BOOLEAN
        BY <1>5, <2>2, <3>3, LapseType DEF InsertCheckpoint, TypeOK
      <4>3. mixed' \subseteq Fn
        BY <4>1, <4>2 DEF Damaged, TypeOK
      <4> HIDE DEF c
      <4>4. UNCHANGED <<shape, targetVars, unwinder, again, jump, live, addrs, loads>> /\ pc' = "ui"
        BY <1>5 DEF InsertCheckpoint
      <4>5. traps' \subseteq Frames /\ keys' \subseteq Frames /\ fresh' \subseteq keys'
            /\ recorded' = recorded
        BY <4>1, <4>2 DEF TypeOK
      <4>6. user' \in 0 .. Len(unwinder'.frames)
        BY <3>1, <4>4
      <4>7. lapsed' \in BOOLEAN
        BY <4>2
      <4>8. QED
        BY <4>3, <4>4, <4>5, <4>6, <4>7 DEF TypeOK
    <3>4. QED
      BY <3>2, <3>3
  <2>3. QED
    BY <2>1, <2>2
<1>6. ASSUME RestoreBreakpoints PROVE traps' \subseteq Frames /\ mixed' \subseteq Fn
  BY <1>6 DEF RestoreBreakpoints, Damaged, TypeOK, Frames
<1>7. CASE Sigint
  <2>1. traps' \subseteq Frames /\ mixed' \subseteq Fn
    BY <1>6, <1>7 DEF Sigint
  <2>2. lapsed' \in BOOLEAN
    BY <1>7, LapseType DEF Sigint, TypeOK
  <2>3. QED
    BY <1>7, <2>1, <2>2, GoneTypes, BoundsAssumption DEF Sigint, TypeOK
<1>8. CASE SigintElsewhere
  <2>1. traps' \subseteq Frames /\ mixed' \subseteq Fn
    BY <1>6, <1>8 DEF SigintElsewhere, TypeOK
  <2>2. lapsed' \in BOOLEAN
    BY <1>8, LapseType DEF SigintElsewhere, TypeOK
  <2>3. run' \in {run, "running"} /\ pos' \in {pos, "wild"}
    BY <1>8 DEF SigintElsewhere
  <2>4. Gone /\ UNCHANGED <<shape, sig, stack, jump, live, addrs>>
    BY <1>8 DEF SigintElsewhere
  <2>5. QED
    BY <2>1, <2>2, <2>3, <2>4, GoneTypes, BoundsAssumption DEF TypeOK
<1>9. QED
  BY <1>1, <1>2, <1>3, <1>4, <1>5, <1>7, <1>8 DEF Loop

(* What leaving the prompt does.                                              *)
LEMMA LeaveTypes ==
  ASSUME TypeOK, Leave
  PROVE  /\ pc' \in {"ui", "letgo"} /\ again' = FALSE
         /\ unwinder'.frames \in Seq(Frames) /\ unwinder'.pos \in Positions
         /\ user' \in 0 .. Len(unwinder'.frames)
         /\ UNCHANGED <<shape, run, sig, textVars, keys, recorded, addrs, loads>>
<1>1. CASE again
  BY <1>1 DEF Leave, TypeOK, Depth
<1>2. CASE ~again
  <2>1. /\ pc' = "letgo" /\ again' = FALSE /\ unwinder' = NoFrames /\ user' = 0
        /\ UNCHANGED <<shape, run, sig, textVars, keys, recorded, addrs, loads>>
    BY <1>2 DEF Leave
  <2>2. NoFrames.frames = <<>> /\ NoFrames.pos = "start"
    BY DEF NoFrames
  <2>3. <<>> \in Seq(Frames) /\ Len(<<>>) = 0
    BY EmptySeq
  <2>4. QED
    BY <2>1, <2>2, <2>3 DEF Positions
<1>3. QED
  BY <1>1, <1>2

(* The frames that a command selects.                                         *)
LEMMA Selection ==
  ASSUME TypeOK, RunInv, pc = "ui"
  PROVE  /\ Len(unwinder.frames) \in 1 .. MaxDepth /\ unwinder.frames \in Seq(Frames)
         /\ user \in Nat /\ user <= Len(unwinder.frames)
         /\ user < Len(unwinder.frames) =>
              /\ SubSeq(unwinder.frames, 1, Depth - user) \in Seq(Frames)
              /\ Len(SubSeq(unwinder.frames, 1, Depth - user)) = Depth - user
              /\ unwinder.frames[Depth - user] \in Frames /\ Selected \in Fn
         /\ user < Len(unwinder.frames) - 1 =>
              /\ Caller \in Frames
              /\ Callers \in Seq(Frames) /\ Len(Callers) = Depth - user - 1
<1>1. /\ Len(unwinder.frames) \in 1 .. MaxDepth /\ unwinder.frames \in Seq(Frames)
      /\ user \in Nat /\ user <= Len(unwinder.frames)
  BY DEF TypeOK, RunInv, AtPrompt, Depth
<1>2. ASSUME user < Len(unwinder.frames)
      PROVE  /\ SubSeq(unwinder.frames, 1, Depth - user) \in Seq(Frames)
             /\ Len(SubSeq(unwinder.frames, 1, Depth - user)) = Depth - user
             /\ unwinder.frames[Depth - user] \in Frames /\ Selected \in Fn
  <2>1. Depth - user \in 1 .. Depth /\ Depth - user \in 0 .. Len(unwinder.frames)
    BY <1>1, <1>2, BoundsAssumption DEF Depth
  <2>2. unwinder.frames[Depth - user] \in Frames
    BY <2>1, FrameTypes
  <2>3. QED
    BY <1>1, <2>1, <2>2, Prefix DEF Selected, Frames
<1>3. ASSUME user < Len(unwinder.frames) - 1
      PROVE  /\ Caller \in Frames
             /\ Callers \in Seq(Frames) /\ Len(Callers) = Depth - user - 1
  <2>1. Depth - user - 1 \in 1 .. Depth /\ Depth - user - 1 \in 0 .. Len(unwinder.frames)
    BY <1>1, <1>3, BoundsAssumption DEF Depth
  <2>2. QED
    BY <1>1, <2>1, FrameTypes, Prefix DEF Caller, Callers
<1>4. QED
  BY <1>1, <1>2, <1>3

(* What an injection does to the text.                                        *)
LEMMA HandledTypes ==
  ASSUME TypeOK, NEW closed, NEW opened \in SUBSET {loads + 1}, NEW led \in BOOLEAN,
         Handled(closed, opened, led), opened # {} => loads < MaxLoads, led => opened # {}
  PROVE  /\ jump' \in [Fn -> 0 .. MaxLoads] /\ live' \in [Fn -> SUBSET (1 .. MaxLoads)]
         /\ mixed' \subseteq Fn /\ Surviving(closed, led) \subseteq Frames
<1>1. opened # {} => loads + 1 \in 1 .. MaxLoads
  BY BoundsAssumption DEF TypeOK
<1>2. opened \subseteq 1 .. MaxLoads
  BY <1>1
<1>3. live' \in [Fn -> SUBSET (1 .. MaxLoads)]
  BY <1>2 DEF Handled, TypeOK
<1>4. jump' \in [Fn -> 0 .. MaxLoads]
  <2>1. CASE led
    <3>1. jump' = [jump EXCEPT ![Selected] = loads + 1] /\ loads + 1 \in 0 .. MaxLoads
      BY <1>1, <2>1, BoundsAssumption DEF Handled
    <3>2. QED
      BY <3>1 DEF TypeOK
  <2>2. CASE ~led
    BY <2>2 DEF Handled, TypeOK
  <2>3. QED
    BY <2>1, <2>2
<1>5. QED
  BY <1>3, <1>4 DEF Handled, Surviving, TypeOK

LEMMA TypeCommands == ASSUME TypeOK, RunInv, Commands PROVE TypeOK'
<1> USE DEF targetVars, textVars, promptVars, mapVars
<1>1. CASE UpStack
  <2>1. user' \in 0 .. Depth
    BY <1>1 DEF UpStack, TypeOK, Depth
  <2>2. QED
    BY <1>1, <2>1 DEF UpStack, TypeOK, Depth
<1>2. CASE Crashes
  <2>1. lapsed' \in BOOLEAN
    BY <1>2, LapseType DEF Crashes, TypeOK
  <2>2. QED
    BY <1>2, <2>1, GoneTypes, BoundsAssumption DEF Crashes, TypeOK, Depth, Positions
<1>3. CASE DownStack
  <2>1. user' \in 0 .. Depth
    BY <1>3 DEF DownStack, TypeOK, Depth
  <2>2. QED
    BY <1>3, <2>1 DEF DownStack, TypeOK, Depth
<1>4. CASE LeaveUI
  <2>1. UNCHANGED <<stack, pos, fresh, lapsed>>
    BY <1>4 DEF LeaveUI
  <2>2. QED
    BY <1>4, <2>1, LeaveTypes DEF LeaveUI, TypeOK, Depth
<1>5. CASE ResumeCurrFrame
  <2>1. lapsed' \in BOOLEAN /\ fresh' = fresh /\ pc = "ui"
    BY <1>5, LapseType DEF ResumeCurrFrame, Leave, TypeOK
  <2>2. stack' \in Seq(Frames) /\ Len(stack') \in 1 .. MaxDepth /\ pos' \in Positions
    <3>1. CASE user = Depth
      BY <1>5, <3>1 DEF ResumeCurrFrame, TypeOK, Positions
    <3>2. CASE user # Depth
      <4>1. user < Len(unwinder.frames) /\ Depth = Len(unwinder.frames)
        BY <2>1, <3>2, Selection DEF Depth
      <4>2. /\ stack' \in Seq(Frames) /\ Len(stack') = Depth - user
            /\ pos' \in {unwinder.pos, "body"}
        BY <1>5, <2>1, <3>2, <4>1, Selection DEF ResumeCurrFrame
      <4>3. Depth - user \in 1 .. MaxDepth
        BY <2>1, <4>1, Selection, BoundsAssumption
      <4>4. QED
        BY <4>2, <4>3 DEF TypeOK, Positions
    <3>3. QED
      BY <3>1, <3>2
  <2>3. QED
    BY <1>5, <2>1, <2>2, LeaveTypes DEF ResumeCurrFrame, TypeOK, Depth
<1>6. CASE RestartCurrFrame
  <2>1. lapsed' \in BOOLEAN /\ fresh' = fresh /\ pc = "ui" /\ user < Depth - 1
    BY <1>6, LapseType DEF RestartCurrFrame, Leave, TypeOK
  <2>2. Callers \in Seq(Frames) /\ Len(Callers) \in 1 .. MaxDepth
    BY <2>1, Selection, BoundsAssumption DEF Depth
  <2>3. stack' = Callers /\ pos' \in Positions
    BY <1>6 DEF RestartCurrFrame, Positions
  <2>4. QED
    BY <1>6, <2>1, <2>2, <2>3, LeaveTypes DEF RestartCurrFrame, TypeOK, Depth
<1>7. CASE RestartCheckpoint
  <2>1. lapsed' \in BOOLEAN /\ fresh' \subseteq fresh /\ pc = "ui" /\ user < Depth - 1
    BY <1>7 DEF RestartCheckpoint, Leave, TypeOK
  <2>2. Caller \in Frames /\ recorded[Caller] # <<>>
    BY <1>7, <2>1, Selection DEF RestartCheckpoint, Depth
  <2>3. recorded[Caller] \in Seq(Frames) /\ Len(recorded[Caller]) \in 1 .. MaxDepth
    <3>1. recorded[Caller] \in Seq(Frames) /\ Len(recorded[Caller]) \in Nat \ {0}
      BY <2>2, EmptySeq DEF TypeOK
    <3>2. Len(recorded[Caller]) <= MaxDepth
      BY <2>2 DEF RunInv
    <3>3. QED
      BY <3>1, <3>2, BoundsAssumption
  <2>4. stack' = recorded[Caller] /\ pos' \in Positions /\ Leave
    BY <1>7 DEF RestartCheckpoint, Positions
  <2>5. QED
    BY <2>1, <2>3, <2>4, LeaveTypes DEF TypeOK, Depth
<1>8. CASE RestartUnrecorded
  <2>1. lapsed' \in BOOLEAN
    BY <1>8, LapseType DEF RestartUnrecorded, Crashes, TypeOK
  <2>2. CASE Leave /\ stack' = stack /\ pos' = "wild" /\ fresh' = {}
    BY <2>1, <2>2, LeaveTypes DEF TypeOK, Depth, Positions
  <2>3. QED
    BY <1>2, <1>8, <2>2 DEF RestartUnrecorded
<1>9. CASE Inject
  <2>1. pc = "ui" /\ user < Depth /\ loads < MaxLoads /\ loads' = loads + 1
        /\ UNCHANGED <<shape, targetVars, pc, promptVars, mapVars, addrs>>
    BY <1>9 DEF Inject
  <2>2. PICK closed \in Closable :
          Handled(closed, {loads'}, TRUE) /\ traps' = Surviving(closed, TRUE)
    BY <1>9 DEF Inject
  <2>3. lapsed' \in BOOLEAN /\ loads' \in 0 .. MaxLoads
    <3>1. Lapse(traps' # traps)
      BY <1>9 DEF Inject
    <3>2. QED
      BY <2>1, <3>1, LapseType, BoundsAssumption DEF TypeOK
  <2>4. /\ jump' \in [Fn -> 0 .. MaxLoads] /\ live' \in [Fn -> SUBSET (1 .. MaxLoads)]
        /\ mixed' \subseteq Fn /\ traps' \subseteq Frames
    BY <2>1, <2>2, HandledTypes
  <2>5. QED
    BY <2>1, <2>3, <2>4 DEF TypeOK, Depth
<1>10. CASE InjectFails
  <2>1. pc = "ui" /\ user < Depth /\ UNCHANGED <<shape, targetVars, pc, promptVars, mapVars, addrs>>
    BY <1>10 DEF InjectFails
  <2>2. PICK closed \in Closable :
          /\ \/ loads' = loads /\ Handled(closed, {}, FALSE)
             \/ loads < MaxLoads /\ loads' = loads + 1 /\ Handled(closed, {loads'}, FALSE)
          /\ traps' = Surviving(closed, FALSE)
    BY <1>10 DEF InjectFails
  <2>3. lapsed' \in BOOLEAN /\ loads' \in 0 .. MaxLoads
    <3>1. Lapse(traps' # traps \/ Dangling(Selected)')
      BY <1>10 DEF InjectFails
    <3>2. QED
      <4>1. loads' \in 0 .. MaxLoads
        <5>1. loads \in 0 .. MaxLoads
          BY DEF TypeOK
        <5>2. loads' = loads \/ (loads < MaxLoads /\ loads' = loads + 1)
          BY <2>2
        <5>3. QED
          BY <5>1, <5>2, BoundsAssumption
      <4>2. lapsed \in BOOLEAN
        BY DEF TypeOK
      <4>3. QED
        BY <3>1, <4>1, <4>2, LapseType
  <2>4. /\ jump' \in [Fn -> 0 .. MaxLoads] /\ live' \in [Fn -> SUBSET (1 .. MaxLoads)]
        /\ mixed' \subseteq Fn /\ traps' \subseteq Frames
    BY <2>2, HandledTypes
  <2>5. QED
    BY <2>1, <2>3, <2>4 DEF TypeOK, Depth
<1>11. CASE InjectAbandoned
  <2>1. /\ pos' = "wild" /\ run' = "running" /\ Gone
        /\ UNCHANGED <<shape, sig, stack, addrs>>
    BY <1>11 DEF InjectAbandoned
  <2>2. PICK closed \in Closable, opened \in SUBSET {loads + 1}, led \in BOOLEAN :
          /\ opened = {} \/ (addrs /\ loads < MaxLoads)
          /\ led => opened # {}
          /\ Handled(closed, opened, led) /\ traps' \in {Surviving(closed, led), {}}
    BY <1>11 DEF InjectAbandoned
  <2>3. lapsed' \in BOOLEAN
    BY <1>11, LapseType DEF InjectAbandoned, TypeOK
  <2>4. /\ jump' \in [Fn -> 0 .. MaxLoads] /\ live' \in [Fn -> SUBSET (1 .. MaxLoads)]
        /\ mixed' \subseteq Fn
    BY <2>2, HandledTypes
  <2>5. traps' \subseteq Frames
    BY <2>2 DEF Surviving, TypeOK
  <2>6. QED
    BY <2>1, <2>3, <2>4, <2>5, GoneTypes, BoundsAssumption DEF TypeOK, Depth, Positions
<1>12. QED
  BY <1>1, <1>2, <1>3, <1>4, <1>5, <1>6, <1>7, <1>8, <1>9, <1>10, <1>11
     DEF Commands, PastEnd, InjectCrashes

LEMMA TypeStep == ASSUME TypeOK, RunInv, [Next]_vars PROVE TypeOK'
<1>1. CASE UNCHANGED vars
  BY <1>1 DEF vars, targetVars, textVars, promptVars, mapVars, TypeOK, Depth
<1>2. QED
  BY <1>1, TypeTarget, TypeLoop, TypeCommands DEF Next

--------------------------------------------------------------------------------
(* Who runs at each step.                                                     *)

LEMMA RunTarget == ASSUME TypeOK, RunInv, Target PROVE RunInv'
<1> USE DEF Keep, targetVars, textVars, promptVars, mapVars, Executing, StopsWith, RunInv, AtPrompt, Depth
<1>1. CASE Execs
  BY <1>1 DEF Execs
<1>2. CASE Enter
  BY <1>2 DEF Enter
<1>3. CASE Goes
  BY <1>3 DEF Goes
<1>4. CASE Calls
  <2>1. CASE sig' = sig /\ run' = run
    BY <1>4, <2>1 DEF Calls
  <2>2. CASE ~(sig' = sig /\ run' = run)
    <3>1. stack' = stack /\ pos' = pos /\ pos = "call" /\ Top \in traps /\ Len(stack) < MaxDepth
      BY <1>4, <2>2 DEF Calls
    <3>2. Top' = Top /\ run = "running"
      BY <1>4, <3>1 DEF Top, Calls
    <3>3. sig' = "TRAP" /\ run' = (IF pc = "gone" THEN "dead" ELSE "stopped") /\ Keep
      BY <1>4, <2>2 DEF Calls
    <3>4. QED
      BY <3>1, <3>2, <3>3
  <2>3. QED
    BY <2>1, <2>2
<1>5. CASE Returns
  BY <1>5 DEF Returns
<1>6. CASE Strays
  BY <1>6 DEF Strays
<1>7. CASE Faults
  BY <1>7 DEF Faults
<1>8. CASE Signalled
  BY <1>8 DEF Signalled
<1>9. CASE Exits
  BY <1>9 DEF Exits
<1>10. QED
  BY <1>1, <1>2, <1>3, <1>4, <1>5, <1>6, <1>7, <1>8, <1>9 DEF Target

LEMMA RunLoop == ASSUME TypeOK, RunInv, Loop \/ Sigint \/ SigintElsewhere PROVE RunInv'
<1> USE DEF targetVars, textVars, promptVars, mapVars, RunInv, AtPrompt, Depth
<1>1. CASE Construct
  BY <1>1 DEF Construct, Top
<1>2. CASE Letgo
  <2>1. CASE run = "stopped"
    BY <1>2, <2>1 DEF Letgo, Top
  <2>2. CASE run # "stopped"
    BY <1>2, <2>2, GoneTypes, BoundsAssumption DEF Letgo
  <2>3. QED
    BY <2>1, <2>2
<1>3. CASE WaitReturns
  <2>1. CASE run = "dead"
    BY <1>3, <2>1, GoneTypes, BoundsAssumption DEF WaitReturns
  <2>2. CASE run # "dead"
    <3>1. unwinder'.frames = stack /\ user' = 0
      BY <1>3, <2>2 DEF WaitReturns, Unwound
    <3>2. pc = "wait" /\ run = "stopped" /\ pc' \in {"trap", "segv", "ui"}
          /\ (pc' = "trap" => sig = "TRAP")
      BY <1>3, <2>2 DEF WaitReturns, TypeOK
    <3>3. UNCHANGED <<mapVars, loads, shape, run, stack, pos, textVars, addrs, lapsed>> /\ Top' = Top
      BY <1>3, <2>2 DEF WaitReturns, Top
    <3>4. Len(stack) \in 1 .. MaxDepth
      BY DEF TypeOK
    <3>5. QED
      BY <3>1, <3>2, <3>3, <3>4
  <2>3. QED
    BY <2>1, <2>2
<1>4. CASE ResetBreakpoint
  <2>1. /\ UNCHANGED <<shape, run, sig, jump, live, traps, user, again, keys, addrs, loads, lapsed>>
        /\ pc = "trap" /\ pc' = "letgo" /\ unwinder' = NoFrames
    BY <1>4 DEF ResetBreakpoint, StepOver
  <2>2. Len(unwinder'.frames) = 0
    BY <2>1, EmptySeq DEF NoFrames
  <2>3. \A c \in Frames : recorded'[c] \in {recorded[c], stack}
    BY <1>4 DEF ResetBreakpoint, TypeOK
  <2>4. Len(stack) <= MaxDepth
    BY BoundsAssumption DEF TypeOK
  <2>5. \A c \in Frames : Len(recorded'[c]) <= MaxDepth
    BY <2>3, <2>4
  <2>6. QED
    BY <2>1, <2>2, <2>5
<1>5. CASE InsertCheckpoint
  <2>1. /\ pc = "segv" /\ pc' = "ui"
        /\ UNCHANGED <<shape, targetVars, unwinder, again, jump, live, addrs, loads, recorded>>
    BY <1>5 DEF InsertCheckpoint
  <2>2. traps' \subseteq keys'
    BY <1>5 DEF InsertCheckpoint
  <2>3. QED
    BY <2>1, <2>2
<1>6. CASE Sigint
  <2>1. Gone /\ run' = "running"
    BY <1>6 DEF Sigint
  <2>2. QED
    BY <2>1, GoneTypes, BoundsAssumption
<1>7. CASE SigintElsewhere
  <2>1. Gone
    BY <1>7 DEF SigintElsewhere
  <2>2. run' # "stopped" /\ (run' = "forked" => traps' = {})
    BY <1>7 DEF SigintElsewhere
  <2>3. QED
    BY <2>1, <2>2, GoneTypes, BoundsAssumption
<1>8. QED
  BY <1>1, <1>2, <1>3, <1>4, <1>5, <1>6, <1>7 DEF Loop

LEMMA RunCommands == ASSUME TypeOK, RunInv, Commands PROVE RunInv'
<1> USE DEF targetVars, textVars, promptVars, mapVars, RunInv, AtPrompt, Depth
<1>1. CASE UpStack \/ DownStack
  BY <1>1 DEF UpStack, DownStack
<1>2. CASE Crashes \/ InjectAbandoned
  <2>1. Gone /\ run' = "running"
    BY <1>2 DEF Crashes, InjectAbandoned
  <2>2. QED
    BY <2>1, GoneTypes, BoundsAssumption
<1>3. CASE Leave
  <2>1. Leave
    BY <1>3
  <2>2. CASE again
    BY <2>1, <2>2 DEF Leave
  <2>3. CASE ~again
    <3>1. /\ pc = "ui" /\ pc' = "letgo" /\ unwinder' = NoFrames /\ user' = 0
          /\ UNCHANGED <<shape, run, sig, textVars, keys, recorded, addrs, loads>>
      BY <2>1, <2>3 DEF Leave
    <3>2. Len(unwinder'.frames) = 0
      BY <3>1, EmptySeq DEF NoFrames
    <3>3. QED
      BY <3>1, <3>2
  <2>4. QED
    BY <2>2, <2>3
<1>4. CASE Inject \/ InjectFails
  <2>1. traps' \subseteq traps /\ UNCHANGED <<shape, targetVars, pc, promptVars, mapVars, addrs>>
        /\ pc = "ui"
    BY <1>4 DEF Inject, InjectFails, Surviving
  <2>2. QED
    BY <2>1
<1>5. QED
  BY <1>1, <1>2, <1>3, <1>4 DEF Commands, PastEnd, InjectCrashes, LeaveUI, ResumeCurrFrame,
     RestartCurrFrame, RestartCheckpoint, RestartUnrecorded

LEMMA RunStep == ASSUME TypeOK, RunInv, [Next]_vars PROVE RunInv'
<1>1. CASE UNCHANGED vars
  BY <1>1 DEF vars, targetVars, textVars, promptVars, mapVars, RunInv, AtPrompt, Depth, Top
<1>2. QED
  BY <1>1, RunTarget, RunLoop, RunCommands DEF Next

LEMMA SigStep == ASSUME TypeOK, RunInv, SigInv, [Next]_vars PROVE SigInv'
<1> USE DEF SigInv, targetVars, promptVars
<1>1. CASE Target
  <2>1. CASE sig' = sig
    BY <1>1, <2>1 DEF Target, Execs, Enter, Goes, Calls, Returns, Strays, Faults, Signalled, Exits, Keep
  <2>2. CASE sig' # sig
    <3>1. run = "running" /\ pc' = pc
      BY <1>1, <2>2 DEF Target, Execs, Enter, Goes, Calls, Returns, Strays, Faults, Signalled, Exits,
         Keep, Executing
    <3>2. pc \in {"wait", "gone"}
      BY <3>1 DEF RunInv, AtPrompt, TypeOK
    <3>3. QED
      BY <3>1, <3>2
  <2>3. QED
    BY <2>1, <2>2
<1>2. ASSUME Gone PROVE SigInv'
  BY <1>2 DEF Gone
<1>3. CASE Loop
  BY <1>2, <1>3 DEF Loop, Construct, Letgo, WaitReturns, ResetBreakpoint, InsertCheckpoint
<1>4. CASE Commands
  BY <1>2, <1>4 DEF Commands, UpStack, PastEnd, DownStack, LeaveUI, ResumeCurrFrame, RestartCurrFrame,
     RestartCheckpoint, RestartUnrecorded, Inject, InjectFails, InjectCrashes, InjectAbandoned,
     Crashes, Leave
<1>5. CASE Sigint \/ SigintElsewhere
  BY <1>2, <1>5 DEF Sigint, SigintElsewhere
<1>6. CASE UNCHANGED vars
  BY <1>6 DEF vars
<1>7. QED
  BY <1>1, <1>3, <1>4, <1>5, <1>6 DEF Next

--------------------------------------------------------------------------------
(* The text and the checkpoints.                                              *)

(* Once crossed, a limit stays crossed.                                       *)
LEMMA LapsedBefore == ASSUME [Next]_vars, ~lapsed' PROVE ~lapsed
<1> USE DEF Lapse, Keep, Leave
<1>1. CASE Target
  BY <1>1 DEF Target, Execs, Enter, Goes, Calls, Returns, Strays, Faults, Signalled, Exits
<1>2. CASE Loop
  BY <1>2 DEF Loop, Construct, Letgo, WaitReturns, ResetBreakpoint, InsertCheckpoint
<1>3. CASE Commands
  BY <1>3 DEF Commands, UpStack, PastEnd, DownStack, LeaveUI, ResumeCurrFrame, RestartCurrFrame,
     RestartCheckpoint, RestartUnrecorded, Inject, InjectFails, InjectCrashes, InjectAbandoned, Crashes
<1>4. CASE Sigint \/ SigintElsewhere
  BY <1>4 DEF Sigint, SigintElsewhere
<1>5. CASE UNCHANGED vars
  BY <1>5 DEF vars
<1>6. QED
  BY <1>1, <1>2, <1>3, <1>4, <1>5 DEF Next

(* A frame's code is there as long as its function's first bytes are.         *)
LEMMA SameText ==
  ASSUME UNCHANGED <<shape, jump, live>>
  PROVE  /\ \A f : Dangling(f)' = Dangling(f)
         /\ \A c : CallLost(c)' = CallLost(c) /\ LibraryLost(c)' = LibraryLost(c)
BY DEF Dangling, CallLost, LibraryLost

(* Where no checkpoint is lost, an injection leaves a call at each; where the *)
(* function does not lead to what was closed, no first bytes do.              *)
LEMMA HandledText ==
  ASSUME TypeOK, NEW closed, NEW opened, NEW led \in BOOLEAN, Selected \in Fn,
         Handled(closed, opened, led), Surviving(closed, led) = traps, traps = keys,
         UNCHANGED <<shape, keys>>, \A f \in Fn : ~Dangling(f),
         \A c \in keys : ~CallLost(c) /\ ~LibraryLost(c)
  PROVE  /\ \A f \in Fn \ {Selected} : ~Dangling(f)'
         /\ \A c \in keys : ~CallLost(c)' /\ ~LibraryLost(c)'
<1> DEFINE S == Selected
<1>0. /\ live' = [live EXCEPT ![S] = (live[S] \ closed) \cup opened]
      /\ jump' = IF led THEN [jump EXCEPT ![S] = loads + 1] ELSE jump
      /\ live' \in [Fn -> SUBSET ((1 .. MaxLoads) \cup opened)]
      /\ S \in Fn
  BY DEF Handled, TypeOK
<1>s. S = Selected
  OBVIOUS
<1> HIDE DEF S
<1>1. live'[S] = (live[S] \ closed) \cup opened /\ (~led => jump' = jump)
  BY <1>0 DEF TypeOK
<1>2. \A f \in Fn \ {S} : jump'[f] = jump[f] /\ live'[f] = live[f]
  BY <1>0 DEF TypeOK
<1>3. ASSUME NEW c \in keys
      PROVE  ~CallLost(c)' /\ ~LibraryLost(c)'
  <2>1. c.fn \in Fn /\ c \in Surviving(closed, led)
    BY DEF TypeOK, Frames
  <2>2. CASE c.fn = S /\ c.ver # 0
    <3>1. c.ver \notin closed /\ c.ver \in live[S]
      BY <1>s, <2>1, <2>2 DEF Surviving, LibraryLost
    <3>2. QED
      BY <1>1, <2>2, <3>1 DEF CallLost, LibraryLost
  <2>3. CASE c.fn = S /\ c.ver = 0
    <3>1. ~(led /\ c.fn \in shape.early)
      BY <1>s, <2>1, <2>3 DEF Surviving
    <3>2. QED
      BY <1>1, <2>3, <3>1 DEF CallLost, LibraryLost
  <2>4. CASE c.fn # S
    <3>1. jump'[c.fn] = jump[c.fn] /\ live'[c.fn] = live[c.fn]
      BY <1>2, <2>1, <2>4
    <3>2. QED
      BY <3>1 DEF CallLost, LibraryLost
  <2>5. QED
    BY <2>2, <2>3, <2>4
<1>4. \A f \in Fn \ {S} : ~Dangling(f)'
  BY <1>2 DEF Dangling
<1>5. QED
  BY <1>s, <1>3, <1>4

LEMMA TextStep == ASSUME TypeOK, RunInv, TextInv, CodeInv, [Next]_vars PROVE TextInv'
<1> SUFFICES ASSUME ~lapsed'
             PROVE  /\ mixed' = {} /\ \A f \in Fn : ~Dangling(f)'
                    /\ pc' # "gone" => traps' = keys'
                    /\ pc' = "gone" /\ run' # "dead" => traps' = {}
                    /\ \A c \in keys' : /\ c.fn \notin shape'.indirect
                                        /\ ~CallLost(c)' /\ ~LibraryLost(c)'
  BY DEF TextInv
<1>0. /\ ~lapsed /\ mixed = {} /\ \A f \in Fn : ~Dangling(f)
      /\ pc # "gone" => traps = keys
      /\ pc = "gone" /\ run # "dead" => traps = {}
      /\ \A c \in keys : c.fn \notin shape.indirect /\ ~CallLost(c) /\ ~LibraryLost(c)
  BY LapsedBefore DEF TextInv
<1> USE DEF textVars, promptVars, mapVars, targetVars
<1>1. CASE Target
  <2>1. Keep
    BY <1>1 DEF Target, Execs, Enter, Goes, Calls, Returns, Strays, Faults, Signalled, Exits
  <2>2. run' # "dead" => run # "dead"
    BY <1>1 DEF Target, Execs, Enter, Goes, Calls, Returns, Strays, Faults, Signalled, Exits,
       Executing
  <2>3. QED
    BY <1>0, <2>1, <2>2, SameText DEF Keep
<1>2. CASE Construct
  BY <1>0, <1>2, SameText DEF Construct
<1>3. CASE Letgo
  <2>1. UNCHANGED <<shape, textVars>> /\ pc = "letgo" /\ traps = keys
    BY <1>0, <1>3 DEF Letgo
  <2>2. CASE run = "stopped"
    BY <1>0, <1>3, <2>1, <2>2, SameText DEF Letgo
  <2>3. CASE run # "stopped"
    <3>1. keys' = {} /\ traps = {} /\ pc' = "gone"
      BY <1>3, <2>1, <2>3, GoneTypes DEF Letgo, RunInv
    <3>2. QED
      BY <1>0, <2>1, <3>1, SameText
  <2>4. QED
    BY <2>2, <2>3
<1>4. CASE WaitReturns
  <2>1. UNCHANGED <<shape, run, textVars>> /\ pc = "wait" /\ traps = keys
    BY <1>0, <1>4 DEF WaitReturns
  <2>2. CASE run = "dead"
    <3>1. keys' = {} /\ pc' = "gone"
      BY <1>4, <2>2, GoneTypes DEF WaitReturns
    <3>2. QED
      BY <1>0, <2>1, <2>2, <3>1, SameText
  <2>3. CASE run # "dead"
    <3>1. keys' = keys /\ pc' # "gone"
      BY <1>4, <2>3 DEF WaitReturns, RunInv, TypeOK
    <3>2. QED
      BY <1>0, <2>1, <3>1, SameText
  <2>4. QED
    BY <2>2, <2>3
<1>5. CASE ResetBreakpoint
  <2>1. /\ UNCHANGED <<shape, jump, live, traps, keys>> /\ pc = "trap" /\ pc' = "letgo"
        /\ mixed' = mixed \cup Damaged({Top})
    BY <1>5 DEF ResetBreakpoint, StepOver
  <2>2. Top \in keys
    BY <1>0, <2>1 DEF RunInv
  <2>3. mixed' = {}
    BY <1>0, <2>1, <2>2 DEF Damaged
  <2>4. QED
    BY <1>0, <2>1, <2>3, SameText
<1>6. CASE InsertCheckpoint
  <2>1. pc = "segv" /\ pc' = "ui" /\ UNCHANGED <<shape, jump, live>>
    BY <1>6 DEF InsertCheckpoint
  <2>2. CASE UNCHANGED <<traps, mixed, mapVars>>
    BY <1>0, <2>1, <2>2, SameText
  <2>3. CASE ~ UNCHANGED <<traps, mixed, mapVars>>
    <3> DEFINE c == unwinder.frames[Depth - user' - 1]
    <3>1. user' \in 0 .. Depth - 1 /\ user' # Depth - 1 /\ Len(unwinder.frames) \in Nat
      BY <1>6, <2>3, LenProperties DEF InsertCheckpoint, GoToFrame, TypeOK
    <3>2. /\ keys' = keys \cup {c} /\ traps' = traps \cup {c} /\ mixed' = mixed \cup Damaged({c})
          /\ c.fn \notin shape.indirect
      BY <1>6, <2>3, <3>1 DEF InsertCheckpoint, Lapse
    <3>3. ~LibraryLost(c) /\ ~CallLost(c)
      <4>1. ~Stale /\ unwinder.frames = stack
        BY <1>0, <2>1 DEF CodeInv
      <4>2. Depth - user' - 1 \in 1 .. Len(stack) /\ Depth - user' - 1 < Len(stack)
        BY <3>1, <4>1 DEF Depth
      <4>3. stack[Depth - user' - 1] = c
        BY <4>1
      <4>4. DOMAIN stack = 1 .. Len(stack)
        BY LenProperties DEF TypeOK
      <4>5. c = stack[Depth - user' - 1]
        BY <4>3
      <4> DEFINE i == Depth - user' - 1
      <4>6. i \in DOMAIN stack /\ i < Len(stack)
        BY <4>2, <4>4
      <4>7. stack[i] = c
        BY <4>5
      <4> HIDE DEF c, i
      <4>8. QED
        BY <4>1, <4>6, <4>7 DEF Stale
    <3> HIDE DEF c
    <3>4. mixed' = {}
      BY <1>0, <3>2, <3>3 DEF Damaged
    <3>5. QED
      BY <1>0, <2>1, <3>2, <3>3, <3>4, SameText
  <2>4. QED
    BY <2>2, <2>3
<1>r. ASSUME RestoreBreakpoints, traps = keys PROVE traps' = {} /\ mixed' = {}
  <2>1. {c \in keys : ~LibraryLost(c)} = keys
    BY <1>0
  <2>2. traps' = traps \ keys /\ mixed' = mixed \cup Damaged(keys)
    BY <1>r, <2>1 DEF RestoreBreakpoints
  <2>3. QED
    BY <1>0, <1>r, <2>2 DEF Damaged
<1>7. CASE Sigint
  <2>1. RestoreBreakpoints /\ traps = keys /\ Gone /\ UNCHANGED <<shape, jump, live>>
    BY <1>0, <1>7 DEF Sigint
  <2>2. QED
    BY <1>0, <1>r, <2>1, GoneTypes, SameText
<1>8. CASE SigintElsewhere
  <2>1. Gone /\ UNCHANGED <<shape, jump, live>> /\ keys = {} /\ traps = keys
    BY <1>0, <1>8 DEF SigintElsewhere, Lapse
  <2>2. traps' = {} /\ mixed' = {}
    BY <1>0, <1>8, <1>r, <2>1 DEF SigintElsewhere
  <2>3. QED
    BY <1>0, <2>1, <2>2, GoneTypes, SameText
<1>9. CASE Commands
  <2>1. CASE UpStack \/ DownStack
    BY <1>0, <2>1, SameText DEF UpStack, DownStack
  <2>2. CASE PastEnd \/ RestartUnrecorded \/ InjectCrashes \/ InjectAbandoned
    BY <2>2 DEF PastEnd, RestartUnrecorded, InjectCrashes, InjectAbandoned, Crashes, Lapse
  <2>3. CASE LeaveUI \/ ResumeCurrFrame \/ RestartCurrFrame \/ RestartCheckpoint
    <3>1. Leave
      BY <2>3 DEF LeaveUI, ResumeCurrFrame, RestartCurrFrame, RestartCheckpoint
    <3>2. UNCHANGED <<shape, run, textVars, keys>> /\ pc = "ui" /\ pc' \in {"ui", "letgo"}
      BY <3>1 DEF Leave
    <3>3. QED
      BY <1>0, <3>2, SameText
  <2>4. CASE Inject
    <3>1. /\ pc = "ui" /\ user < Depth /\ UNCHANGED <<shape, pc, keys>> /\ loads' = loads + 1
          /\ traps' = traps
      BY <2>4 DEF Inject, Lapse
    <3>2. PICK closed \in Closable :
            Handled(closed, {loads'}, TRUE) /\ traps' = Surviving(closed, TRUE)
      BY <2>4 DEF Inject
    <3>3. Selected \in Fn
      BY <3>1, Selection DEF Depth
    <3>4. ~Dangling(Selected)'
      <4>1. Selected' = Selected
        BY <2>4 DEF Inject, Selected, Depth
      <4>2. jump'[Selected] = loads + 1 /\ loads + 1 \in live'[Selected]
        BY <3>1, <3>2, <3>3 DEF Handled, TypeOK
      <4>3. QED
        BY <4>1, <4>2 DEF Dangling
    <3>5. /\ \A f \in Fn \ {Selected} : ~Dangling(f)'
          /\ \A c \in keys : ~CallLost(c)' /\ ~LibraryLost(c)'
      BY <1>0, <3>1, <3>2, <3>3, HandledText
    <3>6. mixed' = {} /\ \A f \in Fn : ~Dangling(f)'
      <4>1. Selected' = Selected
        BY <2>4 DEF Inject, Selected, Depth
      <4>2. QED
        BY <1>0, <3>2, <3>4, <3>5, <4>1 DEF Handled, Dangling
    <3>7. QED
      BY <1>0, <3>1, <3>5, <3>6
  <2>5. CASE InjectFails
    <3>1. /\ pc = "ui" /\ user < Depth /\ UNCHANGED <<shape, pc, keys>>
          /\ traps' = traps /\ ~Dangling(Selected)'
      BY <2>5 DEF InjectFails, Lapse
    <3>2. PICK closed \in Closable :
            /\ \/ Handled(closed, {}, FALSE)
               \/ Handled(closed, {loads'}, FALSE)
            /\ traps' = Surviving(closed, FALSE)
      BY <2>5 DEF InjectFails
    <3>3. Selected \in Fn /\ Selected' = Selected
      BY <2>5, <3>1, Selection DEF InjectFails, Selected, Depth
    <3>4. /\ \A f \in Fn \ {Selected} : ~Dangling(f)'
          /\ \A c \in keys : ~CallLost(c)' /\ ~LibraryLost(c)'
      BY <1>0, <3>1, <3>2, <3>3, HandledText
    <3>5. mixed' = {} /\ \A f \in Fn : ~Dangling(f)'
      BY <1>0, <3>1, <3>2, <3>3, <3>4 DEF Handled, Dangling
    <3>6. QED
      BY <1>0, <3>1, <3>4, <3>5
  <2>6. QED
    BY <1>9, <2>1, <2>2, <2>3, <2>4, <2>5 DEF Commands
<1>10. CASE UNCHANGED vars
  BY <1>0, <1>10, SameText DEF vars
<1>11. QED
  BY <1>1, <1>2, <1>3, <1>4, <1>5, <1>6, <1>7, <1>8, <1>9, <1>10 DEF Next, Loop

--------------------------------------------------------------------------------
(* The target's code.                                                         *)

(* The target goes from code to code, and makes no frame stale.               *)
LEMMA CodeTarget ==
  ASSUME TypeOK, RunInv, TextInv, CodeInv, Target, ~lapsed
  PROVE  /\ pos' # "wild"
         /\ run' # "dead" => ~Stale'
<1>0. /\ mixed = {} /\ (\A f \in Fn : ~Dangling(f)) /\ (pc # "gone" => traps = keys)
      /\ (pc = "gone" /\ run # "dead" => traps = {})
      /\ \A c \in keys : c.fn \notin shape.indirect
      /\ pos # "wild"
      /\ run \in {"running", "forked"} => ~Stale
  BY DEF TextInv, CodeInv
<1>1. run \in {"running", "forked"}
  BY DEF Target, Execs, Enter, Goes, Calls, Returns, Strays, Faults, Signalled, Exits, Executing
<1>2. /\ ~Ruined(Top, pos)
      /\ \A i \in 1 .. Len(stack) : /\ ~LibraryLost(stack[i])
                                    /\ CallLost(stack[i]) => i = Len(stack) /\ pos = "start"
  <2>1. DOMAIN stack = 1 .. Len(stack) /\ Len(stack) \in Nat
    BY LenProperties DEF TypeOK
  <2>2. ~Stale
    BY <1>0, <1>1
  <2>3. \A i \in 1 .. Len(stack) : i < Len(stack) \/ i = Len(stack)
    <3>1. Len(stack) \in Nat
      BY <2>1
    <3>2. QED
      BY <3>1
  <2>4. QED
    BY <2>1, <2>2, <2>3 DEF Stale
<1>3. UNCHANGED <<shape, jump, live, pc>>
  BY DEF Target, Execs, Enter, Goes, Calls, Returns, Strays, Faults, Signalled, Exits, Keep, textVars
<1>4. CASE UNCHANGED <<stack, pos>>
  BY <1>0, <1>1, <1>3, <1>4 DEF Stale, Ruined, LibraryLost, CallLost, Top
<1>5. CASE Enter
  <2>1. Top.fn \in Fn /\ Top \in Frames /\ stack \in Seq(Frames) /\ Len(stack) \in 1 .. MaxDepth
    BY FrameTypes DEF TypeOK
  <2> DEFINE entered == [Top EXCEPT !.ver = jump[Top.fn]]
  <2>2. /\ pos' = (IF jump[Top.fn] = 0 THEN "prologue" ELSE "body")
        /\ stack' = [stack EXCEPT ![Len(stack)] = entered]
    BY <1>0, <1>5, <2>1 DEF Enter, Top
  <2>3. entered \in Frames /\ entered.fn = Top.fn /\ entered.ver = jump[Top.fn]
    BY <2>1 DEF Frames, TypeOK
  <2> HIDE DEF entered
  <2>4. /\ DOMAIN stack' = 1 .. Len(stack) /\ Len(stack') = Len(stack)
        /\ \A i \in 1 .. Len(stack) : stack'[i] = IF i = Len(stack) THEN entered ELSE stack[i]
    <3>1. /\ stack' \in Seq(Frames) /\ Len(stack') = Len(stack)
          /\ \A i \in 1 .. Len(stack) : stack'[i] = IF i = Len(stack) THEN entered ELSE stack[i]
      BY <2>1, <2>2, <2>3, ExceptSeq
    <3>2. QED
      BY <3>1, LenProperties
  <2>5. ~LibraryLost(entered) /\ ~CallLost(entered)
    <3>1. ~Dangling(Top.fn)
      BY <1>0, <2>1
    <3>2. QED
      BY <2>3, <3>1 DEF LibraryLost, CallLost, Dangling
  <2>6. Top' = entered
    <3>1. Len(stack) \in 1 .. Len(stack)
      BY <2>1, BoundsAssumption
    <3>2. stack'[Len(stack')] = entered
      BY <2>4, <3>1
    <3>3. QED
      BY <3>2 DEF Top
  <2>7. ~Ruined(Top, pos)'
    BY <1>3, <2>2, <2>3, <2>5, <2>6 DEF Ruined, LibraryLost, CallLost
  <2>8. \A i \in DOMAIN stack' : ~LibraryLost(stack[i])' /\ ~CallLost(stack[i])'
    <3>1. \A i \in 1 .. Len(stack) : ~LibraryLost(stack'[i]) /\ ~CallLost(stack'[i])
      BY <1>2, <2>1, <2>4, <2>5
    <3>2. QED
      BY <1>3, <2>4, <3>1 DEF LibraryLost, CallLost
  <2>9. QED
    BY <2>2, <2>7, <2>8 DEF Stale
<1>6. CASE Goes
  <2>1. stack' = stack /\ pos' \in {"body", "call"} /\ pos # "start"
    BY <1>6 DEF Goes, Executing
  <2>2. DOMAIN stack = 1 .. Len(stack) /\ Len(stack) \in 1 .. Len(stack)
    BY LenProperties, BoundsAssumption DEF TypeOK
  <2>3. \A i \in 1 .. Len(stack) : ~LibraryLost(stack[i])' /\ ~CallLost(stack[i])'
    BY <1>2, <1>3, <2>1 DEF LibraryLost, CallLost
  <2>4. QED
    BY <2>1, <2>2, <2>3 DEF Stale, Ruined, Top, LibraryLost, CallLost
<1>7. CASE Calls
  <2>1. ~(Top \in traps /\ Top.fn \in shape.indirect)
    BY <1>0, <1>1
  <2>2. CASE Top \in traps
    BY <1>4, <1>7, <2>1, <2>2 DEF Calls
  <2>3. CASE Top \notin traps
    <3>1. stack' = Append(stack, CalleeFrame) /\ pos' = "start" /\ pos = "call"
      BY <1>7, <2>3 DEF Calls, Executing
    <3>2. CalleeFrame \in Frames /\ stack \in Seq(Frames) /\ Len(stack) \in Nat
      BY FrameTypes, LenProperties DEF TypeOK
    <3>3. /\ Len(stack') = Len(stack) + 1 /\ stack'[Len(stack) + 1] = CalleeFrame
          /\ \A i \in 1 .. Len(stack) : stack'[i] = stack[i]
          /\ DOMAIN stack' = 1 .. Len(stack) + 1
      <4>1. stack' \in Seq(Frames)
        BY <3>1, <3>2, OneMore
      <4>2. QED
        BY <3>1, <3>2, <4>1, OneMore, LenProperties
    <3>4. ~LibraryLost(CalleeFrame)
      BY DEF LibraryLost, CalleeFrame
    <3>5. \A i \in 1 .. Len(stack) : ~LibraryLost(stack[i])' /\ ~CallLost(stack[i])'
      BY <1>2, <1>3, <3>1, <3>3 DEF LibraryLost, CallLost
    <3>6. Top' = CalleeFrame
      BY <3>2, <3>3 DEF Top
    <3>7. ~Ruined(Top, pos)'
      BY <1>3, <3>1, <3>4, <3>6 DEF Ruined, LibraryLost, CallLost
    <3>8. \A i \in DOMAIN stack' : /\ ~LibraryLost(stack[i])'
                                   /\ CallLost(stack[i])' => i = Len(stack')
      <4> SUFFICES ASSUME NEW i \in DOMAIN stack'
                   PROVE  ~LibraryLost(stack[i])' /\ (CallLost(stack[i])' => i = Len(stack'))
        OBVIOUS
      <4>1. CASE i = Len(stack) + 1
        BY <1>3, <3>3, <3>4, <4>1 DEF LibraryLost
      <4>2. CASE i # Len(stack) + 1
        BY <3>2, <3>3, <3>5, <4>2
      <4>3. QED
        BY <4>1, <4>2
    <3>9. DOMAIN stack' = 1 .. Len(stack') /\ Len(stack') \in Nat
      BY <3>2, <3>3
    <3>10. QED
      BY <3>1, <3>7, <3>8, <3>9 DEF Stale
  <2>4. QED
    BY <2>2, <2>3
<1>8. CASE Returns
  <2>1. /\ Len(stack) > 1 /\ stack' = SubSeq(stack, 1, Len(stack) - 1)
        /\ stack \in Seq(Frames) /\ Len(stack) \in Nat
    BY <1>8, LenProperties DEF Returns, TypeOK
  <2>2. /\ Len(stack') = Len(stack) - 1 /\ DOMAIN stack' = 1 .. Len(stack) - 1
        /\ \A i \in 1 .. Len(stack) - 1 : stack'[i] = stack[i]
    <3>1. Len(stack) - 1 \in 0 .. Len(stack)
      BY <2>1
    <3>2. stack' \in Seq(Frames) /\ Len(stack') = Len(stack) - 1
          /\ \A i \in 1 .. Len(stack) - 1 : stack'[i] = stack[i]
      BY <2>1, <3>1, Prefix
    <3>3. QED
      BY <3>2, LenProperties
  <2>3. \A i \in 1 .. Len(stack) - 1 : ~LibraryLost(stack[i]) /\ ~CallLost(stack[i])
    BY <1>2, <2>1
  <2>4. pos' = "body"
    BY <1>8, <2>1, <2>3 DEF Returns
  <2>5. \A i \in DOMAIN stack' : ~LibraryLost(stack[i])' /\ ~CallLost(stack[i])'
    BY <1>3, <2>2, <2>3 DEF LibraryLost, CallLost
  <2>6. Len(stack') \in DOMAIN stack'
    BY <2>1, <2>2
  <2>7. QED
    BY <2>4, <2>5, <2>6 DEF Stale, Ruined, Top
<1>9. CASE Strays
  BY <1>2, <1>9 DEF Strays
<1>10. QED
  BY <1>4, <1>5, <1>6, <1>7, <1>8, <1>9 DEF Target, Execs, Faults, Signalled, Exits

(* Nor does what leaves the frames and the text alone.                        *)
LEMMA SameFrames ==
  ASSUME UNCHANGED <<shape, stack, pos, jump, live>>
  PROVE  Stale' = Stale
BY DEF Stale, Ruined, LibraryLost, CallLost, Top

LEMMA CodeStep == ASSUME TypeOK, RunInv, SigInv, TextInv, CodeInv, [Next]_vars PROVE CodeInv'
<1> DEFINE Going == run \in {"running", "forked"} \/ pc = "segv" \/ (pc = "wait" /\ run = "stopped")
<1> SUFFICES ASSUME ~lapsed'
             PROVE  /\ pos' # "wild" /\ unwinder'.pos # "wild"
                    /\ Going' => ~Stale'
                    /\ pc' = "segv" => unwinder'.frames = stack'
  BY DEF CodeInv
<1>0. /\ ~lapsed /\ pos # "wild" /\ unwinder.pos # "wild"
      /\ Going => ~Stale
      /\ pc = "segv" => unwinder.frames = stack
  BY LapsedBefore DEF CodeInv
<1> USE DEF textVars, promptVars, mapVars, targetVars
<1>1. CASE Target
  <2>1. UNCHANGED <<pc, unwinder>>
    BY <1>1 DEF Target, Execs, Enter, Goes, Calls, Returns, Strays, Faults, Signalled, Exits, Keep
  <2>2. run \in {"running", "forked"}
    BY <1>1 DEF Target, Execs, Enter, Goes, Calls, Returns, Strays, Faults, Signalled, Exits,
       Executing
  <2>3. pc # "segv"
    BY <2>2 DEF RunInv, AtPrompt
  <2>4. QED
    BY <1>0, <1>1, <2>1, <2>3, CodeTarget
<1>2. CASE Construct
  <2>1. /\ UNCHANGED <<shape, run, stack, pos, jump, live, unwinder>>
        /\ pc = "construct" /\ pc' = "letgo"
    BY <1>2 DEF Construct
  <2>2. QED
    BY <1>0, <2>1, SameFrames
<1>3. CASE Letgo
  <2>1. /\ UNCHANGED <<shape, stack, pos, jump, live>> /\ ~Stale /\ pc' \in {"wait", "gone"}
    BY <1>3, GoneTypes DEF Letgo, Lapse
  <2>2. unwinder'.pos # "wild"
    BY <1>0, <1>3, GoneTypes DEF Letgo
  <2>3. QED
    BY <1>0, <2>1, <2>2, SameFrames
<1>4. CASE WaitReturns
  <2>1. UNCHANGED <<shape, run, stack, pos, jump, live>> /\ pc = "wait" /\ run \in {"stopped", "dead"}
    BY <1>4 DEF WaitReturns
  <2>2. CASE run = "dead"
    BY <1>0, <1>4, <2>1, <2>2, GoneTypes DEF WaitReturns
  <2>3. CASE run # "dead"
    <3>1. unwinder'.frames = stack /\ unwinder'.pos = pos /\ ~Stale
      BY <1>0, <1>4, <2>1, <2>3 DEF WaitReturns, Unwound
    <3>2. QED
      BY <1>0, <2>1, <3>1, SameFrames
  <2>4. QED
    BY <2>2, <2>3
<1>5. CASE ResetBreakpoint
  <2>1. pc' = "letgo" /\ run' = "stopped" /\ pos' = "start" /\ unwinder' = NoFrames
    BY <1>5 DEF ResetBreakpoint, StepOver, RunInv, AtPrompt
  <2>2. NoFrames.pos = "start"
    BY DEF NoFrames
  <2>3. QED
    BY <2>1, <2>2
<1>6. CASE InsertCheckpoint
  <2>1. pc' = "ui" /\ run' = "stopped" /\ pos' = pos /\ unwinder' = unwinder
    BY <1>6 DEF InsertCheckpoint, RunInv, AtPrompt
  <2>2. QED
    BY <1>0, <2>1
<1>7. CASE Sigint
  <2>1. UNCHANGED <<shape, stack, pos, jump, live>> /\ ~Stale /\ Gone
    BY <1>7 DEF Sigint, Lapse
  <2>2. QED
    BY <1>0, <2>1, GoneTypes, SameFrames
<1>8. CASE SigintElsewhere
  <2>1. UNCHANGED <<shape, stack, jump, live>> /\ ~Stale /\ keys = {} /\ Gone
    BY <1>8 DEF SigintElsewhere, Lapse
  <2>2. ~(run = "stopped" /\ sig = "TRAP")
    BY <1>8, <2>1 DEF RunInv, SigInv, SigintElsewhere
  <2>3. pos' = pos
    BY <1>8, <2>2 DEF SigintElsewhere
  <2>4. QED
    BY <1>0, <2>1, <2>3, GoneTypes, SameFrames
<1>9. CASE Commands
  <2>1. CASE UpStack \/ DownStack \/ Inject \/ InjectFails
    <3>1. pc' = "ui" /\ run' = "stopped" /\ pos' = pos /\ unwinder' = unwinder
      BY <2>1 DEF UpStack, DownStack, Inject, InjectFails, RunInv, AtPrompt
    <3>2. QED
      BY <1>0, <3>1
  <2>2. CASE PastEnd \/ RestartUnrecorded \/ InjectCrashes \/ InjectAbandoned
    BY <2>2 DEF PastEnd, RestartUnrecorded, InjectCrashes, InjectAbandoned, Crashes, Lapse
  <2>3. CASE LeaveUI \/ ResumeCurrFrame \/ RestartCurrFrame \/ RestartCheckpoint
    <3>1. Leave
      BY <2>3 DEF LeaveUI, ResumeCurrFrame, RestartCurrFrame, RestartCheckpoint
    <3>2. pc' \in {"ui", "letgo"} /\ run' = "stopped" /\ unwinder' \in {unwinder, NoFrames}
      BY <3>1 DEF Leave, RunInv, AtPrompt
    <3>3. pos' # "wild"
      BY <1>0, <2>3 DEF LeaveUI, ResumeCurrFrame, RestartCurrFrame, RestartCheckpoint, Lapse
    <3>4. NoFrames.pos = "start"
      BY DEF NoFrames
    <3>5. QED
      BY <1>0, <3>2, <3>3, <3>4
  <2>4. QED
    BY <1>9, <2>1, <2>2, <2>3 DEF Commands
<1>10. CASE UNCHANGED vars
  BY <1>0, <1>10, SameFrames DEF vars
<1>11. QED
  BY <1>1, <1>2, <1>3, <1>4, <1>5, <1>6, <1>7, <1>8, <1>9, <1>10 DEF Next, Loop

--------------------------------------------------------------------------------
(* The recorded registers.                                                    *)

(* It is the frames that have another inside that count.                      *)
LEMMA FollowsPrefix ==
  ASSUME NEW s \in Seq(Frames), NEW t \in Seq(Frames), NEW C, NEW D, D \subseteq C, NEW r,
         Follows(s, C, r), Len(t) <= Len(s), \A i \in 1 .. Len(t) - 1 : t[i] = s[i]
  PROVE  Follows(t, D, r)
<1>1. Len(s) \in Nat /\ Len(t) \in Nat
  BY LenProperties
<1>2. QED
  BY <1>1 DEF Follows

LEMMA FollowsCall ==
  ASSUME NEW s \in Seq(Frames), NEW t \in Seq(Frames), NEW C, NEW r,
         Follows(s, C, r), Len(t) = Len(s) + 1, \A i \in 1 .. Len(s) : t[i] = s[i],
         Len(s) > 0 => s[Len(s)] \notin C
  PROVE  Follows(t, C, r)
<1>1. Len(s) \in Nat
  BY LenProperties
<1>2. QED
  BY <1>1 DEF Follows

LEMMA FollowsNone ==
  ASSUME NEW s, NEW C, NEW r, Len(s) = 0 \/ C = {}
  PROVE  Follows(s, C, r)
BY DEF Follows

(* So a restart at a call in fresh goes to the frame that made it.            *)
LEMMA RecordedCallers ==
  ASSUME TypeOK, RunInv, FreshInv, ~lapsed, pc = "ui", user < Depth - 1, Caller \in fresh
  PROVE  recorded[Caller] = Callers
<1> DEFINE n == Depth - user - 1
<1>1. /\ Len(unwinder.frames) \in Nat /\ unwinder.frames \in Seq(Frames) /\ user \in Nat
      /\ Caller \in Frames /\ Callers \in Seq(Frames) /\ Len(Callers) = n
  BY Selection, BoundsAssumption DEF Depth
<1>2. n \in 1 .. Len(unwinder.frames) - 1 /\ n \in 0 .. Len(unwinder.frames)
  BY <1>1 DEF Depth
<1>3. \A i \in 1 .. n : Callers[i] = unwinder.frames[i]
  BY <1>1, <1>2, Prefix DEF Callers
<1>4. Len(recorded[Caller]) = n /\ \A j \in 1 .. n : recorded[Caller][j] = unwinder.frames[j]
  BY <1>2 DEF FreshInv, Follows, Caller
<1>5. recorded[Caller] \in Seq(Frames)
  BY <1>1 DEF TypeOK
<1> HIDE DEF n
<1>6. QED
  BY <1>1, <1>3, <1>4, <1>5, SeqEqual

(* What is recorded, entered, left and restarted keeps it so.                 *)
LEMMA FreshStep == ASSUME TypeOK, RunInv, TextInv, FreshInv, [Next]_vars PROVE FreshInv'
<1> SUFFICES ASSUME ~lapsed'
             PROVE  /\ Follows(stack', fresh', recorded')
                    /\ Follows(unwinder'.frames, fresh', recorded')
  BY DEF FreshInv
<1>0. /\ ~lapsed
      /\ Follows(stack, fresh, recorded) /\ Follows(unwinder.frames, fresh, recorded)
      /\ stack \in Seq(Frames) /\ Len(stack) \in 1 .. MaxDepth
      /\ unwinder.frames \in Seq(Frames) /\ fresh \subseteq keys
  BY LapsedBefore DEF FreshInv, TypeOK
<1>t. TypeOK'
  BY TypeStep
<1>n. Len(NoFrames.frames) = 0
  BY EmptySeq DEF NoFrames
<1>g. ASSUME Gone
      PROVE  /\ Follows(stack', fresh', recorded')
             /\ Follows(unwinder'.frames, fresh', recorded')
  BY <1>g, GoneTypes, FollowsNone
<1> USE DEF textVars, promptVars, mapVars, targetVars
<1>1. CASE Target
  <2>1. UNCHANGED <<unwinder, fresh, recorded>>
    BY <1>1 DEF Target, Execs, Enter, Goes, Calls, Returns, Strays, Faults, Signalled, Exits, Keep
  <2>2. CASE stack' = stack
    BY <1>0, <2>1, <2>2
  <2>3. CASE Enter
    <3> DEFINE entered == [Top EXCEPT !.ver = jump[Top.fn]]
    <3>1. entered \in Frames
      BY FrameTypes DEF Frames, TypeOK
    <3>2. stack' = stack \/ stack' = [stack EXCEPT ![Len(stack)] = entered]
      BY <2>3 DEF Enter, Top
    <3> HIDE DEF entered
    <3>3. /\ stack' \in Seq(Frames) /\ Len(stack') = Len(stack)
          /\ \A i \in 1 .. Len(stack) - 1 : stack'[i] = stack[i]
      <4>1. Len(stack) \in 1 .. Len(stack)
        BY <1>0, BoundsAssumption
      <4>2. CASE stack' = [stack EXCEPT ![Len(stack)] = entered]
        <5>1. /\ stack' \in Seq(Frames) /\ Len(stack') = Len(stack)
              /\ \A i \in 1 .. Len(stack) : stack'[i] = IF i = Len(stack) THEN entered ELSE stack[i]
          BY <1>0, <3>1, <4>1, <4>2, ExceptSeq
        <5>2. QED
          BY <1>0, <5>1, BoundsAssumption
      <4>3. QED
        BY <1>0, <3>2, <4>2
    <3>4. QED
      BY <1>0, <2>1, <3>3, LenProperties, FollowsPrefix
  <2>4. CASE Calls /\ stack' # stack
    <3>1. Top \notin fresh
      <4>1. Top \notin traps \/ Top.fn \in shape.indirect
        BY <2>4 DEF Calls
      <4>2. pc # "gone" => traps = keys
        BY <1>0 DEF TextInv
      <4>3. Top \notin traps
        BY <2>4 DEF Calls
      <4>4. QED
        BY <1>0, <4>2, <4>3 DEF RunInv
    <3>2. stack' = Append(stack, CalleeFrame)
      BY <2>4 DEF Calls
    <3>3. /\ stack' \in Seq(Frames) /\ Len(stack') = Len(stack) + 1
          /\ \A i \in 1 .. Len(stack) : stack'[i] = stack[i]
      BY <1>0, <3>2, FrameTypes, OneMore
    <3>4. Follows(stack', fresh, recorded)
      BY <1>0, <3>1, <3>3, FollowsCall DEF Top
    <3>5. QED
      BY <1>0, <2>1, <3>4
  <2>5. CASE Returns
    <3>1. Len(stack) - 1 \in 0 .. Len(stack) /\ stack' = SubSeq(stack, 1, Len(stack) - 1)
      BY <1>0, <2>5, BoundsAssumption DEF Returns
    <3>2. /\ stack' \in Seq(Frames) /\ Len(stack') = Len(stack) - 1
          /\ \A i \in 1 .. Len(stack) - 1 : stack'[i] = stack[i]
      BY <1>0, <3>1, Prefix
    <3>3. Len(stack') <= Len(stack) /\ \A i \in 1 .. Len(stack') - 1 : stack'[i] = stack[i]
      BY <1>0, <3>2, BoundsAssumption
    <3>4. QED
      BY <1>0, <2>1, <3>2, <3>3, FollowsPrefix
  <2>6. QED
    BY <1>1, <2>2, <2>3, <2>4, <2>5 DEF Target, Execs, Goes, Strays, Faults, Signalled, Exits
<1>2. CASE Construct
  BY <1>0, <1>2 DEF Construct
<1>3. CASE Letgo
  <2>1. CASE Gone
    BY <1>g, <2>1
  <2>2. CASE ~Gone
    BY <1>0, <1>3, <2>2 DEF Letgo
  <2>3. QED
    BY <2>1, <2>2
<1>4. CASE WaitReturns
  <2>1. CASE Gone
    BY <1>g, <2>1
  <2>2. CASE ~Gone
    <3>1. unwinder'.frames = stack /\ stack' = stack /\ UNCHANGED <<fresh, recorded>>
      BY <1>4, <2>2 DEF WaitReturns, Unwound
    <3>2. QED
      BY <1>0, <3>1
  <2>3. QED
    BY <2>1, <2>2
<1>5. CASE ResetBreakpoint
  <2>1. stack' = Append(stack, CalleeFrame) /\ unwinder' = NoFrames
    BY <1>5 DEF ResetBreakpoint, StepOver
  <2>2. /\ stack' \in Seq(Frames) /\ Len(stack') = Len(stack) + 1
        /\ \A i \in 1 .. Len(stack) : stack'[i] = stack[i]
    BY <1>0, <2>1, FrameTypes, OneMore
  <2>3. CASE recorded' = recorded /\ fresh' = fresh \ {Top}
    <3>1. Follows(stack, fresh', recorded)
      BY <1>0, <2>3, FollowsPrefix
    <3>2. QED
      BY <1>0, <1>n, <2>1, <2>2, <2>3, <3>1, FollowsCall, FollowsNone DEF Top
  <2>4. CASE recorded' = [recorded EXCEPT ![Top] = stack]
             /\ fresh' = (IF Recursive(Top) THEN fresh \ {Top} ELSE fresh \cup {Top})
    <3>1. Top \in Frames /\ recorded'[Top] = stack
      BY <2>4, FrameTypes DEF TypeOK
    <3>2. SUFFICES ASSUME NEW c \in fresh', NEW i \in 1 .. Len(stack), stack[i] = c
                   PROVE  /\ Len(recorded'[c]) = i
                          /\ \A j \in 1 .. i : recorded'[c][j] = stack[j]
      <4>1. \A i \in 1 .. Len(stack') - 1 : i \in 1 .. Len(stack) /\ stack'[i] = stack[i]
        BY <1>0, <2>2, BoundsAssumption
      <4>2. \A i \in 1 .. Len(stack') - 1 : \A j \in 1 .. i : stack'[j] = stack[j]
        BY <1>0, <2>2, BoundsAssumption
      <4>3. Follows(stack', fresh', recorded')
        BY <3>2, <4>1, <4>2 DEF Follows
      <4>4. QED
        BY <1>n, <2>1, <4>3, FollowsNone
    <3>3. CASE c = Top
      <4>1. ~Recursive(Top)
        BY <2>4, <3>3
      <4>2. i = Len(stack)
        BY <1>0, <3>2, <3>3, <4>1, BoundsAssumption DEF Recursive
      <4>3. QED
        BY <3>1, <3>3, <4>2
    <3>4. CASE c # Top
      <4>1. c \in fresh /\ c \in Frames /\ recorded'[c] = recorded[c]
        BY <1>0, <2>4, <3>4 DEF TypeOK
      <4>2. i # Len(stack)
        BY <3>2, <3>4 DEF Top
      <4>3. i \in 1 .. Len(stack) - 1
        BY <1>0, <4>2, BoundsAssumption
      <4>4. QED
        BY <1>0, <3>2, <4>1, <4>3 DEF Follows
    <3>5. QED
      BY <3>3, <3>4
  <2>5. QED
    BY <1>5, <2>3, <2>4 DEF ResetBreakpoint
<1>6. CASE InsertCheckpoint
  BY <1>0, <1>6 DEF InsertCheckpoint
<1>7. CASE Sigint \/ SigintElsewhere
  BY <1>g, <1>7 DEF Sigint, SigintElsewhere
<1>8. CASE Commands
  <2>1. CASE UpStack \/ DownStack \/ Inject \/ InjectFails
    BY <1>0, <2>1 DEF UpStack, DownStack, Inject, InjectFails
  <2>2. CASE PastEnd \/ RestartUnrecorded \/ InjectCrashes \/ InjectAbandoned
    BY <2>2 DEF PastEnd, RestartUnrecorded, InjectCrashes, InjectAbandoned, Crashes, Lapse
  <2>3. ASSUME Leave, fresh' \subseteq fresh, Follows(stack', fresh', recorded)
        PROVE  /\ Follows(stack', fresh', recorded')
               /\ Follows(unwinder'.frames, fresh', recorded')
    <3>1. recorded' = recorded /\ unwinder' \in {unwinder, NoFrames}
      BY <2>3 DEF Leave
    <3>2. Follows(unwinder.frames, fresh', recorded)
      BY <1>0, <2>3, LenProperties, FollowsPrefix
    <3>3. QED
      BY <1>n, <2>3, <3>1, <3>2, FollowsNone
  <2>4. CASE LeaveUI
    BY <1>0, <2>3, <2>4 DEF LeaveUI
  <2>5. CASE ResumeCurrFrame
    <3>1. Leave /\ pc = "ui" /\ user # Depth /\ fresh' = fresh
          /\ stack' = SubSeq(unwinder.frames, 1, Depth - user)
      BY <2>5 DEF ResumeCurrFrame, Leave, Lapse
    <3>2. user < Len(unwinder.frames) /\ Depth - user \in 0 .. Len(unwinder.frames)
      BY <3>1, Selection, BoundsAssumption DEF Depth
    <3>3. /\ stack' \in Seq(Frames) /\ Len(stack') = Depth - user
          /\ \A i \in 1 .. Depth - user : stack'[i] = unwinder.frames[i]
      BY <1>0, <3>1, <3>2, Prefix
    <3>4. Len(stack') <= Len(unwinder.frames)
          /\ \A i \in 1 .. Len(stack') - 1 : stack'[i] = unwinder.frames[i]
      BY <1>0, <3>2, <3>3, LenProperties
    <3>5. QED
      BY <1>0, <2>3, <3>1, <3>3, <3>4, FollowsPrefix
  <2>6. ASSUME pc = "ui", user < Depth - 1, stack' = Callers, fresh' \subseteq fresh
        PROVE  Follows(stack', fresh', recorded)
    <3>1. Depth - user - 1 \in 0 .. Len(unwinder.frames) /\ Len(unwinder.frames) \in Nat
      BY <2>6, Selection, BoundsAssumption DEF Depth
    <3>2. /\ stack' \in Seq(Frames) /\ Len(stack') = Depth - user - 1
          /\ \A i \in 1 .. Depth - user - 1 : stack'[i] = unwinder.frames[i]
      BY <1>0, <2>6, <3>1, Prefix DEF Callers
    <3>3. Len(stack') <= Len(unwinder.frames)
          /\ \A i \in 1 .. Len(stack') - 1 : stack'[i] = unwinder.frames[i]
      BY <3>1, <3>2
    <3>4. QED
      BY <1>0, <2>6, <3>2, <3>3, FollowsPrefix
  <2>7. CASE RestartCurrFrame
    BY <2>3, <2>6, <2>7 DEF RestartCurrFrame, Leave
  <2>8. CASE RestartCheckpoint
    <3>1. Leave /\ pc = "ui" /\ user < Depth - 1 /\ stack' = recorded[Caller]
          /\ fresh' = IF Caller \in fresh THEN fresh ELSE {}
      BY <2>8 DEF RestartCheckpoint, Leave
    <3>2. CASE Caller \notin fresh
      BY <2>3, <3>1, <3>2, FollowsNone
    <3>3. CASE Caller \in fresh
      BY <1>0, <2>3, <2>6, <3>1, <3>3, RecordedCallers
    <3>4. QED
      BY <3>2, <3>3
  <2>9. QED
    BY <1>8, <2>1, <2>2, <2>4, <2>5, <2>7, <2>8 DEF Commands
<1>9. CASE UNCHANGED vars
  BY <1>0, <1>9 DEF vars
<1>10. QED
  BY <1>1, <1>2, <1>3, <1>4, <1>5, <1>6, <1>7, <1>8, <1>9 DEF Next, Loop

--------------------------------------------------------------------------------
(* The theorems.                                                              *)

LEMMA IInvStep == ASSUME IInv, [Next]_vars PROVE IInv'
BY TypeStep, RunStep, SigStep, TextStep, CodeStep, FreshStep DEF IInv

THEOREM Invariance == Spec => []IInv
BY InitIInv, IInvStep, PTL DEF Spec

(* Every variable keeps its type, and the selected frame is one of the        *)
(* stack's or the one past the outermost: the bounds that up, down and the    *)
(* frame's number at a checkpoint are kept to.                                *)
THEOREM TypeCorrect == Spec => []TypeOK
<1>1. IInv => TypeOK
  BY DEF IInv
<1>2. QED
  BY <1>1, Invariance, PTL

(* Within the limits that the actions name no sequence of ddb's commands makes*)
(* the target execute what is not its code.                                   *)
THEOREM CodeKept == Spec => []StaysInCode
<1>1. IInv => StaysInCode
  BY DEF IInv, CodeInv, StaysInCode
<1>2. QED
  BY <1>1, Invariance, PTL

(* Within the same limits checkpoints and injections leave each other's bytes *)
(* alone, and ddb's end leaves no int3.                                       *)
THEOREM TextKept == Spec => []TextMatches
<1>1. IInv => TextMatches
  BY DEF IInv, TextInv, TextMatches
<1>2. QED
  BY <1>1, Invariance, PTL

(* A restart at a checkpoint goes to the frame that called the selected one.  *)
THEOREM SelectedRestarted == Spec => RestartsSelected
<1>1. ASSUME IInv, [Next]_vars
      PROVE  [RestartCheckpoint /\ ~lapsed /\ Caller \in fresh =>
                pos' = "call" /\ stack' = Callers]_vars
  <2> SUFFICES ASSUME RestartCheckpoint, ~lapsed, Caller \in fresh
               PROVE  pos' = "call" /\ stack' = Callers
    OBVIOUS
  <2>1. pc = "ui" /\ user < Depth - 1
    BY DEF RestartCheckpoint, Leave
  <2>2. recorded[Caller] = Callers
    BY <1>1, <2>1, RecordedCallers DEF IInv
  <2>3. QED
    BY <2>2 DEF RestartCheckpoint
<1>2. QED
  BY <1>1, Invariance, PTL DEF Spec, RestartsSelected
================================================================================
