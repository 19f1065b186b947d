------------------------ MODULE VidsoftThreadsProofs ------------------------
(***************************************************************************)
(* Proofs that the emulation thread of VidsoftThreads never touches what a *)
(* thread still works on, for any number of layers, of parts of the screen *)
(* and of layer threads.                                                   *)
(***************************************************************************)
EXTENDS VidsoftThreads, TLAPS

(* Worker w has a job that it has not reported yet.                        *)
Working(w) == Busy(w) \/ wpc[w] = "finish"

(* Between the two stores of a start the flags of its worker do not agree. *)
Starts == {"start1", "start2", "start3"}
Halfway(w) == pc = "start2" /\ k = w

(* A thread that is done with its job, or has none, and no other thread    *)
(* has its draw_finished set.                                              *)
FlagInv ==
  \A w \in Workers :
    /\ wpc[w] = "take" => need[w]
    /\ wpc[w] = "copy" => w = Vdp1
    /\ wpc[w] \in {"draw", "copy", "finish"} => ~need[w]
    /\ finished[w] /\ ~Halfway(w) => ~Working(w)

(* VDP1 clears draw_finished first, so it is clear only while there is a   *)
(* job; and the back buffer stays while there is one.                      *)
Vdp1Inv ==
  /\ pc \in {"vdp1snapshot", "accessing", "swap"} => finished[Vdp1]
  /\ pc = "start1" /\ k = Vdp1 => finished[Vdp1]
  /\ Halfway(Vdp1) => ~finished[Vdp1] /\ ~Working(Vdp1)
  /\ ~finished[Vdp1] => Working(Vdp1) \/ Halfway(Vdp1)
  /\ Busy(Vdp1) \/ (k = Vdp1 /\ pc \in {"start1", "start2"}) => target = back

(* Where no layer has a job: outside of a frame, and once all of them were *)
(* waited for; the same for the parts of the screen.                       *)
LayersQuiet ==
  \/ pc \in {"blank", "snapshot", "compose", "composed", "present", "swap"}
  \/ vidcore = "dummy"
  \/ pc \in {"plot", "vdp1snapshot", "access", "accessing"} /\ ret = "blank"
  \/ pc \in Starts /\ (k \in Priority \/ (k = Vdp1 /\ ret = "blank"))

PartsQuiet == ~(pc \in {"compose", "composed"} \/ (pc \in Starts /\ k \in Priority))

LayersInv ==
  /\ LayersQuiet => \A w \in Layers : finished[w]
  /\ \A w \in Layers :
       /\ pc = "layer" \/ (pc = "start1" /\ k \in Layers) => (w >= k => finished[w])
       /\ pc \in {"start2", "start3"} /\ k \in Layers => (w > k => finished[w])

PartsInv ==
  /\ PartsQuiet => \A w \in Priority : finished[w]
  /\ \A w \in Priority :
       /\ pc = "start1" /\ k \in Priority => (w >= k => finished[w])
       /\ pc \in {"start2", "start3"} /\ k \in Priority => (w > k => finished[w])

(* The layer loop, and what a frame that is skipped leaves out.            *)
MainInv ==
  /\ pc = "layer" => k \in Layers /\ dispatched < k
  /\ pc \in Starts /\ k \in Layers => dispatched < k
  /\ vidcore = "dummy" => pc \in {"blank", "display"}

(* The inductive invariant.                                                *)
IInv == TypeOK /\ FlagInv /\ Vdp1Inv /\ LayersInv /\ PartsInv /\ MainInv

-----------------------------------------------------------------------------
(* The inductive invariant holds initially.                                *)
LEMMA InitIInv == Init => IInv
<1> SUFFICES ASSUME Init PROVE IInv
  OBVIOUS
<1> USE ThreadsAssumption DEF Init, Workers, Layers, Priority, Vdp1
<1>1. TypeOK
  BY DEF TypeOK
<1>2. FlagInv /\ Vdp1Inv
  BY DEF FlagInv, Vdp1Inv, Working, Busy, Halfway
<1>3. LayersInv /\ PartsInv /\ MainInv
  BY DEF LayersInv, PartsInv, MainInv, Starts
<1> QED BY <1>1, <1>2, <1>3 DEF IInv

-----------------------------------------------------------------------------
(* The workers. *)

(* The three sorts of workers do not overlap.                              *)
LEMMA Sorts ==
  /\ Vdp1 \in Workers /\ Layers \subseteq Workers /\ Priority \subseteq Workers
  /\ Vdp1 \notin Layers /\ Vdp1 \notin Priority
  /\ \A w \in Workers : w = Vdp1 \/ w \in Layers \/ w \in Priority
  /\ \A w \in Layers : w \notin Priority
  /\ \A w \in Workers : w \in Nat
BY ThreadsAssumption DEF Vdp1, Layers, Priority, Workers

(* What a step of one worker does to the others: nothing.                  *)
LEMMA WorkerKeeps ==
  ASSUME IInv, NEW w \in Workers, Awake(w) \/ SpuriousWake(w)
  PROVE  /\ UNCHANGED <<main, video>>
         /\ \A v \in Workers : v # w => need'[v] = need[v] /\ finished'[v] = finished[v]
                                       /\ wpc'[v] = wpc[v]
         /\ \A v \in Workers : finished[v] => finished'[v]
         /\ TypeOK'
BY DEF IInv, TypeOK, Awake, SpuriousWake, Check, Take, Draw, Copy, Finish, Sleep, At, flags,
       main, video

(* A step of a worker preserves the invariant.                             *)
LEMMA WorkerStep ==
  ASSUME IInv, NEW w \in Workers, Awake(w) \/ SpuriousWake(w)
  PROVE  IInv'
<1> USE Sorts
<1>1. /\ UNCHANGED <<main, video>>
      /\ \A v \in Workers : v # w => need'[v] = need[v] /\ finished'[v] = finished[v]
                                    /\ wpc'[v] = wpc[v]
      /\ \A v \in Workers : finished[v] => finished'[v]
      /\ TypeOK'
  BY WorkerKeeps
<1>2. FlagInv'
  BY <1>1 DEF IInv, TypeOK, FlagInv, Working, Busy, Halfway, Awake, SpuriousWake, Check, Take,
              Draw, Copy, Finish, Sleep, At, flags, main
<1>3. Vdp1Inv'
  BY <1>1 DEF IInv, TypeOK, FlagInv, Vdp1Inv, Working, Busy, Halfway, Awake, SpuriousWake,
              Check, Take, Draw, Copy, Finish, Sleep, At, flags, main, video
<1>4. LayersInv' /\ PartsInv' /\ MainInv'
  BY <1>1 DEF IInv, LayersInv, PartsInv, MainInv, LayersQuiet, PartsQuiet, main, video
<1> QED BY <1>1, <1>2, <1>3, <1>4 DEF IInv

-----------------------------------------------------------------------------
(* The emulation thread. *)

(* The two stores of a start concern worker k alone.                       *)
LEMMA StartKeeps ==
  ASSUME IInv, Start1 \/ Start2
  PROVE  /\ UNCHANGED <<k, ret, dispatched, video, wpc>>
         /\ \A v \in Workers : v # k => need'[v] = need[v] /\ finished'[v] = finished[v]
         /\ \A v \in Workers : v # k /\ finished[v] => finished'[v]
         /\ TypeOK'
<1>1. Stores(k)[1] \in {"need", "finished"} /\ Stores(k)[2] \in {"need", "finished"}
  BY DEF Stores
<1>2. Store("need", k) \/ Store("finished", k)
  BY <1>1 DEF Start1, Start2
<1>3. UNCHANGED <<k, ret, dispatched, video, wpc>> /\ pc' \in {"start2", "start3"}
  BY DEF Start1, Start2, Goto
<1> QED BY <1>2, <1>3 DEF IInv, TypeOK, Store, video

(* Start1 sets a flag of a worker that has no job.                         *)
LEMMA Start1Step ==
  ASSUME IInv, Start1
  PROVE  IInv'
<1> USE Sorts
<1>1. /\ UNCHANGED <<k, ret, dispatched, video, wpc>>
      /\ \A v \in Workers : v # k => need'[v] = need[v] /\ finished'[v] = finished[v]
      /\ TypeOK' /\ k \in Workers
  BY StartKeeps DEF IInv, TypeOK
<1>2. pc = "start1" /\ pc' = "start2"
  BY DEF Start1, Goto
<1>3. finished[k]
  BY <1>1, <1>2 DEF IInv, Vdp1Inv, LayersInv, PartsInv, Starts, Layers, Priority
<1>4. IF k = Vdp1 THEN ~finished'[k] /\ need'[k] = need[k]
                  ELSE finished'[k] /\ need'[k]
  BY <1>1, <1>3 DEF IInv, TypeOK, Start1, Store, Stores
<1>5. ~Working(k)
  BY <1>1, <1>2, <1>3 DEF IInv, FlagInv, Halfway
<1>f. FlagInv'
  BY <1>1, <1>2, <1>4, <1>5 DEF IInv, FlagInv, Working, Busy, Halfway
<1>v. Vdp1Inv'
  <2>1. Working(Vdp1)' <=> Working(Vdp1)
    BY <1>1, <1>4 DEF Working, Busy
  <2> QED BY <1>1, <1>2, <1>3, <1>4, <1>5, <2>1 DEF IInv, Vdp1Inv, Working, Busy, Halfway, video
<1>6. LayersInv' /\ PartsInv' /\ MainInv'
  BY <1>1, <1>2, <1>4 DEF IInv, LayersInv, PartsInv, MainInv, LayersQuiet, PartsQuiet, Starts,
                          Layers, Priority, Vdp1, Workers, video
<1> QED BY <1>1, <1>f, <1>v, <1>6 DEF IInv

(* Start2 completes the start.                                             *)
LEMMA Start2Step ==
  ASSUME IInv, Start2
  PROVE  IInv'
<1> USE Sorts
<1>1. /\ UNCHANGED <<k, ret, dispatched, video, wpc>>
      /\ \A v \in Workers : v # k => need'[v] = need[v] /\ finished'[v] = finished[v]
      /\ TypeOK' /\ k \in Workers
  BY StartKeeps DEF IInv, TypeOK
<1>2. pc = "start2" /\ pc' = "start3"
  BY DEF Start2, Goto
<1>3. IF k = Vdp1 THEN finished'[k] = finished[k] /\ need'[k]
                  ELSE ~finished'[k] /\ need'[k] = need[k]
  BY <1>1 DEF IInv, TypeOK, Start2, Store, Stores
<1>4. FlagInv'
  <2>1. k = Vdp1 => ~finished[k] /\ ~Working(k)
    BY <1>2 DEF IInv, Vdp1Inv, Halfway
  <2>2. ~Halfway(k)'
    BY <1>2 DEF Halfway
  <2> QED BY <1>1, <1>2, <1>3, <2>1, <2>2 DEF IInv, FlagInv, Working, Busy, Halfway
<1>v. Vdp1Inv'
  <2>1. k # Vdp1 => (Working(Vdp1)' <=> Working(Vdp1))
    BY <1>1 DEF Working, Busy
  <2> QED BY <1>1, <1>2, <1>3, <2>1 DEF IInv, Vdp1Inv, Working, Busy, Halfway, video
<1>5. LayersInv' /\ PartsInv' /\ MainInv'
  BY <1>1, <1>2, <1>3 DEF IInv, LayersInv, PartsInv, MainInv, LayersQuiet, PartsQuiet, Starts,
                          Layers, Priority, Vdp1, Workers, video
<1> QED BY <1>1, <1>4, <1>v, <1>5 DEF IInv

(* Start3 wakes the worker and goes on to the next.                        *)
LEMMA Start3Step ==
  ASSUME IInv, Start3
  PROVE  IInv'
<1> USE Sorts
<1>1. UNCHANGED <<ret, video, flags>> /\ pc = "start3" /\ k \in Workers
  BY DEF Start3, IInv, TypeOK
<1>2. \A v \in Workers : wpc'[v] = wpc[v] \/ (wpc[v] = "asleep" /\ wpc'[v] = "check")
  BY <1>1 DEF IInv, TypeOK, Start3, Woken
<1>3. \/ k = Vdp1 /\ pc' = ret /\ k' = k
      \/ k \in Layers /\ k < NumLayers /\ pc' = "layer" /\ k' = k + 1
      \/ k = NumLayers /\ k \in Layers /\ pc' = "out" /\ k' = k
      \/ k \in Priority /\ k < NumLayers + NumPriority /\ pc' = "start1" /\ k' = k + 1
      \/ k = NumLayers + NumPriority /\ k \in Priority /\ pc' = "compose" /\ k' = k
  BY <1>1, ThreadsAssumption
     DEF Start3, Continue, NextLayer, NextPriority, Layers, Priority, Workers, Vdp1
<1>4. dispatched' = (IF k \in Layers THEN dispatched + 1 ELSE dispatched)
  BY DEF Start3
<1>5. TypeOK'
  BY <1>1, <1>3, <1>4, ThreadsAssumption
     DEF IInv, TypeOK, MainInv, Start3, Woken, Starts, Layers, Priority, Workers, Vdp1, flags,
         video
<1>6. FlagInv'
  BY <1>1, <1>2, <1>3 DEF IInv, TypeOK, FlagInv, Working, Busy, Halfway, flags
<1>v. Vdp1Inv'
  BY <1>1, <1>2, <1>3 DEF IInv, TypeOK, Vdp1Inv, Working, Busy, Halfway, Layers, Priority, Vdp1,
                          flags, video
<1>7. LayersInv' /\ PartsInv' /\ MainInv'
  BY <1>1, <1>3, <1>4, ThreadsAssumption
     DEF IInv, TypeOK, LayersInv, PartsInv, MainInv, LayersQuiet, PartsQuiet, Starts, Layers,
         Priority, Vdp1, Workers, flags, video
<1> QED BY <1>5, <1>6, <1>v, <1>7 DEF IInv

(* The snapshot and the swap find the VDP1 thread done.                    *)
LEMMA FrameBufferStep ==
  ASSUME IInv, Vdp1Snapshot \/ Swap
  PROVE  IInv'
<1> USE Sorts
<1>1. /\ UNCHANGED <<ret, dispatched, vidcore, flags, wpc>>
      /\ pc \in {"vdp1snapshot", "swap"} /\ ~Working(Vdp1) /\ finished[Vdp1]
  BY DEF Vdp1Snapshot, Swap, Goto, IInv, Vdp1Inv, FlagInv, Halfway
<1>2. TypeOK'
  BY <1>1 DEF IInv, TypeOK, Vdp1Snapshot, Swap, Goto, flags
<1>3. FlagInv' /\ Vdp1Inv'
  BY <1>1 DEF IInv, TypeOK, FlagInv, Vdp1Inv, Working, Busy, Halfway, Vdp1Snapshot, Swap, Goto,
              flags
<1>4. LayersInv' /\ PartsInv' /\ MainInv'
  BY <1>1 DEF IInv, TypeOK, LayersInv, PartsInv, MainInv, LayersQuiet, PartsQuiet, Starts,
              Vdp1Snapshot, Swap, Goto, flags
<1> QED BY <1>2, <1>3, <1>4 DEF IInv

(* A frame starts with every layer quiet.                                  *)
LEMMA VBlankOUTStep ==
  ASSUME IInv, VBlankOUT
  PROVE  IInv'
<1> USE Sorts
<1>1. TypeOK'
  BY DEF IInv, TypeOK, VBlankOUT, flags
<1>2. FlagInv' /\ Vdp1Inv'
  BY DEF IInv, TypeOK, FlagInv, Vdp1Inv, Working, Busy, Halfway, VBlankOUT, flags
<1>3. LayersInv' /\ PartsInv' /\ MainInv'
  BY DEF IInv, LayersInv, PartsInv, MainInv, LayersQuiet, PartsQuiet, Starts, VBlankOUT, flags
<1> QED BY <1>1, <1>2, <1>3 DEF IInv

(* The other calls of VDP1 and of the program.                             *)
Vdp1Calls == Vdp1Draw \/ WaitToPlot \/ AccessFrameBuffer \/ WaitToAccess \/ Accessed

(* The other steps of a frame.                                             *)
FrameCalls ==
  \/ Snapshot \/ StartLayer \/ DrawOrSkipLayer \/ EndVBlankOUT \/ VBlankIN
  \/ WaitForLayers \/ Compose \/ WaitForPriority \/ WaitToSwap \/ KeepFrameBuffer

(* They change no flag, so where the emulation thread is says it all.      *)
LEMMA Vdp1CallsStep ==
  ASSUME IInv, Vdp1Calls
  PROVE  IInv'
<1> USE Sorts DEF Vdp1Calls, Vdp1Draw, WaitToPlot, AccessFrameBuffer, WaitToAccess, Accessed,
                  Goto, Vdp1Waited
<1>1. UNCHANGED <<k, dispatched, video, flags, wpc>>
  OBVIOUS
<1>2. TypeOK'
  BY <1>1 DEF IInv, TypeOK, flags, video
<1>3. FlagInv' /\ Vdp1Inv'
  BY <1>1 DEF IInv, TypeOK, FlagInv, Vdp1Inv, Working, Busy, Halfway, flags, video
<1>4. LayersInv' /\ PartsInv' /\ MainInv'
  BY <1>1 DEF IInv, TypeOK, LayersInv, PartsInv, MainInv, LayersQuiet, PartsQuiet, Starts,
              flags, video
<1> QED BY <1>2, <1>3, <1>4 DEF IInv

(* Each wait establishes what the next place needs.                        *)
LEMMA FrameCallsStep ==
  ASSUME IInv, FrameCalls
  PROVE  IInv'
<1> USE Sorts, ThreadsAssumption
    DEF FrameCalls, Snapshot, StartLayer, DrawOrSkipLayer, EndVBlankOUT, VBlankIN,
        WaitForLayers, Compose, WaitForPriority, WaitToSwap, KeepFrameBuffer, Goto, Continue,
        NextLayer, NextPriority, Vdp1Waited, LayersWaited, PriorityWaited
<1>1. UNCHANGED <<ret, video, flags, wpc>>
  OBVIOUS
<1>2. TypeOK'
  BY <1>1 DEF IInv, TypeOK, MainInv, Layers, Priority, Vdp1, Workers, flags, video
<1>3. FlagInv' /\ Vdp1Inv'
  BY <1>1 DEF IInv, TypeOK, FlagInv, Vdp1Inv, Working, Busy, Halfway, MainInv, Layers, Priority,
              Vdp1, Workers, flags, video
<1>4. LayersInv'
  BY <1>1 DEF IInv, TypeOK, LayersInv, MainInv, LayersQuiet, Starts, Layers, Priority, Vdp1,
              Workers, flags, video
<1>5. PartsInv'
  BY <1>1 DEF IInv, TypeOK, PartsInv, MainInv, PartsQuiet, Starts, Layers, Priority, Vdp1,
              Workers, flags, video
<1>6. MainInv'
  BY <1>1 DEF IInv, TypeOK, MainInv, Starts, Layers, Priority, Vdp1, Workers, flags, video
<1> QED BY <1>2, <1>3, <1>4, <1>5, <1>6 DEF IInv

-----------------------------------------------------------------------------
(* Every step preserves the inductive invariant.                           *)
LEMMA StepIInv == IInv /\ [Next]_vars => IInv'
<1> SUFFICES ASSUME IInv, [Next]_vars PROVE IInv'
  OBVIOUS
<1>1. CASE \E w \in Workers : Awake(w) \/ SpuriousWake(w)
  BY <1>1, WorkerStep
<1>2. CASE Start1 \/ Start2 \/ Start3
  BY <1>2, Start1Step, Start2Step, Start3Step
<1>3. CASE Vdp1Snapshot \/ Swap \/ VBlankOUT
  BY <1>3, FrameBufferStep, VBlankOUTStep
<1>4. CASE Vdp1Calls \/ FrameCalls
  BY <1>4, Vdp1CallsStep, FrameCallsStep
<1>5. CASE UNCHANGED vars
  <2>1. UNCHANGED <<main, video, flags, wpc>>
    BY <1>5 DEF vars, main, video, flags
  <2> QED BY <2>1 DEF IInv, TypeOK, FlagInv, Vdp1Inv, LayersInv, PartsInv, MainInv, Working,
                      Busy, Halfway, LayersQuiet, PartsQuiet, main, video, flags
<1> QED BY <1>1, <1>2, <1>3, <1>4, <1>5 DEF Next, Goes, Vdp1Calls, FrameCalls

(* The inductive invariant is an invariant of the specification.           *)
THEOREM Invariance == Spec => []IInv
BY InitIInv, StepIInv, PTL DEF Spec

(* The flags and the place of every thread keep their types.               *)
THEOREM TypesAreKept == Spec => []TypeOK
<1>1. IInv => TypeOK
  BY DEF IInv
<1> QED BY <1>1, Invariance, PTL

(* Snapshots are taken, and frame buffers touched and swapped, only while  *)
(* no thread has a job that uses them.                                     *)
THEOREM SnapshotsStayStable == Spec => []SnapshotsAreStable
<1>1. IInv => SnapshotsAreStable
  BY Sorts DEF IInv, FlagInv, Vdp1Inv, LayersInv, LayersQuiet, Working, Halfway,
               SnapshotsAreStable
<1> QED BY <1>1, Invariance, PTL

(* Titan composes complete layers and presents complete parts.             *)
THEOREM FramesAreComplete == Spec => []ResultsAreComplete
<1>1. IInv => ResultsAreComplete
  BY Sorts DEF IInv, FlagInv, LayersInv, PartsInv, LayersQuiet, PartsQuiet, Starts, Working,
               Halfway, ResultsAreComplete
<1> QED BY <1>1, Invariance, PTL

(* The VDP1 thread copies its picture to the buffer it was drawn for.      *)
THEOREM PictureStaysOnItsBuffer == Spec => []PictureLandsInItsBuffer
<1>1. IInv => PictureLandsInItsBuffer
  BY DEF IInv, Vdp1Inv, Busy, PictureLandsInItsBuffer
<1> QED BY <1>1, Invariance, PTL

(* draw_finished of VDP1 is clear only while the thread has a job or is    *)
(* about to get one.                                                       *)
THEOREM Vdp1IsRemembered == Spec => []Vdp1IsNotForgotten
<1>1. IInv => Vdp1IsNotForgotten
  BY Sorts DEF IInv, Vdp1Inv, Working, Busy, Halfway, Forgotten, Vdp1IsNotForgotten
<1> QED BY <1>1, Invariance, PTL
=============================================================================
