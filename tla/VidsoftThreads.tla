-------------------------- MODULE VidsoftThreads --------------------------
(***************************************************************************)
(* The threads of the software video core (vidsoft.c, titan.c): one for    *)
(* VDP1, one for every VDP2 layer (the sprite layer is layer 1) and one    *)
(* for every part of the screen that Titan composes.  The emulation thread *)
(* hands each of them jobs through two flags, need_draw and draw_finished, *)
(* and wakes it through YabThreadWake (thr-linux.c).                       *)
(*                                                                         *)
(* Pictures are left out: what matters is who may read or write the two    *)
(* snapshots and the VDP1 frame buffers, and when.  The volatile flags are *)
(* read and written in program order.                                      *)
(***************************************************************************)
EXTENDS Integers

CONSTANTS
  NumLayers,        \* the VDP2 layers, 6 in the code
  NumPriority,      \* vidsoft_num_priority_threads, at most 5
  NumLayerThreads   \* vidsoft_num_layer_threads

ASSUME ThreadsAssumption ==
  NumLayers \in Nat \ {0} /\ NumPriority \in Nat /\ NumLayerThreads \in Nat \ {0}

Vdp1     == 0
Layers   == 1..NumLayers
Priority == (NumLayers + 1)..(NumLayers + NumPriority)
Workers  == {Vdp1} \cup Layers \cup Priority

VARIABLES
  pc,          \* where the emulation thread is
  k,           \* the worker it is dealing with
  ret,         \* where Vdp1Draw returns to
  dispatched,  \* num_threads_dispatched of VIDSoftVdp2DrawScreens
  vidcore,     \* VIDCore: the software core, or the dummy while frames are skipped
  back,        \* which frame buffer vdp1backframebuffer is
  target,      \* which one the latest snapshot of VDP1 was taken for
  need, finished,   \* need_draw and draw_finished of every thread
  wpc          \* where every thread is

vars == <<pc, k, ret, dispatched, vidcore, back, target, need, finished, wpc>>
flags == <<need, finished>>
main  == <<pc, k, ret, dispatched>>
video == <<vidcore, back, target>>

(* VIDSoftInit and TitanInit start every thread; nothing is displayed yet. *)
Init ==
  /\ pc = "blank" /\ k = Vdp1 /\ ret = "blank" /\ dispatched = 0
  /\ vidcore = "soft" /\ back = 0 /\ target = 0
  /\ need = [w \in Workers |-> FALSE]
  /\ finished = [w \in Workers |-> TRUE]
  /\ wpc = [w \in Workers |-> "check"]

-----------------------------------------------------------------------------
(* The threads.  Each loops: test need_draw, draw, report, sleep.          *)
(* Mutants are prefixed with Mut; each changes the definition it precedes. *)

At(w, here, there) == wpc[w] = here /\ wpc' = [wpc EXCEPT ![w] = there]

Check(w) ==
  /\ IF need[w] THEN At(w, "check", "take") ELSE At(w, "check", "sleep")
  /\ UNCHANGED <<main, video, flags>>

Take(w) ==
  /\ At(w, "take", "draw")
  /\ need' = [need EXCEPT ![w] = FALSE]
  /\ UNCHANGED <<main, video, finished>>

(* A thread that waits like the emulation thread would wait for itself. *)
MutDraw(w) ==
  /\ At(w, "draw", IF w = Vdp1 THEN "copy" ELSE "finish") /\ (w = Vdp1 => finished[w])
  /\ UNCHANGED <<main, video, flags>>

(* VidsoftVdp1Thread draws into its own buffer and then copies it to       *)
(* vdp1backframebuffer; the others draw in place.                          *)
Draw(w) ==
  /\ At(w, "draw", IF w = Vdp1 THEN "copy" ELSE "finish")
  /\ UNCHANGED <<main, video, flags>>

Copy == At(Vdp1, "copy", "finish") /\ UNCHANGED <<main, video, flags>>

Finish(w) ==
  /\ At(w, "finish", "sleep")
  /\ finished' = [finished EXCEPT ![w] = TRUE]
  /\ UNCHANGED <<main, video, need>>

(* YabThreadSleep waits on a condition variable with no predicate: a wake  *)
(* that came earlier is not remembered, and the wait may end by itself.    *)
Sleep(w) == At(w, "sleep", "asleep") /\ UNCHANGED <<main, video, flags>>

SpuriousWake(w) == At(w, "asleep", "check") /\ UNCHANGED <<main, video, flags>>

Awake(w) == Check(w) \/ Take(w) \/ Draw(w) \/ (w = Vdp1 /\ Copy) \/ Finish(w) \/ Sleep(w)

-----------------------------------------------------------------------------
(* The emulation thread: starting a job. *)

Goto(here, there) == pc = here /\ pc' = there

Store(flag, w) ==
  IF flag = "need" THEN need' = [need EXCEPT ![w] = TRUE] /\ UNCHANGED finished
                   ELSE finished' = [finished EXCEPT ![w] = FALSE] /\ UNCHANGED need

(* VIDSoftVdp1DrawStart clears draw_finished before it sets need_draw;     *)
(* VidsoftStartLayerThread and TitanStartPriorityThread do the reverse.    *)
MutStores(w) == <<"need", "finished">>

Stores(w) == IF w = Vdp1 THEN <<"finished", "need">> ELSE <<"need", "finished">>

Start1 ==
  /\ Goto("start1", "start2") /\ Store(Stores(k)[1], k)
  /\ UNCHANGED <<k, ret, dispatched, video, wpc>>

Start2 ==
  /\ Goto("start2", "start3") /\ Store(Stores(k)[2], k)
  /\ UNCHANGED <<k, ret, dispatched, video, wpc>>

(* YabThreadWake: pthread_cond_signal reaches a thread only while it waits. *)
Woken(w) == IF wpc[w] = "asleep" THEN [wpc EXCEPT ![w] = "check"] ELSE wpc

Continue(to) == pc' = to[1] /\ k' = to[2]

NextLayer(w) == IF w < NumLayers THEN <<"layer", w + 1>> ELSE <<"out", w>>

MutNextPriority(w) == IF w <= NumLayers + NumPriority THEN <<"start1", w + 1>>
                                                      ELSE <<"compose", w>>

NextPriority(w) == IF w < NumLayers + NumPriority THEN <<"start1", w + 1>>
                                                  ELSE <<"compose", w>>

Start3 ==
  /\ pc = "start3"
  /\ wpc' = Woken(k)
  /\ Continue(IF k = Vdp1 THEN <<ret, k>>
              ELSE IF k \in Layers THEN NextLayer(k) ELSE NextPriority(k))
  /\ dispatched' = IF k \in Layers THEN dispatched + 1 ELSE dispatched
  /\ UNCHANGED <<ret, video, flags>>

-----------------------------------------------------------------------------
(* The emulation thread: VDP1. *)

(* Vdp1Draw: a plot trigger of the program, or Vdp2VBlankOUT (pc = "out"). *)
Vdp1Draw ==
  /\ pc \in {"display", "blank", "out"} /\ vidcore = "soft"
  /\ pc' = "plot" /\ ret' = IF pc = "out" THEN "display" ELSE pc
  /\ UNCHANGED <<k, dispatched, video, flags, wpc>>

MutVdp1Waited == TRUE

Vdp1Waited == finished[Vdp1]

(* VidsoftWaitForVdp1Thread, then the snapshot for the thread, then start. *)
WaitToPlot ==
  /\ Goto("plot", "vdp1snapshot") /\ Vdp1Waited
  /\ UNCHANGED <<k, ret, dispatched, video, flags, wpc>>

Vdp1Snapshot ==
  /\ Goto("vdp1snapshot", "start1") /\ k' = Vdp1
  /\ target' = back
  /\ UNCHANGED <<ret, dispatched, vidcore, back, flags, wpc>>

(* VIDSoftVdp1ReadFrameBuffer and VIDSoftVdp1WriteFrameBuffer, called when *)
(* the program reads or writes frame buffer memory.                        *)
AccessFrameBuffer ==
  /\ pc \in {"display", "blank"} /\ vidcore = "soft"
  /\ pc' = "access" /\ ret' = pc
  /\ UNCHANGED <<k, dispatched, video, flags, wpc>>

WaitToAccess ==
  /\ Goto("access", "accessing") /\ Vdp1Waited
  /\ UNCHANGED <<k, ret, dispatched, video, flags, wpc>>

Accessed ==
  /\ Goto("accessing", ret)
  /\ UNCHANGED <<k, ret, dispatched, video, flags, wpc>>

-----------------------------------------------------------------------------
(* The emulation thread: Vdp2VBlankOUT, where a frame starts. *)

(* Frame skipping replaces VIDCore before anything is drawn.  With the     *)
(* display off (TVMD) no layer is drawn.                                   *)
VBlankOUT ==
  /\ pc = "blank"
  /\ vidcore' \in {"soft", "dummy"}
  /\ IF vidcore' = "dummy" THEN pc' = "display" ELSE pc' \in {"snapshot", "out"}
  /\ UNCHANGED <<k, ret, dispatched, back, target, flags, wpc>>

(* VIDSoftVdp2DrawScreens *)
Snapshot ==
  /\ Goto("snapshot", "layer") /\ k' = 1 /\ dispatched' = 0
  /\ UNCHANGED <<ret, video, flags, wpc>>

(* A layer is drawn by its thread or by the emulation thread itself, or it *)
(* is not visible.  The sprite layer has its thread unless the sprite      *)
(* window is used (CanUseSpriteThread).                                    *)
StartLayer ==
  /\ Goto("layer", "start1")
  /\ k = 1 \/ dispatched < NumLayerThreads
  /\ UNCHANGED <<k, ret, dispatched, video, flags, wpc>>

DrawOrSkipLayer ==
  /\ pc = "layer"
  /\ Continue(NextLayer(k))
  /\ UNCHANGED <<ret, dispatched, video, flags, wpc>>

(* PTMR is not 2: nothing to plot. *)
EndVBlankOUT ==
  /\ Goto("out", "display")
  /\ UNCHANGED <<k, ret, dispatched, video, flags, wpc>>

-----------------------------------------------------------------------------
(* The emulation thread: Vdp2VBlankIN, where VIDSoftVdp2DrawEnd shows the  *)
(* frame.  Only the emulation thread clears draw_finished, so waiting for  *)
(* the threads one after the other is waiting for all of them.             *)

VBlankIN ==
  /\ Goto("display", IF vidcore = "soft" THEN "drawend" ELSE "blank")
  /\ UNCHANGED <<k, ret, dispatched, video, flags, wpc>>

MutLayersWaited == \A w \in Layers : w # NumLayers => finished[w]

LayersWaited   == \A w \in Layers : finished[w]
PriorityWaited == \A w \in Priority : finished[w]

WaitForLayers ==
  /\ pc = "drawend" /\ LayersWaited
  /\ Continue(NextPriority(NumLayers))
  /\ UNCHANGED <<ret, dispatched, video, flags, wpc>>

(* TitanRenderThreads: the emulation thread composes the first part. *)
Compose ==
  /\ Goto("compose", "composed")
  /\ UNCHANGED <<k, ret, dispatched, video, flags, wpc>>

WaitForPriority ==
  /\ Goto("composed", "present") /\ PriorityWaited
  /\ UNCHANGED <<k, ret, dispatched, video, flags, wpc>>

(* VIDSoftVdp1SwapFrameBuffer, which FBCR and manualchange may skip. *)
WaitToSwap ==
  /\ Goto("present", "swap") /\ Vdp1Waited
  /\ UNCHANGED <<k, ret, dispatched, video, flags, wpc>>

Swap ==
  /\ Goto("swap", "blank")
  /\ back' = 1 - back
  /\ UNCHANGED <<k, ret, dispatched, vidcore, target, flags, wpc>>

KeepFrameBuffer ==
  /\ Goto("present", "blank")
  /\ UNCHANGED <<k, ret, dispatched, video, flags, wpc>>

Goes ==
  \/ Start1 \/ Start2 \/ Start3
  \/ WaitToPlot \/ Vdp1Snapshot \/ WaitToAccess \/ Accessed
  \/ Snapshot \/ StartLayer \/ DrawOrSkipLayer \/ EndVBlankOUT
  \/ WaitForLayers \/ Compose \/ WaitForPriority \/ WaitToSwap \/ Swap \/ KeepFrameBuffer

Next ==
  \/ Goes \/ VBlankOUT \/ VBlankIN \/ Vdp1Draw \/ AccessFrameBuffer
  \/ \E w \in Workers : Awake(w) \/ SpuriousWake(w)

Spec == Init /\ [][Next]_vars

(* The operating system runs every thread that is awake; a wait ends by    *)
(* itself only if it happens to.  Emulated time goes on whatever the       *)
(* program does, so the blanking interrupts are reached again and again.   *)
Fairness ==
  /\ WF_vars(Goes) /\ SF_vars(VBlankIN) /\ SF_vars(VBlankOUT)
  /\ \A w \in Workers : WF_vars(Awake(w))

FairSpec == Spec /\ Fairness

-----------------------------------------------------------------------------
TypeOK ==
  /\ pc \in {"display", "blank", "plot", "vdp1snapshot", "start1", "start2", "start3",
             "access", "accessing", "snapshot", "layer", "out", "drawend", "compose",
             "composed", "present", "swap"}
  /\ k \in Workers /\ ret \in {"display", "blank"} /\ dispatched \in 0..NumLayers
  /\ vidcore \in {"soft", "dummy"} /\ back \in {0, 1} /\ target \in {0, 1}
  /\ need \in [Workers -> BOOLEAN] /\ finished \in [Workers -> BOOLEAN]
  /\ wpc \in [Workers -> {"check", "take", "draw", "copy", "finish", "sleep", "asleep"}]

Busy(w) == need[w] \/ wpc[w] \in {"take", "draw", "copy"}

(* The emulation thread takes its snapshots, and touches the VDP1 frame    *)
(* buffers, only while no thread is working from them or still has to.     *)
SnapshotsAreStable ==
  /\ pc \in {"vdp1snapshot", "accessing", "swap"} => ~Busy(Vdp1)
  /\ pc = "snapshot" => \A w \in Layers : ~Busy(w)

(* Titan composes only layers that are complete, and what is presented has *)
(* been composed by every thread: no frame shows a half-drawn part.        *)
ResultsAreComplete ==
  /\ pc \in {"compose", "composed", "present", "swap"} => \A w \in Layers : ~Busy(w)
  /\ pc \in {"present", "swap", "blank"} => \A w \in Priority : ~Busy(w)

(* The VDP1 thread copies its picture to the buffer that was the back one  *)
(* when the draw began, although it reads vdp1backframebuffer only then.   *)
PictureLandsInItsBuffer == wpc[Vdp1] \in {"draw", "copy"} => target = back

(* A frame fails to end only because a thread sleeps through its wake, or  *)
(* because a thread had finished before its draw_finished was cleared.     *)
SleptThrough(w) == need[w] /\ wpc[w] = "asleep"
Forgotten(w)    == ~need[w] /\ ~finished[w] /\ wpc[w] \in {"check", "sleep", "asleep"}

FramesEndUnlessWakesAreLost ==
  []<>(pc = "blank") \/ <>[](\E w \in Workers : SleptThrough(w) \/ Forgotten(w))

(* The VDP1 thread is never the one whose draw_finished is forgotten: it   *)
(* is waited for only when it has still to report.                         *)
Vdp1IsNotForgotten == Forgotten(Vdp1) => pc = "start2"

-----------------------------------------------------------------------------
(* What comments of vidsoft.c say and the code does not do. *)

(* VIDSoftVdp1DrawStart: "start thread". *)
StartedThreadRuns == need[Vdp1] ~> ~need[Vdp1]

(* VIDSoftVdp1DrawStart: "take a snapshot of the vdp1 state, to be used by *)
(* the thread"; its drawing goes through VIDCore all the same.             *)
DrawsThroughItsOwnCore == wpc[Vdp1] = "draw" => vidcore = "soft"
=============================================================================
