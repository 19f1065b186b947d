----------------------------- MODULE ScspThread -----------------------------
(***************************************************************************)
(* The sound thread of scsp2.c.  The emulation thread raises a clock       *)
(* target, passes register writes through a one-place buffer and waits for *)
(* both; the SCSP thread executes cycles, answers with its own clock and   *)
(* asks for the SH-2's sound interrupt.  Waking and sleeping are those of  *)
(* thr-linux.c: a wake of a thread that is not asleep is forgotten.        *)
(*                                                                         *)
(* What the sound processor computes is left out.  The shared variables    *)
(* are volatile, read and written in program order.                        *)
(***************************************************************************)
EXTENDS Integers

CONSTANTS
  MaxExec,   \* SCSP_CLOCK_MAX_EXEC
  MaxStep,   \* the most cycles one ScspExec asks for
  U32,       \* how many values the clocks have
  Data       \* what a register write may carry

ASSUME ClockAssumption ==
  /\ MaxExec \in Nat \ {0} /\ MaxStep \in Nat
  /\ U32 \in Nat /\ U32 > MaxExec + MaxStep

VARIABLES
  mpc,          \* where the emulation thread is
  running,      \* scsp_thread_running
  clock_target, clock,
  pending,      \* scsp_main_interrupt_pending
  owed,         \* an interrupt was raised since the handler last ran
  wsize, wdata, \* scsp_write_buffer_size and _address, _data
  reg,          \* the register write executed last
  applied,      \* how often the buffered write has been executed
  spc,          \* where the SCSP thread is
  write_size, clock_cycles  \* its local copies

vars == <<mpc, running, clock_target, clock, pending, owed, wsize, wdata, reg,
          applied, spc, write_size, clock_cycles>>
clocks    == <<clock_target, clock>>
interrupt == <<pending, owed>>
buffer    == <<wsize, wdata, reg, applied>>
thread    == <<spc, write_size, clock_cycles>>

(* What ScspInit leaves; no write is under way. *)
Init ==
  /\ mpc = "run" /\ running = TRUE
  /\ clock_target = 0 /\ clock = 0
  /\ pending = FALSE /\ owed = FALSE
  /\ wsize = 0 /\ applied = 1 /\ wdata \in Data /\ reg = wdata
  /\ spc = "loop" /\ write_size = 0 /\ clock_cycles = 0

-----------------------------------------------------------------------------
(* Unsigned arithmetic.  Mutants are prefixed with Mut; each changes the   *)
(* definition it precedes.                                                 *)

MutPlus(a, b) == a + b

Plus(a, b) == IF a + b >= U32 THEN a + b - U32 ELSE a + b

Minus(a, b) == IF a >= b THEN a - b ELSE a - b + U32

Lag == Minus(clock_target, clock)

MutWoken == spc

(* YabThreadWake *)
Woken == IF spc = "asleep" THEN "loop" ELSE spc

Goto(here, there) == mpc = here /\ mpc' = there

Wake ==
  /\ spc' = Woken
  /\ UNCHANGED <<mpc, running, clocks, interrupt, buffer, write_size, clock_cycles>>

-----------------------------------------------------------------------------
(* The emulation thread: ScspExec. *)

Exec ==
  /\ Goto("run", "catchup")
  /\ \E step \in 0..MaxStep : clock_target' = Plus(clock_target, step)
  /\ UNCHANGED <<running, clock, interrupt, buffer, thread>>

(* Compares as signed numbers do. *)
MutBehind == clock_target - clock > MaxExec

Behind == Lag > MaxExec

CatchUp == mpc = "catchup" /\ Behind /\ Wake

CaughtUp ==
  /\ Goto("catchup", "interrupt") /\ ~Behind
  /\ UNCHANGED <<running, clocks, interrupt, buffer, thread>>

TestInterrupt ==
  /\ Goto("interrupt", IF pending THEN "handler" ELSE "run")
  /\ UNCHANGED <<running, clocks, interrupt, buffer, thread>>

HandleInterrupt ==
  /\ Goto("handler", "clear")
  /\ owed' = FALSE
  /\ UNCHANGED <<running, clocks, pending, buffer, thread>>

ClearInterrupt ==
  /\ Goto("clear", "run")
  /\ pending' = FALSE
  /\ UNCHANGED <<running, clocks, owed, buffer, thread>>

-----------------------------------------------------------------------------
(* ScspWriteByte, ScspWriteWord and ScspWriteLong: address and data first, *)
(* then the size; then the thread is woken until the size is zero again.   *)

WriteData ==
  /\ Goto("run", "writesize")
  /\ wdata' \in Data /\ applied' = 0
  /\ UNCHANGED <<running, clocks, interrupt, wsize, reg, thread>>

WriteSize ==
  /\ Goto("writesize", "write")
  /\ wsize' \in {1, 2, 4}
  /\ UNCHANGED <<running, clocks, interrupt, wdata, reg, applied, thread>>

(* Returns without waiting. *)
MutWritten == TRUE

Written == wsize = 0

PushWrite == mpc = "write" /\ ~Written /\ Wake

WriteReturns ==
  /\ Goto("write", "run") /\ Written
  /\ UNCHANGED <<running, clocks, interrupt, buffer, thread>>

-----------------------------------------------------------------------------
(* ScspSyncThread, and what its callers then do to the sound state.        *)

Sync ==
  /\ Goto("run", "sync")
  /\ UNCHANGED <<running, clocks, interrupt, buffer, thread>>

(* As near as ScspExec waits for. *)
MutSynced == Lag <= MaxExec

Synced == clock = clock_target

PushSync == mpc = "sync" /\ ~Synced /\ Wake

SyncReturns ==
  /\ Goto("sync", "exclusive") /\ Synced
  /\ UNCHANGED <<running, clocks, interrupt, buffer, thread>>

(* ScspReset; the clocks keep their values. *)
Reset ==
  /\ Goto("exclusive", "run")
  /\ pending' = FALSE /\ owed' = FALSE /\ wsize' = 0
  /\ UNCHANGED <<running, clocks, wdata, reg, applied, thread>>

(* SoundSaveState, SoundLoadState, M68KStart and M68KStop. *)
OtherExclusive ==
  /\ Goto("exclusive", "run")
  /\ UNCHANGED <<running, clocks, interrupt, buffer, thread>>

-----------------------------------------------------------------------------
(* ScspDeInit: one wake, then YabThreadWait; and a later ScspInit.         *)

Stop ==
  /\ Goto("run", "wakelast")
  /\ running' = FALSE
  /\ UNCHANGED <<clocks, interrupt, buffer, thread>>

WakeLast ==
  /\ Goto("wakelast", "join")
  /\ spc' = Woken
  /\ UNCHANGED <<running, clocks, interrupt, buffer, write_size, clock_cycles>>

Joined ==
  /\ Goto("join", "stopped") /\ spc = "done"
  /\ UNCHANGED <<running, clocks, interrupt, buffer, thread>>

Restart ==
  /\ Goto("stopped", "run")
  /\ running' = TRUE /\ clock_target' = 0 /\ clock' = 0
  /\ pending' = FALSE /\ owed' = FALSE /\ wsize' = 0
  /\ spc' = "loop"
  /\ UNCHANGED <<wdata, reg, applied, write_size, clock_cycles>>

-----------------------------------------------------------------------------
(* ScspThread *)

At(here, there) == spc = here /\ spc' = there

Loop ==
  /\ At("loop", IF ~running THEN "done" ELSE IF wsize = 0 THEN "readclock" ELSE "apply")
  /\ write_size' = wsize
  /\ UNCHANGED <<mpc, running, clocks, interrupt, buffer, clock_cycles>>

(* One or two writes of a word or one of a byte, as write_size says. *)
Apply ==
  /\ At("apply", "clearsize")
  /\ reg' = wdata /\ applied' = applied + 1
  /\ UNCHANGED <<mpc, running, clocks, interrupt, wsize, wdata, write_size, clock_cycles>>

ClearSize ==
  /\ At("clearsize", "readclock")
  /\ wsize' = 0
  /\ UNCHANGED <<mpc, running, clocks, interrupt, wdata, reg, applied, write_size,
                 clock_cycles>>

ReadClock ==
  /\ spc = "readclock"
  /\ clock_cycles' = IF Lag > MaxExec THEN MaxExec ELSE Lag
  /\ spc' = IF clock_cycles' > 0 THEN "exec" ELSE "sleep"
  /\ UNCHANGED <<mpc, running, clocks, interrupt, buffer, write_size>>

(* ScspRaiseInterrupt, from ScspDoExec or from a write to MCIEB. *)
RaiseInterrupt ==
  /\ spc \in {"exec", "apply"}
  /\ pending' = TRUE /\ owed' = TRUE
  /\ UNCHANGED <<mpc, running, clocks, buffer, thread>>

DoExec ==
  /\ At("exec", "advance")
  /\ UNCHANGED <<mpc, running, clocks, interrupt, buffer, write_size, clock_cycles>>

AdvanceClock ==
  /\ At("advance", "loop")
  /\ clock' = Plus(clock, clock_cycles)
  /\ UNCHANGED <<mpc, running, clock_target, interrupt, buffer, write_size, clock_cycles>>

(* YabThreadSleep; the wait may end by itself. *)
Sleep ==
  /\ At("sleep", "asleep")
  /\ UNCHANGED <<mpc, running, clocks, interrupt, buffer, write_size, clock_cycles>>

SpuriousWake ==
  /\ At("asleep", "loop")
  /\ UNCHANGED <<mpc, running, clocks, interrupt, buffer, write_size, clock_cycles>>

-----------------------------------------------------------------------------
Calls == Exec \/ WriteData \/ Sync \/ Stop \/ Restart

Goes ==
  \/ CatchUp \/ CaughtUp \/ TestInterrupt \/ HandleInterrupt \/ ClearInterrupt
  \/ WriteSize \/ PushWrite \/ WriteReturns
  \/ PushSync \/ SyncReturns \/ Reset \/ OtherExclusive \/ WakeLast \/ Joined

Awake == Loop \/ Apply \/ ClearSize \/ ReadClock \/ DoExec \/ AdvanceClock \/ Sleep

Next == Calls \/ Goes \/ Awake \/ RaiseInterrupt \/ SpuriousWake

Spec == Init /\ [][Next]_vars

(* The operating system runs both threads; nothing wakes a sleeping one    *)
(* but YabThreadWake.                                                      *)
FairSpec == Spec /\ WF_vars(Goes) /\ WF_vars(Awake)

-----------------------------------------------------------------------------
(* The shared variables hold what their declarations allow, and a clock is *)
(* a u32.                                                                  *)
TypeOK ==
  /\ mpc \in {"run", "catchup", "interrupt", "handler", "clear", "writesize", "write",
              "sync", "exclusive", "wakelast", "join", "stopped"}
  /\ running \in BOOLEAN /\ pending \in BOOLEAN /\ owed \in BOOLEAN
  /\ clock_target \in 0..(U32 - 1) /\ clock \in 0..(U32 - 1)
  /\ wsize \in {0, 1, 2, 4} /\ wdata \in Data /\ reg \in Data /\ applied \in {0, 1}
  /\ spc \in {"loop", "apply", "clearsize", "readclock", "exec", "advance", "sleep",
              "asleep", "done"}
  /\ write_size \in {0, 1, 2, 4} /\ clock_cycles \in 0..MaxExec

(* Between the calls of the emulation thread the sound is never more than  *)
(* SCSP_CLOCK_MAX_EXEC cycles late and never ahead, also when the clocks   *)
(* wrap around.                                                            *)
LagIsBounded == mpc \in {"run", "interrupt", "handler", "clear", "writesize"} => Lag <= MaxExec

(* A register write has been executed, once and with its own data, when    *)
(* the call that made it returns.                                          *)
WritesAreSynchronous ==
  mpc \in {"run", "catchup", "sync", "exclusive"} => applied = 1 /\ reg = wdata /\ wsize = 0

(* Reset, save states and the sound processor's start and stop change the  *)
(* state of the sound only while the thread is not using it.               *)
ExclusiveIsAlone ==
  mpc = "exclusive" => spc \notin {"apply", "clearsize", "exec", "advance"}

(* Every wait of the emulation thread ends, but for the last one of        *)
(* ScspDeInit.                                                             *)
MainNeverHangs == mpc \in {"catchup", "write", "sync"} ~> mpc = "run"

-----------------------------------------------------------------------------
(* What comments of scsp2.c say and the code does not do. *)

(* scsp_main_interrupt_pending: "Has an interrupt request been generated   *)
(* for the main processor?"  One that was and has not been handled:        *)
InterruptsStayPending == owed => pending

(* ScspDeInit: "Tell the subthread to stop".                               *)
StopIsHeard == mpc = "join" ~> mpc = "stopped"
=============================================================================
