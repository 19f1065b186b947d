------------------------- MODULE ScspThreadProofs -------------------------
(***************************************************************************)
(* Proofs that ScspThread keeps its lag bounded, its register writes       *)
(* synchronous and its resets exclusive, for all clock widths, steps and   *)
(* data that satisfy ClockAssumption.                                      *)
(***************************************************************************)
EXTENDS ScspThread, TLAPS

(* The buffered write goes through four stages: data stored, size stored,  *)
(* executed, cleared.                                                      *)
WriteInv ==
  /\ mpc \notin {"writesize", "write"} => applied = 1 /\ reg = wdata /\ wsize = 0
  /\ mpc = "writesize" => applied = 0 /\ wsize = 0
  /\ mpc = "write" /\ wsize = 0 => applied = 1 /\ reg = wdata
  /\ mpc = "write" /\ wsize # 0 /\ spc # "clearsize" => applied = 0
  /\ spc = "apply" => mpc = "write" /\ wsize # 0
  /\ spc = "clearsize" => mpc = "write" /\ wsize # 0 /\ applied = 1 /\ reg = wdata

(* The lag is small except while ScspExec catches up, and the cycles the   *)
(* thread is executing are part of it.                                     *)
ClockInv ==
  /\ Lag <= MaxExec + MaxStep
  /\ mpc # "catchup" => Lag <= MaxExec
  /\ spc \in {"exec", "advance"} => 0 < clock_cycles /\ clock_cycles <= Lag
  /\ mpc = "exclusive" => clock = clock_target

(* TypeOK in two parts: the flags, and what is not Boolean.                *)
FlagTypes == running \in BOOLEAN /\ pending \in BOOLEAN /\ owed \in BOOLEAN

OtherTypes ==
  /\ mpc \in {"run", "catchup", "interrupt", "handler", "clear", "writesize", "write",
              "sync", "exclusive", "wakelast", "join", "stopped"}
  /\ clock_target \in 0..(U32 - 1) /\ clock \in 0..(U32 - 1)
  /\ wsize \in {0, 1, 2, 4} /\ wdata \in Data /\ reg \in Data /\ applied \in {0, 1}
  /\ spc \in {"loop", "apply", "clearsize", "readclock", "exec", "advance", "sleep",
              "asleep", "done"}
  /\ write_size \in {0, 1, 2, 4} /\ clock_cycles \in 0..MaxExec

(* The inductive invariant: LagIsBounded needs the part of ClockInv about  *)
(* the cycles in execution, and WritesAreSynchronous the stages of the     *)
(* write.                                                                  *)
IInv == FlagTypes /\ OtherTypes /\ WriteInv /\ ClockInv

-----------------------------------------------------------------------------
(* Arithmetic of the clocks. *)

(* Lag is a number below U32.                                              *)
LEMMA MinusType ==
  ASSUME NEW a \in 0..(U32 - 1), NEW b \in 0..(U32 - 1)
  PROVE  Minus(a, b) \in 0..(U32 - 1)
BY ClockAssumption DEF Minus

(* Raising the target by n raises the lag by n, as long as it fits.        *)
LEMMA LagGrows ==
  ASSUME NEW a \in 0..(U32 - 1), NEW b \in 0..(U32 - 1), NEW n \in Nat,
         Minus(a, b) + n < U32
  PROVE  Plus(a, n) \in 0..(U32 - 1) /\ Minus(Plus(a, n), b) = Minus(a, b) + n
BY ClockAssumption DEF Minus, Plus

(* Advancing the clock by n lowers the lag by n, as long as it lasts.      *)
LEMMA LagShrinks ==
  ASSUME NEW a \in 0..(U32 - 1), NEW b \in 0..(U32 - 1), NEW n \in Nat,
         n <= Minus(a, b)
  PROVE  Plus(b, n) \in 0..(U32 - 1) /\ Minus(a, Plus(b, n)) = Minus(a, b) - n
BY ClockAssumption DEF Minus, Plus

(* Equal clocks have no lag.                                               *)
LEMMA NoLag ==
  ASSUME NEW a \in 0..(U32 - 1), NEW b \in 0..(U32 - 1)
  PROVE  a = b <=> Minus(a, b) = 0
BY ClockAssumption DEF Minus

-----------------------------------------------------------------------------
(* The inductive invariant holds initially.                                *)
LEMMA InitIInv == Init => IInv
<1>1. Init => FlagTypes
  BY Zenon DEF Init, FlagTypes
<1>2. Init => OtherTypes /\ WriteInv /\ ClockInv
  BY ClockAssumption DEF Init, OtherTypes, WriteInv, ClockInv, Lag, Minus
<1> QED BY <1>1, <1>2 DEF IInv

(* Flags are only ever set to TRUE or FALSE.                               *)
LEMMA StepFlags == FlagTypes /\ [Next]_vars => FlagTypes'
<1> SUFFICES ASSUME FlagTypes, [Next]_vars PROVE FlagTypes'
  OBVIOUS
<1>1. CASE Exec \/ WriteData \/ Sync \/ Stop \/ Restart
  BY <1>1, Zenon DEF FlagTypes, Exec, WriteData, Sync, Stop, Restart, interrupt
<1>2. CASE CatchUp \/ CaughtUp \/ TestInterrupt \/ HandleInterrupt \/ ClearInterrupt
           \/ WriteSize \/ PushWrite \/ WriteReturns
  BY <1>2, Zenon DEF FlagTypes, CatchUp, CaughtUp, TestInterrupt, HandleInterrupt,
                     ClearInterrupt, WriteSize, PushWrite, WriteReturns, Wake, interrupt
<1>3. CASE PushSync \/ SyncReturns \/ Reset \/ OtherExclusive \/ WakeLast \/ Joined
  BY <1>3, Zenon DEF FlagTypes, PushSync, SyncReturns, Reset, OtherExclusive, WakeLast,
                     Joined, Wake, interrupt
<1>4. CASE Awake \/ RaiseInterrupt \/ SpuriousWake
  BY <1>4, Zenon DEF FlagTypes, Awake, Loop, Apply, ClearSize, ReadClock, DoExec,
                     AdvanceClock, Sleep, RaiseInterrupt, SpuriousWake, interrupt
<1>5. CASE UNCHANGED vars
  BY <1>5, Zenon DEF FlagTypes, vars
<1> QED BY <1>1, <1>2, <1>3, <1>4, <1>5 DEF Next, Calls, Goes

(* Every step of the emulation thread or of the SCSP thread preserves it.  *)
LEMMA StepIInv == IInv /\ [Next]_vars => IInv'
<1> DEFINE Rest == OtherTypes /\ WriteInv /\ ClockInv
<1> SUFFICES ASSUME IInv, [Next]_vars PROVE Rest'
  BY StepFlags DEF IInv
<1> USE ClockAssumption DEF IInv
<1>lag. Lag \in 0..(U32 - 1)
  BY MinusType DEF OtherTypes, Lag
<1>stay. ASSUME UNCHANGED clocks PROVE Lag' = Lag
  BY <1>stay DEF clocks, Lag
<1>1. CASE Exec
  <2>1. PICK step \in 0..MaxStep : clock_target' = Plus(clock_target, step)
    BY <1>1 DEF Exec
  <2>2. clock_target' \in 0..(U32 - 1) /\ Lag' = Lag + step
    <3>1. Minus(clock_target, clock) + step < U32
      BY <1>1 DEF Exec, Goto, ClockInv, Lag, Minus, OtherTypes
    <3>2. clock' = clock
      BY <1>1 DEF Exec
    <3> QED BY <2>1, <3>1, <3>2, LagGrows DEF Lag, OtherTypes
  <2>3. OtherTypes'
    BY <1>1, <2>2 DEF OtherTypes, Exec, Goto, interrupt, buffer, thread
  <2>4. WriteInv'
    BY <1>1 DEF WriteInv, Exec, Goto, buffer, thread
  <2>5. ClockInv'
    BY <1>1, <1>lag, <2>1, <2>2 DEF ClockInv, Exec, Goto, OtherTypes, thread
  <2> QED BY <2>3, <2>4, <2>5
<1>2. CASE AdvanceClock
  <2>1. clock' \in 0..(U32 - 1) /\ Lag' = Lag - clock_cycles
    BY <1>2, LagShrinks DEF AdvanceClock, At, ClockInv, Lag, OtherTypes
  <2>2. OtherTypes'
    BY <1>2, <2>1 DEF OtherTypes, AdvanceClock, At, interrupt, buffer
  <2>3. WriteInv'
    BY <1>2 DEF WriteInv, AdvanceClock, At, buffer
  <2>4. ClockInv'
    BY <1>2, <1>lag, <2>1 DEF ClockInv, AdvanceClock, At, OtherTypes, Lag, Minus
  <2> QED BY <2>2, <2>3, <2>4
<1>3. CASE ReadClock
  <2>1. Lag' = Lag
    BY <1>3, <1>stay DEF ReadClock
  <2>2. OtherTypes'
    BY <1>3, <1>lag DEF OtherTypes, ReadClock, clocks, interrupt, buffer
  <2>3. WriteInv'
    BY <1>3 DEF WriteInv, ReadClock, buffer
  <2>4. ClockInv'
    BY <1>3, <1>lag, <2>1 DEF ClockInv, ReadClock, clocks
  <2> QED BY <2>2, <2>3, <2>4
<1>4. CASE Restart
  <2>1. OtherTypes'
    BY <1>4 DEF OtherTypes, Restart, Goto
  <2>2. WriteInv'
    BY <1>4 DEF WriteInv, Restart, Goto
  <2>3. ClockInv'
    BY <1>4 DEF ClockInv, Restart, Goto, Lag, Minus
  <2> QED BY <2>1, <2>2, <2>3
<1>5. ASSUME UNCHANGED clocks, WriteData \/ WriteSize \/ WriteReturns \/ Reset
      PROVE  Rest'
  <2>1. OtherTypes'
    BY <1>5 DEF OtherTypes, WriteData, WriteSize, WriteReturns, Reset, Goto, clocks, interrupt,
                buffer, thread
  <2>2. WriteInv'
    BY <1>5 DEF WriteInv, WriteData, WriteSize, WriteReturns, Reset, Goto, Written, buffer,
                thread, OtherTypes
  <2>3. ClockInv'
    BY <1>5, <1>stay DEF ClockInv, WriteData, WriteSize, WriteReturns, Reset, Goto, clocks,
                         thread
  <2> QED BY <2>1, <2>2, <2>3
<1>6. ASSUME UNCHANGED <<clocks, buffer, thread>>,
             CaughtUp \/ TestInterrupt \/ HandleInterrupt \/ ClearInterrupt
             \/ Sync \/ SyncReturns \/ OtherExclusive \/ Stop \/ Joined
      PROVE  Rest'
  <2>1. OtherTypes'
    BY <1>6 DEF OtherTypes, CaughtUp, TestInterrupt, HandleInterrupt, ClearInterrupt, Sync,
                SyncReturns, OtherExclusive, Stop, Joined, Goto, clocks, interrupt, buffer,
                thread
  <2>2. WriteInv'
    BY <1>6 DEF WriteInv, CaughtUp, TestInterrupt, HandleInterrupt, ClearInterrupt, Sync,
                SyncReturns, OtherExclusive, Stop, Joined, Goto, buffer, thread
  <2>3. ClockInv'
    BY <1>6, <1>stay, <1>lag
       DEF ClockInv, CaughtUp, TestInterrupt, HandleInterrupt, ClearInterrupt, Sync,
           SyncReturns, OtherExclusive, Stop, Joined, Goto, clocks, thread, Behind, Synced
  <2> QED BY <2>1, <2>2, <2>3
<1>7. ASSUME Loop \/ Apply \/ ClearSize \/ DoExec \/ Sleep \/ SpuriousWake \/ RaiseInterrupt
             \/ WakeLast \/ (CatchUp \/ PushWrite \/ PushSync)
      PROVE  Rest'
  <2>1. Lag' = Lag /\ UNCHANGED clocks
    BY <1>7, <1>stay DEF Loop, Apply, ClearSize, DoExec, Sleep, SpuriousWake, RaiseInterrupt,
                         WakeLast, CatchUp, PushWrite, PushSync, Wake
  <2>2. OtherTypes'
    BY <1>7, <2>1 DEF OtherTypes, WriteInv, Loop, Apply, ClearSize, DoExec, Sleep, SpuriousWake,
                      RaiseInterrupt, WakeLast, CatchUp, PushWrite, PushSync, Wake, Woken, At,
                      Goto, clocks, interrupt, buffer, thread
  <2>3. WriteInv'
    BY <1>7 DEF OtherTypes, WriteInv, Loop, Apply, ClearSize, DoExec, Sleep, SpuriousWake,
                RaiseInterrupt, WakeLast, CatchUp, PushWrite, PushSync, Wake, Woken, At, Goto,
                buffer, thread
  <2>4. ClockInv'
    BY <1>7, <2>1 DEF ClockInv, Loop, Apply, ClearSize, DoExec, Sleep, SpuriousWake,
                      RaiseInterrupt, WakeLast, CatchUp, PushWrite, PushSync, Wake, Woken, At,
                      Goto, clocks, thread
  <2> QED BY <2>2, <2>3, <2>4
<1>8. CASE UNCHANGED vars
  BY <1>8 DEF vars, OtherTypes, WriteInv, ClockInv, Lag
<1>9. QED
  <2>1. ASSUME WriteData \/ WriteSize \/ WriteReturns \/ Reset PROVE UNCHANGED clocks
    BY <2>1 DEF WriteData, WriteSize, WriteReturns, Reset
  <2>2. ASSUME CaughtUp \/ TestInterrupt \/ HandleInterrupt \/ ClearInterrupt
               \/ Sync \/ SyncReturns \/ OtherExclusive \/ Stop \/ Joined
        PROVE  UNCHANGED <<clocks, buffer, thread>>
    BY <2>2 DEF CaughtUp, TestInterrupt, HandleInterrupt, ClearInterrupt, Sync, SyncReturns,
                OtherExclusive, Stop, Joined
  <2> QED BY <1>1, <1>2, <1>3, <1>4, <1>5, <1>6, <1>7, <1>8, <2>1, <2>2
          DEF Next, Calls, Goes, Awake

(* The inductive invariant is an invariant of the specification.           *)
THEOREM Invariance == Spec => []IInv
BY InitIInv, StepIInv, PTL DEF Spec

(* The shared variables of the sound thread keep their types.              *)
THEOREM TypesAreKept == Spec => []TypeOK
<1>1. IInv => TypeOK
  BY DEF IInv, FlagTypes, OtherTypes, TypeOK
<1> QED BY <1>1, Invariance, PTL

(* Between calls the sound thread is at most MaxExec cycles behind.        *)
THEOREM LagStaysBounded == Spec => []LagIsBounded
<1>1. IInv => LagIsBounded
  BY DEF IInv, ClockInv, LagIsBounded
<1> QED BY <1>1, Invariance, PTL

(* A register write has been executed once when its call returns.          *)
THEOREM WritesFinish == Spec => []WritesAreSynchronous
<1>1. IInv => WritesAreSynchronous
  BY DEF IInv, WriteInv, WritesAreSynchronous
<1> QED BY <1>1, Invariance, PTL

(* Reset, save and load never meet the thread at work.                     *)
THEOREM ExclusionHolds == Spec => []ExclusiveIsAlone
<1>1. IInv => ExclusiveIsAlone
  BY NoLag, ClockAssumption DEF IInv, OtherTypes, WriteInv, ClockInv, ExclusiveIsAlone, Lag
<1> QED BY <1>1, Invariance, PTL
=============================================================================
