--------------------------- MODULE ScuInterrupts ---------------------------
(***************************************************************************)
(* Interrupts on their way from the SCU to the master SH-2.  An interrupt  *)
(* that IMS masks waits in the queue of the SCU and is shown in IST; any   *)
(* other goes to the queue of the SH-2, which takes it when its level is   *)
(* above the mask of the status register.                                  *)
(*                                                                         *)
(* Both queues are arrays sorted by level, of which only the last suitable *)
(* entry is ever removed, and neither holds a vector twice.  Here they are *)
(* sets; which of two entries of the same level comes first, which the     *)
(* exchange sort of the code decides, is left open.                        *)
(***************************************************************************)
EXTENDS Integers, FiniteSets

CONSTANTS
  Events,      \* the events of the machine: vectors from 64 to 95
  CpuSources,  \* what else interrupts the SH-2: records of a vector and a level
  Masks,       \* values the program writes to IMS, as sets of bits
  CpuMasks,    \* interrupt masks the program gives the status register
  UsedLevels,  \* the DMA levels the program uses, of 0 to 2
  Factors,     \* starting factors of the DMA levels, of 0 to 7
  Compares,    \* values the program writes to T0C
  MaxLine,     \* bound: lines of a picture
  MaxCredit    \* bound: times an interrupt is raised before it is taken

Vectors == (64..77) \cup (80..95)

Bits == 0..15

ASSUME ScuAssumption ==
  /\ Events \subseteq Vectors /\ Masks \subseteq SUBSET Bits /\ CpuMasks \subseteq 0..15
  /\ UsedLevels \subseteq 0..2 /\ Factors \subseteq 0..7 /\ Compares \subseteq Nat /\ MaxLine \in Nat /\ MaxCredit \in Nat
  /\ CpuSources \subseteq [vector : 0..127 \ Vectors, level : 0..16]

VBlankOUT == 65
HBlankIN == 66
Timer0 == 67

DmaLevels == 0..2

VARIABLES
  queue,     \* ScuRegs->interrupts, the vectors
  IST,       \* the status bits, each named by its vector
  IMS,       \* the mask bits
  enabled,   \* bit 8 of D0EN, D1EN and D2EN, for each level
  factor,    \* D0MD, D1MD and D2MD: what starts the level
  timer0,
  T0C,
  T1MD,      \* bit 0
  cpu,       \* the SH-2's interrupts: records of a vector and a level
  I,         \* SR.part.I
  credit,    \* how often each vector was raised and not taken
  owed       \* vectors raised after they were last taken

vars == <<queue, IST, IMS, enabled, factor, timer0, T0C, T1MD, cpu, I, credit, owed>>
dma == <<enabled, factor>>
timers == <<timer0, T0C, T1MD>>

(* ScuReset, with a reset of the SH-2. *)
Init ==
  /\ queue = {} /\ IST = {} /\ IMS = Bits \ {14}
  /\ enabled = [l \in DmaLevels |-> FALSE] /\ factor = [l \in DmaLevels |-> 7]
  /\ timer0 = 0 /\ T0C = 0 /\ T1MD = FALSE
  /\ cpu = {} /\ I = 15
  /\ credit = [v \in Vectors |-> 0] /\ owed = {}

-----------------------------------------------------------------------------
(* The arguments of the calls of SendInterrupt, by vector.                 *)
LevelOf(v) ==
  CASE v \in 64..70 -> 79 - v
    [] v \in 71..72 -> 8
    [] v \in 73..74 -> 6
    [] v = 75 -> 5
    [] v = 76 -> 3
    [] v = 77 -> 2
    [] v \in 80..83 -> 7
    [] v \in 84..87 -> 4
    [] OTHER -> 1

MaskBit(v) == IF v <= 77 THEN v - 64 ELSE 15

(* The factor that ScuChekIntrruptDMA is called with after event v, if any. *)
FactorOf(v) ==
  CASE v \in 64..68 -> {v - 64}
    [] v = 70 -> {5}
    [] v = 77 -> {6}
    [] OTHER -> {}

DmaEnd(l) == 75 - l

Queued == {c.vector : c \in cpu}

(* SH2SendInterrupt for the vectors V, none of which enters twice.         *)
Received(V) ==
  cpu \cup {[vector |-> v, level |-> LevelOf(v)] : v \in V \ Queued}

(* SendInterrupt for every vector of R; the order makes no difference.     *)
Send(R) ==
  LET masked == {v \in R : MaskBit(v) \in IMS}
  IN  /\ queue' = queue \cup masked
      /\ IST' = IST \cup masked
      /\ cpu' = Received(R \ masked)
      /\ credit' = [v \in Vectors |-> IF v \in R THEN credit[v] + 1 ELSE credit[v]]
      /\ owed' = owed \cup R

(* The DMA levels that the factors F start; they move at once and end.     *)
Started(F) == {l \in DmaLevels : enabled[l] /\ factor[l] \in F}

(* The events that follow when timer 0 is at line t.                       *)
TimerEvents(t) == IF T1MD /\ t = T0C THEN {Timer0} ELSE {}

(* ScuSendVBlankIN, ScuSendHBlankIN and the others. *)
Event(v) ==
  LET t == IF v = VBlankOUT THEN 0 ELSE IF v = HBlankIN THEN timer0 + 1 ELSE timer0
      V == {v} \cup (IF v \in {VBlankOUT, HBlankIN} THEN TimerEvents(t) ELSE {})
      S == Started(UNION {FactorOf(w) : w \in V})
      R == V \cup {DmaEnd(l) : l \in S}
  IN  /\ t <= MaxLine /\ \A w \in R : credit[w] < MaxCredit
      /\ Send(R)
      /\ timer0' = t
      /\ enabled' = [l \in DmaLevels |-> enabled[l] /\ l \notin S]
      /\ UNCHANGED <<IMS, factor, T0C, T1MD, I>>

(* A write to D0EN, D1EN or D2EN without the transfer queue of ScuDma:     *)
(* bit 0 starts a level whose factor is 7.                                 *)
WriteEnable(l, start, on) ==
  LET R == IF start /\ factor[l] = 7 THEN {DmaEnd(l)} ELSE {}
  IN  /\ \A w \in R : credit[w] < MaxCredit
      /\ Send(R)
      /\ enabled' = [enabled EXCEPT ![l] = on]
      /\ UNCHANGED <<IMS, factor, timers, I>>

WriteMode(l, f) ==
  /\ factor' = [factor EXCEPT ![l] = f]
  /\ UNCHANGED <<queue, IST, IMS, enabled, timers, cpu, I, credit, owed>>

WriteTimer(c, on) ==
  /\ T0C' = c /\ T1MD' = on
  /\ UNCHANGED <<queue, IST, IMS, dma, timer0, cpu, I, credit, owed>>

-----------------------------------------------------------------------------
(* Mutants are prefixed with Mut; each changes the definition it precedes. *)
(* Tests the mask that is being replaced. *)
MutOpen(m) == {v \in queue : MaskBit(v) \notin IMS}

(* The queued interrupts that mask m lets through. *)
Open(m) == {v \in queue : MaskBit(v) \notin m}

(* Leaves the list as long as it was. *)
MutShortened(v) == queue

(* Takes off the list whatever the new mask lets through. *)
MutEmptied(v) == {w \in queue : MaskBit(w) \in IMS'}

Shortened(v) == queue \ {v}

(* Clears the status without a look at the vector sent. *)
MutShown(v) == IST \cup {v}

Shown(v) == IST \ {v}

(* A write to IMS, with ScuTestInterruptMask: at most one is sent.         *)
WriteMask(m) ==
  /\ IMS' = m
  /\ IF Open(m) = {} THEN UNCHANGED <<queue, IST, cpu>>
     ELSE \E v \in Open(m) :
            /\ \A w \in Open(m) : LevelOf(w) <= LevelOf(v)
            /\ cpu' = Received({v})
            /\ queue' = Shortened(v)
            /\ IST' = Shown(v)
  /\ UNCHANGED <<dma, timers, I, credit, owed>>

(* A write to IST, or to the byte of it that can be written. *)
WriteStatus(s) ==
  /\ IST' = IST \cap s
  /\ UNCHANGED <<queue, IMS, dma, timers, cpu, I, credit, owed>>

(* ScuReset, also from the clock change commands of the SMPC: the SH-2     *)
(* keeps what it has.                                                      *)
Reset ==
  /\ queue' = {} /\ IST' = {} /\ IMS' = Bits \ {14}
  /\ enabled' = [l \in DmaLevels |-> FALSE] /\ factor' = [l \in DmaLevels |-> 7]
  /\ timer0' = 0 /\ T1MD' = FALSE
  /\ owed' = owed \cap Queued
  /\ UNCHANGED <<T0C, cpu, I, credit>>

-----------------------------------------------------------------------------
(* The SH-2: its own modules and the NMI. *)
CpuInterrupt(s) ==
  /\ cpu' = IF s.vector \in Queued THEN cpu ELSE cpu \cup {s}
  /\ UNCHANGED <<queue, IST, IMS, dma, timers, I, credit, owed>>

(* Keeps the level as it is. *)
MutMaskAt(level) == level

(* The field has four bits: the NMI's level of 16 does not fit.            *)
MaskAt(level) == level % 16

(* SH2HandleInterrupts. *)
Take ==
  \E c \in cpu :
    /\ \A d \in cpu : d.level <= c.level
    /\ c.level > I
    /\ I' = MaskAt(c.level)
    /\ cpu' = cpu \ {c}
    /\ credit' = [v \in Vectors |-> IF v = c.vector THEN credit[v] - 1 ELSE credit[v]]
    /\ owed' = owed \ {c.vector}
    /\ UNCHANGED <<queue, IST, IMS, dma, timers>>

(* LDC, RTE: the program sets the mask. *)
SetMask(i) ==
  /\ I' = i
  /\ UNCHANGED <<queue, IST, IMS, dma, timers, cpu, credit, owed>>

Next ==
  \/ \E v \in Events : Event(v)
  \/ \E l \in UsedLevels, start, on \in BOOLEAN : WriteEnable(l, start, on)
  \/ \E l \in UsedLevels, f \in Factors : WriteMode(l, f)
  \/ \E c \in Compares, on \in BOOLEAN : WriteTimer(c, on)
  \/ \E m \in Masks : WriteMask(m)
  \/ \E s \in SUBSET IST : WriteStatus(s)
  \/ \E s \in CpuSources : CpuInterrupt(s)
  \/ \E i \in CpuMasks : SetMask(i)
  \/ Take \/ Reset

Spec == Init /\ [][Next]_vars

-----------------------------------------------------------------------------
TypeOK ==
  /\ queue \subseteq Vectors /\ IST \subseteq Vectors /\ IMS \subseteq Bits
  /\ enabled \in [DmaLevels -> BOOLEAN] /\ factor \in [DmaLevels -> 0..7]
  /\ timer0 \in Nat /\ T0C \in Nat /\ T1MD \in BOOLEAN
  /\ cpu \subseteq [vector : 0..127, level : 0..16] /\ I \in 0..15
  /\ credit \in [Vectors -> Int] /\ owed \subseteq Vectors

(* A program that polls IST never waits for an interrupt that is gone:     *)
(* each bit that is set belongs to an interrupt that is queued.            *)
StatusMeansQueued == IST \subseteq queue

(* Whatever masks, status writes and interrupts of other sources come in   *)
(* between, an interrupt that was raised and not taken since is in one of  *)
(* the two queues (ScuReset drops those the SCU holds).                    *)
NothingIsLost == owed \subseteq queue \cup Queued

(* How many entries vector v has. *)
Held(v) == (IF v \in queue THEN 1 ELSE 0) + (IF v \in Queued THEN 1 ELSE 0)

(* No vector is taken more often than it was raised, although it may wait  *)
(* in both queues at once: each entry is paid for by a raise of its own.   *)
NothingIsInvented == \A v \in Vectors : credit[v] >= Held(v)

(* No step hands the SH-2 an interrupt that is masked when the step ends.  *)
MaskedInterruptsWait ==
  [][\A v \in Vectors : v \in Queued' \ Queued => MaskBit(v) \notin IMS']_vars
=============================================================================
