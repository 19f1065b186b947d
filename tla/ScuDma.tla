------------------------------- MODULE ScuDma -------------------------------
(***************************************************************************)
(* The queue of DMA transfers of scu.c, used when use_scu_dma_timing is    *)
(* set: the program and the DSP insert transfers, ScuExec moves the one    *)
(* that is active by a word at a time.  The queue is an array that is      *)
(* sorted by status after every change; only its first place is served.    *)
(*                                                                         *)
(* Of a transfer the model keeps what decides when it ends: how much is    *)
(* left, in which steps it is moved, and the table an indirect one reads.  *)
(* Addresses and data are left out.                                        *)
(***************************************************************************)
EXTENDS Integers, Sequences, FiniteSets

CONSTANTS
  Slots,         \* places in scu_dma_queue, 16
  U32,           \* how many values a count has
  Requests,      \* the transfers a program asks for; table holds the entries of
                 \* an indirect one and is empty for any other
  DspCounts,     \* the counts of the DSP's transfers
  MaxTransfers   \* bound: how many transfers are asked for

(* The bus type of get_bus_type, as far as scu_dma_tick and DSTA tell it.  *)
Buses == {"A_TO_B", "other", "none"}

(* An entry of a table: its count may be 0. *)
Entries == [count : 0..(U32 - 1), bus : Buses]

ASSUME QueueAssumption ==
  /\ Slots \in Nat \ {0} /\ U32 \in Nat \ {0} /\ U32 % 4 = 0 /\ MaxTransfers \in Nat
  /\ Requests \subseteq [level : 0..2, bus : Buses, count : 0..(U32 - 1),
                          table : Seq(Entries)]
  /\ \A r \in Requests : r.table = <<>> => r.count > 0
  /\ DspCounts \subseteq 1..(U32 - 1)

Places == 0..(Slots - 1)

DMA_FINISHED == 0
DMA_QUEUED == 2
DMA_ACTIVE == 3

DspLevel == 3   \* level of a transfer of the DSP

VARIABLES
  queue,     \* scu_dma_queue
  DSTA,      \* the bits of DSTA that are set
  T0,        \* ProgControlPort.part.T0: the DSP's transfer is under way
  saved,     \* a save state: the registers alone
  asked,     \* how many transfers have been asked for
  answered,  \* those that have ended
  dropped,   \* those that found the queue full
  torn,      \* a state was loaded since the last reset
  runaway    \* a count went below zero

vars == <<queue, DSTA, T0, saved, asked, answered, dropped, torn, runaway>>
history == <<asked, answered, dropped>>

(* An entry cleared by memset. *)
Cleared == [status |-> DMA_FINISHED, id |-> 0, level |-> 0, bus |-> "none", count |-> 0,
            count_mod_4 |-> 0, table |-> <<>>, indirect_address |-> 0, last |-> FALSE]

Init ==
  /\ queue = [i \in Places |-> Cleared]
  /\ DSTA = {} /\ T0 = FALSE /\ saved = [DSTA |-> {}, T0 |-> FALSE]
  /\ asked = 0 /\ answered = {} /\ dropped = {}
  /\ torn = FALSE /\ runaway = FALSE

Live(q) == {i \in Places : q[i].status # DMA_FINISHED}

-----------------------------------------------------------------------------
(* scu_sort_dma.  Mutants are prefixed with Mut; each changes the          *)
(* definition it precedes.                                                 *)

(* Without the temporary. *)
MutSwap(q, i, j) == [q EXCEPT ![i] = q[j]]

Swap(q, i, j) == [q EXCEPT ![i] = q[j], ![j] = q[i]]

(* Place i with place j.                                                   *)
Compared(q, i, j) == IF q[i].status > q[j].status THEN Swap(q, i, j) ELSE q

(* The inner loop: place i is compared with every place, those before it   *)
(* included.  p is bound, so that TLC computes each step once.             *)
Pass(q, i) ==
  LET after[j \in 0..Slots] ==
        IF j = 0 THEN q
        ELSE CHOOSE r \in {Compared(p, i, j - 1) : p \in {after[j - 1]}} : TRUE
  IN  after[Slots]

Sort(q) ==
  LET after[i \in 0..Slots] ==
        IF i = 0 THEN q
        ELSE CHOOSE r \in {Pass(p, i - 1) : p \in {after[i - 1]}} : TRUE
  IN  after[Slots]

Activates(q) == q[0].status = DMA_QUEUED /\ \A i \in Places : q[i].status # DMA_ACTIVE

Activate(q) == IF Activates(q) THEN [q EXCEPT ![0].status = DMA_ACTIVE] ELSE q

(* Counts the bits of DSTA where they stand four apart. *)
MutLevelBit(level) == IF level = DspLevel THEN {} ELSE {level + 4}

LevelBit(level) == IF level = DspLevel THEN {} ELSE {4 * (level + 1)}

BusBits == {20, 21}

(* scu_dma_sort_activate: bus is the bus type its argument has by then. *)
ActivateFlags(q, bus) ==
  IF Activates(q)
  THEN LevelBit(q[0].level) \cup (IF bus = "A_TO_B" THEN BusBits ELSE {})
  ELSE {}

-----------------------------------------------------------------------------
(* Inserting a transfer.                                                   *)

Free == {i \in Places : queue[i].status = DMA_FINISHED}

FirstFree == CHOOSE i \in Free : \A j \in Free : i <= j

(* dma_read_indirect, after which the bus type is taken of the entry.      *)
Entry(t) ==
  LET e == t.table[t.indirect_address + 1]
  IN  [t EXCEPT !.count = e.count, !.bus = e.bus,
                !.last = t.last \/ t.indirect_address + 1 = Len(t.table)]

New(level, bus) ==
  [Cleared EXCEPT !.status = DMA_QUEUED, !.id = asked + 1, !.level = level, !.bus = bus]

(* scu_enqueue_dma: the remainder is taken once, of the first count.  The  *)
(* first entry is read again when it is done: only then is the address     *)
(* moved.                                                                  *)
Enqueued(r) ==
  LET new == [New(r.level, r.bus) EXCEPT !.count = r.count, !.table = r.table]
      t == IF r.table = <<>> THEN new ELSE Entry(new)
  IN  [t EXCEPT !.count_mod_4 = t.count % 4]

(* scu_insert_dma, from a write to D0EN, D1EN or D2EN.  The pointer to the *)
(* new entry is used after the sort, for whatever is in that place then.   *)
Insert(t) ==
  /\ asked' = asked + 1
  /\ IF Free = {}
     THEN /\ dropped' = dropped \cup {t.id}
          /\ queue' = Sort(queue)
          /\ UNCHANGED DSTA
     ELSE LET q == Sort([queue EXCEPT ![FirstFree] = t])
          IN  /\ queue' = Sort(Activate(q))
              /\ DSTA' = DSTA \cup ActivateFlags(q, q[FirstFree].bus)
              /\ UNCHANGED dropped
  /\ UNCHANGED <<T0, saved, answered, torn, runaway>>

WriteEnable ==
  /\ asked < MaxTransfers
  /\ \E r \in Requests : Insert(Enqueued(r))

(* dsp_dma01, dsp_dma02 and dsp_dma04, with scu_insert_dsp_dma. *)
DspDma ==
  /\ asked < MaxTransfers
  /\ \E n \in DspCounts, bits \in {{}, {20, 22}, {21, 22}} :
       LET t == [New(DspLevel, "none") EXCEPT !.count = n]
           q == Sort(IF Free = {} THEN queue ELSE [queue EXCEPT ![FirstFree] = t])
       IN  /\ queue' = Activate(q)
           /\ DSTA' = DSTA \cup bits \cup {0} \cup ActivateFlags(q, "none")
           /\ dropped' = IF Free = {} THEN dropped \cup {t.id} ELSE dropped
           /\ asked' = asked + 1
  /\ T0' = TRUE
  /\ UNCHANGED <<saved, answered, torn, runaway>>

-----------------------------------------------------------------------------
(* scu_dma_tick: one step of the transfer in the first place.              *)

(* How much one step moves: the DSP a long word counted as one, the buses  *)
(* a word or the odd bytes at the end, anything else a long word.          *)
Moved(t) ==
  IF t.level = DspLevel THEN 1
  ELSE IF t.bus = "none" THEN 4
  ELSE IF t.count_mod_4 \in {1, 3} /\ t.count = t.count_mod_4 THEN t.count
  ELSE 2

Left(t) == (t.count - Moved(t)) % U32

Ticking == queue[0].status = DMA_ACTIVE

Ends(t) == Left(t) = 0 /\ (t.table = <<>> \/ t.last)

(* Forgets to start the next transfer. *)
MutFinish(q) == Sort([q EXCEPT ![0] = Cleared])

(* dma_finish *)
Finish(q) == Activate(Sort([q EXCEPT ![0] = Cleared]))

(* The level's bit only when the buses have none. *)
MutClearedBits(t) == IF t.bus = "A_TO_B" THEN BusBits ELSE LevelBit(t.level)

(* The flags dma_finished and scu_dma_tick_dsp clear. *)
ClearedBits(t) ==
  IF t.level = DspLevel THEN {0, 20, 21, 22}
  ELSE LevelBit(t.level) \cup (IF t.bus = "A_TO_B" THEN BusBits ELSE {})

(* Ends the transfer and leaves T0 set. *)
MutT0After(t) == T0

T0After(t) == T0 /\ t.level # DspLevel

Tick ==
  /\ Ticking
  /\ LET t == queue[0]
     IN  /\ IF Ends(t)
            THEN /\ queue' = Finish(queue)
                 /\ DSTA' = DSTA \ ClearedBits(t)
                 /\ T0' = T0After(t)
                 /\ answered' = answered \cup {t.id}
            ELSE /\ queue' = [queue EXCEPT ![0] =
                      IF Left(t) > 0 THEN [t EXCEPT !.count = Left(t)]
                      ELSE [Entry(t) EXCEPT !.indirect_address = @ + 1]]
                 /\ UNCHANGED <<DSTA, T0, answered>>
         /\ runaway' = (runaway \/ Moved(t) > t.count)
  /\ UNCHANGED <<saved, asked, dropped, torn>>

-----------------------------------------------------------------------------
(* ScuReset, ScuSaveState and ScuLoadState: none of them knows the queue.  *)

Reset ==
  /\ DSTA' = {} /\ T0' = FALSE /\ torn' = FALSE
  /\ UNCHANGED <<queue, saved, history, runaway>>

SaveState ==
  /\ saved' = [DSTA |-> DSTA, T0 |-> T0]
  /\ UNCHANGED <<queue, DSTA, T0, history, torn, runaway>>

LoadState ==
  /\ DSTA' = saved.DSTA /\ T0' = saved.T0 /\ torn' = TRUE
  /\ UNCHANGED <<queue, saved, history, runaway>>

Next == WriteEnable \/ DspDma \/ Tick \/ Reset \/ SaveState \/ LoadState

Spec == Init /\ [][Next]_vars

(* ScuExec runs on every line of the picture; a memory wait of             *)
(* sh2_check_wait, which delays a step, ends.                              *)
FairSpec == Spec /\ WF_vars(Tick)

-----------------------------------------------------------------------------
TypeOK ==
  /\ \A i \in Places :
       /\ queue[i].status \in {DMA_FINISHED, DMA_QUEUED, DMA_ACTIVE}
       /\ queue[i].id \in 0..MaxTransfers /\ queue[i].level \in 0..DspLevel
       /\ queue[i].bus \in Buses
       /\ queue[i].count \in 0..(U32 - 1) /\ queue[i].count_mod_4 \in 0..3
       /\ queue[i].indirect_address \in 0..Len(queue[i].table)
  /\ DSTA \subseteq {0, 4, 8, 12, 20, 21, 22} /\ T0 \in BOOLEAN
  /\ asked \in 0..MaxTransfers

(* The sorted array is a set of waiting transfers with one being served:   *)
(* nothing is lost, doubled or left waiting while the SCU is idle.         *)
Service == INSTANCE DmaService WITH
  capacity <- Slots,
  waiting <- {queue[i].id : i \in {j \in Places : queue[j].status = DMA_QUEUED}},
  serving <- {queue[i].id : i \in {j \in Places : queue[j].status = DMA_ACTIVE}}

ImplementsService == Service!Spec

(* "set dma operation flag", "clear dma operation flag": a level whose bit *)
(* is set is being served, so a program that polls DSTA does not poll for  *)
(* ever, unless a state was loaded under it.                               *)
FlaggedIsActive ==
  ~torn => \A level \in 0..2 :
             LevelBit(level) \subseteq DSTA => Ticking /\ queue[0].level = level

(* A DSP that waits for T0 waits for a transfer that is in the queue,      *)
(* unless its transfer was dropped.                                        *)
DspWaitsForSomething ==
  ~torn /\ dropped = {} /\ T0 => \E i \in Live(queue) : queue[i].level = DspLevel

(* A program that asks for no more than n transfers sees every one of them *)
(* end, unless it was dropped or a count has gone below zero.  One that    *)
(* goes on asking may not: scu_sort_dma rotates the waiting transfers, and *)
(* with an insertion for every transfer that ends the newest is served     *)
(* next, again and again.                                                  *)
TransfersEnd ==
  \A n \in 1..MaxTransfers :
    <>[](asked = n) => <>(1..n \subseteq answered \cup dropped \/ runaway)

-----------------------------------------------------------------------------
(* "set dma operation flag" (scu_dma_sort_activate): dma_finish starts the *)
(* next transfer without it.                                               *)
ActiveIsFlagged ==
  ~torn /\ Ticking => LevelBit(queue[0].level) \subseteq DSTA
=============================================================================
