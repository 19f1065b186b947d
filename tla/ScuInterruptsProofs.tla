------------------------ MODULE ScuInterruptsProofs ------------------------
(***************************************************************************)
(* Proofs about ScuInterrupts, for every set of events, every program and  *)
(* every other source of interrupts.  The invariant is inductive: that no  *)
(* vector is taken too often needs that the SH-2 holds it once, and that   *)
(* none is lost needs both queues.                                         *)
(***************************************************************************)
EXTENDS ScuInterrupts, TLAPS

(* The list of the SH-2 never holds a vector twice, with two levels. *)
OneEntryPerVector ==
  \A c, d \in cpu : c.vector = d.vector => c = d

IInv ==
  /\ TypeOK
  /\ OneEntryPerVector
  /\ StatusMeansQueued
  /\ NothingIsLost
  /\ NothingIsInvented

-----------------------------------------------------------------------------
(* The levels of SendInterrupt are levels of the SH-2. *)
LEMMA Levels == \A v \in Vectors : LevelOf(v) \in 0..16
  BY SMT DEF LevelOf, Vectors

(* The end of a DMA level is a vector of the SCU. *)
LEMMA DmaEnds == \A l \in DmaLevels : DmaEnd(l) \in Vectors
  BY SMT DEF DmaEnd, DmaLevels, Vectors

(* SH2SendInterrupt adds the vectors it is given, each of them once. *)
LEMMA Receiving ==
  ASSUME NEW V \in SUBSET Vectors, TypeOK, OneEntryPerVector, cpu' = Received(V)
  PROVE  /\ cpu' \subseteq [vector : 0..127, level : 0..16]
         /\ OneEntryPerVector'
         /\ Queued' = Queued \cup V
  <1> DEFINE new(v) == [vector |-> v, level |-> LevelOf(v)]
  <1>1. cpu' = cpu \cup {new(v) : v \in V \ Queued}
    BY DEF Received
  <1>2. \A v \in Vectors : new(v) \in [vector : 0..127, level : 0..16]
    BY Levels, SMT DEF Vectors
  <1>3. cpu' \subseteq [vector : 0..127, level : 0..16]
    BY <1>1, <1>2 DEF TypeOK
  <1>4. \A c \in cpu : c.vector \in Queued
    BY DEF Queued
  <1>5. \A v \in V : new(v).vector = v
    OBVIOUS
  <1>6. OneEntryPerVector'
    <2> SUFFICES ASSUME NEW c \in cpu', NEW d \in cpu', c.vector = d.vector
                 PROVE  c = d
      BY DEF OneEntryPerVector
    <2>1. CASE c \in cpu /\ d \in cpu
      BY <2>1 DEF OneEntryPerVector
    <2>2. CASE c \in cpu /\ d \notin cpu
      BY <2>2, <1>1, <1>4, <1>5
    <2>3. CASE c \notin cpu /\ d \in cpu
      BY <2>3, <1>1, <1>4, <1>5
    <2>4. CASE c \notin cpu /\ d \notin cpu
      BY <2>4, <1>1, <1>5
    <2> QED
      BY <2>1, <2>2, <2>3, <2>4
  <1>7. Queued' = Queued \cup V
    <2>1. \A c \in cpu' : c.vector \in Queued \cup V
      BY <1>1, <1>4, <1>5
    <2>2. \A v \in Queued \cup V : \E c \in cpu' : c.vector = v
      <3> SUFFICES ASSUME NEW v \in Queued \cup V PROVE \E c \in cpu' : c.vector = v
        OBVIOUS
      <3>1. CASE v \in Queued
        BY <3>1, <1>1 DEF Queued
      <3>2. CASE v \notin Queued
        <4>1. new(v) \in cpu' /\ new(v).vector = v
          BY <3>2, <1>1
        <4> QED
          BY <4>1
      <3> QED
        BY <3>1, <3>2
    <2> QED
      BY <2>1, <2>2 DEF Queued
  <1> QED
    BY <1>3, <1>6, <1>7

(* SendInterrupt keeps what it touches in order. *)
LEMMA Sending ==
  ASSUME NEW R \in SUBSET Vectors, IInv, Send(R), IMS' = IMS
  PROVE  /\ queue' \subseteq Vectors /\ IST' \subseteq Vectors
         /\ cpu' \subseteq [vector : 0..127, level : 0..16]
         /\ credit' \in [Vectors -> Int] /\ owed' \subseteq Vectors
         /\ OneEntryPerVector' /\ StatusMeansQueued' /\ NothingIsLost'
         /\ NothingIsInvented'
         /\ \A v \in Queued' \ Queued : MaskBit(v) \notin IMS'
  <1> DEFINE masked == {v \in R : MaskBit(v) \in IMS}
  <1>1. /\ queue' = queue \cup masked
        /\ IST' = IST \cup masked
        /\ cpu' = Received(R \ masked)
        /\ credit' = [v \in Vectors |-> IF v \in R THEN credit[v] + 1 ELSE credit[v]]
        /\ owed' = owed \cup R
    BY DEF Send
  <1>2. R \ masked \in SUBSET Vectors
    OBVIOUS
  <1> HIDE DEF masked
  <1>3. /\ cpu' \subseteq [vector : 0..127, level : 0..16]
        /\ OneEntryPerVector'
        /\ Queued' = Queued \cup (R \ masked)
    BY <1>1, <1>2, Receiving DEF IInv
  <1>4. masked \subseteq R
    BY DEF masked
  <1>5. StatusMeansQueued' /\ NothingIsLost'
    BY <1>1, <1>3, <1>4 DEF IInv, StatusMeansQueued, NothingIsLost
  <1>6. NothingIsInvented'
    <2> SUFFICES ASSUME NEW v \in Vectors PROVE credit'[v] >= Held(v)'
      BY DEF NothingIsInvented
    <2>1. credit[v] \in Int /\ credit[v] >= Held(v)
      BY DEF IInv, TypeOK, NothingIsInvented
    <2>2. credit'[v] = IF v \in R THEN credit[v] + 1 ELSE credit[v]
      BY <1>1
    <2>3. CASE v \in R
      <3>1. \/ v \in queue' /\ (v \in Queued' <=> v \in Queued)
            \/ v \in Queued' /\ (v \in queue' <=> v \in queue)
        BY <1>1, <1>3, <1>4, <2>3
      <3> QED
        BY <3>1, <2>1, <2>2, <2>3, SMT DEF Held
    <2>4. CASE v \notin R
      <3>1. (v \in queue' <=> v \in queue) /\ (v \in Queued' <=> v \in Queued)
        BY <1>1, <1>3, <1>4, <2>4
      <3> QED
        BY <3>1, <2>1, <2>2, <2>4, SMT DEF Held
    <2> QED
      BY <2>3, <2>4
  <1>7. \A v \in Queued' \ Queued : MaskBit(v) \notin IMS'
    BY <1>3 DEF masked
  <1>8. queue' \subseteq Vectors /\ IST' \subseteq Vectors /\ owed' \subseteq Vectors
    BY <1>1, <1>4 DEF IInv, TypeOK
  <1>9. credit' \in [Vectors -> Int]
    <2>1. \A v \in Vectors : credit[v] \in Int
      BY DEF IInv, TypeOK
    <2> QED
      BY <1>1, <2>1
  <1> QED
    BY <1>3, <1>5, <1>6, <1>7, <1>8, <1>9

(* What is held, wanted and paid for depends on these variables alone. *)
LEMMA Untouched ==
  ASSUME IInv, UNCHANGED <<queue, cpu, credit, owed>>, IST' \subseteq IST
  PROVE  /\ OneEntryPerVector' /\ StatusMeansQueued' /\ NothingIsLost'
         /\ NothingIsInvented' /\ Queued' = Queued
  BY DEF IInv, OneEntryPerVector, StatusMeansQueued, NothingIsLost, NothingIsInvented,
         Queued, Held

-----------------------------------------------------------------------------
(* A write to IMS sends one vector at most; it leaves one queue for the    *)
(* other and stays paid for.                                               *)
LEMMA Unmasking ==
  ASSUME NEW m \in Masks, IInv, WriteMask(m)
  PROVE  IInv' /\ \A v \in Queued' \ Queued : MaskBit(v) \notin IMS'
  <1>1. /\ IMS' = m /\ m \subseteq Bits
        /\ UNCHANGED <<enabled, factor, timer0, T0C, T1MD, I, credit, owed>>
    BY ScuAssumption DEF WriteMask, dma, timers
  <1>2. CASE Open(m) = {}
    <2>1. UNCHANGED <<queue, IST, cpu>>
      BY <1>2 DEF WriteMask
    <2>2. TypeOK'
      BY <1>1, <2>1 DEF IInv, TypeOK
    <2> QED
      BY <1>1, <2>1, <2>2, Untouched DEF IInv
  <1>3. ASSUME NEW v \in Open(m), cpu' = Received({v}), queue' = Shortened(v), IST' = Shown(v)
        PROVE  IInv' /\ \A w \in Queued' \ Queued : MaskBit(w) \notin IMS'
    <2>1. v \in queue /\ v \in Vectors /\ MaskBit(v) \notin m
      BY DEF Open, IInv, TypeOK
    <2>2. /\ cpu' \subseteq [vector : 0..127, level : 0..16]
          /\ OneEntryPerVector' /\ Queued' = Queued \cup {v}
      BY <1>3, <2>1, Receiving DEF IInv
    <2>3. queue' = queue \ {v} /\ IST' = IST \ {v}
      BY <1>3 DEF Shortened, Shown
    <2>4. TypeOK'
      BY <1>1, <2>2, <2>3 DEF IInv, TypeOK
    <2>5. StatusMeansQueued' /\ NothingIsLost'
      BY <1>1, <2>2, <2>3 DEF IInv, StatusMeansQueued, NothingIsLost
    <2>6. NothingIsInvented'
      <3> SUFFICES ASSUME NEW w \in Vectors PROVE credit'[w] >= Held(w)'
        BY DEF NothingIsInvented
      <3>1. credit[w] \in Int /\ credit[w] >= Held(w) /\ credit' = credit
        BY <1>1 DEF IInv, TypeOK, NothingIsInvented
      <3>2. CASE w = v
        <4>1. w \in queue /\ w \notin queue'
          BY <2>1, <2>3, <3>2
        <4> QED
          BY <4>1, <3>1, SMT DEF Held
      <3>3. CASE w # v
        <4>1. (w \in queue' <=> w \in queue) /\ (w \in Queued' <=> w \in Queued)
          BY <2>2, <2>3, <3>3
        <4> QED
          BY <4>1, <3>1, SMT DEF Held
      <3> QED
        BY <3>2, <3>3
    <2> QED
      BY <1>1, <2>1, <2>2, <2>4, <2>5, <2>6 DEF IInv
  <1> QED
    BY <1>2, <1>3 DEF WriteMask

(* Taking an interrupt pays with the credit of its vector. *)
LEMMA Taking == ASSUME IInv, Take PROVE IInv' /\ Queued' \subseteq Queued
  <1> PICK c \in cpu :
        /\ I' = MaskAt(c.level)
        /\ cpu' = cpu \ {c}
        /\ credit' = [v \in Vectors |-> IF v = c.vector THEN credit[v] - 1 ELSE credit[v]]
        /\ owed' = owed \ {c.vector}
        /\ UNCHANGED <<queue, IST, IMS, enabled, factor, timer0, T0C, T1MD>>
    BY DEF Take, dma, timers
  <1>1. c.level \in 0..16 /\ I' \in 0..15
    BY DEF IInv, TypeOK, MaskAt
  <1>2. Queued' = Queued \ {c.vector}
    BY DEF Queued, IInv, OneEntryPerVector
  <1>3. TypeOK'
    <2>1. \A v \in Vectors : credit[v] \in Int
      BY DEF IInv, TypeOK
    <2>2. credit' \in [Vectors -> Int]
      BY <2>1
    <2> QED
      BY <1>1, <2>2 DEF IInv, TypeOK
  <1>4. OneEntryPerVector' /\ StatusMeansQueued' /\ NothingIsLost'
    BY <1>2 DEF IInv, OneEntryPerVector, StatusMeansQueued, NothingIsLost
  <1>5. NothingIsInvented'
    <2> SUFFICES ASSUME NEW v \in Vectors PROVE credit'[v] >= Held(v)'
      BY DEF NothingIsInvented
    <2>1. credit[v] \in Int /\ credit[v] >= Held(v) /\ queue' = queue
      BY DEF IInv, TypeOK, NothingIsInvented
    <2>2. CASE v = c.vector
      <3>1. v \in Queued /\ v \notin Queued' /\ credit'[v] = credit[v] - 1
        BY <1>2, <2>2 DEF Queued
      <3> QED
        BY <2>1, <3>1, SMT DEF Held
    <2>3. CASE v # c.vector
      <3>1. (v \in Queued' <=> v \in Queued) /\ credit'[v] = credit[v]
        BY <1>2, <2>3
      <3> QED
        BY <2>1, <3>1, SMT DEF Held
    <2> QED
      BY <2>2, <2>3
  <1> QED
    BY <1>2, <1>3, <1>4, <1>5 DEF IInv

(* Another source of the SH-2 has a vector of its own. *)
LEMMA OtherSources ==
  ASSUME NEW s \in CpuSources, IInv, CpuInterrupt(s)
  PROVE  IInv' /\ Queued' \cap Vectors = Queued \cap Vectors
  <1>1. s \in [vector : 0..127 \ Vectors, level : 0..16]
    BY ScuAssumption
  <1>2. UNCHANGED <<queue, IST, IMS, enabled, factor, timer0, T0C, T1MD, I, credit, owed>>
    BY DEF CpuInterrupt, dma, timers
  <1>3. cpu' = IF s.vector \in Queued THEN cpu ELSE cpu \cup {s}
    BY DEF CpuInterrupt
  <1>4. Queued' = Queued \cup {s.vector}
    BY <1>3 DEF Queued
  <1>5. TypeOK'
    BY <1>1, <1>2, <1>3 DEF IInv, TypeOK
  <1>6. OneEntryPerVector'
    BY <1>3 DEF IInv, OneEntryPerVector, Queued
  <1>7. Queued' \cap Vectors = Queued \cap Vectors
    BY <1>1, <1>4
  <1>8. StatusMeansQueued' /\ NothingIsLost'
    BY <1>2, <1>4 DEF IInv, StatusMeansQueued, NothingIsLost
  <1>9. NothingIsInvented'
    <2>1. \A v \in Vectors : (v \in Queued' <=> v \in Queued)
      BY <1>7
    <2> QED
      BY <1>2, <2>1 DEF IInv, NothingIsInvented, Held
  <1> QED
    BY <1>5, <1>6, <1>7, <1>8, <1>9 DEF IInv

(* A reset of the SCU drops what it holds, and nothing else. *)
LEMMA Resetting == ASSUME IInv, Reset PROVE IInv' /\ Queued' = Queued
  <1>1. /\ queue' = {} /\ IST' = {} /\ IMS' = Bits \ {14}
        /\ owed' = owed \cap Queued
        /\ UNCHANGED <<cpu, credit>>
    BY DEF Reset
  <1>2. Queued' = Queued
    BY <1>1 DEF Queued
  <1>3. TypeOK'
    <2>1. /\ enabled' = [l \in DmaLevels |-> FALSE] /\ factor' = [l \in DmaLevels |-> 7]
          /\ timer0' = 0 /\ T1MD' = FALSE /\ UNCHANGED <<T0C, I>>
      BY DEF Reset
    <2>2. enabled' \in [DmaLevels -> BOOLEAN] /\ factor' \in [DmaLevels -> 0..7]
      BY <2>1
    <2> QED
      BY <1>1, <2>1, <2>2 DEF IInv, TypeOK
  <1>4. OneEntryPerVector' /\ StatusMeansQueued' /\ NothingIsLost'
    BY <1>1, <1>2 DEF IInv, OneEntryPerVector, StatusMeansQueued, NothingIsLost
  <1>5. NothingIsInvented'
    <2> SUFFICES ASSUME NEW v \in Vectors PROVE credit'[v] >= Held(v)'
      BY DEF NothingIsInvented
    <2>1. credit[v] \in Int /\ credit[v] >= Held(v)
      BY DEF IInv, TypeOK, NothingIsInvented
    <2>2. credit'[v] = credit[v] /\ v \notin queue' /\ (v \in Queued' <=> v \in Queued)
      BY <1>1, <1>2
    <2> QED
      BY <2>1, <2>2, SMT DEF Held
  <1> QED
    BY <1>2, <1>3, <1>4, <1>5 DEF IInv

-----------------------------------------------------------------------------
(* The invariant holds at the start, of an SH-2 and an SCU just reset. *)
LEMMA InitInvariant == Init => IInv
  <1> SUFFICES ASSUME Init PROVE IInv
    OBVIOUS
  <1>1. TypeOK
    <2>1. /\ enabled \in [DmaLevels -> BOOLEAN] /\ factor \in [DmaLevels -> 0..7]
          /\ credit \in [Vectors -> Int]
      BY DEF Init
    <2>2. /\ IMS \subseteq Bits /\ T1MD \in BOOLEAN
      BY DEF Init
    <2>3. /\ I \in 0..15 /\ timer0 \in Nat /\ T0C \in Nat
      BY SMT DEF Init
    <2>4. /\ queue \subseteq Vectors /\ IST \subseteq Vectors /\ owed \subseteq Vectors
          /\ cpu \subseteq [vector : 0..127, level : 0..16]
      BY DEF Init
    <2> QED
      BY <2>1, <2>2, <2>3, <2>4 DEF TypeOK
  <1>2. OneEntryPerVector /\ StatusMeansQueued /\ NothingIsLost
    BY DEF Init, OneEntryPerVector, StatusMeansQueued, NothingIsLost
  <1>3. NothingIsInvented
    <2>1. \A v \in Vectors : v \notin queue /\ v \notin Queued /\ credit[v] = 0
      BY DEF Init, Queued
    <2> QED
      BY <2>1, SMT DEF NothingIsInvented, Held
  <1> QED
    BY <1>1, <1>2, <1>3 DEF IInv

(* An event sends its own vector, timer 0 and the ends of the DMA levels   *)
(* that they start.                                                        *)
LEMMA Happening ==
  ASSUME NEW v \in Events, IInv, Event(v)
  PROVE  IInv' /\ \A w \in Queued' \ Queued : MaskBit(w) \notin IMS'
  <1> DEFINE t == IF v = VBlankOUT THEN 0 ELSE IF v = HBlankIN THEN timer0 + 1 ELSE timer0
             V == {v} \cup (IF v \in {VBlankOUT, HBlankIN} THEN TimerEvents(t) ELSE {})
             S == Started(UNION {FactorOf(w) : w \in V})
             R == V \cup {DmaEnd(l) : l \in S}
  <1>1. /\ Send(R) /\ timer0' = t
        /\ enabled' = [l \in DmaLevels |-> enabled[l] /\ l \notin S]
        /\ UNCHANGED <<IMS, factor, T0C, T1MD, I>>
    BY DEF Event
  <1>2. V \subseteq Vectors
    <2>1. v \in Vectors /\ Timer0 \in Vectors
      BY ScuAssumption DEF Timer0, Vectors
    <2> QED
      BY <2>1 DEF TimerEvents
  <1>3. t \in Nat
    BY DEF IInv, TypeOK
  <1>4. S \subseteq DmaLevels
    BY DEF Started
  <1> HIDE DEF t, V, S
  <1>5. R \in SUBSET Vectors
    BY <1>2, <1>4, DmaEnds
  <1>6. enabled' \in [DmaLevels -> BOOLEAN]
    BY <1>1
  <1> HIDE DEF R
  <1>7. TypeOK'
    BY <1>1, <1>3, <1>5, <1>6, Sending DEF IInv, TypeOK
  <1> QED
    BY <1>1, <1>5, <1>7, Sending DEF IInv

(* A level that is started by the write ends within it. *)
LEMMA Enabling ==
  ASSUME NEW l \in UsedLevels, NEW start \in BOOLEAN, NEW on \in BOOLEAN,
         IInv, WriteEnable(l, start, on)
  PROVE  IInv' /\ \A w \in Queued' \ Queued : MaskBit(w) \notin IMS'
  <1> DEFINE R == IF start /\ factor[l] = 7 THEN {DmaEnd(l)} ELSE {}
  <1>1. /\ Send(R) /\ enabled' = [enabled EXCEPT ![l] = on]
        /\ UNCHANGED <<IMS, factor, timer0, T0C, T1MD, I>>
    BY DEF WriteEnable, timers
  <1>2. l \in DmaLevels
    BY ScuAssumption DEF DmaLevels
  <1>3. R \in SUBSET Vectors
    BY <1>2, DmaEnds
  <1>4. enabled' \in [DmaLevels -> BOOLEAN]
    BY <1>1, <1>2 DEF IInv, TypeOK
  <1> HIDE DEF R
  <1>5. TypeOK'
    BY <1>1, <1>3, <1>4, Sending DEF IInv, TypeOK
  <1> QED
    BY <1>1, <1>3, <1>5, Sending DEF IInv

(* Every step keeps the invariant, and what it hands to the SH-2 is not    *)
(* masked.                                                                 *)
LEMMA Steps ==
  ASSUME IInv, [Next]_vars
  PROVE  IInv' /\ \A v \in Vectors : v \in Queued' \ Queued => MaskBit(v) \notin IMS'
  <1>1. ASSUME NEW v \in Events, Event(v)
        PROVE  IInv' /\ \A w \in Queued' \ Queued : MaskBit(w) \notin IMS'
    BY <1>1, Happening
  <1>2. ASSUME NEW l \in UsedLevels, NEW start \in BOOLEAN, NEW on \in BOOLEAN,
               WriteEnable(l, start, on)
        PROVE  IInv' /\ \A w \in Queued' \ Queued : MaskBit(w) \notin IMS'
    BY <1>2, Enabling
  <1>3. ASSUME NEW l \in UsedLevels, NEW f \in Factors, WriteMode(l, f)
        PROVE  IInv' /\ Queued' = Queued
    <2>1. f \in 0..7
      BY ScuAssumption
    <2>2. factor' \in [DmaLevels -> 0..7]
      BY <1>3, <2>1 DEF WriteMode, IInv, TypeOK
    <2>3. /\ UNCHANGED <<queue, IST, IMS, enabled, timer0, T0C, T1MD, cpu, I, credit, owed>>
      BY <1>3 DEF WriteMode, timers
    <2>4. TypeOK'
      BY <2>2, <2>3 DEF IInv, TypeOK
    <2> QED
      BY <2>3, <2>4, Untouched DEF IInv
  <1>4. ASSUME NEW c \in Compares, NEW on \in BOOLEAN, WriteTimer(c, on)
        PROVE  IInv' /\ Queued' = Queued
    <2>1. /\ T0C' = c /\ T1MD' = on /\ c \in Nat
          /\ UNCHANGED <<queue, IST, IMS, enabled, factor, timer0, cpu, I, credit, owed>>
      BY <1>4, ScuAssumption DEF WriteTimer, dma
    <2>2. TypeOK'
      BY <2>1 DEF IInv, TypeOK
    <2> QED
      BY <2>1, <2>2, Untouched DEF IInv
  <1>5. ASSUME NEW m \in Masks, WriteMask(m)
        PROVE  IInv' /\ \A w \in Queued' \ Queued : MaskBit(w) \notin IMS'
    BY <1>5, Unmasking
  <1>6. ASSUME NEW s \in SUBSET IST, WriteStatus(s)
        PROVE  IInv' /\ Queued' = Queued
    <2>1. /\ IST' \subseteq IST
          /\ UNCHANGED <<queue, IMS, enabled, factor, timer0, T0C, T1MD, cpu, I, credit, owed>>
      BY <1>6 DEF WriteStatus, dma, timers
    <2>2. TypeOK'
      BY <2>1 DEF IInv, TypeOK
    <2> QED
      BY <2>1, <2>2, Untouched DEF IInv
  <1>7. ASSUME NEW s \in CpuSources, CpuInterrupt(s)
        PROVE  IInv' /\ Queued' \cap Vectors = Queued \cap Vectors
    BY <1>7, OtherSources
  <1>8. ASSUME NEW i \in CpuMasks, SetMask(i)
        PROVE  IInv' /\ Queued' = Queued
    <2>1. /\ I' = i /\ i \in 0..15
          /\ UNCHANGED <<queue, IST, IMS, enabled, factor, timer0, T0C, T1MD, cpu, credit, owed>>
      BY <1>8, ScuAssumption DEF SetMask, dma, timers
    <2>2. TypeOK'
      BY <2>1 DEF IInv, TypeOK
    <2> QED
      BY <2>1, <2>2, Untouched DEF IInv
  <1>9. CASE Take
    BY <1>9, Taking
  <1>10. CASE Reset
    BY <1>10, Resetting
  <1>11. CASE UNCHANGED vars
    <2>1. TypeOK' /\ IST' = IST /\ UNCHANGED <<queue, cpu, credit, owed>>
      BY <1>11 DEF vars, IInv, TypeOK
    <2> QED
      BY <2>1, Untouched DEF IInv
  <1> QED
    BY <1>1, <1>2, <1>3, <1>4, <1>5, <1>6, <1>7, <1>8, <1>9, <1>10, <1>11 DEF Next

LEMMA Invariant == Spec => []IInv
  <1>1. IInv /\ [Next]_vars => IInv'
    BY Steps
  <1> QED
    BY InitInvariant, <1>1, PTL DEF Spec

(* Registers, queues and lists keep their types: no level outside 0..16    *)
(* and no vector of another source ever enters the list of the SH-2.       *)
THEOREM TypesHold == Spec => []TypeOK
  BY Invariant, PTL DEF IInv

(* A bit of IST that is set belongs to an interrupt still queued, whatever *)
(* the program writes to IMS and IST.                                      *)
THEOREM StatusIsHonest == Spec => []StatusMeansQueued
  BY Invariant, PTL DEF IInv

(* An interrupt that was raised and not taken since is in one of the two   *)
(* queues, unless ScuReset dropped it.                                     *)
THEOREM InterruptsAreKept == Spec => []NothingIsLost
  BY Invariant, PTL DEF IInv

(* No vector is taken more often than it was raised.                       *)
THEOREM InterruptsArePaidFor == Spec => []NothingIsInvented
  BY Invariant, PTL DEF IInv

(* No step hands the SH-2 an interrupt that is masked when the step ends.  *)
THEOREM MaskIsObeyed == Spec => MaskedInterruptsWait
  <1>1. IInv /\ [Next]_vars
          => [\A v \in Vectors : v \in Queued' \ Queued => MaskBit(v) \notin IMS']_vars
    BY Steps
  <1> QED
    BY Invariant, <1>1, PTL DEF Spec, MaskedInterruptsWait
=============================================================================
