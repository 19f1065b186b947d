--------------------------- MODULE CddaRingProofs ---------------------------
(***************************************************************************)
(* Proofs that the two indices of CddaRing tell what is unread and keep    *)
(* the writer away from what is being read, for any number and length of   *)
(* the sectors, any delay and any number of samples generated at once.     *)
(***************************************************************************)
EXTENDS CddaRing, TLAPS

In == Start(cdda_next_in)

(* The samples from position x up to the writer.                           *)
Ahead(x) == IF x <= In THEN In - x ELSE In - x + Size

(* Until a full ring is missed, the position the writer has read is not    *)
(* before the reader's, and it copies only into a sector without it; what  *)
(* the reader copies is unread and does not go beyond the end of the ring. *)
RingInv ==
  ~missed =>
    /\ unread = Ahead(cdda_next_out)
    /\ wpc # "idle" => Ahead(cdda_next_out) <= Ahead(next_out_seen)
    /\ wpc = "copy" => next_out_seen <= In \/ In + Sector < next_out_seen
    /\ rpc = "copy" => len <= Ahead(cdda_next_out) /\ cdda_next_out + len <= Size

(* The inductive invariant.                                                *)
IInv == TypeOK /\ RingInv /\ (rpc = "copy" => len <= samples)

-----------------------------------------------------------------------------
(* Arithmetic of the ring: the only place where sectors are multiplied.    *)

(* A sector lies inside the ring, and the last one ends it.                *)
LEMMA SectorsFit ==
  ASSUME NEW i \in 0..(Buffers - 1)
  PROVE  /\ Size \in Nat /\ Start(i) \in Nat /\ Start(i) + Sector <= Size
         /\ Start(i + 1) = Start(i) + Sector
         /\ i = Buffers - 1 <=> Start(i) + Sector = Size
<1>1. Buffers \in Nat /\ Buffers > 1 /\ Sector \in Nat /\ Sector > 0
  BY RingAssumption
<1>2. Start(i + 1) = Start(i) + Sector /\ Start(i) \in Nat /\ Size \in Nat
  BY <1>1 DEF Start, Size
<1>3. PICK r \in Nat : Buffers = i + 1 + r
  <2>1. Buffers - 1 - i \in Nat /\ Buffers = i + 1 + (Buffers - 1 - i)
    BY <1>1
  <2> QED BY <2>1
<1>4. Size = Start(i) + Sector + r * Sector
  BY <1>1, <1>3 DEF Start, Size
<1>5. r * Sector \in Nat /\ (r = 0 <=> r * Sector = 0)
  BY <1>1, <1>3
<1> QED BY <1>1, <1>2, <1>3, <1>4, <1>5

(* The writer goes on to the next sector or to the first.                  *)
LEMMA NextFits ==
  ASSUME NEW i \in 0..(Buffers - 1)
  PROVE  /\ NextBuffer(i) \in 0..(Buffers - 1)
         /\ Start(NextBuffer(i)) = IF i = Buffers - 1 THEN 0 ELSE Start(i) + Sector
<1>1. Buffers \in Nat /\ Buffers > 1 /\ Sector \in Nat /\ 0 * Sector = 0
  BY RingAssumption
<1>2. NextBuffer(i) = IF i = Buffers - 1 THEN 0 ELSE i + 1
  BY <1>1 DEF NextBuffer
<1> QED BY <1>1, <1>2, SectorsFit DEF Start

(* Ahead is what IndicesTellUnread computes.                               *)
LEMMA AheadIsModulo ==
  ASSUME TypeOK
  PROVE  Ahead(cdda_next_out) = IF Empty THEN 0 ELSE (In - cdda_next_out + Size) % Size
<1>1. In \in Nat /\ In < Size /\ Size \in Nat /\ cdda_next_out \in 0..(Size - 1)
  BY SectorsFit, RingAssumption DEF TypeOK, In
<1>2. CASE cdda_next_out <= In
  <2>1. (In - cdda_next_out + Size) % Size = In - cdda_next_out
    BY <1>1, <1>2
  <2> QED BY <1>1, <1>2, <2>1 DEF Ahead, Empty, In
<1>3. CASE cdda_next_out > In
  <2>1. (In - cdda_next_out + Size) % Size = In - cdda_next_out + Size
    BY <1>1, <1>3
  <2> QED BY <1>1, <1>3, <2>1 DEF Ahead, Empty, In
<1> QED BY <1>1, <1>2, <1>3

-----------------------------------------------------------------------------
(* The inductive invariant holds initially.                                *)
LEMMA InitIInv == Init => IInv
<1> SUFFICES ASSUME Init PROVE IInv
  OBVIOUS
<1>1. Start(0) = 0 /\ Size \in Nat /\ Size > 0
  BY RingAssumption, SectorsFit DEF Start
<1>2. missed \in BOOLEAN /\ ~missed
  BY Zenon DEF Init
<1>3. TypeOK
  BY <1>1, <1>2, RingAssumption DEF Init, TypeOK
<1> QED BY <1>1, <1>3 DEF Init, IInv, RingInv, Ahead, In

(* Every step preserves it.                                                *)
LEMMA StepIInv == IInv /\ [Next]_vars => IInv'
<1> SUFFICES ASSUME IInv, [Next]_vars PROVE IInv'
  OBVIOUS
<1>1. /\ Sector \in Nat /\ Sector > 0 /\ Delay \in Nat /\ Chunk \in Nat
      /\ Buffers \in Nat /\ Buffers > 1
      /\ Size \in Nat /\ In \in Nat /\ In + Sector <= Size
      /\ Start(cdda_next_in + 1) = In + Sector
      /\ cdda_next_in = Buffers - 1 <=> In + Sector = Size
  BY RingAssumption, SectorsFit DEF IInv, TypeOK, In
<1>2. CASE ReadNextOut \/ Discard \/ Accept
  <2>1. UNCHANGED <<cdda_next_in, cdda_next_out, cdda_delay, reader, unread, missed>>
    BY <1>2 DEF ReadNextOut, Discard, Accept
  <2>2. TypeOK'
    BY <1>2, <2>1 DEF IInv, TypeOK, ReadNextOut, Discard, Accept, reader
  <2>3. wpc' = "copy" => next_out_seen' <= In \/ In + Sector < next_out_seen'
    BY <1>1, <1>2 DEF IInv, TypeOK, ReadNextOut, Discard, Accept, NoRoom, In
  <2>4. \/ wpc' = "idle"
        \/ next_out_seen' = cdda_next_out
        \/ wpc # "idle" /\ next_out_seen' = next_out_seen
    BY <1>2 DEF ReadNextOut, Discard, Accept
  <2>5. Ahead(cdda_next_out) \in Nat
    BY <1>1 DEF IInv, TypeOK, Ahead
  <2>6. RingInv'
    BY <1>1, <2>1, <2>3, <2>4, <2>5 DEF IInv, RingInv, Ahead, In, reader
  <2> QED BY <2>1, <2>2, <2>6 DEF IInv, reader
<1>3. CASE Publish
  <2>1. /\ wpc = "copy" /\ wpc' = "idle" /\ UNCHANGED <<cdda_next_out, cdda_delay, reader>>
        /\ unread' = Count(Sector) /\ cdda_next_in' = NextBuffer(cdda_next_in)
        /\ next_out_seen' = next_out_seen
        /\ missed' = (missed \/ (cdda_next_in = Buffers - 1 /\ unread + Sector = Size))
    BY <1>3 DEF Publish
  <2>2. /\ cdda_next_in' \in 0..(Buffers - 1)
        /\ In' = IF In + Sector = Size THEN 0 ELSE In + Sector
    BY <1>1, <2>1, NextFits DEF IInv, TypeOK, In
  <2>3. TypeOK'
    BY <1>1, <2>1, <2>2 DEF IInv, TypeOK, Count, reader
  <2>4. ~missed' => unread' = Ahead(cdda_next_out)' /\ Ahead(cdda_next_out) <= unread'
    <3> SUFFICES ASSUME ~missed'
                 PROVE  unread' = Ahead(cdda_next_out)' /\ Ahead(cdda_next_out) <= unread'
      OBVIOUS
    <3>1. ~missed /\ ~(In + Sector = Size /\ unread + Sector = Size)
      BY <1>1, <2>1
    <3>2. /\ cdda_next_out \in 0..(Size - 1) /\ next_out_seen \in 0..(Size - 1)
          /\ unread = Ahead(cdda_next_out) /\ unread' = unread + Sector
          /\ Ahead(cdda_next_out) <= Ahead(next_out_seen)
          /\ next_out_seen <= In \/ In + Sector < next_out_seen
      BY <2>1, <3>1 DEF IInv, TypeOK, RingInv, Count
    <3>3. cdda_next_out <= In \/ In + Sector < cdda_next_out
      BY <1>1, <3>2 DEF Ahead
    <3> QED BY <1>1, <2>1, <2>2, <3>1, <3>2, <3>3 DEF Ahead
  <2>5. RingInv'
    BY <1>1, <2>1, <2>4 DEF IInv, TypeOK, RingInv, Ahead, Count, reader
  <2> QED BY <2>1, <2>3, <2>5 DEF IInv, reader
<1>4. CASE Generate \/ EndGenerate
  <2>1. UNCHANGED <<cdda_next_in, cdda_next_out, writer, unread, missed, len>>
    BY <1>4 DEF Generate, EndGenerate
  <2>2. rpc' # "copy"
    BY <1>4 DEF Generate, EndGenerate
  <2>3. TypeOK'
    BY <1>1, <1>4, <2>1 DEF IInv, TypeOK, Generate, EndGenerate, Wanted, writer
  <2>4. RingInv'
    BY <2>1, <2>2 DEF IInv, RingInv, Ahead, In, writer
  <2> QED BY <2>2, <2>3, <2>4 DEF IInv
<1>5. CASE ReadNextIn
  <2>1. /\ UNCHANGED <<cdda_next_in, cdda_next_out, cdda_delay, writer, samples, unread, missed>>
        /\ len' = IF samples > Left THEN Left ELSE samples
        /\ rpc' \in {"end", "copy"}
    BY <1>5 DEF ReadNextIn
  <2>2. Left \in Nat /\ Left <= Ahead(cdda_next_out) /\ cdda_next_out + Left <= Size
    BY <1>1 DEF IInv, TypeOK, Left, Ahead, In
  <2>3. TypeOK' /\ len' <= samples' /\ len' <= Left
    BY <1>1, <2>1, <2>2 DEF IInv, TypeOK, writer
  <2>4. RingInv'
    BY <1>1, <2>1, <2>2, <2>3 DEF IInv, TypeOK, RingInv, Ahead, In, writer
  <2> QED BY <2>3, <2>4 DEF IInv
<1>6. CASE Consume
  <2>1. /\ UNCHANGED <<cdda_next_in, cdda_delay, writer, len, missed>> /\ rpc = "copy"
        /\ cdda_next_out' = IF cdda_next_out + len >= Size THEN 0 ELSE cdda_next_out + len
        /\ samples' = samples - len /\ unread' = Count(0 - len) /\ rpc' \in {"end", "read"}
    BY <1>6 DEF Consume
  <2>2. In' = In
    BY <2>1 DEF In
  <2>3. ~missed => Ahead(cdda_next_out)' = Ahead(cdda_next_out) - len
    BY <1>1, <2>1, <2>2 DEF IInv, TypeOK, RingInv, Ahead
  <2>4. ~missed => unread' = unread - len /\ unread - len >= 0
    BY <1>1, <2>1 DEF IInv, TypeOK, RingInv, Count
  <2>5. TypeOK'
    BY <1>1, <2>1, <2>4 DEF IInv, TypeOK, Count, writer
  <2>6. RingInv'
    BY <1>1, <2>1, <2>2, <2>3, <2>4 DEF IInv, TypeOK, RingInv, Ahead, writer
  <2> QED BY <2>1, <2>5, <2>6 DEF IInv
<1>7. CASE Reset
  <2>1. In' = 0
    BY <1>1, <1>7 DEF Reset, Start, In
  <2>m. missed' \in BOOLEAN /\ ~missed'
    BY <1>7, Zenon DEF Reset
  <2>2. TypeOK' /\ wpc' = "idle" /\ rpc' = "idle"
    BY <1>1, <1>7, <2>m DEF IInv, TypeOK, Reset, writer, reader
  <2> QED BY <1>1, <1>7, <2>1, <2>2 DEF IInv, RingInv, Ahead, Reset
<1>8. CASE UNCHANGED vars
  BY <1>8 DEF vars, writer, reader, IInv, TypeOK, RingInv, Ahead, In
<1> QED BY <1>2, <1>3, <1>4, <1>5, <1>6, <1>7, <1>8 DEF Next

(* The inductive invariant is an invariant of the specification.           *)
THEOREM Invariance == Spec => []IInv
BY InitIInv, StepIInv, PTL DEF Spec

(* The indices stay inside the ring.                                       *)
THEOREM IndicesStayInside == Spec => []TypeOK
<1>1. IInv => TypeOK
  BY DEF IInv
<1> QED BY <1>1, Invariance, PTL

(* Until a full ring is missed the indices tell how much is unread.        *)
THEOREM IndicesAreHonest == Spec => []IndicesTellUnread
<1>1. IInv => IndicesTellUnread
  BY AheadIsModulo DEF IInv, RingInv, IndicesTellUnread, In
<1> QED BY <1>1, Invariance, PTL

(* Until then the writer never enters what the reader is copying.          *)
THEOREM ReadsAreSafe == Spec => []NothingReadIsOverwritten
<1>1. ASSUME IInv PROVE NothingReadIsOverwritten
  <2>1. /\ Size \in Nat /\ Sector \in Nat /\ Sector > 0 /\ In \in Nat /\ In + Sector <= Size
        /\ Start(cdda_next_in + 1) = In + Sector
    BY <1>1, RingAssumption, SectorsFit DEF IInv, TypeOK, In
  <2> QED BY <1>1, <2>1 DEF IInv, TypeOK, RingInv, Ahead, NothingReadIsOverwritten, In
<1> QED BY <1>1, Invariance, PTL
=============================================================================
