------------------------------ MODULE CddaRing ------------------------------
(***************************************************************************)
(* The ring that carries CD audio from the emulation thread                *)
(* (ScspReceiveCDDA, called for every audio sector the drive reads) to the *)
(* sound thread (ScspGenerateAudioForCDDA).  No lock: one index belongs to *)
(* each side and is read by the other.                                     *)
(*                                                                         *)
(* Positions are counted in stereo samples (four bytes).  The samples'     *)
(* values are left out: what matters is where each side reads and writes.  *)
(***************************************************************************)
EXTENDS Integers

CONSTANTS
  Buffers,   \* CDDA_NUM_BUFFERS
  Sector,    \* samples in a sector, 588
  Delay,     \* CDDA_DELAY_SAMPLES
  Chunk      \* the most samples generated at once

ASSUME RingAssumption ==
  Buffers \in Nat /\ Buffers > 1 /\ Sector \in Nat \ {0} /\ Delay \in Nat /\ Chunk \in Nat

Size == Buffers * Sector

VARIABLES
  cdda_next_in,    \* the sector to store next
  cdda_next_out,   \* the sample to read next
  cdda_delay,
  wpc, next_out_seen,   \* ScspReceiveCDDA and the index it has read
  rpc, samples, len,    \* ScspGenerateAudio, what it still needs, what it copies
  unread,          \* samples stored and not yet read; not kept once missed
  missed           \* the last sector of the ring was filled while the first was full

vars == <<cdda_next_in, cdda_next_out, cdda_delay, wpc, next_out_seen, rpc, samples,
          len, unread, missed>>
writer == <<wpc, next_out_seen>>
reader == <<rpc, samples, len>>

(* What ScspReset leaves. *)
Init ==
  /\ cdda_next_in = 0 /\ cdda_next_out = 0 /\ cdda_delay = Delay
  /\ wpc = "idle" /\ next_out_seen = 0
  /\ rpc = "idle" /\ samples = 0 /\ len = 0
  /\ unread = 0 /\ missed = FALSE

Start(next_in) == next_in * Sector

Count(n) == IF missed THEN unread ELSE unread + n

-----------------------------------------------------------------------------
(* ScspReceiveCDDA.  Mutants are prefixed with Mut; each changes the       *)
(* definition it precedes.                                                 *)

(* Forgets that the reader may be at the end of the sector. *)
MutNoRoom(out) == Start(cdda_next_in) < out /\ out < Start(cdda_next_in + 1)

NoRoom(out) == Start(cdda_next_in) < out /\ out <= Start(cdda_next_in + 1)

ReadNextOut ==
  /\ wpc = "idle" /\ wpc' = "check"
  /\ next_out_seen' = cdda_next_out
  /\ UNCHANGED <<cdda_next_in, cdda_next_out, cdda_delay, reader, unread, missed>>

Discard ==
  /\ wpc = "check" /\ NoRoom(next_out_seen)
  /\ wpc' = "idle"
  /\ UNCHANGED <<cdda_next_in, cdda_next_out, cdda_delay, next_out_seen, reader, unread,
                 missed>>

Accept ==
  /\ wpc = "check" /\ ~NoRoom(next_out_seen)
  /\ wpc' = "copy"
  /\ UNCHANGED <<cdda_next_in, cdda_next_out, cdda_delay, next_out_seen, reader, unread,
                 missed>>

(* Skips the wrap. *)
MutNextBuffer(i) == IF i = Buffers THEN 0 ELSE i + 1

NextBuffer(i) == (i + 1) % Buffers

(* The sector is in place; the reader may have it. *)
Publish ==
  /\ wpc = "copy" /\ wpc' = "idle"
  /\ cdda_next_in' = NextBuffer(cdda_next_in)
  /\ unread' = Count(Sector)
  /\ missed' = (missed \/ (cdda_next_in = Buffers - 1 /\ unread + Sector = Size))
  /\ UNCHANGED <<cdda_next_out, cdda_delay, next_out_seen, reader>>

-----------------------------------------------------------------------------
(* ScspGenerateAudio and ScspGenerateAudioForCDDA: n samples are wanted.   *)

Empty == cdda_next_out = Start(cdda_next_in)

Wanted(n) == IF n > cdda_delay THEN n - cdda_delay ELSE 0

Generate ==
  /\ rpc = "idle"
  /\ \E n \in 1..Chunk :
       IF Empty
       THEN /\ rpc' = "end" /\ samples' = 0
            /\ UNCHANGED cdda_delay
       ELSE /\ cdda_delay' = IF n > cdda_delay THEN 0 ELSE cdda_delay - n
            /\ samples' = Wanted(n)
            /\ rpc' = IF samples' = 0 THEN "end" ELSE "read"
  /\ UNCHANGED <<cdda_next_in, cdda_next_out, writer, len, unread, missed>>

MutLeft == Start(cdda_next_in) - cdda_next_out + Size

(* out_left: up to the writer, or up to the end of the buffer. *)
Left ==
  LET temp == Start(cdda_next_in) - cdda_next_out
  IN  IF temp < 0 THEN Size - cdda_next_out ELSE temp

ReadNextIn ==
  /\ rpc = "read"
  /\ len' = IF samples > Left THEN Left ELSE samples
  /\ rpc' = IF len' = 0 THEN "end" ELSE "copy"
  /\ UNCHANGED <<cdda_next_in, cdda_next_out, cdda_delay, writer, samples, unread, missed>>

Consume ==
  /\ rpc = "copy"
  /\ cdda_next_out' = IF cdda_next_out + len >= Size THEN 0 ELSE cdda_next_out + len
  /\ samples' = samples - len
  /\ unread' = Count(0 - len)
  /\ rpc' = IF samples' = 0 THEN "end" ELSE "read"
  /\ UNCHANGED <<cdda_next_in, cdda_delay, writer, len, missed>>

(* No data buffered resets the delay. *)
EndGenerate ==
  /\ rpc = "end" /\ rpc' = "idle"
  /\ cdda_delay' = IF Empty THEN Delay ELSE cdda_delay
  /\ UNCHANGED <<cdda_next_in, cdda_next_out, writer, samples, len, unread, missed>>

(* ScspReset, called by the emulation thread while the sound thread waits. *)
Reset ==
  /\ wpc = "idle" /\ rpc = "idle"
  /\ cdda_next_in' = 0 /\ cdda_next_out' = 0 /\ cdda_delay' = Delay
  /\ unread' = 0 /\ missed' = FALSE
  /\ UNCHANGED <<writer, reader>>

Next ==
  \/ ReadNextOut \/ Discard \/ Accept \/ Publish
  \/ Generate \/ ReadNextIn \/ Consume \/ EndGenerate \/ Reset

Spec == Init /\ [][Next]_vars

-----------------------------------------------------------------------------
(* The indices stay inside the ring. *)
TypeOK ==
  /\ cdda_next_in \in 0..(Buffers - 1) /\ cdda_next_out \in 0..(Size - 1)
  /\ cdda_delay \in 0..Delay
  /\ wpc \in {"idle", "check", "copy"} /\ next_out_seen \in 0..(Size - 1)
  /\ rpc \in {"idle", "read", "copy", "end"} /\ samples \in 0..Chunk /\ len \in 0..Chunk
  /\ unread \in Nat /\ missed \in BOOLEAN

(* Until a full ring is taken for an empty one, which only the check of    *)
(* its last sector lets happen, the two indices tell how much is unread,   *)
(* although neither side ever sees both of them at once.                   *)
IndicesTellUnread ==
  ~missed => unread = IF Empty THEN 0
                      ELSE (Start(cdda_next_in) - cdda_next_out + Size) % Size

(* Until then the samples being read are neither missing nor in the sector *)
(* that is being overwritten.                                              *)
NothingReadIsOverwritten ==
  ~missed /\ rpc = "copy" =>
    /\ len <= unread /\ cdda_next_out + len <= Size
    /\ wpc = "copy" => \/ cdda_next_out + len <= Start(cdda_next_in)
                       \/ Start(cdda_next_in + 1) <= cdda_next_out

-----------------------------------------------------------------------------
(* ScspReceiveCDDA: "Make sure we have room for the new sector first". A   *)
(* full ring looks empty, so there is room only while one sample is free.  *)
RoomIsLeft == unread < Size
=============================================================================
