---------------------------- MODULE MCCs2Buffer ----------------------------
(* Cs2Buffer on a small instance. *)
EXTENDS Cs2Buffer

CONSTANT SizeLimit

(* The sizes recorded for partitions drift without bound. *)
SizeBound == \A p \in Partitions : psize[p] \in -1..SizeLimit

(* After a full reset that discards sectors only PutSectorData opens a     *)
(* transfer.                                                               *)
UncountedBound == uncounted => trans.type \in {INVALID, PUTSECTOR}

(* A transfer of what is not stored is open only while the other           *)
(* partitions are as a reset leaves them, and after a stray deletion only  *)
(* the full reset follows.                                                 *)
StrayBound ==
  trans.type # INVALID /\ ~intact =>
    \A p \in Partitions \ {trans.part} :
      psize[p] = -1 /\ block[p] = [i \in Slots |-> NULL]

MCNext == Next /\ (strayed => Reset) /\ SizeBound' /\ UncountedBound' /\ StrayBound'

-----------------------------------------------------------------------------
(* Two states that differ only in what no action reads again are one       *)
(* state: blocknum (read by save states), the stored-sector flag (read     *)
(* through HIRQ), the fields of a transfer that is over, and the position  *)
(* of a window that is empty, lies outside the array, or is not stored and *)
(* will not be deleted.  The partitions' numbers do not matter.  Of a      *)
(* state that is the last, or that only a full reset follows, what matters *)
(* is whether the invariants hold in it.                                   *)
Invariants ==
  /\ TypeOK /\ SectorsOwnTheirBlocks /\ FreeSpaceIsExact /\ FullMeansNoFreeBlock
  /\ FaultHasACause /\ TransferStaysInPartition

Pool ==
  <<blocksize, blockfreespace, isbufferfull, getsectsize, putsectsize, uncounted,
    {<<numblocks[p], block[p], psize[p], trans.partnum = p>> : p \in Partitions}>>

Open ==
  <<trans.type, trans.offset, trans.numsect, trans.sects, intact,
    trans.part = trans.partnum,
    numblocks[trans.part], block[trans.part], psize[trans.part],
    IF trans.sects = 0 \/ (trans.type = GETSECTOR /\ ~intact) THEN 0
    ELSE IF trans.sectpos \in Slots THEN trans.sectpos ELSE MaxBlocks,
    IF trans.type = GETDELSECTOR THEN cdwnum ELSE 0>>

Observed ==
  IF fault \/ strayed THEN <<fault, Invariants>>
  ELSE IF trans.type = INVALID THEN Pool
  ELSE <<Pool, Open>>

MCSpec == Init /\ [][MCNext]_vars
=============================================================================
