---------------------------- MODULE Cs2SaveState ----------------------------
(***************************************************************************)
(* Save states of the CD block's buffer (Cs2SaveState, Cs2LoadState): one  *)
(* slot, written and loaded between any two steps of Cs2Buffer.  Pointers  *)
(* are not written: LoadState rebuilds a partition's pointers from its     *)
(* blocknum array and leaves datatranspartition as it is.                  *)
(***************************************************************************)
EXTENDS Cs2Buffer

VARIABLE saved

Empty == [queue |-> <<>>]

(* What Cs2SaveState writes, and beside it, for the property, the queues   *)
(* and the history at that moment.                                         *)
Image ==
  [blocksize |-> blocksize, free |-> blockfreespace, full |-> isbufferfull,
   stored |-> isonesectorstored, numblocks |-> numblocks, blocknum |-> blocknum,
   psize |-> psize, getsize |-> getsectsize, putsize |-> putsectsize,
   trans |-> trans, cdwnum |-> cdwnum, queue |-> queue, uncounted |-> uncounted,
   strayed |-> strayed, intact |-> intact]

SaveState ==
  /\ Running
  /\ saved' = Image
  /\ UNCHANGED vars

LoadState ==
  /\ Running /\ saved # Empty
  /\ blocksize' = saved.blocksize
  /\ blockfreespace' = saved.free
  /\ isbufferfull' = saved.full
  /\ isonesectorstored' = saved.stored
  /\ numblocks' = saved.numblocks
  /\ blocknum' = saved.blocknum
  /\ block' = saved.blocknum
  /\ psize' = saved.psize
  /\ getsectsize' = saved.getsize /\ putsectsize' = saved.putsize
  /\ trans' = [saved.trans EXCEPT !.part = trans.part] /\ cdwnum' = saved.cdwnum
  /\ uncounted' = saved.uncounted /\ strayed' = saved.strayed
  /\ intact' = (saved.intact /\ trans.part = saved.trans.part)
  /\ UNCHANGED <<fault, saved>>

SaveInit == Init /\ saved = Empty

SaveNext ==
  \/ Next /\ UNCHANGED saved
  \/ SaveState
  \/ LoadState

SaveSpec == SaveInit /\ [][SaveNext]_<<vars, saved>>

(* Loading a state brings back the partitions that were saved: LoadState   *)
(* reads back what the comment of SaveState calls "partition data".        *)
LoadRestoresPartitions == [][LoadState => queue' = saved.queue]_<<vars, saved>>
=============================================================================
