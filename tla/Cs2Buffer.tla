----------------------------- MODULE Cs2Buffer -----------------------------
(***************************************************************************)
(* The sector buffer of the CD block (cs2.c): a pool of MAX_BLOCKS blocks, *)
(* the MAX_SELECTORS partitions that hold pointers into it, and the data   *)
(* transfer through which the host (the SH-2 program) reads, deletes and   *)
(* writes sectors.  The drive stores sectors between the host's commands   *)
(* and in the middle of its transfers.                                     *)
(*                                                                         *)
(* Sector contents, the command registers and the filter conditions are    *)
(* left out: the drive may store into any partition a filter chain can     *)
(* choose.  Sizes are counted in units of one access to the data port.     *)
(* A write through a null pointer or outside an array stops the program    *)
(* (fault).  uncounted, strayed and intact record for the properties what  *)
(* has happened; no guard reads them.                                      *)
(***************************************************************************)
EXTENDS Integers, FiniteSets, FiniteSetsExt

CONSTANTS
  MaxBlocks,      \* MAX_BLOCKS, 200 in cs2.h
  MaxSelectors,   \* MAX_SELECTORS, 24 in cs2.h
  U8, U16, U32,   \* how many values numblocks, a command register and blockfreespace have
  PointerBytes,   \* how many entries of blocknum lie under one pointer, 4 or 8
  Sizes,          \* the sector lengths SetSectorLength can select
  Form2Size,      \* the length of a mode 2 form 2 sector (2324 bytes)
  MaxCopy         \* the longest rapid copy, in units

ASSUME BoundsAssumption ==
  /\ MaxBlocks \in Nat \ {0} /\ MaxSelectors \in Nat \ {0}
  /\ U8 \in Nat /\ U16 \in Nat /\ U32 \in Nat /\ PointerBytes \in Nat
  /\ U8 > MaxBlocks /\ U16 > MaxBlocks /\ U32 > MaxBlocks

ASSUME SizesAssumption ==
  /\ Sizes \subseteq Nat \ {0} /\ Sizes # {} /\ Form2Size \in Nat \ {0}
  /\ MaxCopy \in Nat

Blocks     == 0..(MaxBlocks - 1)
Slots      == 0..(MaxBlocks - 1)
Partitions == 0..(MaxSelectors - 1)

NULL == -1                        \* a null block pointer, and blocknum 0xFF
LAST == U16 - 1                   \* 0xFFFF in a command register
INVALID == -1                     \* CDB_DATATRANSTYPE_...
GETSECTOR == 0
GETDELSECTOR == 2
PUTSECTOR == 3

VARIABLES
  blocksize,         \* block[i].size, -1 when the block is free
  blockfreespace, isbufferfull, isonesectorstored,
  numblocks, block, blocknum, psize,   \* the partitions' fields
  getsectsize, putsectsize,
  trans,             \* the datatrans... fields
  cdwnum,            \* what the open transfer has moved
  uncounted,         \* a full selector reset has freed blocks without counting them
  strayed,           \* the host has deleted entries that are not stored sectors
  intact,            \* the open transfer's window was stored when it was opened, and
                     \* no command has deleted from its partition since
  fault              \* the program used a null pointer or left an array

pool      == <<blocksize, blockfreespace, isbufferfull>>
partition == <<numblocks, block, blocknum, psize>>
lengths   == <<getsectsize, putsectsize>>
transfer  == <<trans, cdwnum>>
history   == <<uncounted, strayed, intact>>
vars == <<blocksize, blockfreespace, isbufferfull, isonesectorstored, numblocks,
          block, blocknum, psize, getsectsize, putsectsize, trans, cdwnum,
          uncounted, strayed, intact, fault>>

NoTransfer == [type |-> INVALID, part |-> 0, partnum |-> 0, offset |-> 0,
               numsect |-> 0, sectpos |-> 0, sects |-> 0]

(* What Cs2Init and the first Cs2Reset leave. *)
Init ==
  /\ blocksize = [b \in Blocks |-> -1]
  /\ blockfreespace = MaxBlocks
  /\ isbufferfull = FALSE /\ isonesectorstored = FALSE
  /\ numblocks = [p \in Partitions |-> 0]
  /\ block = [p \in Partitions |-> [i \in Slots |-> NULL]]
  /\ blocknum = [p \in Partitions |-> [i \in Slots |-> NULL]]
  /\ psize = [p \in Partitions |-> -1]
  /\ getsectsize \in Sizes /\ putsectsize = getsectsize
  /\ trans = NoTransfer /\ cdwnum = 0
  /\ uncounted = FALSE /\ strayed = FALSE /\ intact = FALSE /\ fault = FALSE

-----------------------------------------------------------------------------
(* Helpers.  Unsigned arithmetic for a counter that moves by less than its *)
(* range.                                                                  *)

(* Mutants are prefixed with Mut; each changes the definition it precedes.  *)
MutWrap(x, m) == x

Wrap(x, m) == IF x < 0 THEN x + m ELSE IF x >= m THEN x - m ELSE x

FreeBlocks == {b \in Blocks : blocksize[b] = -1}
Live(p)    == {i \in Slots : i < numblocks[p]}

(* All of the n entries of p from off are stored sectors. *)
IsStored(p, off, n) == n \in Nat /\ off..(off + n - 1) \subseteq Live(p)

(* Takes blocks from the front of the pool without looking at their size. *)
MutLowestFree(n) == {[i \in 0..(n - 1) |-> i]}

(* Cs2AllocateBlock called n times: it takes the lowest free block. *)
LowestFree(n) ==
  {s \in [0..(n - 1) -> FreeBlocks] :
     /\ \A i, j \in 0..(n - 1) : i < j => s[i] < s[j]
     /\ \A b \in FreeBlocks : b \in {s[i] : i \in 0..(n - 1)}
                              \/ \A i \in 0..(n - 1) : s[i] < b}

(* Cs2SortBlocks: the non-null entries move to the front, in order. *)
Rank(f, j) == Cardinality({k \in Slots : k < j /\ f[k] # NULL})

(* Leaves the gap open. *)
MutSortBlocks(f) == f

SortBlocks(f) ==
  [i \in Slots |->
     LET from == {j \in Slots : f[j] # NULL /\ Rank(f, j) = i}
     IN  IF from = {} THEN NULL ELSE f[CHOOSE j \in from : TRUE]]

(* n calls of Cs2AllocateBlock for the entries after the last of partition *)
(* p, of which the first k find a free block (those of s, `size` long) and *)
(* the rest leave a null entry.  The pool is declared full when the count  *)
(* reaches zero or a call fails.  A null pointer behind the last place is  *)
(* written over the first numbers of blocknum, the field that follows.     *)
AppendBlocks(p, s, k, n, size) ==
  LET last == numblocks[p] + k
      Put(f) == [i \in Slots |-> IF numblocks[p] <= i /\ i < last
                                 THEN s[i - numblocks[p]] ELSE f[i]]
  IN  /\ blocksize' = [b \in Blocks |-> IF \E i \in 0..(k - 1) : s[i] = b
                                        THEN size ELSE blocksize[b]]
      /\ blockfreespace' = Wrap(blockfreespace - k, U32)
      /\ isbufferfull' = (isbufferfull \/ k < n \/ blockfreespace \in 1..k)
      /\ block' = [block EXCEPT ![p] =
                     [i \in Slots |-> IF k < n /\ i = last THEN NULL ELSE Put(@)[i]]]
      /\ blocknum' = [blocknum EXCEPT ![p] =
                        [i \in Slots |-> IF k < n /\ last = MaxBlocks /\ i < PointerBytes
                                         THEN 0 ELSE Put(@)[i]]]
      /\ numblocks' = [numblocks EXCEPT ![p] = Wrap(@ + k, U8)]
      /\ fault' = (n > 0 /\ last > MaxBlocks)

(* Cs2FreeBlock on the entries in win of partition p, which become null.   *)
(* Freeing any block declares the pool not full.                           *)
Freed(p, win) == {i \in win : block[p][i] # NULL}

(* Frees without counting. *)
MutFreeEntries(p, win) ==
  /\ blocksize' = [b \in Blocks |-> IF \E i \in Freed(p, win) : block[p][i] = b
                                    THEN -1 ELSE blocksize[b]]
  /\ UNCHANGED blockfreespace

FreeEntries(p, win) ==
  /\ blocksize' = [b \in Blocks |-> IF \E i \in Freed(p, win) : block[p][i] = b
                                    THEN -1 ELSE blocksize[b]]
  /\ blockfreespace' = Wrap(blockfreespace + Cardinality(Freed(p, win)), U32)

MutFullAfterFree(p, win) == isbufferfull

FullAfterFree(p, win) == isbufferfull /\ Freed(p, win) = {}

Holes(f, win) == [i \in Slots |-> IF i \in win THEN NULL ELSE f[i]]

Window(off, n) == {i \in Slots : off <= i /\ i < off + n}

(* The deletion every path shares: free n entries from off, close the gap. *)
(* The blocknum array is not sorted along with the pointers.               *)
DeleteEntries(p, off, n, units) ==
  /\ FreeEntries(p, Window(off, n))
  /\ isbufferfull' = FullAfterFree(p, Window(off, n))
  /\ block' = [block EXCEPT ![p] = SortBlocks(Holes(@, Window(off, n)))]
  /\ blocknum' = [blocknum EXCEPT ![p] = Holes(@, Window(off, n))]
  /\ psize' = [psize EXCEPT ![p] = @ - units]
  /\ numblocks' = [numblocks EXCEPT ![p] = (@ - n) % U8]

Running == ~fault

MutCancelled == trans

Cancelled == [trans EXCEPT !.type = INVALID]

Opened(p) == IF psize[p] = -1 THEN 0 ELSE psize[p]

-----------------------------------------------------------------------------
(* The drive. *)

(* Cs2Exec reads a sector while playing and Cs2FilterData stores it. *)
StoreSector(p) ==
  /\ Running /\ ~isbufferfull
  /\ \E s \in LowestFree(1), size \in {getsectsize, Form2Size} :
       /\ AppendBlocks(p, s, 1, 1, size)
       /\ psize' = [psize EXCEPT ![p] = Opened(p) + size]
  /\ isonesectorstored' = TRUE
  /\ UNCHANGED <<lengths, transfer, history>>

(* The same when no block is left (InitializeCDSystem has called the pool  *)
(* not full): the sector is dropped.  Cs2ReadUnFilteredSector does it too. *)
DropSector(p) ==
  /\ Running /\ ~isbufferfull /\ FreeBlocks = {}
  /\ \E s \in LowestFree(0) : AppendBlocks(p, s, 0, 1, getsectsize)
  /\ UNCHANGED <<psize, isonesectorstored, lengths, transfer, history>>

(* Cs2ReadFileSystem (and Cs2GetIP): read directory sectors into partition *)
(* p one at a time and free each again.  The pointer stays behind in the   *)
(* entry after the last; only blocknum is reset.                           *)
ReadFileSystem(p) ==
  /\ Running /\ ~isbufferfull
  /\ \E s \in LowestFree(1) :
       LET i == numblocks[p]
       IN  /\ block' = [block EXCEPT ![p] = SortBlocks([@ EXCEPT ![i] = s[0]])]
           /\ blocknum' = [blocknum EXCEPT ![p] = [@ EXCEPT ![i] = NULL]]
           /\ fault' = (i >= MaxBlocks)
  /\ psize' = [psize EXCEPT ![p] = Opened(p)]
  /\ isbufferfull' = FALSE
  /\ UNCHANGED <<blocksize, blockfreespace, isonesectorstored, numblocks, lengths,
                 transfer, history>>

(* The same when the disc cannot be read: the block was allocated before   *)
(* the read and is neither counted in numblocks nor freed.                 *)
ReadFileSystemFails(p) ==
  /\ Running /\ ~isbufferfull
  /\ \E s \in LowestFree(1), reads \in {0, 1} :
       /\ LET i == numblocks[p]
          IN  /\ block' = [block EXCEPT ![p] = [@ EXCEPT ![i] = s[0]]]
              /\ blocknum' = [blocknum EXCEPT ![p] = [@ EXCEPT ![i] = s[0]]]
              /\ fault' = (i >= MaxBlocks)
       /\ blocksize' = [blocksize EXCEPT ![s[0]] = getsectsize]
       /\ psize' = [psize EXCEPT ![p] = IF reads = 0 THEN @ ELSE Opened(p)]
  /\ blockfreespace' = Wrap(blockfreespace - 1, U32)
  /\ isbufferfull' = (blockfreespace = 1)
  /\ UNCHANGED <<isonesectorstored, numblocks, lengths, transfer, history>>

(* Cs2GetMPEGRom: as many of n ROM sectors as there is room for, into p. *)
GetMPEGRom(p, n) ==
  /\ Running /\ ~isbufferfull
  /\ LET room == Cardinality(FreeBlocks)
         k == IF n <= room THEN n ELSE room
     IN  /\ \E s \in LowestFree(k) : AppendBlocks(p, s, k, n, getsectsize)
         /\ psize' = [psize EXCEPT ![p] = k * getsectsize]
  /\ isonesectorstored' = TRUE
  /\ UNCHANGED <<lengths, transfer, history>>

-----------------------------------------------------------------------------
(* Commands of the host that change what is stored. *)

(* Cs2SetSectorLength *)
SetSectorLength ==
  /\ Running
  /\ getsectsize' \in Sizes /\ putsectsize' \in Sizes
  /\ UNCHANGED <<pool, partition, isonesectorstored, transfer, history, fault>>

(* Cs2InitializeCDSystem calls the pool not full, whatever it holds. *)
InitializeCDSystem ==
  /\ Running
  /\ isbufferfull' = FALSE
  /\ UNCHANGED <<blocksize, blockfreespace, partition, lengths, isonesectorstored,
                 transfer, history, fault>>

(* Cs2ResetSelector of one partition.  The transfer it cancels is the one  *)
(* partnum names, which need not be that of p.                             *)
ResetPartition(p) ==
  /\ Running
  /\ FreeEntries(p, Live(p))
  /\ block' = [block EXCEPT ![p] = Holes(@, Live(p))]
  /\ blocknum' = [blocknum EXCEPT ![p] = Holes(@, Live(p))]
  /\ psize' = [psize EXCEPT ![p] = -1]
  /\ numblocks' = [numblocks EXCEPT ![p] = 0]
  /\ isbufferfull' = (FullAfterFree(p, Live(p)) /\ blockfreespace' = 0)
  /\ isonesectorstored' = (isonesectorstored /\ blockfreespace' # MaxBlocks)
  /\ trans' = IF blockfreespace' = MaxBlocks \/ trans.partnum = p THEN Cancelled ELSE trans
  /\ intact' = (intact /\ trans.part # p)
  /\ fault' = (numblocks[p] > MaxBlocks)
  /\ UNCHANGED <<lengths, cdwnum, uncounted, strayed>>

(* The same when the command names no partition. *)
ResetNoPartition ==
  /\ Running
  /\ isbufferfull' = (isbufferfull /\ blockfreespace = 0)
  /\ isonesectorstored' = (isonesectorstored /\ blockfreespace # MaxBlocks)
  /\ trans' = IF blockfreespace = MaxBlocks THEN Cancelled ELSE trans
  /\ UNCHANGED <<blocksize, blockfreespace, partition, lengths, cdwnum, history, fault>>

(* Cs2ResetSelector with the partition-buffer flag (0x4): every block is   *)
(* freed, but blockfreespace keeps its value.                              *)
ResetAllPartitions ==
  /\ Running
  /\ blocksize' = [b \in Blocks |-> -1]
  /\ isbufferfull' = FALSE
  /\ psize' = [p \in Partitions |-> -1]
  /\ numblocks' = [p \in Partitions |-> 0]
  /\ block' = [p \in Partitions |-> [i \in Slots |-> NULL]]
  /\ blocknum' = [p \in Partitions |-> [i \in Slots |-> NULL]]
  /\ isonesectorstored' = FALSE
  /\ trans' = Cancelled
  /\ uncounted' = (uncounted \/ FreeBlocks # Blocks)
  /\ UNCHANGED <<blockfreespace, lengths, cdwnum, strayed, intact, fault>>

(* CalcSectorOffsetNumber: how many sectors from off a command means.      *)
(* Below zero when off lies behind the last sector.                        *)
Chosen(p, off, num) == IF off # LAST /\ num = LAST THEN numblocks[p] - off ELSE num

(* The sizes Cs2DeleteSectorData takes from the partition: a block that an *)
(* earlier entry has freed counts as -1.                                   *)
SizeOf(p, win) ==
  MapThenSumSet(LAMBDA i : IF \E j \in win : j < i /\ block[p][j] = block[p][i]
                           THEN -1 ELSE blocksize[block[p][i]], win)

(* Cs2DeleteSectorData: it looks into every entry it is told to delete.    *)
DeleteSectorData(p, off, num) ==
  LET n   == Chosen(p, off, num)
      win == off..(off + n - 1)
  IN  /\ Running /\ numblocks[p] # 0
      /\ IF win \subseteq Slots /\ \A i \in win : block[p][i] # NULL
         THEN /\ DeleteEntries(p, off, n, SizeOf(p, win))
              /\ isonesectorstored' = (isonesectorstored /\ blockfreespace' # MaxBlocks)
              /\ fault' = FALSE
         ELSE fault' = TRUE /\ UNCHANGED <<pool, partition, isonesectorstored>>
      /\ strayed' = (strayed \/ ~IsStored(p, off, n))
      /\ intact' = (intact /\ trans.part # p)
      /\ UNCHANGED <<lengths, transfer, uncounted>>

RoomFor(n) == n <= blockfreespace

(* Cs2PutSectorData allocates n blocks after checking blockfreespace; a    *)
(* call of Cs2AllocateBlock that finds none free is not checked.           *)
PutSectorData(p, n) ==
  /\ Running /\ RoomFor(n)
  /\ IF n > Cardinality(FreeBlocks)
     THEN /\ fault' = TRUE
          /\ UNCHANGED <<pool, partition, transfer, intact>>
     ELSE /\ \E s \in LowestFree(n) : AppendBlocks(p, s, n, n, putsectsize)
          /\ psize' = [psize EXCEPT ![p] = n * putsectsize]
          /\ trans' = [NoTransfer EXCEPT !.type = PUTSECTOR, !.part = p,
                                         !.partnum = p, !.sects = n]
          /\ cdwnum' = 0 /\ intact' = TRUE
  /\ UNCHANGED <<lengths, isonesectorstored, uncounted, strayed>>

-----------------------------------------------------------------------------
(* Data transfers. *)

(* Cs2GetSectorData: only an empty partition is refused. *)
GetSectorData(p, off, num) ==
  /\ Running /\ numblocks[p] # 0
  /\ trans' = [NoTransfer EXCEPT !.type = GETSECTOR, !.part = p, !.partnum = p,
                                 !.sectpos = off, !.sects = Chosen(p, off, num) % U16]
  /\ cdwnum' = 0
  /\ intact' = IsStored(p, off, Chosen(p, off, num) % U16)
  /\ UNCHANGED <<pool, partition, lengths, isonesectorstored, uncounted, strayed, fault>>

(* Cs2GetThenDeleteSectorData does not set datatranspartitionnum. *)
GetThenDeleteSectorData(p, off, num) ==
  /\ Running /\ numblocks[p] # 0
  /\ trans' = [NoTransfer EXCEPT !.type = GETDELSECTOR, !.part = p,
                                 !.partnum = trans.partnum,
                                 !.sectpos = off, !.sects = Chosen(p, off, num) % U16]
  /\ cdwnum' = 0
  /\ intact' = IsStored(p, off, Chosen(p, off, num) % U16)
  /\ UNCHANGED <<pool, partition, lengths, isonesectorstored, uncounted, strayed, fault>>

(* The entry the data port addresses: it counts from the first sector of   *)
(* the partition, whatever datatranssectpos is.                            *)
Current == block[trans.part][trans.numsect]

Pending == trans.type # INVALID /\ trans.numsect < trans.sects

(* One access moves one unit and steps to the next sector at its end; the  *)
(* comparison is signed, a free block ends at once.                        *)
Advance ==
  LET end == trans.offset + 1 >= blocksize[Current]
  IN  [trans EXCEPT !.offset = IF end THEN 0 ELSE @ + 1,
                    !.numsect = IF end THEN @ + 1 ELSE @]

(* Cs2ReadLong of the data port while sectors are left.  A null entry      *)
(* yields 0 and no progress.                                               *)
ReadLong ==
  /\ Running /\ Pending /\ trans.numsect \in Slots /\ Current # NULL
  /\ trans' = Advance /\ cdwnum' = cdwnum + 1
  /\ UNCHANGED <<pool, partition, lengths, isonesectorstored, history, fault>>

(* Cs2WriteLong of the data port. *)
WriteLong ==
  /\ Running /\ trans.type = PUTSECTOR /\ Pending
  /\ trans.numsect \in Slots /\ Current # NULL
  /\ trans' = Advance /\ cdwnum' = cdwnum + 1
  /\ UNCHANGED <<pool, partition, lengths, isonesectorstored, history, fault>>

(* Both when the transfer has left the array of entries. *)
AccessFaults ==
  /\ Running /\ Pending /\ trans.numsect \notin Slots
  /\ fault' = TRUE
  /\ UNCHANGED <<pool, partition, lengths, isonesectorstored, transfer, history>>

(* Every path that ends a get-then-delete transfer t deletes the entries   *)
(* of its window and takes what was moved from the partition's size.       *)
FinishDelete(t, moved) ==
  /\ DeleteEntries(t.part, t.sectpos, t.sects, moved)
  /\ strayed' = (strayed \/ ~IsStored(t.part, t.sectpos, t.sects))
  /\ fault' = ~(t.sectpos..(t.sectpos + t.sects - 1) \subseteq Slots)
  /\ UNCHANGED <<lengths, uncounted, intact>>

(* Cs2ReadLong after the last sector of a get-then-delete transfer. *)
ReadLongDeletes ==
  /\ Running /\ trans.type = GETDELSECTOR /\ trans.numsect >= trans.sects
  /\ FinishDelete(trans, cdwnum)
  /\ trans' = Cancelled
  /\ UNCHANGED <<isonesectorstored, cdwnum>>

(* Cs2RapidCopyT1 and Cs2RapidCopyT2: count accesses at once.  The loop    *)
(* copies whole sectors, up to sect, and then as much of sect as is left.  *)
EntrySize(i) == blocksize[block[trans.part][i]]

Start(i) == IF i = trans.numsect THEN trans.offset ELSE 0

Copied(sect) ==
  MapThenSumSet(EntrySize, trans.numsect..(sect - 1))
    - (IF sect = trans.numsect THEN 0 ELSE trans.offset)

Readable(i) == i \in Slots /\ block[trans.part][i] # NULL

(* What is left to copy reaches to the end of sect. *)
Fits(sect, left) == Readable(sect) /\ EntrySize(sect) - Start(sect) \in 0..left

(* The loop reaches sect with units left to copy. *)
Reaches(sect, count) ==
  /\ \A i \in trans.numsect..(sect - 1) : Fits(i, EntrySize(i))
  /\ Copied(sect) <= count

(* At position t, with moved units copied, the loop ends: a get-then-      *)
(* delete transfer that is through deletes its sectors at once.            *)
EndCopy(t, moved) ==
  /\ cdwnum' = cdwnum + moved
  /\ IF t.type = GETDELSECTOR /\ t.numsect >= t.sects
     THEN FinishDelete(t, cdwnum') /\ trans' = [t EXCEPT !.type = INVALID]
     ELSE trans' = t /\ UNCHANGED <<pool, partition, lengths, history, fault>>

(* The last sector copied from ends inside, or (its size compared without  *)
(* a sign) at once when less is stored than was already copied, or never   *)
(* when its block is free: then the copy runs into the end of the data.    *)
CopyRest(sect, left, count) ==
  LET upto == Start(sect) + left
      past == \A z \in Sizes \cup {Form2Size} : z < upto
      over == EntrySize(sect) # -1 /\ EntrySize(sect) <= upto
  IN  IF ~Readable(sect) \/ past
      THEN fault' = TRUE /\ UNCHANGED <<pool, partition, lengths, transfer, history>>
      ELSE EndCopy([trans EXCEPT !.numsect = IF over THEN sect + 1 ELSE sect,
                                 !.offset = IF over THEN 0 ELSE upto], count)

RapidCopy(count) ==
  /\ Running /\ trans.type # INVALID
  /\ \E sect \in trans.numsect..trans.sects :
       /\ Reaches(sect, count)
       /\ IF sect = trans.sects \/ Copied(sect) = count
          THEN EndCopy([trans EXCEPT !.numsect = sect, !.offset = Start(sect)], Copied(sect))
          ELSE /\ ~Fits(sect, count - Copied(sect))
               /\ CopyRest(sect, count - Copied(sect), count)
  /\ UNCHANGED isonesectorstored

(* Cs2EndDataTransfer: a get-then-delete transfer not yet finished deletes *)
(* its window now, however little was read, unless the partition's size is *)
(* not positive.  Any other transfer stays open for the data port.         *)
EndDataTransfer ==
  /\ Running
  /\ cdwnum' = 0
  /\ IF trans.type = GETDELSECTOR /\ psize[trans.part] > 0
     THEN /\ FinishDelete(trans, cdwnum)
          /\ trans' = Cancelled
          /\ isonesectorstored' = (isonesectorstored /\ blockfreespace' # MaxBlocks)
     ELSE UNCHANGED <<pool, partition, lengths, isonesectorstored, trans, history, fault>>

(* Cs2AbortFile drops the transfer and forgets the stored-sector flag. *)
AbortFile ==
  /\ Running
  /\ trans' = Cancelled /\ cdwnum' = 0
  /\ isonesectorstored' = FALSE
  /\ UNCHANGED <<pool, partition, lengths, history, fault>>

(* Cs2Reset: the pool, the partitions and the flags are as Init leaves     *)
(* them; of the transfer only the type and cdwnum are reset.  The lengths  *)
(* return to 2048.                                                         *)
Reset ==
  /\ Running
  /\ blocksize' = [b \in Blocks |-> -1]
  /\ blockfreespace' = MaxBlocks
  /\ isbufferfull' = FALSE /\ isonesectorstored' = FALSE
  /\ numblocks' = [p \in Partitions |-> 0]
  /\ block' = [p \in Partitions |-> [i \in Slots |-> NULL]]
  /\ blocknum' = [p \in Partitions |-> [i \in Slots |-> NULL]]
  /\ psize' = [p \in Partitions |-> -1]
  /\ getsectsize' \in Sizes /\ putsectsize' = getsectsize'
  /\ trans' = Cancelled /\ cdwnum' = 0
  /\ uncounted' = FALSE /\ strayed' = FALSE
  /\ UNCHANGED <<intact, fault>>

-----------------------------------------------------------------------------
Drive == \E p \in Partitions : StoreSector(p) \/ DropSector(p)

Words == 0..(U16 - 1)             \* what a command register can hold

Command ==
  \/ SetSectorLength \/ InitializeCDSystem \/ ResetNoPartition \/ ResetAllPartitions
  \/ AbortFile \/ Reset
  \/ \E p \in Partitions :
       \/ ReadFileSystem(p) \/ ReadFileSystemFails(p) \/ ResetPartition(p)
       \/ \E n \in Words :
            \/ GetMPEGRom(p, n) \/ PutSectorData(p, n)
            \/ \E off \in Words : \/ DeleteSectorData(p, off, n)
                                  \/ GetSectorData(p, off, n)
                                  \/ GetThenDeleteSectorData(p, off, n)

DataPort ==
  \/ ReadLong \/ WriteLong \/ AccessFaults \/ ReadLongDeletes \/ EndDataTransfer
  \/ \E count \in 1..MaxCopy : RapidCopy(count)

Next == Drive \/ Command \/ DataPort

Spec == Init /\ [][Next]_vars

-----------------------------------------------------------------------------
TransferType == {INVALID, GETSECTOR, GETDELSECTOR, PUTSECTOR}

BufferTypeOK ==
  /\ blocksize \in [Blocks -> {-1} \cup Sizes \cup {Form2Size}]
  /\ blockfreespace \in 0..(U32 - 1)
  /\ isbufferfull \in BOOLEAN /\ isonesectorstored \in BOOLEAN
  /\ numblocks \in [Partitions -> 0..(U8 - 1)]
  /\ block \in [Partitions -> [Slots -> Blocks \cup {NULL}]]
  /\ blocknum \in [Partitions -> [Slots -> Blocks \cup {NULL}]]
  /\ getsectsize \in Sizes /\ putsectsize \in Sizes
  /\ trans \in [type : TransferType, part : Partitions, partnum : Partitions,
                offset : Nat, numsect : Nat, sectpos : Nat, sects : Nat]
  /\ uncounted \in BOOLEAN /\ strayed \in BOOLEAN /\ intact \in BOOLEAN /\ fault \in BOOLEAN

(* Every variable has the type its declaration in cs2.h gives it.          *)
TypeOK ==
  /\ BufferTypeOK
  /\ psize \in [Partitions -> Int] /\ cdwnum \in Nat

(* Until the host deletes what is not stored, the stored sectors are held  *)
(* by pairwise distinct allocated blocks: what Cs2AllocateBlock,           *)
(* Cs2FreeBlock and Cs2SortBlocks must keep whatever the order in which    *)
(* drive and host use the partitions.                                      *)
SectorsOwnTheirBlocks ==
  ~strayed =>
    \A p, q \in Partitions : \A i \in Live(p), j \in Live(q) :
      /\ block[p][i] # NULL /\ blocksize[block[p][i]] # -1
      /\ block[p][i] = block[q][j] => p = q /\ i = j

(* Until then, and until a full selector reset discards sectors,           *)
(* blockfreespace is the number of free blocks, although no code ever      *)
(* counts them.                                                            *)
FreeSpaceIsExact == ~strayed /\ ~uncounted => blockfreespace = Cardinality(FreeBlocks)

(* isbufferfull, which stops the drive, is set only when nothing is free.  *)
FullMeansNoFreeBlock == isbufferfull /\ ~strayed /\ ~uncounted => FreeBlocks = {}

(* The program leaves its arrays or uses a null pointer only after such a  *)
(* reset, after a stray deletion, or in a transfer whose sectors are gone. *)
FaultHasACause == fault => uncounted \/ strayed \/ (trans.type # INVALID /\ ~intact)

(* A transfer of stored sectors, whose partition no command deletes from   *)
(* before it is over, addresses stored sectors only, although the drive    *)
(* and the host's other commands change the buffer between its accesses,   *)
(* and although it stays open after Cs2EndDataTransfer.                    *)
TransferStaysInPartition ==
  ~strayed /\ intact /\ trans.type # INVALID =>
    /\ trans.sectpos..(trans.sectpos + trans.sects - 1) \subseteq Live(trans.part)
    /\ trans.numsect <= trans.sects

(* The sectors of a partition, in order: what the host can see of it. *)
stored(p) == IF numblocks[p] <= MaxBlocks THEN numblocks[p] ELSE MaxBlocks

queue == [p \in Partitions |-> [i \in 1..stored(p) |-> block[p][i - 1]]]

Queues == INSTANCE SectorQueues WITH queue <- queue, broken <- strayed

(* The pool, pointer arrays and sort implement queues of sectors.          *)
ImplementsQueues == Queues!Spec

-----------------------------------------------------------------------------
(* What the comments of cs2.c promise and the code does not do. *)

(* Cs2PutSectorData: "Make sure there's enough free space". *)
FreeSpaceIsEnough == ~strayed => blockfreespace <= Cardinality(FreeBlocks)

(* Cs2ReadLong deletes a get-then-delete window because "we don't have any *)
(* more sectors to transfer": the sectors it has transferred are those.    *)
TransferReadsItsWindow ==
  ~strayed /\ intact /\ trans.type = GETDELSECTOR =>
    \A i \in 0..(trans.numsect - 1) : trans.sectpos <= i /\ i < trans.sectpos + trans.sects
=============================================================================
