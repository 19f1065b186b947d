# TLA+ specifications of Yabause

Yabause emulates the Sega Saturn: two SH-2 processors, a sound processor, two
video processors, the system control unit (SCU), the peripheral controller
(SMPC) and a CD block, which the program drives through memory-mapped
registers. One emulation thread runs the processors and steps every other part
in a fixed order (`YabauseExec` in `yabause.c`). Beside it run the threads of
the software video core, a sound thread, and the socket threads of the modem.
This directory models the parts whose order of events is hard to get right, and
checks them with TLC and TLAPS.

All paths below are relative to `src/yabause/src/`.

## The system

| Part | Code | State | Operations | What makes it correct |
|---|---|---|---|---|
| CD block buffer | `cs2.c`, `cs2.h` | 200 blocks, 24 partitions of block pointers, free count, full flag, one open transfer | store a sector, get, get-then-delete, put, delete, reset, rapid copy, end | a block holds one sector of one partition; the counts agree with the pool; a transfer of stored sectors touches only those |
| CD block commands | `cs2.c` | CR1-CR4, HIRQ, filters, play state | about 50 commands, periodic report, filter chain | an answer belongs to its command; flags are raised once; the filter chain ends |
| CD block save states | `cs2.c` | the file image | save, load | load restores what save saw |
| Software video | `vidsoft.c`, `titan/titan.c`, `vdp1.c`, `vdp2.c` | need_draw and draw_finished per thread, snapshots, two frame buffers, VIDCore | draw start, draw layers, draw end, compose, swap, frame buffer access | no thread works from a changing snapshot; what is shown is complete; frames end |
| Sound thread | `scsp2.c` | clock and target, write buffer, interrupt flag, running flag | exec, register write, sync, reset, stop | bounded lag, synchronous writes, no interrupt lost, every wait ends |
| CD audio ring | `scsp2.c` | three sectors, one index per side | receive a sector, generate samples | no sample is lost, read twice or overwritten while read |
| SCU | `scu.c` | mask, status, queue of interrupts, queue of 16 DMA transfers, DSP | raise, mask, start DMA, tick, timers | an interrupt is delivered once when unmasked; DMA transfers finish in order |
| SMPC | `smpc.c` | COMREG, SF, SR, timing, INTBACK phase, port data | command, continue, break, tick, vertical blank | SF falls for every command; peripheral data arrive complete |
| SH-2 | `sh2core.c`, `sh2int.c` | registers, interrupt queue, on-chip timers, DMA | instructions, send interrupt, DMA | the queue stays sorted by level; masked interrupts wait |
| Netlink modem | `netlink.c` | two byte buffers, modem and connection state, sockets | AT commands, socket threads | no byte lost or repeated |
| Threads | `thr-linux.c` | handle and condition variable per thread | start, sleep, wake, wait | a woken thread runs |
| Low-level CD drive | `cd_drive.c`, `ygr.c`, `sh7034.c` | drive state, serial link | command bytes, status bytes | frames stay aligned |

How they interact: the emulation thread calls everything else. The CD block
hands audio sectors to the sound ring (`ScspReceiveCDDA`), the SCU collects the
interrupts of video, sound, SMPC and CD block and sends them to the SH-2, and
the blanking handlers of `vdp2.c` start and end the frames of the video threads.
Callbacks run to completion in the emulation thread; only the video, sound and
modem threads share memory with it concurrently, through volatile flags without
locks. Hard behaviours are therefore of three kinds: interleavings with those
threads; long sequences of register accesses by the program, between which
emulated devices move on; and save states that must capture all of it. The
hazards are listed one by one in `PROJECT.json`.

## Modules

| Module | Models | State and actions |
|---|---|---|
| `Cs2Buffer` | `cs2.c`: buffer, partitions, transfers | variables carry the names of the fields; one action per command, one for a stored sector, one per data port access |
| `SectorQueues` | what the buffer promises | one queue of sectors per partition |
| `Cs2SaveState` | `Cs2SaveState`, `Cs2LoadState` over `Cs2Buffer` | one saved image, saved and loaded at any step |
| `Cs2Commands` | `cs2.c`: CR1-CR4, `Cs2Execute`, `Cs2Exec`, filters, play | one action per access of the program, per command, and per part of `Cs2Exec` |
| `VidsoftThreads` | `vidsoft.c`, `titan.c`, frame callbacks of `vdp2.c` and `vdp1.c`, `thr-linux.c` | `pc` of the emulation thread, `wpc` of every worker; each store to a shared flag is a step |
| `ScspThread` | multithreaded `scsp2.c`, `thr-linux.c` | `mpc` and `spc`; each shared access is a step |
| `CddaRing` | the CD audio ring of `scsp2.c` | writer and reader with the index each has read of the other |
| `ScuInterrupts` | `scu.c` and the interrupt queue of the SH-2 cores | two queues as sets, IST, IMS, timer 0, the DMA levels an event starts |
| `ScuDma` | the queue of timed transfers of `scu.c` | the array with its sort; insertion by the program and the DSP, one step of the first transfer, reset, save and load |
| `DmaService` | what that queue promises | the transfers that wait, the one that is served |
| `SmpcCommands` | `smpc.c` | the registers, the ports, one action per write of the program and per line of the picture |
| `Cs2BufferProofs`, `Cs2CommandsProofs`, `VidsoftThreadsProofs`, `ScspThreadProofs`, `CddaRingProofs`, `ScuInterruptsProofs`, `ScuDmaProofs`, `SmpcCommandsProofs` | theorems | |
| `MCCs2Buffer`, `MCCs2Commands`, `MCScuDma`, `MCScuInterrupts`, `MCSmpcCommands` | bounds for TLC | |

Operators named `Mut...` are small faults. They are used by no specification;
replacing the definition that follows by one of them must make the property
listed in `PROJECT.json` fail.

### Cs2Buffer

A partition is an array of block pointers (`block`), the array `blocknum` that
save states use, a count and a size. Every way to add sectors goes through
`AppendBlocks` (calls of `Cs2AllocateBlock`, which takes the lowest free block), every
deletion through `DeleteEntries` (`Cs2FreeBlock` on a window, `Cs2SortBlocks`,
and the two counts). The drive may store into any partition a filter can choose
between any two accesses of the host. Of a sector only the length is kept, in
units of one data port access; both counters wrap at their width.

Nothing is assumed of the host. Every command may come at any time, whatever
transfer is open, with any offset and count a command register holds: the code
refuses an empty partition and compares neither with `numblocks`. So a transfer
may be opened on sectors that are not there, a deletion may free entries twice
or none and take more from `numblocks` (a u8) than it holds, and both may leave
the array. What the code then does is modelled as far as it is defined: null
entries are skipped by the data port and by `Cs2FreeBlock`, counts wrap, the
size of a block that has just been freed counts as -1; a use of a null pointer or
of a place outside the array is a `fault`, after which nothing happens.

Three history variables name the causes; the code has no field for them and no
guard reads them.

* `uncounted`: `Cs2ResetSelector` by flags has freed blocks without counting them.
* `strayed`: a deletion named entries that were not stored sectors. Only a reset
  of the CD block (`Cs2Reset`) mends that.
* `intact`: the sectors of the open transfer were stored when it was opened, and
  no command has deleted from its partition since.

`SectorsOwnTheirBlocks` and the refinement hold until `strayed`,
`FreeSpaceIsExact` and `FullMeansNoFreeBlock` until `strayed` or `uncounted`,
`TransferStaysInPartition` for a transfer that is `intact`; `FaultHasACause`
says that without one of them there is no fault either.

### Cs2Commands

The program clears CMOK, writes CR1 to CR4, waits for CMOK and reads CR1 to CR4,
one word at a time: that is what the CD block asks of it. Between two accesses
`Cs2Exec` may run. It first executes a command that waits (`Execute`), then looks
at the drive (`Poll`), then reads a sector or reports (`ReadSector`, `NoSector`);
the actions of the later parts are guarded by `~pending`, since the first part
has run whenever they do. `command` (the field `_command`) keeps periodic reports
away from the words from the write to CR1 until the read of CR4.

Of a partition the module keeps the number of sectors, which is what the queues
of `SectorQueues` look like from here: `Store` is a sector joining a queue,
`TakeSector` a get-then-delete of one sector, `Drop` a deletion. Positions are
those of a disc with fewer than 16 tracks, for which the seek by track finds the
start of the track. The filter chain is followed by a recursive function that
stops after as many steps as there are filters; a chain that has not ended by
then is a circle, the loop in `Cs2FilterData` does not end, and the machine
stops (`hung`).

Not every command answers. `Cs2ScanDisc`, `Cs2GetFadSearchResults` and
`Cs2PutSectorData` raise CMOK and write none of CR1 to CR4, and
`Cs2GetSectorInfo` rejects in CR1 alone (`AnswerIn` names the words a command
writes): the program then reads its own words, and `AnswersAreWhole` says so of
each. `Cs2ResetSelector` by flags (`ResetSelectors`) empties all partitions,
clears the full flag and leaves `blockfreespace` as it was, so that the count no
longer is the number of free blocks (`Free`), the full flag may stay clear over
a full buffer, and a sector is skipped (`Store`) although a filter keeps it. The
same follows when `Cs2InitializeCDSystem` clears the full flag. `cleared` is a
history variable that is set by either, and the exception `NoSectorIsSkipped`
makes. `Cs2PutSectorData` compares with the count, and where that is too high
uses a null pointer, which also stops the machine (`hung`).

### VidsoftThreads

One worker is the VDP1 thread, the others are layers (the sprite layer is
always handed over, the rest until `NumLayerThreads` are busy) and parts of the
composed picture. A hand-over is two stores and a wake, and the order of the
stores differs: VDP1 clears `draw_finished` first, layers and parts set
`need_draw` first. `YabThreadSleep` waits without a predicate, so a wake that
comes too early is forgotten and a wait may end by itself.

### ScspThread and CddaRing

`ScspThread` keeps the two clocks, the write buffer and the interrupt flag; the
sound generator is one step. `owed` and `applied` are history variables: an
interrupt raised since the handler last ran, and how often the buffered write
was executed. `CddaRing` keeps positions in samples; `unread` and `missed` are
history variables.

### ScuInterrupts and ScuDma

Both interrupt queues are sorted arrays from which only the entry with the
highest level is taken, and neither holds a vector twice, so they are sets here;
which of two entries of one level goes first is left open. A vector may be in
both queues at once: one waits in the SCU, the mask is opened, the same vector is
raised again and goes straight to the SH-2. `credit` and `owed` are history
variables: how often a vector was raised and not taken, and whether it was raised
since it was last taken. An event carries all its consequences in one action:
the timer it steps, the DMA levels it starts, and the interrupts of their ends.

`ScuDma` keeps the array and its double loop of exchanges (`Sort`, a fold of
`Pass`, itself a fold of `Compared`), because the
code uses a pointer into the array after it was sorted (`Insert`), and its first
place is the only one served. A transfer is its count, its bus and the table of an
indirect one, each entry with a bus of its own; an entry may be empty, and its
count then runs below zero. Reset, save and load leave the queue alone, as the code does.
`answered`, `dropped`, `torn` and `runaway` are history variables.

The sort is not stable. With free places behind them the first of the waiting
transfers moves to the end of the others, and an insertion sorts twice: of two
transfers that wait and a new one, the new one is served next. A program that
inserts one transfer for each that ends can keep two others waiting for ever, in
a queue of three places or of sixteen. `TransfersEnd` therefore speaks of a
program that stops asking: all it has asked for then ends.

### SmpcCommands

A line of the picture is one action: the blanking that begins in it ends INTBACK,
then `SmpcExec` counts the time of the command down or runs it. `IREG0` is a set
of bits. The bytes of the peripheral data are numbered, so that a packet tells
which of them it carries. The program (external) obeys SF: it sets it before a
command, writes nothing while it is set but the COMREG it has announced, and
changes IREG1 only outside an INTBACK. `waiting`, `continuing` and `cutOff` are
history variables. `Reload` is a save, a restart and a load: only
`intback_wait_for_line` is not in the file.

## Runs

| Run | Checks | Shows |
|---|---|---|
| `cs2_buffer` | types, `SectorsOwnTheirBlocks`, `FreeSpaceIsExact`, `FullMeansNoFreeBlock`, `TransferStaysInPartition`, `ImplementsQueues` | holds: whatever the drive and the host do between two accesses, the arrays implement queues, until the host deletes what is not stored |
| `cs2_free_space` | `FreeSpaceIsEnough` | violated: a full reset does not restore `blockfreespace`, which then wraps |
| `cs2_save_state` | `LoadRestoresPartitions` | violated: `blocknum` is not sorted with the pointers |
| `cs2_commands` | types, `AnswersAreWhole`, `NoSectorIsSkipped`, `PlaysEnd` | holds: no report gets into a command or an answer, a play stores what the filters keep until a reset or an initialisation has made the full flag wrong, and it ends |
| `vidsoft_threads` | types, snapshots, results, target buffer, forgotten flags, frames end unless a wake or a flag is lost | holds |
| `scsp_thread` | types, lag, writes, exclusion, waits end | holds, across wrap-around of the clocks |
| `cdda_ring` | types, indices tell what is unread, nothing being read is overwritten | holds until the overflow the next run shows |
| `cdda_room` | `RoomIsLeft` | violated: the check misses the end of the ring |
| `scu_interrupts` | types, `StatusMeansQueued`, `NothingIsLost`, `NothingIsInvented`, `MaskedInterruptsWait` | holds: no interrupt is lost, taken twice or handed over masked |
| `scu_dma` | types, `FlaggedIsActive`, `DspWaitsForSomething`, `ImplementsService`, `TransfersEnd` | holds: the sorted array serves one transfer at a time and loses none but those that find it full; when the program stops asking, all end, unless a count went below zero |
| `smpc_commands` | types, `PacketsAreConsecutive`, `FirstPacketIsFresh`, `NoSilentEnd`, `ContinueKeepsItsPlace`, `CommandsEnd` | holds |
| `smpc_break` | `BreakAtOnceEnds` | violated: IREG0 = 0x41 sets no time and SF never falls |

The modules state six more promises of the code's comments that the code does
not keep; TLC finds a trace for each, and no run repeats them:
`TransferReadsItsWindow` (`Cs2Buffer`), `StartedThreadRuns` and
`DrawsThroughItsOwnCore` (`VidsoftThreads`), `StopIsHeard` and
`InterruptsStayPending` (`ScspThread`), `ActiveIsFlagged` (`ScuDma`). The findings
in `PROJECT.json` say what happens. Several properties have a condition that
leaves out a fault that is known: `~uncounted`, `~strayed`, `intact`, `~missed`,
`~torn`, `dropped = {}`, `runaway`, `~cleared`, `hung`, `~cutOff`, the sizes in
`PacketsAreConsecutive`, the lost wakes in `FramesEndUnlessWakesAreLost`. Each of
them names the one history that breaks the property, and a hazard for which such
a condition is all there is lists no property in `PROJECT.json` but a note.

### Bounds

* `cs2_buffer`: 2 blocks, 2 partitions, sectors of two units. Two blocks
  are enough for a partition with a gap to close, for a full pool and for two
  partitions competing for the last block; two units for an access that ends
  inside a sector. `U8 = U16 = U32 = 4` lets all counters wrap, and offsets and
  counts lie inside, at and beyond the array. Named bounds: `SizeLimit` (4) for the
  recorded partition sizes, which drift without bound because the code adds and
  subtracts different lengths; `MaxCopy` (2) for a rapid copy; `UncountedBound`,
  after a reset that discards sectors only `PutSectorData` opens a transfer;
  `StrayBound`, a transfer of what is not stored is open only while the other
  partition is empty; after a stray deletion only `Cs2Reset` follows. The theorems
  hold without these bounds and for several sector lengths. The `VIEW` leaves out
  what no action reads again (`MCCs2Buffer.tla` says why). `CHECK_DEADLOCK FALSE`:
  a fault stops the program.
* `cs2_commands`: 1 block, 2 filters, 3 positions of which one is audio, at most
  3 commands of 23, `repcnt` stopping at 1, a free count of three values. Three
  commands are enough to set up a filter, play, and interfere with the play, or to
  reset the selectors and store until the count wraps; one block makes the buffer
  full after every sector. `CHECK_DEADLOCK FALSE`: a circle of filters stops the
  machine, and so does a block that is not there.
* `vidsoft_threads`: 2 layers, 1 part and VDP1 make four threads, one layer
  being drawn by the emulation thread when the other has taken the slot.
* `scsp_thread`: clocks of 8 values, at most 2 cycles at once, targets raised by
  up to 3, so that lag, catching up in pieces and wrap-around all happen.
* `cdda_ring`: 3 sectors of 3 samples, up to 4 samples at once: chunks that end
  inside, at and beyond a sector.
* `scu_interrupts`: one line interrupt, which steps timer 0 and may start a DMA
  level, and the NMI; up to two raises before a vector is taken (`MaxCredit`), a
  picture of two lines (`MaxLine`). Two raises are what it takes to have a vector
  in both queues.
* `scu_dma`: 3 places, 4 transfers, counts of a three-bit width, two direct
  transfers and three tables (one that changes the bus twice, one with an odd end,
  one with an empty entry): the queue overflows, the sort has something to
  exchange, and a count runs below zero. Four transfers are too few to starve one
  for ever, which is why `TransfersEnd` promises nothing to a program that goes on
  asking; the number `n` of transfers asked for is quantified, not the bound.
* `smpc_commands`: OREG holds 2 bytes; data that fits one packet, needs two for
  port 1, or two for port 2; 6 lines, peripherals read at line 3, blanking at 4,
  so that a continue can come before, at and after each.

### Fairness

`FairSpec` of `VidsoftThreads` and of `ScspThread` assumes that the operating
system runs every thread that is not blocked (weak fairness of its steps), and
that the emulation thread, once in a call, goes on. Nothing is assumed of
spurious wakes. `VidsoftThreads` also assumes that the emulation thread reaches
the blanking handlers again and again (strong fairness of `VBlankIN` and
`VBlankOUT`): `YabauseExec` advances the line counter whatever the program does,
so draws and frame buffer accesses cannot put the next blanking off for ever.
`ScuDma` and `SmpcCommands` assume weak fairness of `Tick` and `Line`:
`YabauseExec` calls `ScuExec` and `SmpcExec` for every line.

`Cs2Commands` assumes that a program that has begun a command finishes it and
that it takes the sectors that are stored, that `Cs2Exec`, called on every line,
executes a command and polls the drive (weak fairness), and that a sector which
can be read again and again is read (strong fairness, since the full buffer and
waiting commands interrupt the reading).

## Proofs

All theorems hold for every value of the constants that satisfies the assumption
named in the component's module; the last step of each is `Invariance` or the
three facts about the inductive invariant, joined by `PTL`. Every safety property
of a passing run is a theorem. Theorems without a property in the table state more
than a run checks.

| Module | Theorem | Property |
|---|---|---|
| `Cs2BufferProofs` | `TypesHold` | `TypeOK` |
| | `PositionStaysInside` | |
| | `StoredSectorsAreSafe` | `SectorsOwnTheirBlocks` |
| | `FreeSpaceCounts` | `FreeSpaceIsExact` |
| | `FullFlagIsHonest` | `FullMeansNoFreeBlock` |
| | `NoFaultWithoutCause` | `FaultHasACause` (no run) |
| | `TransfersStayInside` | `TransferStaysInPartition` |
| | `BufferImplementsQueues` | `ImplementsQueues` |
| `Cs2CommandsProofs` | `TypesHold` | `TypeOK` |
| | `HangsHold` | |
| | `AnswersHold` | `AnswersAreWhole` |
| | `SectorsAreStored` | `NoSectorIsSkipped` |
| `VidsoftThreadsProofs` | `TypesAreKept` | `TypeOK` |
| | `SnapshotsStayStable` | `SnapshotsAreStable` |
| | `FramesAreComplete` | `ResultsAreComplete` |
| | `PictureStaysOnItsBuffer` | `PictureLandsInItsBuffer` |
| | `Vdp1IsRemembered` | `Vdp1IsNotForgotten` |
| `ScspThreadProofs` | `TypesAreKept` | `TypeOK` |
| | `LagStaysBounded` | `LagIsBounded` |
| | `WritesFinish` | `WritesAreSynchronous` |
| | `ExclusionHolds` | `ExclusiveIsAlone` |
| `CddaRingProofs` | `IndicesStayInside` | `TypeOK` |
| | `IndicesAreHonest` | `IndicesTellUnread` |
| | `ReadsAreSafe` | `NothingReadIsOverwritten` |
| `ScuInterruptsProofs` | `TypesHold` | `TypeOK` |
| | `StatusIsHonest` | `StatusMeansQueued` |
| | `InterruptsAreKept` | `NothingIsLost` |
| | `InterruptsArePaidFor` | `NothingIsInvented` |
| | `MaskIsObeyed` | `MaskedInterruptsWait` |
| `ScuDmaProofs` | `SortSorts` | |
| | `TypesHold` | `TypeOK` |
| | `FlagsAreHonest` | `FlaggedIsActive` |
| | `DspIsServed` | `DspWaitsForSomething` |
| | `QueueImplementsService` | `ImplementsService` |
| `SmpcCommandsProofs` | `TypesHold` | `TypeOK` |
| | `NoInterruptIsLost` | `NoSilentEnd` |
| | `ContinuesAreInTime` | `ContinueKeepsItsPlace` |
| | `PacketsJoin` | `PacketsAreConsecutive` |
| | `FirstPacketsAreFresh` | `FirstPacketIsFresh` |

### Induction and sums

The induction theorems of the library take an operator for the predicate, which
the provers here cannot instantiate. The modules use a set instead: `Induction` (a
set of naturals that holds 0 and every successor is `Nat`) comes from `WFMin` and
`NatLessThanWellFounded`, `SubsetInduction` does the same for the subsets of a
finite set. A recursive function or a fold is first rewritten as the function of
its steps (`SumIsALoop`, `TotalIsALoop`, `ChainIsALoop`, `SortIsALoop`), about which
the set of steps where a statement holds is then shown to be everything.

### The buffer (`Cs2BufferProofs`)

Assumed: `BoundsAssumption` (counters wider than the number of blocks),
`SizesAssumption`; nothing of the host. None of the properties is inductive
alone, and they do not all hold equally long, so the invariant has layers, each
proved with the help of the one before:

1. `Typed`, always: the types, whatever a stray deletion has done to the arrays.
2. `PoolInv`, until `strayed`: the live entries of all partitions are distinct
   and allocated (`SectorsAreApart`), so that freeing an entry frees a block no
   other entry holds and the count rises by exactly the number of entries freed;
   the free count is exact until `uncounted` (`CountIsExact`), so that a full flag
   set at zero means no free block (`FullIsHonest`).
3. `Placed`: the window of an `intact` transfer lies inside its partition.
   Stores only add behind it, deletions from other partitions do not move it, and
   a command that deletes from its own clears `intact`.
4. `IInv`: where such a transfer has got to (`PositionIsInside`), and
   `FaultHasACause`.

`PositionIsInside` says that the offset points at a unit of the sector the
transfer has reached, or is 0 behind the last one. It is kept because the sectors
of an `intact` transfer stay where they are (`StoredKept`), and it is what keeps a
rapid copy, which compares sizes without a sign, from running off the end
(`CopyEndsInside`). Helper lemmas say what `SortBlocks` returns for an array with
one gap (`SortClosesGap`), and how the cardinality of the free blocks changes when
blocks are taken or freed.

The refinement maps `strayed` to `broken`, with which `SectorQueues` says that the
queues are no longer what the commands say. Up to there every step is shown to be
one of the queues or a stutter: k allocated blocks are k sectors joining one queue,
freeing a stored window and sorting takes that range out of one queue
(`StoredWindow`, `StoredDeletion`), and the pointer which reading a directory leaves
behind the last entry is seen by no queue (`KeptQueues`). `StrayedStays`: only
`Cs2Reset` ends `strayed`, and it empties every queue.

### Commands (`Cs2CommandsProofs`)

`IInv` says for each phase of the program what holds of the registers: while it
writes, CMOK is clear, no command waits and the words written are there; while
it waits, periodic reports are off, and the words are its command or the answer;
while it reads, they are what `Expected` says of the command. For
`SectorsAreStored`, `BInv` says that the partitions never hold more sectors than
there are blocks, that `blockfreespace` counts the blocks they leave and that a
buffer that is not called full has room, both until `cleared`, and that filters
lead to partitions. A step changes one partition or empties all, and
`TotalOfUpdate` says what that does to the sum over all of them. `TInv` adds the
other types.

`HangsHold` justifies the definition of `Loops`, a walk that has not ended after as
many steps as there are filters: a walk that long has met a filter twice
(`LoopsIsEndless`, from the cardinality of the filters met), so what it met is a
circle of filters that refuse the sector, and the code's loop has no end.

### Video threads (`VidsoftThreadsProofs`)

For any number of layers, parts and layer threads (`ThreadsAssumption`).
`FlagInv`: a worker whose `draw_finished` is set is not working, except between
the two stores of its start (`Halfway`). `Vdp1Inv`: VDP1 clears `draw_finished`
first, so it is clear only while there is a job, and the back buffer stays while
there is one. `LayersInv`, `PartsInv` and `MainInv` follow the emulation thread
through a frame: which workers it has waited for, and which it has not started.

### Sound thread and CD audio (`ScspThreadProofs`, `CddaRingProofs`)

For every clock width, bound on cycles and step of the target
(`ClockAssumption`), `WriteInv` follows a register write
through its stages (data stored, size stored, executed, cleared): while the
size is set and the thread has not reached the clearing store, the write has not
been executed; once it has, it has been executed once with the value of this
call. `ClockInv` says that the lag is at most `MaxExec + MaxStep`, at most
`MaxExec` outside the catching-up of `ScspExec`, that the cycles the thread is
executing are part of the lag, and that the clocks are equal in an exclusive
call; `LagGrows` and `LagShrinks` do the arithmetic of clocks that wrap.

For the ring (`RingAssumption`), `RingInv` says, until a full ring is missed,
that the distance from the reader to the writer (`Ahead`) is what is unread, that
the reader's index which the writer has seen is not ahead of the reader, that a
sector being copied does not contain it, and that a chunk being read lies inside
what is unread.

### SCU and SMPC (`ScuInterruptsProofs`, `ScuDmaProofs`, `SmpcCommandsProofs`)

The invariant of `ScuInterrupts` joins its properties with `OneEntryPerVector`:
the SH-2 holds no vector twice, so that taking one removes it and pays one
credit. `MaskedInterruptsWait` is an action property and follows step by step.

`scu_sort_dma` compares each place with every place, before it and after it, and
exchanges them when the first has the larger status. It sorts all the same
(`SortSorts`), for any number of places: after each pass the places passed
are in order and the last of them holds the smallest status of all (`PassInv`; `ComparisonKeepsOrder` is one
comparison, `PassKeepsOrder` one pass). `IInv` of `ScuDma` says that the entries are
transfers that were asked for, none of them twice and at most one active
(`Valid`), that the queue is sorted and the first place active if anything waits
(`Served`), and what DSTA and T0 mean. `AfterInsert` follows the pointer into the array after the sort.
Each action maps to one of `DmaService` (`InsertStep`, `DspStep`, `MoveStep`,
`EndStep`) or a stutter (`OtherSteps`).

For `SmpcCommands` there are two invariants. `Ends`: a time runs only under a set
SF; what waits is an INTBACK that will raise its interrupt even when the blanking
ends it; an early continue has `waitForLine` set and the line before `WaitLine`.
`Holds` is about the data: what the ports hold is exactly what the packets have
not delivered (`Left`), and an INTBACK that has not begun finds nothing left over
(`CleanStart`). `PortGivesRest`, `PortFillsRoom` and `PacketParts` say which bytes
a packet carries; `PacketKeeps` joins them.

### Only model-checked

* All liveness (`PlaysEnd`, `FramesEndUnlessWakesAreLost`, `MainNeverHangs`,
  `TransfersEnd`, `CommandsEnd`): TLAPS does not reason about fairness.
* `Cs2SaveState`, whose one property is violated.
* The order in which transfers of one status are served is left open by
  `DmaService`, since the sort is not stable.

## Not modelled

| What | Why |
|---|---|
| Netlink modem (`netlink.c`) | AT commands are sequential parsing of strings. The byte buffers are changed by the emulation thread and the socket threads without lock, order or test for room; no rule about them is kept that a property could state |
| Low-level CD drive (`cd_drive.c`, `ygr.c`, `sh7034.c`) | the behaviour is in the firmware a CPU interpreter runs, which is not in the source |
| First SCSP (`scsp.c`) | one thread; the build picks it or `scsp2.c`, whose threads are modelled |
| Scheduler (`yabause.c`, `memory.c`) | a loop that calls the components in a fixed order; the order is in the modules |
| SH-2, 68000 and DSP interpreters, recompilers | tables of data operations and code generators; on-chip DMA and timers enter as sources of interrupts |
| OpenGL cores, pixels, samples | data transformations, through a driver in one thread |
| CD images, peripherals, cartridges, cheats, front ends | file formats, small tables, user interfaces |
| `DeInit` of the video threads, VDP1 thread switched while drawing | the threads never stop and settings do not change while the program runs; listed as hazards |
| Subcode, file system and MPEG commands, HIRQ flags other than CMOK and PEND | they answer from tables; what they do to the buffer is in `Cs2Buffer` |
| SMPC clock changes and direct port access | a clock change resets the SCU, which `ScuInterrupts` has as `Reset` |

Most lines of the repository are interpreters, renderers, third-party libraries
and user interfaces; the models cover the control of `cs2.c`, `scu.c`, `smpc.c`,
`scsp2.c` and of the threads of `vidsoft.c`.

## Where to go on

1. A theorem that the sector counts of `Cs2Commands` are what `SectorQueues`
   looks like from there, or `Cs2Commands` composed with `Cs2Buffer` itself instead of its sector counts.
2. `VidsoftThreads` with the VDP1 thread switched off and on, and `DeInit`.
