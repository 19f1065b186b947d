---------------------------- MODULE Cs2Commands ----------------------------
(***************************************************************************)
(* The command registers of the CD block and what the drive does meanwhile *)
(* (cs2.c).  The program writes CR1 to CR4, waits for CMOK and reads CR1   *)
(* to CR4, one access at a time; between any two of them Cs2Exec may run   *)
(* the command, look at the drive, read a sector and overwrite CR1 to CR4  *)
(* with a periodic report.                                                 *)
(*                                                                         *)
(* A partition is the number of its sectors; Cs2Buffer says what it holds. *)
(* Of a word only the sort is kept, of HIRQ the flags CMOK and PEND.  Of   *)
(* the commands that do not finish what they should do and that differ in  *)
(* nothing kept here, one stands for all.                                  *)
(***************************************************************************)
EXTENDS Integers, FiniteSets, Functions

CONSTANTS
  Filters,      \* the numbers of filters and of partitions
  NumBlocks,    \* blocks of the buffer, 200
  U32,          \* how many values blockfreespace has
  LeadOut,      \* the first position behind the disc
  Audio,        \* the positions that hold audio
  RepeatCap,    \* where repcnt stops counting, 0xE
  Drives,       \* what cdi->GetStatus may tell
  Program,      \* the commands the program uses
  MaxCommands   \* how many it gives

Sectors == 0..(LeadOut - 1)
Nowhere == LeadOut + 1            \* a position of all ones
Forever == RepeatCap + 1          \* a number of repeats that repcnt does not reach
NoCount == RepeatCap + 2          \* the repcnt of 0xFF
NoFilter == 255                   \* 0xFF

(* Starts of a play that are no position. *)
Same == -1
Pickup == -2

(* What a program may ask for, with the positions and lengths of its disc. *)
Commands ==
  [op : {"ask", "toc", "init", "tray", "scan", "search", "stop", "abort", "disconnect",
         "reconnect"}]
  \cup [op : {"seek"}, fad : Sectors]
  \cup [op : {"play"}, start : Sectors \cup {Same, Pickup}, move : BOOLEAN,
        length : -1..LeadOut, repeat : -1..Forever]
  \cup [op : {"file"}, fad : Sectors, length : 1..LeadOut, filter : Filters]
  \cup [op : {"connect", "empty"}, filter : Filters]
  \cup [op : {"true"}, filter : Filters, to : Filters]
  \cup [op : {"false"}, filter : Filters, to : Filters \cup {NoFilter}]
  \cup [op : {"accept"}, filter : Filters, sectors : SUBSET Sectors]
  \cup [op : {"reset"}, flags : SUBSET {"false", "true", "conditions", "data"}]
  \cup [op : {"put", "info"}, filter : Filters, sectors : Nat]

ASSUME CommandsAssumption ==
  /\ Filters \subseteq 0..(NoFilter - 1) /\ Filters # {} /\ NumBlocks \in Nat \ {0}
  /\ U32 \in Nat /\ U32 > NumBlocks
  /\ LeadOut \in Nat \ {0} /\ Audio \subseteq Sectors /\ RepeatCap \in Nat
  /\ "disc" \in Drives /\ Drives \subseteq {"disc", "OPEN", "NODISC"}
  /\ Program \subseteq Commands /\ MaxCommands \in Nat

VARIABLES
  cr,             \* CR1 to CR4: the sort of each word
  hirq,
  status,
  peri,           \* CDB_STAT_PERI of status
  command,        \* _command
  pending,        \* _commandtiming is not zero
  FAD, playFAD, playendFAD,
  repcnt, maxrepeat,
  outconcddev,
  filter,         \* the sectors each filter accepts, condtrue and condfalse
  partition,      \* numblocks of each partition
  blockfreespace,
  isbufferfull,
  drive,          \* what cdi->GetStatus tells
  phase, word,    \* the program: what it does, and with which word
  cmd,            \* its command
  given,          \* how many it has given
  cleared,        \* the full flag was cleared over a full buffer, or the count
                  \* of free blocks kept over sectors that are gone
  hung            \* a loop does not end, or a null pointer was used

registers == <<cr, hirq, command, pending>>
state == <<status, peri>>
play == <<FAD, playFAD, playendFAD, repcnt, maxrepeat>>
buffer == <<partition, blockfreespace, isbufferfull, cleared>>
selector == <<outconcddev, filter>>
program == <<phase, word, cmd, given>>
vars == <<registers, state, play, buffer, selector, drive, program, hung>>

Statuses == {"PAUSE", "PLAY", "STANDBY", "SCAN", "OPEN", "NODISC"}
NoCommand == [op |-> "none"]
Words == 1..4
All(sort) == [i \in Words |-> sort]

(* No disc: the tray is open, or empty. *)
Absent == {"OPEN", "NODISC"}

OpenFilter(f) == [sectors |-> Sectors, condtrue |-> f, condfalse |-> NoFilter]
-----------------------------------------------------------------------------
(* The buffer.  Mutants are prefixed with Mut; each changes the definition *)
(* it precedes.                                                            *)
(* The blocks that are free, which blockfreespace counts.                  *)
Free == NumBlocks - FoldFunction(+, 0, partition)

(* Cs2AllocateBlock: n sectors get the blocks they need.  This one sees    *)
(* too late that the buffer is full.                                       *)
MutKeep(p, n) ==
  /\ partition' = [partition EXCEPT ![p] = @ + n]
  /\ blockfreespace' = (blockfreespace - n) % U32
  /\ isbufferfull' = isbufferfull

Keep(p, n) ==
  /\ partition' = [partition EXCEPT ![p] = @ + n]
  /\ blockfreespace' = (blockfreespace - n) % U32
  /\ isbufferfull' = (isbufferfull \/ blockfreespace \in 1..n)

(* Cs2FilterData: a sector is stored if a block is free, and is lost       *)
(* otherwise.                                                              *)
Store(p) ==
  IF Free > 0 THEN Keep(p, 1) ELSE isbufferfull' = TRUE /\ UNCHANGED <<partition, blockfreespace>>

(* Cs2FreeBlock: n sectors of a partition go. *)
Drop(p, n) ==
  /\ partition' = [partition EXCEPT ![p] = @ - n]
  /\ blockfreespace' = (blockfreespace + n) % U32
  /\ isbufferfull' = (isbufferfull /\ n = 0)
-----------------------------------------------------------------------------
(* Cs2FilterData: from the filter of the drive along the false connectors. *)
Accepts(f, fad) == fad \in filter[f].sectors

Chain(fad) ==
  LET at[n \in 0..Cardinality(Filters)] ==
        IF n = 0 THEN outconcddev
        ELSE LET f == at[n - 1]
             IN  IF f = NoFilter \/ Accepts(f, fad) THEN f ELSE filter[f].condfalse
  IN  at[Cardinality(Filters)]

Loops(fad) == Chain(fad) \in Filters /\ ~Accepts(Chain(fad), fad)

(* The partition a sector goes to, if any. *)
Destination(fad) ==
  IF Chain(fad) \in Filters /\ ~Loops(fad) THEN filter[Chain(fad)].condtrue ELSE NoFilter
-----------------------------------------------------------------------------
Init ==
  /\ cr = All("boot") /\ hirq = {"CMOK", "PEND"} /\ status = "PAUSE" /\ peri = FALSE
  /\ command = FALSE /\ pending = FALSE
  /\ FAD = 0 /\ playFAD = Nowhere /\ playendFAD = Nowhere /\ repcnt = 0 /\ maxrepeat = 0
  /\ outconcddev = NoFilter /\ filter = [f \in Filters |-> OpenFilter(f)]
  /\ partition = [f \in Filters |-> 0] /\ blockfreespace = NumBlocks /\ isbufferfull = FALSE /\ drive = "disc"
  /\ phase = "idle" /\ word = 1 /\ cmd = NoCommand /\ given = 0
  /\ cleared = FALSE /\ hung = FALSE

(* Cs2Reset, with the reset of the machine that starts the program anew.   *)
(* It leaves outconcddev alone.                                            *)
Reset ==
  /\ cr' = All("boot") /\ hirq' = {"CMOK", "PEND"} /\ command' = FALSE /\ pending' = FALSE
  /\ status' = (IF drive = "disc" THEN "PAUSE" ELSE drive) /\ peri' = FALSE
  /\ FAD' = (IF drive = "disc" THEN 0 ELSE Nowhere)
  /\ repcnt' = (IF drive = "disc" THEN 0 ELSE NoCount)
  /\ playFAD' = Nowhere /\ playendFAD' = Nowhere /\ maxrepeat' = 0
  /\ filter' = [f \in Filters |-> OpenFilter(f)]
  /\ partition' = [f \in Filters |-> 0] /\ blockfreespace' = NumBlocks /\ isbufferfull' = FALSE
  /\ phase' = "idle" /\ word' = 1 /\ cmd' = NoCommand
  /\ cleared' = FALSE
  /\ UNCHANGED <<outconcddev, drive, given, hung>>
-----------------------------------------------------------------------------
(* The program: it clears CMOK, writes the words, waits, reads the words.  *)
Begin(c) ==
  /\ phase = "idle" /\ given < MaxCommands
  /\ hirq' = hirq \ {"CMOK"}
  /\ phase' = "writing" /\ cmd' = c /\ given' = given + 1
  /\ UNCHANGED <<cr, command, pending, state, play, buffer, selector, drive, word, hung>>

(* The write to CR1 leaves periodic reports on. *)
MutTaken == command

Taken == command \/ word = 1

Write ==
  /\ phase = "writing"
  /\ cr' = [cr EXCEPT ![word] = "host"]
  /\ peri' = (peri /\ word # 1)
  /\ command' = Taken
  /\ pending' = (word = 4)
  /\ phase' = IF word = 4 THEN "waiting" ELSE "writing"
  /\ word' = IF word = 4 THEN 1 ELSE word + 1
  /\ UNCHANGED <<hirq, status, play, buffer, selector, drive, cmd, given, hung>>

SeeAnswer ==
  /\ phase = "waiting" /\ "CMOK" \in hirq /\ phase' = "reading"
  /\ UNCHANGED <<registers, state, play, buffer, selector, drive, word, cmd, given, hung>>

(* The read of CR4 lets periodic reports go on. *)
Read ==
  /\ phase = "reading"
  /\ command' = (command /\ word # 4)
  /\ phase' = IF word = 4 THEN "idle" ELSE "reading"
  /\ word' = IF word = 4 THEN 1 ELSE word + 1
  /\ cmd' = IF word = 4 THEN NoCommand ELSE cmd
  /\ UNCHANGED <<cr, hirq, pending, state, play, buffer, selector, drive, given, hung>>

(* The program clears PEND once it has seen it. *)
Acknowledge ==
  /\ phase = "idle" /\ "PEND" \in hirq /\ hirq' = hirq \ {"PEND"}
  /\ UNCHANGED <<cr, command, pending, state, play, buffer, selector, drive, program, hung>>

(* The program takes a sector: get, then delete, of Cs2Buffer. *)
TakeSector(p) ==
  /\ phase = "idle" /\ partition[p] > 0 /\ Drop(p, 1)
  /\ UNCHANGED <<registers, state, play, cleared, selector, drive, program, hung>>
-----------------------------------------------------------------------------
(* Cs2Execute: one action per command.  Most answer in CR1 to CR4 (only a  *)
(* report whose status has PERI would look like a periodic one), some in   *)
(* CR1 alone, some not at all: then the program's own words stay there.    *)
Executes(ops) == pending /\ cmd.op \in ops

AnswerIn(words, flags) ==
  /\ cr' = [i \in Words |-> IF i \notin words THEN cr[i]
                            ELSE IF i = 1 /\ peri' THEN "report" ELSE "answer"]
  /\ hirq' = flags \cup {"CMOK"}
  /\ pending' = FALSE /\ UNCHANGED <<command, program, drive>>

Answer(flags) == AnswerIn(Words, flags) /\ UNCHANGED hung

Ask ==
  /\ Executes({"ask"}) /\ UNCHANGED <<state, play, buffer, selector>> /\ Answer(hirq)

(* Cs2GetToc, Cs2GetSessionInfo: they pause the drive. *)
GetToc ==
  /\ Executes({"toc"}) /\ status' = "PAUSE" /\ peri' = FALSE
  /\ UNCHANGED <<play, buffer, selector>> /\ Answer(hirq)

InitializeCDSystem ==
  /\ Executes({"init"})
  /\ IF status \in Absent THEN UNCHANGED <<state, FAD>>
     ELSE status' = "PAUSE" /\ peri' = FALSE /\ FAD' = 0
  /\ isbufferfull' = FALSE /\ cleared' = (cleared \/ Free = 0)
  /\ UNCHANGED <<playFAD, playendFAD, repcnt, maxrepeat, partition, blockfreespace, selector>>
  /\ Answer(hirq \ {"PEND"})

OpenTray ==
  /\ Executes({"tray"}) /\ status' = "OPEN" /\ peri' = FALSE
  /\ UNCHANGED <<play, buffer, selector>> /\ Answer({})

ScanDisc ==
  /\ Executes({"scan"}) /\ status' = "SCAN" /\ peri' = FALSE
  /\ UNCHANGED <<play, buffer, selector, hung>> /\ AnswerIn({}, hirq)

(* Cs2GetFadSearchResults and Cs2MpegSetLSI, which are not finished. *)
GetFadSearchResults ==
  /\ Executes({"search"}) /\ UNCHANGED <<state, play, buffer, selector, hung>>
  /\ AnswerIn({}, hirq)

(* Cs2GetSectorInfo of the sector cmd.sectors: rejected in CR1 only. *)
GetSectorInfo ==
  /\ Executes({"info"}) /\ UNCHANGED <<state, play, buffer, selector, hung>>
  /\ AnswerIn(IF cmd.sectors < partition[cmd.filter] THEN Words ELSE {1}, hirq)

(* Cs2PutSectorData: the number of sectors is compared with the count; a   *)
(* block that is not there is written to all the same.                     *)
PutSectorData ==
  /\ Executes({"put"})
  /\ hung' = (cmd.sectors <= blockfreespace /\ cmd.sectors > Free)
  /\ IF cmd.sectors <= blockfreespace /\ ~hung'
     THEN Keep(cmd.filter, cmd.sectors)
     ELSE UNCHANGED <<partition, blockfreespace, isbufferfull>>
  /\ UNCHANGED <<state, play, cleared, selector>> /\ AnswerIn({}, hirq)

AbortFile ==
  /\ Executes({"abort"})
  /\ IF status \in Absent THEN UNCHANGED state ELSE status' = "PAUSE" /\ peri' = FALSE
  /\ UNCHANGED <<play, buffer, selector>> /\ Answer(hirq)

(* Cs2PlayDisc.  The start may stay (Same), the pickup need not move to    *)
(* the start, and by track (Pickup) playFAD stays then too.  A length of   *)
(* zero plays to the lead-out; -1 keeps the end, or the number of repeats. *)
PlayDisc ==
  /\ Executes({"play"})
  /\ playFAD' = IF cmd.start \in Sectors THEN cmd.start ELSE playFAD
  /\ FAD' = IF cmd.start \in Sectors /\ cmd.move THEN cmd.start ELSE FAD
  /\ repcnt' = IF cmd.start = Same THEN repcnt ELSE 0
  /\ maxrepeat' = IF cmd.repeat = -1 THEN maxrepeat ELSE cmd.repeat
  /\ playendFAD' = CASE cmd.length = -1 -> playendFAD [] cmd.length = 0 -> LeadOut
                     [] OTHER -> (playFAD' + cmd.length) % (Nowhere + 1)
  /\ status' = "PLAY" /\ peri' = FALSE
  /\ UNCHANGED <<buffer, selector>> /\ Answer(hirq)

(* Cs2ReadFile *)
ReadFile ==
  /\ Executes({"file"})
  /\ playFAD' = cmd.fad /\ FAD' = cmd.fad
  /\ playendFAD' = (cmd.fad + cmd.length) % (Nowhere + 1)
  /\ repcnt' = 0 /\ maxrepeat' = 0 /\ outconcddev' = cmd.filter
  /\ status' = "PLAY" /\ peri' = FALSE
  /\ UNCHANGED <<buffer, filter>> /\ Answer(hirq)

(* Cs2SeekDisc, to a position or, as an "error", to stop. *)
SeekDisc ==
  /\ Executes({"seek", "stop"})
  /\ IF cmd.op = "seek" THEN status' = "PAUSE" /\ FAD' = cmd.fad /\ repcnt' = 0
     ELSE status' = "STANDBY" /\ FAD' = Nowhere /\ repcnt' = NoCount
  /\ peri' = FALSE
  /\ UNCHANGED <<playFAD, playendFAD, maxrepeat, buffer, selector>> /\ Answer(hirq)

(* Cs2SetCDDeviceConnection, which also runs for the command that asks     *)
(* for the connection (0x31): there CR3 is zero, the first filter.         *)
SetCDDeviceConnection ==
  /\ Executes({"connect", "disconnect", "reconnect"})
  /\ outconcddev' = CASE cmd.op = "connect" -> cmd.filter
                      [] cmd.op = "disconnect" -> NoFilter
                      [] OTHER -> CHOOSE f \in Filters : \A g \in Filters : f <= g
  /\ UNCHANGED <<state, play, buffer, filter>> /\ Answer(hirq)

(* Cs2SetFilterConnection, and the commands that set its conditions. *)
SetFilter ==
  /\ Executes({"true", "false", "accept"})
  /\ filter' = CASE cmd.op = "true" -> [filter EXCEPT ![cmd.filter].condtrue = cmd.to]
                 [] cmd.op = "false" -> [filter EXCEPT ![cmd.filter].condfalse = cmd.to]
                 [] OTHER -> [filter EXCEPT ![cmd.filter].sectors = cmd.sectors]
  /\ UNCHANGED <<state, play, buffer, outconcddev>> /\ Answer(hirq)

(* Cs2ResetSelector of one partition *)
ResetSelector ==
  /\ Executes({"empty"})
  /\ partition' = [partition EXCEPT ![cmd.filter] = 0]
  /\ blockfreespace' = (blockfreespace + partition[cmd.filter]) % U32
  /\ isbufferfull' = (isbufferfull /\ partition[cmd.filter] = 0 /\ blockfreespace' = 0)
  /\ UNCHANGED <<state, play, cleared, selector>> /\ Answer(hirq)

(* Cs2ResetSelector by flags, of all the filters and partitions.  The      *)
(* blocks become free and are not counted.                                 *)
ResetSelectors ==
  /\ Executes({"reset"})
  /\ filter' = [f \in Filters |->
       [sectors   |-> IF "conditions" \in cmd.flags THEN Sectors ELSE filter[f].sectors,
        condtrue  |-> IF "true" \in cmd.flags THEN f ELSE filter[f].condtrue,
        condfalse |-> IF "false" \in cmd.flags THEN NoFilter ELSE filter[f].condfalse]]
  /\ IF "data" \in cmd.flags
     THEN /\ partition' = [f \in Filters |-> 0] /\ isbufferfull' = FALSE
          /\ cleared' = (cleared \/ Free < NumBlocks) /\ UNCHANGED blockfreespace
     ELSE UNCHANGED buffer
  /\ UNCHANGED <<state, play, outconcddev>> /\ Answer(hirq)

Execute ==
  Ask \/ GetToc \/ InitializeCDSystem \/ OpenTray \/ ScanDisc \/ AbortFile \/ PlayDisc
    \/ ReadFile \/ SeekDisc \/ SetCDDeviceConnection \/ SetFilter \/ ResetSelector
    \/ ResetSelectors \/ GetFadSearchResults \/ GetSectorInfo \/ PutSectorData
-----------------------------------------------------------------------------
(* The rest of Cs2Exec.  A command that waits is run first, so what        *)
(* follows happens only when none does.                                    *)

(* The drive is looked at once a second. *)
Poll ==
  /\ ~pending
  /\ IF drive = "disc" THEN status \in Absent /\ status' = "PAUSE"
     ELSE status # drive /\ status' = drive
  /\ peri' = FALSE
  /\ UNCHANGED <<registers, play, buffer, selector, drive, program, hung>>

(* A periodic report, unless a command or its answer is in CR1 to CR4.     *)
Reports == ~command

Report ==
  IF Reports THEN peri' = TRUE /\ cr' = All("report") ELSE UNCHANGED <<peri, cr>>

AtEnd == FAD + 1 >= playendFAD

MutFinished == repcnt > maxrepeat

Finished == repcnt >= maxrepeat

MutCounted == repcnt + 1

Counted == IF repcnt < RepeatCap THEN repcnt + 1 ELSE repcnt

(* After a sector was read: the next one, a repeat, or the end.            *)
Advance ==
  \/ ~AtEnd /\ FAD' = FAD + 1 /\ UNCHANGED <<status, hirq, repcnt>>
  \/ AtEnd /\ Finished /\ FAD' = FAD + 1 /\ status' = "PAUSE"
     /\ hirq' = hirq \cup {"PEND"} /\ repcnt' = repcnt
  \/ AtEnd /\ ~Finished /\ FAD' = playFAD /\ UNCHANGED <<status, hirq>>
     /\ repcnt' = Counted

Reads ==
  /\ ~pending /\ status = "PLAY" /\ outconcddev # NoFilter /\ ~isbufferfull
  /\ drive = "disc" /\ FAD \in Sectors

(* CDB_STAT_PLAY: a sector is read and stored, sent to the sound           *)
(* processor, or dropped because no filter accepts it.                     *)
ReadSector ==
  /\ Reads
  /\ FAD \in Audio \/ ~Loops(FAD)
  /\ IF FAD \notin Audio /\ Destination(FAD) # NoFilter
     THEN Store(Destination(FAD)) ELSE UNCHANGED <<partition, blockfreespace, isbufferfull>>
  /\ Advance /\ Report
  /\ UNCHANGED <<playFAD, playendFAD, maxrepeat, command, pending, cleared, selector, drive,
                 program, hung>>

(* The filters lead in a circle. *)
Hang ==
  /\ Reads /\ FAD \notin Audio /\ Loops(FAD) /\ hung' = TRUE
  /\ UNCHANGED <<registers, state, play, buffer, selector, drive, program>>

(* Nothing is read: the drive does not play, has no filter or no room, or  *)
(* the sector cannot be read this time.                                    *)
NoSector ==
  /\ ~pending /\ Report
  /\ UNCHANGED <<hirq, command, pending, status, play, buffer, selector, drive, program, hung>>

(* The disc is taken out or put in, the tray opened. *)
ChangeDrive(d) ==
  /\ drive # d /\ drive' = d
  /\ UNCHANGED <<registers, state, play, buffer, selector, program, hung>>

Next ==
  /\ ~hung
  /\ \/ Reset \/ Write \/ SeeAnswer \/ Read \/ Acknowledge \/ Execute
     \/ Poll \/ ReadSector \/ Hang \/ NoSector
     \/ \E c \in Program : Begin(c)
     \/ \E p \in Filters : TakeSector(p)
     \/ \E d \in Drives : ChangeDrive(d)

Spec == Init /\ [][Next]_vars

(* The program goes on with what it began and takes what is stored;        *)
(* Cs2Exec runs; a disc that is there is read now and then.                *)
FairSpec ==
  /\ Spec
  /\ WF_vars(~hung /\ (Write \/ SeeAnswer \/ Read))
  /\ WF_vars(~hung /\ \E p \in Filters : TakeSector(p))
  /\ WF_vars(~hung /\ Execute) /\ WF_vars(~hung /\ Poll)
  /\ SF_vars(~hung /\ (ReadSector \/ Hang))
-----------------------------------------------------------------------------
TypeOK ==
  /\ cr \in [Words -> {"boot", "host", "answer", "report"}]
  /\ hirq \subseteq {"CMOK", "PEND"} /\ status \in Statuses
  /\ {peri, command, pending, isbufferfull, cleared, hung} \subseteq BOOLEAN
  /\ {FAD, playFAD, playendFAD} \subseteq 0..Nowhere
  /\ repcnt \in (0..RepeatCap) \cup {NoCount} /\ maxrepeat \in 0..Forever
  /\ outconcddev \in Filters \cup {NoFilter}
  /\ filter \in [Filters -> [sectors : SUBSET Sectors, condtrue : Filters,
                             condfalse : Filters \cup {NoFilter}]]
  /\ partition \in [Filters -> 0..NumBlocks]
  /\ blockfreespace \in 0..(U32 - 1) /\ Free >= 0 /\ (~cleared => blockfreespace = Free)
  /\ drive \in Drives
  /\ phase \in {"idle", "writing", "waiting", "reading"} /\ word \in Words
  /\ cmd \in Program \cup {NoCommand} /\ given \in 0..MaxCommands

(* The commands that answer nothing, and the one that may answer in CR1    *)
(* alone: what a program reads of word i after it.                         *)
Silent == {"scan", "search", "put"}

Rejected == cmd.op = "info" /\ cr[4] = "host"

Expected(i) ==
  IF cmd.op \in Silent \/ (Rejected /\ i # 1) THEN "host" ELSE "answer"

(* What is executed is the command the program wrote, and what it reads is *)
(* the answer to that command, or its own words where the command answers  *)
(* none; no word is from a periodic report.                                *)
AnswersAreWhole ==
  /\ pending => cr = All("host")
  /\ phase = "reading" => \A i \in word..4 : cr[i] = Expected(i)

(* A play passes no sector that a filter keeps without storing it, unless  *)
(* the full flag was cleared over a full buffer (Cs2InitializeCDSystem) or *)
(* sectors were discarded and not counted (Cs2ResetSelector by flags).     *)
NoSectorIsSkipped ==
  [][ReadSector /\ FAD \notin Audio /\ Destination(FAD) # NoFilter /\ ~cleared
     => partition'[Destination(FAD)] = partition[Destination(FAD)] + 1]_vars

(* What the drive reads is on the disc, and so is the end. *)
OnDisc == {FAD, playFAD} \subseteq Sectors /\ playendFAD <= LeadOut

(* A play that is left alone, by a program that is idle and with the disc  *)
(* in, ends, and the program learns of it: unless it repeats for ever, its *)
(* sectors go nowhere, or the filters lead in a circle.  A play of what is *)
(* not on the disc is left out: the read is tried again and again.         *)
PlaysEnd ==
  [](status = "PLAY" /\ OnDisc /\ [](phase = "idle" /\ drive = "disc")
     => <>(("PEND" \in hirq /\ status # "PLAY") \/ outconcddev = NoFilter
           \/ maxrepeat = Forever \/ hung))
=============================================================================
