---------------------------- MODULE SmpcCommands ----------------------------
(***************************************************************************)
(* Commands of the SMPC as a program sees them: it sets SF, writes COMREG, *)
(* and waits until SF falls.  A command runs when its time is up.  INTBACK *)
(* returns the status, then the data of the two ports in packets, each of  *)
(* them asked for by a continue request; the vertical blanking ends it.    *)
(*                                                                         *)
(* The program obeys SF: it writes nothing but SF while SF is clear, and   *)
(* nothing at all while it is set, but for the COMREG it has announced.    *)
(* The bytes of the ports are numbered, those of port 1 first.             *)
(***************************************************************************)
EXTENDS Integers, Sequences

CONSTANTS
  OregSize,    \* bytes of OREG that carry a packet, 32
  Ports,       \* the sizes the data of the two ports may have
  WaitLine,    \* the line at which peripherals are read, 207
  VBlankLine,
  MaxLine,     \* lines of a picture
  LongTime     \* lines until INTBACK reads the peripherals on its own

ASSUME SmpcAssumption ==
  /\ OregSize \in Nat \ {0} /\ Ports \subseteq (Nat \ {0}) \X (Nat \ {0})
  /\ WaitLine \in Nat \ {0} /\ VBlankLine \in Nat /\ MaxLine \in Nat /\ LongTime \in Nat \ {0}
  /\ WaitLine < VBlankLine /\ VBlankLine < MaxLine

Commands == {"INTBACK", "timed", "unknown"}

Requests == {{}, {0}, {0, 6}, {6}, {7}}   \* IREG0, as the set of its bits

VARIABLES
  line,         \* yabsys.LineCount
  IREG0,
  IREG1,        \* bit 3: peripheral data is wanted
  COMREG,
  SF,
  SR,
  timing,
  waitForLine,  \* intback_wait_for_line
  intback,
  firstPeri,
  port1,        \* size and offset
  port2,
  delivered,    \* the numbers of the bytes delivered since data was read
  fetched,      \* the sizes of that data
  issuing,      \* the program has set SF and not written COMREG yet
  waiting,      \* an INTBACK that has a time has not raised its interrupt
  continuing,   \* a continue is pending: when it came
  cutOff        \* data was left behind by an INTBACK that ended early

registers == <<IREG0, IREG1, COMREG>>
ports == <<port1, port2, delivered, fetched>>
vars == <<line, registers, SF, SR, timing, waitForLine, intback, firstPeri, ports,
          issuing, waiting, continuing, cutOff>>

Empty == [size |-> 0, offset |-> 0]

Init ==
  /\ line = 0 /\ IREG0 = {} /\ IREG1 = FALSE /\ COMREG = "timed" /\ SF = 0 /\ SR = "none"
  /\ timing = 0 /\ waitForLine = FALSE /\ intback = FALSE /\ firstPeri = FALSE
  /\ port1 = Empty /\ port2 = Empty /\ delivered = <<>> /\ fetched = <<0, 0>>
  /\ issuing = FALSE /\ waiting = FALSE /\ continuing = "no" /\ cutOff = FALSE

-----------------------------------------------------------------------------
(* SmpcINTBACKPeripheral: how a port fills the room left in OREG.  Mutants *)
(* are prefixed with Mut; each changes the definition it precedes.         *)
Rest(port) == port.size - port.offset

Fits(port, room) == Rest(port) < room

(* Which bytes of the port are copied; a packet that does not hold the     *)
(* rest starts with the first byte, whatever was copied before.            *)
MutCopied(port, room) ==
  IF Fits(port, room) THEN [i \in 1..port.size |-> i]
  ELSE [i \in 1..room |-> i]

Copied(port, room) ==
  IF Fits(port, room) THEN [i \in 1..Rest(port) |-> port.offset + i]
  ELSE [i \in 1..room |-> i]

(* Counts a packet of port 2 as if port 1 had left it all of OREG. *)
MutAfter(port, room) ==
  IF Fits(port, room) THEN [port EXCEPT !.size = 0] ELSE [port EXCEPT !.offset = @ + OregSize]

After(port, room) ==
  IF Fits(port, room) THEN [port EXCEPT !.size = 0] ELSE [port EXCEPT !.offset = @ + room]

(* No data is left of what was read. *)
Unread(p1, p2) == p1.size = 0 /\ p2.size = 0

(* One packet, of what is left or, when nothing is, of new data.           *)
Packet(cut) ==
  \E sizes \in IF Unread(port1, port2) THEN Ports ELSE {fetched} :
    LET fresh == Unread(port1, port2)
        p1 == IF fresh THEN [size |-> sizes[1], offset |-> 0] ELSE port1
        p2 == IF fresh THEN [size |-> sizes[2], offset |-> 0] ELSE port2
        bytes1 == IF p1.size > 0 THEN Copied(p1, OregSize) ELSE <<>>
        room == OregSize - Len(bytes1)
        second == p2.size > 0 /\ room > 0
        bytes2 == IF second
                  THEN LET c == Copied(p2, room) IN [i \in 1..Len(c) |-> sizes[1] + c[i]]
                  ELSE <<>>
    IN  /\ fetched' = sizes
        /\ port1' = IF p1.size > 0 THEN After(p1, OregSize) ELSE p1
        /\ port2' = IF second THEN After(p2, room) ELSE p2
        /\ delivered' = (IF fresh THEN <<>> ELSE delivered) \o bytes1 \o bytes2
        /\ cutOff' = (cut /\ ~fresh)

(* Marks every packet as the first. *)
MutMark == "first"

Mark == IF firstPeri THEN "first" ELSE "next"

(* Does not begin anew for a continue that the blanking has overtaken. *)
MutStarts == 0 \notin IREG0 /\ 7 \notin IREG0 /\ IREG1

Starts == 0 \notin IREG0 /\ IREG1

(* SmpcINTBACK, when the vertical blanking has left intback as ib, and has *)
(* cut off data or not.                                                    *)
Intback(ib, cut) ==
  \/ /\ ib
     /\ Packet(cut) /\ SR' = Mark
     /\ firstPeri' = FALSE /\ intback' = TRUE /\ waiting' = FALSE
  \/ /\ ~ib /\ 0 \in IREG0
     /\ firstPeri' = TRUE /\ intback' = IREG1 /\ SR' = "status" /\ waiting' = FALSE
     /\ cutOff' = cut /\ UNCHANGED ports
  \/ /\ ~ib /\ Starts
     /\ Packet(cut) /\ SR' = "first"
     /\ firstPeri' = FALSE /\ intback' = TRUE /\ waiting' = FALSE
  \/ /\ ~ib /\ 0 \notin IREG0 /\ ~Starts
     /\ intback' = FALSE /\ cutOff' = cut /\ UNCHANGED <<SR, firstPeri, waiting, ports>>

LineReached(l) == waitForLine /\ l = WaitLine

(* Waits for a time of zero that was never set. *)
MutDue(l) == timing > 0 /\ LineReached(l)

Due(l) == timing > 0 /\ (timing = 1 \/ LineReached(l))

(* A line of the picture: SmpcINTBACKEnd when the blanking begins, then    *)
(* SmpcExec, which runs the command in COMREG when its time is up.         *)
Line ==
  LET l == (line + 1) % MaxLine
      ib == intback /\ l # VBlankLine
      cut == cutOff \/ (intback /\ ~ib /\ ~Unread(port1, port2))
  IN  /\ line' = l
      /\ waitForLine' = (waitForLine /\ ~(timing > 0 /\ LineReached(l)))
      /\ \/ /\ ~Due(l)
            /\ timing' = (IF timing > 0 THEN timing - 1 ELSE 0)
            /\ UNCHANGED <<SF, continuing>>
         \/ /\ Due(l)
            /\ timing' = 0 /\ SF' = 0 /\ continuing' = "no"
      /\ IF Due(l) /\ COMREG = "INTBACK" THEN Intback(ib, cut)
         ELSE intback' = ib /\ cutOff' = cut /\ UNCHANGED <<SR, firstPeri, ports, waiting>>
      /\ UNCHANGED <<registers, issuing>>

-----------------------------------------------------------------------------
(* The requests to which SmpcSetTiming gives a time. *)
Timed == IREG0 = {0} \/ (IREG0 = {} /\ IREG1)

IntbackTime ==
  CASE intback -> LongTime
    [] ~intback /\ Timed -> IF 0 \in IREG0 THEN 2 ELSE LongTime
    [] OTHER -> timing

(* Does not wait for the line. *)
MutWaits(command) == waitForLine

(* INTBACK for peripheral data waits for the line at which it is read.     *)
Waits(command) ==
  waitForLine \/ (command = "INTBACK" /\ (intback \/ (IREG0 = {} /\ IREG1)))

(* SmpcSetTiming, after which SF is s unless the command is unknown.       *)
SetTiming(command, s) ==
  /\ COMREG' = command
  /\ SF' = IF command = "unknown" THEN 0 ELSE s
  /\ timing' = (IF command = "timed" THEN 1
                ELSE IF command = "INTBACK" THEN IntbackTime ELSE timing)
  /\ waitForLine' = Waits(command)
  /\ waiting' = (waiting \/ (command = "INTBACK" /\ (intback \/ Timed)))
  /\ continuing' = (IF command # "INTBACK" \/ ~intback THEN continuing
                    ELSE IF line < WaitLine THEN "early" ELSE "late")

(* A write to COMREG, which the program has announced with SF. *)
WriteCommand ==
  /\ issuing /\ issuing' = FALSE
  /\ \E command \in Commands : SetTiming(command, SF)
  /\ UNCHANGED <<line, IREG0, IREG1, SR, intback, firstPeri, ports, cutOff>>

WriteSF ==
  /\ SF = 0 /\ SF' = 1 /\ issuing' = TRUE
  /\ UNCHANGED <<line, registers, SR, timing, waitForLine, intback, firstPeri, ports,
                 waiting, continuing, cutOff>>

(* A write to IREG0: while INTBACK goes on, bit 6 breaks it off and bit 7  *)
(* continues it.                                                           *)
WriteRequest ==
  /\ SF = 0
  /\ \E r \in Requests :
       \/ /\ intback /\ 6 \in r
          /\ IREG0' = r /\ intback' = FALSE /\ SR' = "none"
          /\ cutOff' = (cutOff \/ ~Unread(port1, port2))
          /\ UNCHANGED <<COMREG, SF, timing, waitForLine, waiting, continuing>>
       \/ /\ intback /\ 6 \notin r /\ 7 \in r
          /\ IREG0' = r /\ SetTiming("INTBACK", 1)
          /\ UNCHANGED <<intback, SR, cutOff>>
       \/ /\ ~intback \/ r \cap {6, 7} = {}
          /\ IREG0' = r
          /\ UNCHANGED <<COMREG, SF, SR, timing, waitForLine, intback, waiting,
                         continuing, cutOff>>
  /\ UNCHANGED <<line, IREG1, firstPeri, ports, issuing>>

(* The program does not change its mind about IREG1 between two packets.   *)
WriteWanted ==
  /\ SF = 0 /\ ~intback /\ IREG1' = ~IREG1
  /\ UNCHANGED <<line, IREG0, COMREG, SF, SR, timing, waitForLine, intback, firstPeri,
                 ports, issuing, waiting, continuing, cutOff>>

(* SmpcReset leaves intback_wait_for_line. *)
Reset ==
  /\ IREG0' = {} /\ IREG1' = FALSE /\ COMREG' = "timed" /\ SF' = 0 /\ SR' = "none"
  /\ timing' = 0 /\ intback' = FALSE /\ firstPeri' = FALSE
  /\ port1' = Empty /\ port2' = Empty
  /\ issuing' = FALSE /\ waiting' = FALSE /\ continuing' = "no" /\ cutOff' = FALSE
  /\ UNCHANGED <<line, waitForLine, delivered, fetched>>

(* A state is saved, the program restarted and the state loaded: all is as *)
(* it was, but for intback_wait_for_line, which is not in the file.        *)
Reload ==
  /\ waitForLine' = FALSE
  /\ continuing' = (IF continuing = "early" THEN "late" ELSE continuing)
  /\ UNCHANGED <<line, registers, SF, SR, timing, intback, firstPeri, ports, issuing,
                 waiting, cutOff>>

Program == WriteCommand \/ WriteSF \/ WriteRequest \/ WriteWanted

Next == Line \/ Program \/ Reset \/ Reload

Spec == Init /\ [][Next]_vars

(* YabauseExec calls SmpcExec in every line. *)
FairSpec == Spec /\ WF_vars(Line)

-----------------------------------------------------------------------------
TypeOK ==
  /\ line \in 0..(MaxLine - 1) /\ IREG0 \in Requests /\ IREG1 \in BOOLEAN
  /\ COMREG \in Commands /\ SF \in 0..1 /\ SR \in {"none", "status", "first", "next"}
  /\ timing \in 0..(IF LongTime > 2 THEN LongTime ELSE 2)
  /\ \A p \in {port1, port2} : p.size \in Nat /\ (p.size > 0 => p.offset \in 0..p.size)
  /\ continuing \in {"no", "early", "late"}

(* The packets carry the bytes of both ports in order, each of them once,  *)
(* as long as no port needs two packets of which the first does not begin  *)
(* with it (INTBACK then copies from the start again).                     *)
PacketsAreConsecutive ==
  fetched[1] < 2 * OregSize /\ fetched[2] <= OregSize
    => \A i \in 1..Len(delivered) : delivered[i] = i

(* The packet that SR calls the first begins with the first byte, unless   *)
(* an INTBACK ended before it had delivered everything.                    *)
FirstPacketIsFresh ==
  SR = "first" /\ ~cutOff => Len(delivered) <= OregSize

(* A program that sees SF fall has had the interrupt of its INTBACK.       *)
NoSilentEnd == SF = 0 => ~waiting

(* A continue that comes before the peripherals are read is answered with  *)
(* the next packet; the blanking does not end INTBACK under it.            *)
ContinueKeepsItsPlace == continuing = "early" => intback

(* Every command that was given a time ends.                               *)
CommandsEnd == SF = 1 /\ timing > 0 ~> SF = 0

-----------------------------------------------------------------------------
(* "so that it breaks the intback command immediately when it blocks,      *)
(* rather than having to set 0x40 in response to an interrupt"             *)
(* (SmpcINTBACK, of IREG0 = 0x41): such a command ends.                    *)
BreakAtOnceEnds ==
  COMREG = "INTBACK" /\ ~issuing /\ SF = 1 /\ IREG0 = {0, 6} ~> SF = 0
=============================================================================
