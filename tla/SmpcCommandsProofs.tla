------------------------- MODULE SmpcCommandsProofs -------------------------
(***************************************************************************)
(* Proofs that SF never falls before the interrupt of an INTBACK, that a   *)
(* continue keeps its place, and that packets carry every byte once, for   *)
(* any size of OREG, any data, any lines and any times.                    *)
(***************************************************************************)
EXTENDS SmpcCommands, SequenceTheorems, TLAPS

(* A time runs only under a command whose SF is set; what waits for an     *)
(* interrupt is an INTBACK that will raise it, even if the blanking ends   *)
(* it first; a continue that came early finds the line before the blanking.*)
ControlInv ==
  /\ timing > 0 => SF = 1 /\ ~issuing
  /\ issuing => SF = 1 /\ ~waiting
  /\ intback => IREG1
  /\ waiting => SF = 1 /\ COMREG = "INTBACK" /\ (0 \in IREG0 \/ IREG1)
  /\ continuing # "no" => timing > 0
  /\ continuing = "early" => intback /\ waitForLine /\ line < WaitLine

(* What is left in the ports is what the packets have not delivered: all  *)
(* of port 2 and the rest of port 1, or the rest of port 2.                *)
Left ==
  /\ \A i \in 1..Len(delivered) : delivered[i] = i
  /\ port1.size > 0 => /\ port1 = [size |-> fetched[1], offset |-> OregSize]
                       /\ port2 = [size |-> fetched[2], offset |-> 0]
                       /\ Len(delivered) = OregSize
  /\ port1.size = 0 /\ port2.size > 0 =>
       /\ port2.size = fetched[2] /\ port2.offset > 0
       /\ Len(delivered) = fetched[1] + port2.offset

Short == fetched[1] < 2 * OregSize /\ fetched[2] <= OregSize

(* An INTBACK that has not begun to deliver finds nothing left of another, *)
(* unless that one ended early.                                            *)
CleanStart == ~cutOff /\ (~intback \/ firstPeri) => Unread(port1, port2)

(* Types, in the part that is Boolean and the others.                      *)
Flags ==
  /\ IREG1 \in BOOLEAN /\ waitForLine \in BOOLEAN /\ intback \in BOOLEAN
  /\ firstPeri \in BOOLEAN /\ issuing \in BOOLEAN /\ waiting \in BOOLEAN
  /\ cutOff \in BOOLEAN

Registers ==
  /\ line \in 0..(MaxLine - 1) /\ IREG0 \in Requests /\ COMREG \in Commands /\ SF \in 0..1
  /\ SR \in {"none", "status", "first", "next"}
  /\ timing \in 0..(IF LongTime > 2 THEN LongTime ELSE 2)
  /\ continuing \in {"no", "early", "late"}

Port == [size : Nat, offset : Nat]

PortTypes ==
  /\ port1 \in Port /\ port2 \in Port
  /\ port1.size > 0 => port1.offset <= port1.size
  /\ port2.size > 0 => port2.offset <= port2.size
  /\ delivered \in Seq(Nat) /\ fetched \in Nat \X Nat

-----------------------------------------------------------------------------
(* The part of the invariant that says when commands end.                  *)
Ends == Flags /\ Registers /\ ControlInv

(* What a packet changes.                                                  *)
LEMMA PacketFlags ==
  ASSUME NEW cut \in BOOLEAN, Packet(cut)
  PROVE  cutOff' \in BOOLEAN
BY Zenon DEF Packet

(* It holds initially.                                                     *)
LEMMA InitEnds == Init => Ends
<1>1. Init => Flags
  BY Zenon DEF Init, Flags
<1>2. Init => Registers
  BY SmpcAssumption DEF Init, Registers, Requests, Commands
<1>3. Init => ControlInv
  BY SmpcAssumption DEF Init, ControlInv
<1> QED BY <1>1, <1>2, <1>3 DEF Ends

(* Flags stay flags.                                                       *)
LEMMA StepFlags == Flags /\ [Next]_vars => Flags'
<1> SUFFICES ASSUME Flags, [Next]_vars PROVE Flags'
  OBVIOUS
<1>1. CASE Line
  <2>0. PICK l, ib, cut :
         /\ ib \in BOOLEAN /\ cut \in BOOLEAN
         /\ waitForLine' = (waitForLine /\ ~(timing > 0 /\ LineReached(l)))
         /\ IF Due(l) /\ COMREG = "INTBACK" THEN Intback(ib, cut)
            ELSE intback' = ib /\ cutOff' = cut /\ UNCHANGED <<SR, firstPeri, ports, waiting>>
         /\ UNCHANGED <<registers, issuing>>
    BY <1>1, Zenon DEF Line, Flags
  <2>1. waitForLine' \in BOOLEAN /\ IREG1' \in BOOLEAN /\ issuing' \in BOOLEAN
    BY <2>0, Zenon DEF Flags, registers
  <2>2. /\ intback' \in BOOLEAN /\ cutOff' \in BOOLEAN
        /\ firstPeri' \in BOOLEAN /\ waiting' \in BOOLEAN
    <3>1. CASE Intback(ib, cut)
      BY <2>0, <3>1, PacketFlags, Zenon DEF Intback, Flags
    <3>2. CASE ~Intback(ib, cut)
      BY <2>0, <3>2, Zenon DEF Flags
    <3> QED BY <3>1, <3>2
  <2> QED BY <2>1, <2>2, Zenon DEF Flags
<1>2. CASE WriteCommand
  BY <1>2, Zenon DEF Flags, WriteCommand, SetTiming, Waits
<1>3. CASE WriteSF \/ WriteWanted \/ Reset \/ Reload
  BY <1>3, Zenon DEF Flags, WriteSF, WriteWanted, Reset, Reload, registers, ports
<1>4. CASE WriteRequest
  BY <1>4, Zenon DEF Flags, WriteRequest, SetTiming, Waits, ports
<1>5. CASE UNCHANGED vars
  BY <1>5, Zenon DEF Flags, vars, registers
<1> QED BY <1>1, <1>2, <1>3, <1>4, <1>5, Zenon DEF Next, Program

(* A line runs the command that is due or counts down its time.            *)
LEMMA LineEnds == Ends /\ Line => Registers' /\ ControlInv'
<1> SUFFICES ASSUME Ends, Line PROVE Registers' /\ ControlInv'
  OBVIOUS
<1> USE SmpcAssumption DEF Ends
<1> DEFINE l == (line + 1) % MaxLine
           ib == intback /\ l # VBlankLine
           cut == cutOff \/ (intback /\ ~ib /\ ~Unread(port1, port2))
           Runs == Due(l) /\ COMREG = "INTBACK"
<1>1. /\ line' = l /\ UNCHANGED registers /\ issuing' = issuing
      /\ waitForLine' = (waitForLine /\ ~(timing > 0 /\ LineReached(l)))
      /\ \/ ~Due(l) /\ timing' = (IF timing > 0 THEN timing - 1 ELSE 0)
              /\ UNCHANGED <<SF, continuing>>
         \/ Due(l) /\ timing' = 0 /\ SF' = 0 /\ continuing' = "no"
      /\ IF Runs THEN Intback(ib, cut)
         ELSE intback' = ib /\ cutOff' = cut /\ UNCHANGED <<SR, firstPeri, ports, waiting>>
  BY Zenon DEF Line
<1>2. line' \in 0..(MaxLine - 1) /\ (line + 1 < MaxLine => line' = line + 1)
  BY <1>1 DEF Registers
<1>3. SR' \in {"none", "status", "first", "next"}
  <2>1. CASE Runs
    BY <1>1, <2>1, Zenon DEF Intback, Registers, Mark
  <2>2. CASE ~Runs
    BY <1>1, <2>2 DEF Registers
  <2> QED BY <2>1, <2>2
<1>4. intback' => intback \/ (Runs /\ IREG1)
  <2>1. CASE Runs
    BY <1>1, <2>1, Zenon DEF Intback, Starts
  <2>2. CASE ~Runs
    BY <1>1, <2>2
  <2> QED BY <2>1, <2>2
<1>5. waiting' => waiting /\ ~Runs
  <2>1. CASE Runs
    <3>1. ~waiting \/ 0 \in IREG0 \/ Starts
      BY Zenon DEF ControlInv, Starts
    <3> QED BY <1>1, <2>1, <3>1, Zenon DEF Intback
  <2>2. CASE ~Runs
    BY <1>1, <2>2
  <2> QED BY <2>1, <2>2
<1>6. Registers'
  BY <1>1, <1>2, <1>3 DEF Registers, registers
<1>7. (continuing = "early" /\ ~Due(l)) => intback /\ l < WaitLine /\ l # VBlankLine
                                                  /\ ~LineReached(l)
  BY <1>1, <1>2 DEF ControlInv, Due, LineReached, Registers
<1>8. ControlInv'
  <2>1. CASE Due(l)
    <3>1. timing' = 0 /\ SF' = 0 /\ continuing' = "no" /\ ~issuing /\ ~waiting'
      BY <1>1, <1>5, <2>1, Zenon DEF ControlInv, Due
    <3>2. intback' => IREG1'
      BY <1>1, <1>4 DEF ControlInv, registers
    <3> QED BY <1>1, <3>1, <3>2 DEF ControlInv
  <2>2. CASE ~Due(l)
    <3>1. /\ timing' = (IF timing > 0 THEN timing - 1 ELSE 0) /\ SF' = SF
          /\ continuing' = continuing /\ intback' = ib /\ waiting' = waiting
      BY <1>1, <2>2
    <3>2. timing > 0 => timing' > 0
      BY <2>2, <3>1 DEF Due, Registers
    <3>3. timing' > 0 => timing > 0
      BY <3>1 DEF Registers
    <3>4. continuing = "early" => intback' /\ waitForLine' /\ line' < WaitLine
      <4> SUFFICES ASSUME continuing = "early"
                   PROVE  intback' /\ waitForLine' /\ line' < WaitLine
        OBVIOUS
      <4>1. waitForLine /\ intback /\ l # VBlankLine /\ ~LineReached(l) /\ l < WaitLine
        BY <1>7, <2>2, Zenon DEF ControlInv
      <4> QED BY <1>1, <3>1, <4>1, Zenon
    <3> QED BY <1>1, <3>1, <3>2, <3>3, <3>4 DEF ControlInv, registers
  <2> QED BY <2>1, <2>2
<1> QED BY <1>6, <1>8

(* SmpcSetTiming gives a time only where SF stays set, and an interrupt to *)
(* wait for only with a time.                                              *)
LEMMA SetTimingEnds ==
  ASSUME Ends, NEW command \in Commands, SetTiming(command, 1),
         ~waiting /\ timing = 0 /\ continuing = "no",
         intback' = intback, IREG1' = IREG1, line' = line, issuing' = FALSE,
         intback \/ IREG0' = IREG0
  PROVE  /\ COMREG' \in Commands /\ SF' \in 0..1 /\ continuing' \in {"no", "early", "late"}
         /\ timing' \in 0..(IF LongTime > 2 THEN LongTime ELSE 2)
         /\ ControlInv'
<1> USE SmpcAssumption DEF Ends
<1>1. COMREG' = command /\ SF' = (IF command = "unknown" THEN 0 ELSE 1)
  BY DEF SetTiming
<1>2. CASE command # "INTBACK"
  <2>1. continuing' = "no" /\ ~waiting'
    BY <1>2, Zenon DEF SetTiming
  <2>2. timing' = (IF command = "timed" THEN 1 ELSE 0)
    BY <1>2 DEF SetTiming
  <2>3. intback' => IREG1'
    BY Zenon DEF ControlInv
  <2> QED BY <1>1, <2>1, <2>2, <2>3 DEF ControlInv
<1>3. CASE command = "INTBACK" /\ intback
  <2>1. timing' = LongTime
    BY <1>3 DEF SetTiming, IntbackTime
  <2>2. waitForLine' = TRUE
    BY <1>3, Zenon DEF SetTiming, Waits
  <2>3. continuing' = (IF line < WaitLine THEN "early" ELSE "late")
    BY <1>3 DEF SetTiming
  <2>4. IREG1'
    BY <1>3, Zenon DEF ControlInv
  <2> QED BY <1>1, <1>3, <2>1, <2>2, <2>3, <2>4 DEF ControlInv
<1>4. CASE command = "INTBACK" /\ ~intback
  <2>1. continuing' = "no"
    BY <1>4 DEF SetTiming
  <2>2. timing' = (IF Timed THEN (IF 0 \in IREG0 THEN 2 ELSE LongTime) ELSE 0)
    BY <1>4 DEF SetTiming, IntbackTime
  <2>3. waiting' => Timed
    BY <1>4, Zenon DEF SetTiming
  <2>4. Timed => 0 \in IREG0' \/ IREG1'
    BY <1>4 DEF Timed
  <2>5. ~intback' /\ COMREG' = "INTBACK" /\ SF' = 1
    BY <1>1, <1>4
  <2>6. timing' > 0 => SF' = 1 /\ ~issuing'
    BY <2>5
  <2>7. ControlInv'
    BY <2>1, <2>3, <2>4, <2>5, <2>6, Zenon DEF ControlInv
  <2> QED BY <1>1, <2>1, <2>2, <2>7
<1> QED BY <1>2, <1>3, <1>4

(* Every step preserves it.                                                *)
LEMMA StepEnds == Ends /\ [Next]_vars => Ends'
<1> SUFFICES ASSUME Ends, [Next]_vars PROVE Registers' /\ ControlInv'
  BY StepFlags DEF Ends
<1> USE SmpcAssumption DEF Ends
<1>1. CASE Line
  BY <1>1, LineEnds
<1>2. CASE WriteCommand
  <2>1. SF = 1 /\ ~waiting /\ timing = 0 /\ continuing = "no"
    BY <1>2 DEF WriteCommand, ControlInv, Registers
  <2>2. PICK command \in Commands : SetTiming(command, 1)
    BY <1>2, <2>1 DEF WriteCommand
  <2>3. /\ UNCHANGED <<line, IREG0, IREG1, SR, intback>> /\ issuing' = FALSE
    BY <1>2 DEF WriteCommand
  <2>4. /\ COMREG' \in Commands /\ SF' \in 0..1 /\ continuing' \in {"no", "early", "late"}
        /\ timing' \in 0..(IF LongTime > 2 THEN LongTime ELSE 2)
        /\ ControlInv'
    <3>1. Ends
      OBVIOUS
    <3>2. intback' = intback /\ IREG1' = IREG1 /\ line' = line /\ IREG0' = IREG0
      BY <2>3
    <3> HIDE DEF Ends
    <3> QED BY <2>1, <2>2, <2>3, <3>1, <3>2, SetTimingEnds, Zenon
  <2> QED BY <2>3, <2>4 DEF Registers
<1>3. CASE WriteSF
  <2>1. SF = 0 /\ timing = 0 /\ ~waiting /\ ~issuing
    BY <1>3 DEF WriteSF, ControlInv, Registers
  <2>2. Registers'
    BY <1>3 DEF WriteSF, Registers, registers
  <2>3. ControlInv'
    BY <1>3, <2>1 DEF WriteSF, ControlInv, registers
  <2> QED BY <2>2, <2>3
<1>4. CASE WriteRequest
  <2>1. SF = 0 /\ timing = 0 /\ ~waiting /\ ~issuing /\ continuing = "no"
    BY <1>4 DEF WriteRequest, ControlInv, Registers
  <2>2. /\ UNCHANGED <<line, IREG1, issuing>>
    BY <1>4 DEF WriteRequest
  <2>3. PICK r \in Requests :
       \/ /\ intback /\ 6 \in r
          /\ IREG0' = r /\ intback' = FALSE /\ SR' = "none"
          /\ UNCHANGED <<COMREG, SF, timing, waitForLine, waiting, continuing>>
       \/ /\ intback /\ 6 \notin r /\ 7 \in r
          /\ IREG0' = r /\ SetTiming("INTBACK", 1)
          /\ UNCHANGED <<intback, SR, cutOff>>
       \/ /\ ~intback \/ r \cap {6, 7} = {}
          /\ IREG0' = r
          /\ UNCHANGED <<COMREG, SF, SR, timing, waitForLine, intback, waiting,
                         continuing, cutOff>>
    BY <1>4, Zenon DEF WriteRequest
  <2>4. CASE intback /\ SetTiming("INTBACK", 1) /\ UNCHANGED <<intback, SR>> /\ IREG0' = r
    <3>1. issuing' = FALSE
      BY <2>1, <2>2, Zenon DEF Flags
    <3>2. "INTBACK" \in Commands
      BY DEF Commands
    <3>3. /\ COMREG' \in Commands /\ SF' \in 0..1 /\ continuing' \in {"no", "early", "late"}
          /\ timing' \in 0..(IF LongTime > 2 THEN LongTime ELSE 2)
          /\ ControlInv'
      BY <2>1, <2>2, <2>4, <3>1, <3>2, SetTimingEnds
    <3> QED BY <2>2, <2>4, <3>3 DEF Registers
  <2>5. CASE /\ UNCHANGED <<COMREG, SF, timing, waitForLine, waiting, continuing>>
             /\ IREG0' = r /\ (intback' => intback)
             /\ SR' \in {SR, "none"}
    <3>1. Registers'
      BY <2>2, <2>5 DEF Registers
    <3>2. ControlInv'
      BY <2>1, <2>2, <2>5 DEF ControlInv
    <3> QED BY <3>1, <3>2
  <2> QED BY <2>3, <2>4, <2>5
<1>5. CASE WriteWanted
  <2>1. SF = 0 /\ timing = 0 /\ ~waiting /\ ~issuing /\ ~intback
    BY <1>5 DEF WriteWanted, ControlInv, Registers
  <2>2. Registers'
    BY <1>5 DEF WriteWanted, Registers
  <2>3. ControlInv'
    BY <1>5, <2>1 DEF WriteWanted, ControlInv
  <2> QED BY <2>2, <2>3
<1>6. CASE Reset
  <2>1. Registers'
    BY <1>6 DEF Reset, Registers, Requests, Commands
  <2>2. ControlInv'
    BY <1>6 DEF Reset, ControlInv
  <2> QED BY <2>1, <2>2
<1>7. CASE Reload
  <2>1. Registers'
    BY <1>7 DEF Reload, Registers, registers
  <2>2. ControlInv'
    BY <1>7 DEF Reload, ControlInv, registers
  <2> QED BY <2>1, <2>2
<1>8. CASE UNCHANGED vars
  <2>1. Registers'
    BY <1>8 DEF vars, Registers, registers
  <2>2. ControlInv'
    BY <1>8 DEF vars, ControlInv, registers
  <2> QED BY <2>1, <2>2
<1> QED BY <1>1, <1>2, <1>3, <1>4, <1>5, <1>6, <1>7, <1>8 DEF Next, Program

-----------------------------------------------------------------------------
(* The packets. *)

(* A run of n numbers after start.                                         *)
Run(start, n) == [i \in 1..n |-> start + i]

(* It is a sequence of n bytes.                                            *)
LEMMA RunOfBytes ==
  ASSUME NEW start \in Nat, NEW n \in Nat
  PROVE  /\ Run(start, n) \in Seq(Nat) /\ Len(Run(start, n)) = n
         /\ \A j \in 1..n : Run(start, n)[j] = start + j
<1>1. Run(start, n) \in [1..n -> Nat] /\ DOMAIN Run(start, n) = 1..n
  BY DEF Run
<1>2. Run(start, n) \in Seq(Nat)
  BY <1>1
<1>3. DOMAIN Run(start, n) = 1..Len(Run(start, n)) /\ Len(Run(start, n)) \in Nat
  BY <1>2, LenProperties
<1>4. Len(Run(start, n)) = n
  BY <1>1, <1>3
<1>5. \A j \in 1..n : Run(start, n)[j] = start + j
  BY DEF Run
<1> QED BY <1>2, <1>4, <1>5

(* The bytes of c, numbered after others.                                  *)
Shifted(c, start) == [i \in 1..Len(c) |-> start + c[i]]

(* They are as many.                                                       *)
LEMMA ShiftedBytes ==
  ASSUME NEW c \in Seq(Nat), NEW start \in Nat
  PROVE  /\ Shifted(c, start) \in Seq(Nat) /\ Len(Shifted(c, start)) = Len(c)
         /\ \A j \in 1..Len(c) : Shifted(c, start)[j] = start + c[j]
<1>1. Len(c) \in Nat /\ \A i \in 1..Len(c) : c[i] \in Nat
  OBVIOUS
<1>2. Shifted(c, start) \in [1..Len(c) -> Nat] /\ DOMAIN Shifted(c, start) = 1..Len(c)
  BY <1>1 DEF Shifted
<1>3. Shifted(c, start) \in Seq(Nat)
  BY <1>1, <1>2
<1>4. DOMAIN Shifted(c, start) = 1..Len(Shifted(c, start)) /\ Len(Shifted(c, start)) \in Nat
  BY <1>3, LenProperties
<1>5. Len(Shifted(c, start)) = Len(c)
  BY <1>1, <1>2, <1>4
<1>6. \A j \in 1..Len(c) : Shifted(c, start)[j] = start + c[j]
  BY DEF Shifted
<1> QED BY <1>3, <1>5, <1>6

(* What joining three sequences gives.                                     *)
LEMMA ThreeParts ==
  ASSUME NEW a \in Seq(Nat), NEW b \in Seq(Nat), NEW c \in Seq(Nat)
  PROVE  /\ a \o b \o c \in Seq(Nat)
         /\ Len(a \o b \o c) = Len(a) + Len(b) + Len(c)
         /\ \A i \in 1..(Len(a) + Len(b) + Len(c)) :
              (a \o b \o c)[i] = IF i <= Len(a) THEN a[i]
                                ELSE IF i <= Len(a) + Len(b) THEN b[i - Len(a)]
                                ELSE c[i - (Len(a) + Len(b))]
<1> DEFINE d == a \o b
<1>1. /\ d \in Seq(Nat) /\ Len(d) = Len(a) + Len(b)
      /\ \A i \in 1..(Len(a) + Len(b)) : d[i] = IF i <= Len(a) THEN a[i] ELSE b[i - Len(a)]
  BY ConcatProperties
<1>t. Len(a) \in Nat /\ Len(b) \in Nat /\ Len(c) \in Nat
  OBVIOUS
<1> HIDE DEF d
<1>2. /\ d \o c \in Seq(Nat) /\ Len(d \o c) = Len(d) + Len(c)
      /\ \A i \in 1..(Len(d) + Len(c)) : (d \o c)[i] = IF i <= Len(d) THEN d[i] ELSE c[i - Len(d)]
  <2>1. d \in Seq(Nat)
    BY <1>1
  <2> HIDE <1>1
  <2> QED BY <2>1, ConcatProperties
<1>3. ASSUME NEW i \in 1..(Len(a) + Len(b) + Len(c))
      PROVE  (d \o c)[i] = IF i <= Len(a) THEN a[i]
                           ELSE IF i <= Len(a) + Len(b) THEN b[i - Len(a)]
                           ELSE c[i - (Len(a) + Len(b))]
  <2>1. (d \o c)[i] = IF i <= Len(d) THEN d[i] ELSE c[i - Len(d)]
    BY <1>1, <1>2
  <2>2. CASE i <= Len(d)
    <3>1. i \in 1..(Len(a) + Len(b))
      BY <1>1, <1>t, <2>2
    <3>2. d[i] = IF i <= Len(a) THEN a[i] ELSE b[i - Len(a)]
      BY <1>1, <3>1
    <3> QED BY <1>1, <1>t, <2>1, <2>2, <3>2
  <2>3. CASE ~(i <= Len(d))
    <3>1. ~(i <= Len(a) + Len(b)) /\ ~(i <= Len(a))
      BY <1>1, <1>t, <2>3
    <3> QED BY <1>1, <2>1, <2>3, <3>1
  <2> QED BY <2>2, <2>3
<1> QED BY <1>1, <1>2, <1>3 DEF d

(* A port whose rest fits into the room gives the rest and has no more.    *)
LEMMA PortGivesRest ==
  ASSUME NEW port \in Port, NEW room \in Nat \ {0}, port.offset <= port.size,
         port.size - port.offset < room
  PROVE  /\ Copied(port, room) \in Seq(Nat)
         /\ Len(Copied(port, room)) = port.size - port.offset
         /\ \A j \in 1..(port.size - port.offset) : Copied(port, room)[j] = port.offset + j
         /\ After(port, room) \in Port /\ After(port, room).size = 0
<1> USE DEF Port
<1>1. port.size - port.offset \in Nat /\ Fits(port, room)
  BY DEF Fits, Rest
<1>2. Copied(port, room) = Run(port.offset, port.size - port.offset)
  BY <1>1 DEF Copied, Rest, Run
<1>3. After(port, room) = [port EXCEPT !.size = 0]
  BY <1>1 DEF After
<1>4. After(port, room) \in Port /\ After(port, room).size = 0
  BY <1>3
<1>5. /\ Copied(port, room) \in Seq(Nat)
      /\ Len(Copied(port, room)) = port.size - port.offset
      /\ \A j \in 1..(port.size - port.offset) : Copied(port, room)[j] = port.offset + j
  <2> DEFINE n == port.size - port.offset
  <2>1. port.offset \in Nat /\ n \in Nat
    BY <1>1
  <2>2. Copied(port, room) = Run(port.offset, n)
    BY <1>2
  <2> HIDE DEF Port, n
  <2>3. /\ Copied(port, room) \in Seq(Nat) /\ Len(Copied(port, room)) = n
        /\ \A j \in 1..n : Copied(port, room)[j] = port.offset + j
    <3>1. /\ Run(port.offset, n) \in Seq(Nat) /\ Len(Run(port.offset, n)) = n
          /\ \A j \in 1..n : Run(port.offset, n)[j] = port.offset + j
      BY <2>1, RunOfBytes
    <3> QED BY <2>2, <3>1
  <2> QED BY <2>3 DEF n
<1> QED BY <1>4, <1>5, Zenon

(* Another fills the room with its first bytes.                            *)
LEMMA PortFillsRoom ==
  ASSUME NEW port \in Port, NEW room \in Nat \ {0}, ~(port.size - port.offset < room)
  PROVE  /\ Copied(port, room) \in Seq(Nat)
         /\ Len(Copied(port, room)) = room
         /\ \A j \in 1..room : Copied(port, room)[j] = j
         /\ After(port, room) = [size |-> port.size, offset |-> port.offset + room]
         /\ port.offset + room <= port.size
<1> USE DEF Port
<1>1. ~Fits(port, room) /\ port.offset + room <= port.size
  BY DEF Fits, Rest
<1>2. /\ Copied(port, room) \in Seq(Nat) /\ Len(Copied(port, room)) = room
      /\ \A j \in 1..room : Copied(port, room)[j] = 0 + j
  <2>1. Copied(port, room) = Run(0, room)
    BY <1>1 DEF Copied, Run
  <2> QED BY <2>1, RunOfBytes
<1>3. \A j \in 1..room : Copied(port, room)[j] = j
  BY <1>2
<1>4. After(port, room) = [port EXCEPT !.offset = port.offset + room]
  BY <1>1 DEF After
<1>5. After(port, room) = [size |-> port.size, offset |-> port.offset + room]
  BY <1>4
<1> QED BY <1>1, <1>2, <1>3, <1>5, Zenon

(* A packet, by the data p1 and p2 it starts from, the bytes b1 and b2 it  *)
(* takes of each and the room that port 1 leaves.                          *)
PacketOf(p1, p2, b1, b2, room, cut) ==
  /\ fetched' \in Nat \X Nat /\ cutOff' = (cut /\ ~Unread(port1, port2))
  /\ p1.size > 0 => p1.offset <= p1.size
  /\ p2.size > 0 => p2.offset <= p2.size
  /\ IF Unread(port1, port2)
     THEN /\ p1 = [size |-> fetched'[1], offset |-> 0] /\ p1.size > 0
          /\ p2 = [size |-> fetched'[2], offset |-> 0]
     ELSE p1 = port1 /\ p2 = port2 /\ fetched' = fetched
  /\ delivered' = (IF Unread(port1, port2) THEN <<>> ELSE delivered) \o b1 \o b2
  /\ room = OregSize - Len(b1)
  /\ IF p1.size = 0 THEN b1 = <<>> /\ port1' = p1
     ELSE b1 = Copied(p1, OregSize) /\ port1' = After(p1, OregSize)
  /\ IF p2.size = 0 \/ room = 0 THEN b2 = <<>> /\ port2' = p2
     ELSE /\ port2' = After(p2, room)
          /\ Len(b2) = Len(Copied(p2, room))
          /\ \A j \in 1..Len(b2) : b2[j] = fetched'[1] + Copied(p2, room)[j]

(* Packet is made of such parts.                                           *)
LEMMA PacketParts ==
  ASSUME PortTypes, NEW cut, Packet(cut)
  PROVE  \E p1, p2 \in Port, b1, b2 \in Seq(Nat), room \in Nat :
           PacketOf(p1, p2, b1, b2, room, cut)
<1> USE SmpcAssumption DEF PortTypes
<1> DEFINE fresh == Unread(port1, port2)
           p1 == IF fresh THEN [size |-> fetched'[1], offset |-> 0] ELSE port1
           p2 == IF fresh THEN [size |-> fetched'[2], offset |-> 0] ELSE port2
           b1 == IF p1.size > 0 THEN Copied(p1, OregSize) ELSE <<>>
           room == OregSize - Len(b1)
           second == p2.size > 0 /\ room > 0
           c == Copied(p2, room)
           b2 == IF second THEN [i \in 1..Len(c) |-> fetched'[1] + c[i]] ELSE <<>>
<1>1. /\ fetched' \in (IF fresh THEN Ports ELSE {fetched})
      /\ port1' = IF p1.size > 0 THEN After(p1, OregSize) ELSE p1
      /\ port2' = IF second THEN After(p2, room) ELSE p2
      /\ delivered' = (IF fresh THEN <<>> ELSE delivered) \o b1 \o b2
      /\ cutOff' = (cut /\ ~fresh)
  BY Zenon DEF Packet
<1>2. fetched' \in Nat \X Nat /\ (fresh => fetched'[1] \in Nat \ {0})
  BY <1>1
<1>3. /\ p1 \in Port /\ p2 \in Port
      /\ p1.size > 0 => p1.offset <= p1.size
      /\ p2.size > 0 => p2.offset <= p2.size
  BY <1>2 DEF Port
<1>4. b1 \in Seq(Nat) /\ Len(b1) \in 0..OregSize
  <2>1. CASE p1.size > 0
    <3>1. b1 = Copied(p1, OregSize)
      BY <2>1
    <3>2. p1.size \in Nat /\ p1.offset \in Nat /\ p1.offset <= p1.size
      <4> HIDE DEF p1
      <4> QED BY <1>3, <2>1 DEF Port
    <3> HIDE DEF p1, b1
    <3>3. CASE p1.size - p1.offset < OregSize
      BY <1>3, <3>1, <3>2, <3>3, PortGivesRest
    <3>4. CASE ~(p1.size - p1.offset < OregSize)
      BY <1>3, <3>1, <3>4, PortFillsRoom
    <3> QED BY <3>3, <3>4
  <2>2. CASE ~(p1.size > 0)
    BY <2>2
  <2> QED BY <2>1, <2>2
<1>5. room \in Nat
  BY <1>4
<1>6. /\ b2 \in Seq(Nat)
      /\ (second => Len(b2) = Len(c) /\ \A j \in 1..Len(b2) : b2[j] = fetched'[1] + c[j])
  <2>1. CASE second
    <3>1. c \in Seq(Nat)
      <4> HIDE DEF p2, room, b1
      <4>1. CASE p2.size - p2.offset < room
        BY <1>3, <1>5, <2>1, <4>1, PortGivesRest
      <4>2. CASE ~(p2.size - p2.offset < room)
        BY <1>3, <1>5, <2>1, <4>2, PortFillsRoom
      <4> QED BY <4>1, <4>2
    <3>2. b2 = Shifted(c, fetched'[1])
      BY <2>1 DEF Shifted
    <3> HIDE DEF c, b2
    <3> QED BY <1>2, <3>1, <3>2, ShiftedBytes
  <2>2. CASE ~second
    BY <2>2
  <2> QED BY <2>1, <2>2
<1>8. second <=> ~(p2.size = 0 \/ room = 0)
  <2> HIDE DEF p2, room
  <2> QED BY <1>3, <1>5 DEF Port
<1>9. p1.size > 0 <=> p1.size # 0
  <2> HIDE DEF p1
  <2> QED BY <1>3 DEF Port
<1>10. IF p1.size = 0 THEN b1 = <<>> /\ port1' = p1
       ELSE b1 = Copied(p1, OregSize) /\ port1' = After(p1, OregSize)
  BY <1>1, <1>9
<1>11. IF p2.size = 0 \/ room = 0 THEN b2 = <<>> /\ port2' = p2
       ELSE /\ port2' = After(p2, room)
            /\ Len(b2) = Len(Copied(p2, room))
            /\ \A j \in 1..Len(b2) : b2[j] = fetched'[1] + Copied(p2, room)[j]
  BY <1>1, <1>6, <1>8
<1>12. IF fresh
       THEN /\ p1 = [size |-> fetched'[1], offset |-> 0] /\ p1.size > 0
            /\ p2 = [size |-> fetched'[2], offset |-> 0]
       ELSE p1 = port1 /\ p2 = port2 /\ fetched' = fetched
  <2>1. CASE fresh
    <3>1. p1 = [size |-> fetched'[1], offset |-> 0] /\ p2 = [size |-> fetched'[2], offset |-> 0]
      BY <2>1
    <3> HIDE DEF p1, p2
    <3> QED BY <1>2, <2>1, <3>1
  <2>2. CASE ~fresh
    BY <1>1, <2>2
  <2> QED BY <2>1, <2>2
<1>13. room = OregSize - Len(b1)
  OBVIOUS
<1> HIDE DEF p1, p2, b1, b2, room, fresh
<1>14. p1 \in Port /\ p2 \in Port /\ b1 \in Seq(Nat) /\ b2 \in Seq(Nat) /\ room \in Nat
  BY <1>3, <1>4, <1>5, <1>6
<1>15. fetched' \in Nat \X Nat /\ cutOff' = (cut /\ ~Unread(port1, port2))
  BY <1>1, <1>2, Zenon DEF fresh
<1>16. PacketOf(p1, p2, b1, b2, room, cut)
  BY <1>1, <1>3, <1>10, <1>11, <1>12, <1>13, <1>15, Zenon DEF fresh, PacketOf
<1> QED BY <1>14, <1>16, Zenon

(* A packet takes what is left, in order; the first of new data has no     *)
(* more than OREG holds.                                                   *)
LEMMA PacketKeeps ==
  ASSUME PortTypes, Short => Left, NEW cut, Packet(cut)
  PROVE  /\ PortTypes' /\ (Short' => Left')
         /\ Unread(port1, port2) => Len(delivered') <= OregSize
         /\ cutOff' = (cut /\ ~Unread(port1, port2))
<1> USE SmpcAssumption
<1>1. PICK p1 \in Port, p2 \in Port, b1 \in Seq(Nat), b2 \in Seq(Nat), room \in Nat :
        PacketOf(p1, p2, b1, b2, room, cut)
  BY PacketParts, Zenon
<1> DEFINE old == IF Unread(port1, port2) THEN <<>> ELSE delivered
           before == Len(old)
           whole1 == p1.size - p1.offset < OregSize
           whole2 == p2.size - p2.offset < room
<1>t. /\ p1.size \in Nat /\ p1.offset \in Nat /\ p2.size \in Nat /\ p2.offset \in Nat
      /\ delivered \in Seq(Nat) /\ Len(delivered) \in Nat /\ Len(b1) \in Nat /\ Len(b2) \in Nat
      /\ fetched'[1] \in Nat /\ fetched'[2] \in Nat /\ fetched' \in Nat \X Nat
      /\ cutOff' = (cut /\ ~Unread(port1, port2))
  <2>1. fetched' \in Nat \X Nat /\ cutOff' = (cut /\ ~Unread(port1, port2))
    BY <1>1, Zenon DEF PacketOf
  <2>2. delivered \in Seq(Nat)
    BY DEF PortTypes
  <2>3. p1.size \in Nat /\ p1.offset \in Nat /\ p2.size \in Nat /\ p2.offset \in Nat
    BY DEF Port
  <2> QED BY <2>1, <2>2, <2>3
<1>2a. p1.size = 0 => Len(b1) = 0 /\ port1' = p1
  BY <1>1 DEF PacketOf
<1>2b. ASSUME p1.size > 0
       PROVE  p1.offset <= p1.size /\ b1 = Copied(p1, OregSize) /\ port1' = After(p1, OregSize)
  BY <1>1, <1>t, <1>2b DEF PacketOf
<1>2c. p1.size > 0 /\ whole1 =>
         /\ Len(b1) = p1.size - p1.offset /\ \A j \in 1..Len(b1) : b1[j] = p1.offset + j
         /\ port1' \in Port /\ port1'.size = 0
  BY <1>t, <1>2b, PortGivesRest
<1>2d. p1.size > 0 /\ ~whole1 =>
         /\ Len(b1) = OregSize /\ \A j \in 1..Len(b1) : b1[j] = j
         /\ port1' = [size |-> p1.size, offset |-> p1.offset + OregSize]
         /\ p1.offset + OregSize <= p1.size
  BY <1>t, <1>2b, PortFillsRoom
<1>3. room = OregSize - Len(b1)
  BY <1>1 DEF PacketOf
<1>4a. p2.size = 0 \/ room = 0 => Len(b2) = 0 /\ port2' = p2
  BY <1>1 DEF PacketOf
<1>4b. ASSUME p2.size > 0, room > 0
       PROVE  /\ p2.offset <= p2.size /\ port2' = After(p2, room)
              /\ Len(b2) = Len(Copied(p2, room))
              /\ \A j \in 1..Len(b2) : b2[j] = fetched'[1] + Copied(p2, room)[j]
  BY <1>1, <1>t, <1>4b DEF PacketOf
<1>4c. ASSUME p2.size > 0, room > 0, whole2
       PROVE  /\ Len(b2) = p2.size - p2.offset
              /\ \A j \in 1..Len(b2) : b2[j] = fetched'[1] + p2.offset + j
              /\ port2' \in Port /\ port2'.size = 0
  <2>1. /\ Len(Copied(p2, room)) = p2.size - p2.offset
        /\ \A j \in 1..(p2.size - p2.offset) : Copied(p2, room)[j] = p2.offset + j
        /\ After(p2, room) \in Port /\ After(p2, room).size = 0
    BY <1>t, <1>4b, <1>4c, PortGivesRest
  <2>2. ASSUME NEW j \in 1..Len(b2) PROVE b2[j] = fetched'[1] + p2.offset + j
    <3>1. Copied(p2, room)[j] = p2.offset + j
      BY <1>4b, <1>4c, <2>1, <2>2
    <3>2. b2[j] = fetched'[1] + Copied(p2, room)[j]
      BY <1>4b, <1>4c, <2>2
    <3> QED BY <1>t, <3>1, <3>2
  <2> QED BY <1>4b, <1>4c, <2>1, <2>2
<1>4d. ASSUME p2.size > 0, room > 0, ~whole2
       PROVE  /\ Len(b2) = room /\ \A j \in 1..Len(b2) : b2[j] = fetched'[1] + j
              /\ port2' = [size |-> p2.size, offset |-> p2.offset + room]
              /\ p2.offset + room <= p2.size
  <2>1. /\ Len(Copied(p2, room)) = room
        /\ \A j \in 1..room : Copied(p2, room)[j] = j
        /\ After(p2, room) = [size |-> p2.size, offset |-> p2.offset + room]
        /\ p2.offset + room <= p2.size
    BY <1>t, <1>4d, PortFillsRoom
  <2>2. Len(b2) = room
    BY <1>4b, <1>4d, <2>1
  <2>3. ASSUME NEW j \in 1..Len(b2) PROVE b2[j] = fetched'[1] + j
    <3>1. Copied(p2, room)[j] = j
      BY <2>1, <2>2, <2>3
    <3>2. b2[j] = fetched'[1] + Copied(p2, room)[j]
      BY <1>4b, <1>4d, <2>3
    <3> QED BY <3>1, <3>2
  <2> QED BY <1>4b, <1>4d, <2>1, <2>2, <2>3
<1>d. old \in Seq(Nat) /\ before \in Nat
  BY <1>t
<1>5. /\ delivered' \in Seq(Nat)
      /\ Len(delivered') = before + Len(b1) + Len(b2)
      /\ \A i \in 1..(before + Len(b1) + Len(b2)) :
           delivered'[i] = IF i <= before THEN old[i]
                           ELSE IF i <= before + Len(b1) THEN b1[i - before]
                           ELSE b2[i - (before + Len(b1))]
  <2>1. delivered' = old \o b1 \o b2
    BY <1>1, Zenon DEF PacketOf
  <2> HIDE DEF old
  <2> QED BY <1>d, <2>1, ThreeParts
<1> HIDE DEF old, before, whole1, whole2
<1>n. ASSUME \A i \in 1..before : old[i] = i,
             \A j \in 1..Len(b1) : b1[j] = before + j,
             \A j \in 1..Len(b2) : b2[j] = before + Len(b1) + j
      PROVE  \A i \in 1..Len(delivered') : delivered'[i] = i
  <2> SUFFICES ASSUME NEW i \in 1..(before + Len(b1) + Len(b2)) PROVE delivered'[i] = i
    BY <1>5
  <2>1. CASE i <= before
    <3>1. i \in 1..before
      BY <1>d, <2>1
    <3>2. delivered'[i] = old[i]
      BY <1>5, <2>1
    <3> QED BY <1>n, <3>1, <3>2
  <2>2. CASE ~(i <= before) /\ i <= before + Len(b1)
    <3>1. i - before \in 1..Len(b1) /\ before + (i - before) = i
      BY <1>d, <1>t, <2>2
    <3>2. delivered'[i] = b1[i - before]
      BY <1>5, <2>2
    <3>3. b1[i - before] = before + (i - before)
      BY <1>n, <3>1
    <3> QED BY <3>1, <3>2, <3>3
  <2>3. CASE ~(i <= before) /\ ~(i <= before + Len(b1))
    <3>1. /\ i - (before + Len(b1)) \in 1..Len(b2)
          /\ before + Len(b1) + (i - (before + Len(b1))) = i
      BY <1>d, <1>t, <2>3
    <3>2. delivered'[i] = b2[i - (before + Len(b1))]
      BY <1>5, <2>3
    <3>3. b2[i - (before + Len(b1))] = before + Len(b1) + (i - (before + Len(b1)))
      BY <1>n, <3>1
    <3> QED BY <3>1, <3>2, <3>3
  <2> QED BY <2>1, <2>2, <2>3, Zenon
<1>o. p1.size = 0 \/ p1.size > 0
  BY <1>t
<1>p. p2.size = 0 \/ room = 0 \/ (p2.size > 0 /\ room > 0 /\ room \in Nat)
  BY <1>t
<1>6. PortTypes'
  <2>1. port1' \in Port /\ (port1'.size > 0 => port1'.offset <= port1'.size)
    <3>1. CASE p1.size = 0
      BY <1>2a, <3>1
    <3>2. CASE p1.size > 0 /\ whole1
      BY <1>2c, <3>2
    <3>3. CASE p1.size > 0 /\ ~whole1
      BY <1>2d, <1>t, <3>3 DEF Port
    <3> QED BY <1>o, <3>1, <3>2, <3>3
  <2>2. port2' \in Port /\ (port2'.size > 0 => port2'.offset <= port2'.size)
    <3>1. CASE p2.size = 0 \/ room = 0
      BY <1>1, <1>4a, <3>1 DEF PacketOf
    <3>2. CASE p2.size > 0 /\ room > 0 /\ whole2
      BY <1>4c, <3>2
    <3>3. CASE p2.size > 0 /\ room > 0 /\ ~whole2
      BY <1>4d, <1>t, <3>3 DEF Port
    <3> QED BY <1>p, <3>1, <3>2, <3>3
  <2> QED BY <1>t, <1>5, <2>1, <2>2 DEF PortTypes
<1>7. Unread(port1, port2) => Len(delivered') <= OregSize
  <2>1. CASE p2.size = 0 \/ room = 0
    <3>1. Len(b1) + Len(b2) <= OregSize
      BY <1>3, <1>4a, <1>t, <2>1
    <3> QED BY <1>5, <1>t, <3>1, EmptySeq DEF before, old
  <2>2. CASE p2.size > 0 /\ room > 0 /\ whole2
    <3>1. Len(b2) <= room
      BY <1>4b, <1>4c, <1>t, <2>2 DEF whole2
    <3> QED BY <1>3, <1>5, <1>t, <3>1 DEF before, old
  <2>3. CASE p2.size > 0 /\ room > 0 /\ ~whole2
    <3>1. Len(b2) = room
      BY <1>4d, <2>3
    <3> QED BY <1>3, <1>5, <1>t, <3>1 DEF before, old
  <2> QED BY <1>p, <2>1, <2>2, <2>3
<1>8. ASSUME Short' PROVE Left'
  <2> DEFINE f1 == fetched'[1]
             f2 == fetched'[2]
  <2>s. f1 \in Nat /\ f2 \in Nat /\ f1 < 2 * OregSize /\ f2 <= OregSize
    BY <1>t, <1>8 DEF Short
  <2>1. \A i \in 1..before : old[i] = i
    <3>1. CASE Unread(port1, port2)
      BY <3>1 DEF before, old
    <3>2. CASE ~Unread(port1, port2)
      <4>1. fetched' = fetched
        BY <1>1, <3>2 DEF PacketOf
      <4> QED BY <1>8, <3>2, <4>1 DEF Short, Left, before, old
    <3> QED BY <3>1, <3>2
  <2>2. \/ p1 = [size |-> f1, offset |-> 0] /\ p2 = [size |-> f2, offset |-> 0]
             /\ before = 0 /\ f1 > 0
        \/ p1 = [size |-> f1, offset |-> OregSize] /\ p2 = [size |-> f2, offset |-> 0]
             /\ before = OregSize /\ f1 > 0
        \/ p1.size = 0 /\ p2.size = f2 /\ p2.size > 0 /\ p2.offset > 0 /\ before = f1 + p2.offset
    <3>1. CASE Unread(port1, port2)
      BY <1>1, <1>t, <3>1 DEF PacketOf, before, old
    <3>2. CASE ~Unread(port1, port2)
      <4>1. fetched' = fetched /\ p1 = port1 /\ p2 = port2 /\ before = Len(delivered)
        BY <1>1, <3>2 DEF PacketOf, before, old
      <4>2. Left
        BY <1>8, <4>1 DEF Short
      <4>3. CASE port1.size > 0
        BY <4>1, <4>2, <4>3 DEF Left
      <4>4. CASE port1.size = 0 /\ port2.size > 0
        BY <4>1, <4>2, <4>4 DEF Left
      <4>5. port1.size > 0 \/ (port1.size = 0 /\ port2.size > 0)
        BY <1>t, <3>2, <4>1 DEF Unread
      <4> QED BY <4>3, <4>4, <4>5
    <3> QED BY <3>1, <3>2
  <2>3. ASSUME p2 = [size |-> f2, offset |-> 0], port1'.size = 0, room > 0,
               before + Len(b1) = f1, \A j \in 1..Len(b1) : b1[j] = before + j
        PROVE  Left'
    <3>1. CASE f2 = 0
      <4>1. Len(b2) = 0 /\ port2'.size = 0
        BY <1>4a, <2>3, <3>1
      <4>2. \A i \in 1..Len(delivered') : delivered'[i] = i
        BY <1>n, <2>1, <2>3, <4>1
      <4> QED BY <2>3, <4>1, <4>2 DEF Left
    <3>2. CASE f2 > 0
      <4>0. p2.size > 0 /\ p2.offset = 0
        BY <2>3, <3>2
      <4>1. \A j \in 1..Len(b2) : b2[j] = f1 + j
        <5>1. CASE whole2
          BY <1>4c, <1>t, <2>3, <4>0, <5>1
        <5>2. CASE ~whole2
          BY <1>4d, <2>3, <4>0, <5>2
        <5> QED BY <5>1, <5>2
      <4>2. \A i \in 1..Len(delivered') : delivered'[i] = i
        BY <1>n, <2>1, <2>3, <4>1
      <4>3. port2'.size = 0 \/ (port2' = [size |-> f2, offset |-> room] /\ Len(b2) = room)
        <5>1. CASE whole2
          BY <1>4c, <2>3, <4>0, <5>1
        <5>2. CASE ~whole2
          BY <1>3, <1>4d, <1>t, <2>3, <4>0, <5>2
        <5> QED BY <5>1, <5>2
      <4>4. Len(delivered') = f1 + Len(b2)
        BY <1>5, <2>3
      <4> QED BY <1>t, <2>3, <4>2, <4>3, <4>4 DEF Left
    <3> QED BY <2>s, <3>1, <3>2
  <2>4. CASE p1 = [size |-> f1, offset |-> 0] /\ p2 = [size |-> f2, offset |-> 0]
               /\ before = 0 /\ f1 > 0
    <3>0. p1.size > 0 /\ p1.size = f1 /\ p1.offset = 0
      BY <2>4
    <3>1. CASE whole1
      <4>1. f1 < OregSize
        BY <2>s, <3>0, <3>1 DEF whole1
      <4>2. Len(b1) = f1 /\ port1'.size = 0 /\ \A j \in 1..Len(b1) : b1[j] = before + j
        BY <1>2c, <2>4, <2>s, <3>0, <3>1
      <4>3. room > 0 /\ before + Len(b1) = f1
        BY <1>3, <2>4, <2>s, <4>1, <4>2
      <4> QED BY <2>3, <2>4, <4>2, <4>3
    <3>2. CASE ~whole1
      <4>1. Len(b1) = OregSize /\ port1' = [size |-> f1, offset |-> OregSize]
            /\ \A j \in 1..Len(b1) : b1[j] = before + j
        BY <1>2d, <2>4, <2>s, <3>0, <3>2
      <4>2. room = 0 /\ Len(b2) = 0 /\ port2' = [size |-> f2, offset |-> 0]
        BY <1>3, <1>4a, <2>4, <4>1
      <4>3. \A i \in 1..Len(delivered') : delivered'[i] = i
        BY <1>n, <2>1, <4>1, <4>2
      <4>4. Len(delivered') = OregSize
        BY <1>5, <2>4, <4>1, <4>2
      <4> QED BY <2>4, <2>s, <4>1, <4>2, <4>3, <4>4 DEF Left
    <3> QED BY <3>1, <3>2
  <2>5. CASE p1 = [size |-> f1, offset |-> OregSize] /\ p2 = [size |-> f2, offset |-> 0]
               /\ before = OregSize /\ f1 > 0
    <3>0. p1.size > 0 /\ p1.size = f1 /\ p1.offset = OregSize
      BY <2>5
    <3>1. OregSize <= f1
      BY <1>2b, <3>0
    <3>2. whole1
      BY <2>s, <3>0, <3>1 DEF whole1
    <3>3. /\ Len(b1) = f1 - OregSize /\ port1'.size = 0
          /\ \A j \in 1..Len(b1) : b1[j] = before + j
      BY <1>2c, <2>5, <3>0, <3>2
    <3>4. room > 0 /\ before + Len(b1) = f1
      BY <1>3, <2>5, <2>s, <3>1, <3>3
    <3> QED BY <2>3, <2>5, <3>3, <3>4
  <2>6. CASE p1.size = 0 /\ p2.size = f2 /\ p2.size > 0 /\ p2.offset > 0 /\ before = f1 + p2.offset
    <3>1. Len(b1) = 0 /\ room = OregSize /\ port1'.size = 0
      BY <1>2a, <1>3, <2>6
    <3>2. whole2
      BY <1>t, <2>6, <2>s, <3>1 DEF whole2
    <3>3. room > 0
      BY <3>1
    <3>4. port2'.size = 0 /\ \A j \in 1..Len(b2) : b2[j] = before + Len(b1) + j
      BY <1>4c, <1>t, <2>6, <2>s, <3>1, <3>2, <3>3
    <3>5. \A i \in 1..Len(delivered') : delivered'[i] = i
      BY <1>n, <2>1, <3>1, <3>4
    <3> QED BY <3>1, <3>4, <3>5 DEF Left
  <2> QED BY <2>2, <2>4, <2>5, <2>6
<1> QED BY <1>t, <1>6, <1>7, <1>8

-----------------------------------------------------------------------------
(* The part of the invariant that says what the ports hold.                *)
Holds == PortTypes /\ (Short => Left) /\ CleanStart /\ FirstPacketIsFresh

(* It holds initially.                                                     *)
LEMMA InitHolds == Init => Holds
<1> SUFFICES ASSUME Init PROVE Holds
  OBVIOUS
<1>1. PortTypes
  BY DEF Init, PortTypes, Port, Empty
<1>2. Left
  BY DEF Init, Left, Empty
<1>3. CleanStart /\ FirstPacketIsFresh
  BY DEF Init, CleanStart, FirstPacketIsFresh, Unread, Empty
<1> QED BY <1>1, <1>2, <1>3 DEF Holds

(* A line that leaves or cuts off an INTBACK, or delivers a packet of it.  *)
LEMMA LineHolds == Ends /\ Holds /\ Line => Holds'
<1> SUFFICES ASSUME Ends, Holds, Line PROVE Holds'
  OBVIOUS
<1> DEFINE l == (line + 1) % MaxLine
           ib == intback /\ l # VBlankLine
           cut == cutOff \/ (intback /\ ~ib /\ ~Unread(port1, port2))
           Runs == Due(l) /\ COMREG = "INTBACK"
<1>1. IF Runs THEN Intback(ib, cut)
      ELSE intback' = ib /\ cutOff' = cut /\ UNCHANGED <<SR, firstPeri, ports, waiting>>
  BY Zenon DEF Line
<1>2. ~cut /\ (~ib \/ firstPeri) => ~cutOff /\ Unread(port1, port2)
  BY Zenon DEF Holds, CleanStart
<1>3. ~cut => ~cutOff
  OBVIOUS
<1>4. firstPeri \in BOOLEAN /\ intback \in BOOLEAN
  BY DEF Ends, Flags
<1> HIDE DEF ib, cut, Runs, l
<1>5. CASE UNCHANGED ports /\ SR' \in {SR, "status"} /\ cutOff' = cut
           /\ (~intback' \/ firstPeri' => ~ib \/ firstPeri)
  <2>1. Unread(port1, port2)' = Unread(port1, port2)
    BY <1>5 DEF ports, Unread
  <2>2. PortTypes' /\ (Short' => Left')
    BY <1>5 DEF ports, Holds, PortTypes, Short, Left
  <2>3. CleanStart'
    BY <1>2, <1>5, <2>1 DEF CleanStart
  <2>4. FirstPacketIsFresh'
    BY <1>3, <1>5 DEF ports, Holds, FirstPacketIsFresh
  <2> QED BY <2>2, <2>3, <2>4 DEF Holds
<1>6. CASE Packet(cut) /\ firstPeri' = FALSE /\ intback' = TRUE
           /\ (SR' = "first" => ~ib \/ firstPeri)
  <2>1. /\ PortTypes' /\ (Short' => Left')
        /\ Unread(port1, port2) => Len(delivered') <= OregSize
        /\ cutOff' = (cut /\ ~Unread(port1, port2))
    BY <1>6, PacketKeeps DEF Holds
  <2>2. CleanStart'
    BY <1>6 DEF CleanStart
  <2>3. FirstPacketIsFresh'
    BY <1>2, <1>6, <2>1 DEF FirstPacketIsFresh
  <2> QED BY <2>1, <2>2, <2>3 DEF Holds
<1>7. CASE Runs
  <2> USE <1>1, <1>7
  <2>1. CASE ib /\ Packet(cut) /\ SR' = Mark /\ firstPeri' = FALSE /\ intback' = TRUE
    <3>1. SR' = "first" => firstPeri
      BY <2>1 DEF Mark
    <3> QED BY <1>6, <2>1, <3>1
  <2>2. CASE ~ib /\ SR' = "status" /\ cutOff' = cut /\ UNCHANGED ports
    BY <1>5, <2>2
  <2>3. CASE ~ib /\ Packet(cut) /\ SR' = "first" /\ firstPeri' = FALSE /\ intback' = TRUE
    BY <1>6, <2>3
  <2>4. CASE ~ib /\ cutOff' = cut /\ UNCHANGED <<SR, firstPeri, waiting, ports>>
    BY <1>5, <2>4
  <2> QED BY <2>1, <2>2, <2>3, <2>4, Zenon DEF Intback
<1>8. CASE ~Runs
  <2>1. UNCHANGED ports /\ SR' = SR /\ cutOff' = cut /\ intback' = ib /\ firstPeri' = firstPeri
    BY <1>1, <1>8
  <2> QED BY <1>5, <2>1
<1> QED BY <1>7, <1>8

(* Every step preserves it.                                                *)
LEMMA StepHolds == Ends /\ Holds /\ [Next]_vars => Holds'
<1> SUFFICES ASSUME Ends, Holds, [Next]_vars PROVE Holds'
  OBVIOUS
<1>1. CASE Line
  BY <1>1, LineHolds
<1>2. CASE UNCHANGED ports /\ SR' \in {SR, "none"}
           /\ \/ UNCHANGED <<intback, firstPeri, cutOff>>
              \/ cutOff' = (cutOff \/ ~Unread(port1, port2))
  <2>1. Unread(port1, port2)' = Unread(port1, port2)
    BY <1>2 DEF ports, Unread
  <2>2. PortTypes' /\ (Short' => Left')
    BY <1>2 DEF ports, Holds, PortTypes, Short, Left
  <2>3. CleanStart'
    <3>1. CASE UNCHANGED <<intback, firstPeri, cutOff>>
      BY <2>1, <3>1 DEF CleanStart, Holds
    <3>2. CASE cutOff' = (cutOff \/ ~Unread(port1, port2))
      <4>1. ~cutOff' => Unread(port1, port2)
        BY <3>2, Zenon
      <4> QED BY <2>1, <4>1, Zenon DEF CleanStart
    <3> QED BY <1>2, <3>1, <3>2
  <2>4. FirstPacketIsFresh'
    <3>1. ~cutOff' => ~cutOff
      BY <1>2
    <3> QED BY <1>2, <3>1 DEF ports, Holds, FirstPacketIsFresh
  <2> QED BY <2>2, <2>3, <2>4 DEF Holds
<1>3. CASE WriteCommand
  BY <1>2, <1>3 DEF WriteCommand
<1>4. CASE WriteSF
  BY <1>2, <1>4 DEF WriteSF
<1>5. CASE WriteRequest
  <2>1. UNCHANGED ports /\ firstPeri' = firstPeri
    BY <1>5 DEF WriteRequest
  <2>2. /\ SR' \in {SR, "none"}
        /\ \/ UNCHANGED <<intback, cutOff>>
           \/ cutOff' = (cutOff \/ ~Unread(port1, port2))
    BY <1>5 DEF WriteRequest
  <2> QED BY <1>2, <2>1, <2>2
<1>6. CASE WriteWanted
  BY <1>2, <1>6 DEF WriteWanted
<1>7. CASE Reset
  <2>1. PortTypes'
    BY <1>7 DEF Reset, Holds, PortTypes, Port, Empty
  <2>2. Short' => Left'
    BY <1>7 DEF Reset, Holds, Short, Left, Empty
  <2>3. CleanStart' /\ FirstPacketIsFresh'
    BY <1>7 DEF Reset, CleanStart, FirstPacketIsFresh, Unread, Empty
  <2> QED BY <2>1, <2>2, <2>3 DEF Holds
<1>8. CASE Reload
  BY <1>2, <1>8 DEF Reload
<1>9. CASE UNCHANGED vars
  BY <1>2, <1>9 DEF vars
<1> QED BY <1>1, <1>3, <1>4, <1>5, <1>6, <1>7, <1>8, <1>9 DEF Next, Program

-----------------------------------------------------------------------------
(* The inductive invariant.                                                *)
IInv == Ends /\ Holds

(* It holds in every behaviour.                                            *)
THEOREM Invariance == Spec => []IInv
<1>1. Init => IInv
  BY InitEnds, InitHolds DEF IInv
<1>2. IInv /\ [Next]_vars => IInv'
  BY StepEnds, StepHolds DEF IInv
<1> QED BY <1>1, <1>2, PTL DEF Spec

(* Every register and every port holds what it can.                        *)
THEOREM TypesHold == Spec => []TypeOK
<1>1. IInv => TypeOK
  BY DEF IInv, Ends, Holds, Flags, Registers, PortTypes, Port, TypeOK
<1> QED BY <1>1, Invariance, PTL

(* SF does not fall before the interrupt that an INTBACK with a time was   *)
(* to raise, whatever ends or resets it.                                   *)
THEOREM NoInterruptIsLost == Spec => []NoSilentEnd
<1>1. IInv => NoSilentEnd
  BY DEF IInv, Ends, ControlInv, NoSilentEnd
<1> QED BY <1>1, Invariance, PTL

(* The blanking does not end INTBACK under a continue that came in time.   *)
THEOREM ContinuesAreInTime == Spec => []ContinueKeepsItsPlace
<1>1. IInv => ContinueKeepsItsPlace
  BY DEF IInv, Ends, ControlInv, ContinueKeepsItsPlace
<1> QED BY <1>1, Invariance, PTL

(* However long the data of the ports is, up to the length at which a      *)
(* packet starts over, the packets join to that data.                      *)
THEOREM PacketsJoin == Spec => []PacketsAreConsecutive
<1>1. IInv => PacketsAreConsecutive
  BY DEF IInv, Holds, Short, Left, PacketsAreConsecutive
<1> QED BY <1>1, Invariance, PTL

(* A packet marked as the first is the first of new data, unless an early  *)
(* end left data behind.                                                   *)
THEOREM FirstPacketsAreFresh == Spec => []FirstPacketIsFresh
<1>1. IInv => FirstPacketIsFresh
  BY DEF IInv, Holds
<1> QED BY <1>1, Invariance, PTL
=============================================================================
