------------------------- MODULE Cs2CommandsProofs -------------------------
(***************************************************************************)
(* Proofs about Cs2Commands for every set of filters, every disc, every    *)
(* program and any number of commands: what a program reads from CR1 to    *)
(* CR4 is what its command leaves there, no sector is skipped and the free *)
(* blocks are counted (both up to the commands that break them), and the   *)
(* filters hang only in a circle.                                          *)
(*                                                                         *)
(* AnswersAreWhole is not inductive: the words are safe because command    *)
(* keeps periodic reports off from the write to CR1 to the read of CR4,    *)
(* because CMOK is clear until the command was executed, and because the   *)
(* write to CR1 cleared PERI, which nothing sets before the answer.        *)
(***************************************************************************)
EXTENDS Cs2Commands, FiniteSetTheorems, WellFoundedInduction, TLAPS

Phases == {"idle", "writing", "waiting", "reading"}

Types ==
  /\ cr \in [Words -> {"boot", "host", "answer", "report"}]
  /\ phase \in Phases /\ word \in Words

(* What the command leaves in the words. *)
Answered == \A i \in Words : cr[i] = Expected(i)

(* The words written so far are there. *)
WritingInv ==
  phase = "writing" =>
    /\ ~pending /\ "CMOK" \notin hirq
    /\ word # 1 => command /\ ~peri
    /\ \A i \in Words : i < word => cr[i] = "host"

(* The command waits, or has been executed. *)
WaitingInv ==
  phase = "waiting" =>
    /\ command /\ ~peri /\ word = 1
    /\ pending => cr = All("host") /\ "CMOK" \notin hirq
    /\ ~pending => Answered

ReadingInv == phase = "reading" => command /\ ~peri /\ ~pending /\ Answered

IdleInv == phase = "idle" => ~pending /\ word = 1

IInv == Types /\ WritingInv /\ WaitingInv /\ ReadingInv /\ IdleInv

-----------------------------------------------------------------------------
LEMMA AllTypes ==
  ASSUME NEW sort \in {"boot", "host", "answer", "report"}
  PROVE  All(sort) \in [Words -> {"boot", "host", "answer", "report"}]
BY DEF All

LEMMA InitInv == Init => IInv
<1> SUFFICES ASSUME Init PROVE IInv
  OBVIOUS
<1>1. Types
  BY AllTypes DEF Init, Types, Words, Phases
<1> QED
  BY <1>1 DEF Init, IInv, WritingInv, WaitingInv, ReadingInv, IdleInv, Answered, Expected, Rejected

(* A command that waits is that of a program that waits, with PERI clear.  *)
LEMMA PendingWaits ==
  ASSUME IInv, pending PROVE phase = "waiting" /\ command /\ ~peri
BY DEF IInv, Types, WritingInv, WaitingInv, ReadingInv, IdleInv, Answered, Expected, Rejected, Phases

(* An answer fills the words it says and leaves IInv, whatever else the    *)
(* command does.                                                           *)
LEMMA AnswerInKeepsInv ==
  ASSUME IInv, pending, NEW words, NEW flags, peri' = FALSE \/ peri' = peri,
         AnswerIn(words, flags),
         \/ words = Words /\ cmd.op \notin Silent
         \/ words = {} /\ cmd.op \in Silent
         \/ words = {1} /\ cmd.op = "info"
  PROVE  IInv'
<1>1. phase = "waiting" /\ command /\ ~peri /\ cr = All("host") /\ word = 1
  BY PendingWaits DEF IInv, WaitingInv
<1>2. ~peri'
  BY <1>1
<1>3. cr' = [i \in Words |-> IF i \in words THEN "answer" ELSE "host"]
  BY <1>1, <1>2 DEF AnswerIn, All, Words
<1>4. phase' = "waiting" /\ command' /\ ~pending' /\ word' = 1 /\ cmd' = cmd
  BY <1>1 DEF AnswerIn, program
<1>5. Types'
  BY <1>3, <1>4 DEF Types, Words, Phases
<1>6. Answered'
  <2>1. CASE words = Words /\ cmd.op \notin Silent
    BY <1>3, <1>4, <2>1 DEF Answered, Expected, Rejected, Words
  <2>2. CASE words = {} /\ cmd.op \in Silent
    BY <1>3, <1>4, <2>2 DEF Answered, Expected
  <2>3. CASE words = {1} /\ cmd.op = "info"
    BY <1>3, <1>4, <2>3 DEF Answered, Expected, Rejected, Silent, Words
  <2> QED
    BY <2>1, <2>2, <2>3
<1> QED
  BY <1>2, <1>4, <1>5, <1>6 DEF IInv, WritingInv, WaitingInv, ReadingInv, IdleInv, Answered, Expected, Rejected

LEMMA AnswerKeepsInv ==
  ASSUME IInv, pending, NEW flags, peri' = FALSE \/ peri' = peri, Answer(flags),
         cmd.op \notin Silent
  PROVE  IInv'
BY AnswerInKeepsInv DEF Answer

LEMMA ExecuteKeepsInv ==
  ASSUME IInv, Execute PROVE IInv'
<1> USE DEF Silent
<1>1. CASE ScanDisc
  BY <1>1, AnswerInKeepsInv DEF ScanDisc, Executes
<1>2. CASE Ask
  BY <1>2, AnswerKeepsInv DEF Ask, Executes, state
<1>3. CASE GetToc
  BY <1>3, AnswerKeepsInv DEF GetToc, Executes
<1>4. CASE InitializeCDSystem
  BY <1>4, AnswerKeepsInv DEF InitializeCDSystem, Executes, state
<1>5. CASE OpenTray
  BY <1>5, AnswerKeepsInv DEF OpenTray, Executes
<1>6. CASE AbortFile
  BY <1>6, AnswerKeepsInv DEF AbortFile, Executes, state
<1>7. CASE PlayDisc
  BY <1>7, AnswerKeepsInv DEF PlayDisc, Executes
<1>8. CASE ReadFile
  BY <1>8, AnswerKeepsInv DEF ReadFile, Executes
<1>9. CASE SeekDisc
  BY <1>9, AnswerKeepsInv DEF SeekDisc, Executes
<1>10. CASE SetCDDeviceConnection
  BY <1>10, AnswerKeepsInv DEF SetCDDeviceConnection, Executes, state
<1>11. CASE SetFilter
  BY <1>11, AnswerKeepsInv DEF SetFilter, Executes, state
<1>12. CASE ResetSelector
  BY <1>12, AnswerKeepsInv DEF ResetSelector, Executes, state
<1>13. CASE ResetSelectors
  BY <1>13, AnswerKeepsInv DEF ResetSelectors, Executes, state
<1>14. CASE GetFadSearchResults
  BY <1>14, AnswerInKeepsInv DEF GetFadSearchResults, Executes, state
<1>15. CASE GetSectorInfo
  <2>1. \E words \in {Words, {1}} : AnswerIn(words, hirq)
    BY <1>15 DEF GetSectorInfo
  <2> QED
    BY <1>15, <2>1, AnswerInKeepsInv DEF GetSectorInfo, Executes, state
<1>16. CASE PutSectorData
  BY <1>16, AnswerInKeepsInv DEF PutSectorData, Executes, state
<1> QED
  BY <1>1, <1>2, <1>3, <1>4, <1>5, <1>6, <1>7, <1>8, <1>9, <1>10, <1>11, <1>12, <1>13, <1>14, <1>15,
     <1>16 DEF Execute

(* A periodic report leaves the words alone while a program writes, waits  *)
(* or reads; what the play adds to HIRQ is not CMOK.                       *)
LEMMA ReportKeepsInv ==
  ASSUME IInv, Report, ~pending, hirq' \subseteq hirq \cup {"PEND"},
         UNCHANGED <<command, pending, phase, word, cmd>>
  PROVE  IInv'
<1>1. CASE command
  BY <1>1 DEF Report, Reports, IInv, Types, WritingInv, WaitingInv, ReadingInv, IdleInv, Answered, Expected, Rejected
<1>2. CASE ~command
  <2>1. phase = "idle" \/ (phase = "writing" /\ word = 1)
    BY <1>2 DEF IInv, Types, WritingInv, WaitingInv, ReadingInv, Phases
  <2>2. cr' = All("report") /\ peri' = TRUE
    BY <1>2 DEF Report, Reports
  <2>3. Types'
    BY <2>2 DEF IInv, Types, All, Words
  <2> QED
    BY <2>1, <2>2, <2>3 DEF IInv, WritingInv, WaitingInv, ReadingInv, IdleInv, Answered, Expected, Rejected, Words
<1> QED
  BY <1>1, <1>2 DEF IInv, Types

LEMMA WriteKeepsInv ==
  ASSUME IInv, Write PROVE IInv'
<1>1. phase = "writing" /\ ~pending /\ "CMOK" \notin hirq /\ word \in 1..4
  BY DEF Write, IInv, WritingInv, Types, Words
<1>2. command' /\ ~peri' /\ hirq' = hirq
  BY <1>1 DEF Write, Taken, IInv, Types, WritingInv
<1>3. Types'
  BY <1>1 DEF Write, Taken, IInv, Types, Words, Phases
<1>4. \A i \in Words : i <= word => cr'[i] = "host"
  BY <1>1 DEF Write, IInv, Types, WritingInv, Words
<1>5. CASE word = 4
  <2>1. cr' = All("host")
    BY <1>3, <1>4, <1>5 DEF Types, Words, All
  <2> QED
    BY <1>1, <1>2, <1>3, <1>5, <2>1 DEF Write, IInv, WritingInv, WaitingInv, ReadingInv, IdleInv, Answered, Expected, Rejected
<1>6. CASE word # 4
  BY <1>1, <1>2, <1>3, <1>4, <1>6 DEF Write, IInv, WritingInv, WaitingInv, ReadingInv, IdleInv, Answered, Expected, Rejected, Words
<1> QED
  BY <1>5, <1>6

LEMMA StepInv ==
  ASSUME IInv, [Next]_vars PROVE IInv'
<1>1. CASE UNCHANGED vars
  BY <1>1 DEF vars, registers, state, program, IInv, Types, WritingInv, WaitingInv, ReadingInv, IdleInv, Answered, Expected, Rejected
<1>2. CASE Reset
  <2>1. Types'
    BY <1>2, AllTypes DEF Reset, Types, Words, Phases
  <2> QED
    BY <1>2, <2>1 DEF Reset, IInv, WritingInv, WaitingInv, ReadingInv, IdleInv, Answered, Expected, Rejected
<1>3. CASE Write
  BY <1>3, WriteKeepsInv
<1>4. CASE SeeAnswer
  BY <1>4 DEF SeeAnswer, registers, state, IInv, Types, WritingInv, WaitingInv, ReadingInv, IdleInv, Answered, Expected, Rejected, Phases
<1>5. CASE Read
  <2>1. CASE word = 4
    BY <1>5, <2>1 DEF Read, state, IInv, Types, WritingInv, WaitingInv, ReadingInv, IdleInv, Answered, Expected, Rejected, Words, Phases
  <2>2. CASE word # 4
    <3>1. command' /\ phase' = "reading" /\ word' = word + 1 /\ cmd' = cmd
      BY <1>5, <2>2 DEF Read, IInv, ReadingInv
    <3>2. Types'
      BY <1>5, <2>2, <3>1 DEF Read, state, IInv, Types, Words, Phases
    <3> QED
      BY <1>5, <3>1, <3>2 DEF Read, state, IInv, WritingInv, WaitingInv, ReadingInv, IdleInv, Answered, Expected, Rejected
  <2> QED
    BY <2>1, <2>2
<1>6. CASE Acknowledge
  BY <1>6 DEF Acknowledge, state, program, IInv, Types, WritingInv, WaitingInv, ReadingInv, IdleInv, Answered, Expected, Rejected
<1>7. CASE Execute
  BY <1>7, ExecuteKeepsInv
<1>8. CASE Poll
  BY <1>8 DEF Poll, registers, program, IInv, Types, WritingInv, WaitingInv, ReadingInv, IdleInv, Answered, Expected, Rejected
<1>9. CASE ReadSector
  <2>1. hirq' \subseteq hirq \cup {"PEND"}
    BY <1>9 DEF ReadSector, Advance
  <2> QED
    BY <1>9, <2>1, ReportKeepsInv DEF ReadSector, Reads, program
<1>10. CASE Hang
  BY <1>10 DEF Hang, registers, state, program, IInv, Types, WritingInv, WaitingInv, ReadingInv, IdleInv, Answered, Expected, Rejected
<1>11. CASE NoSector
  BY <1>11, ReportKeepsInv DEF NoSector, program
<1>12. ASSUME NEW c \in Program, Begin(c) PROVE IInv'
  BY <1>12 DEF Begin, state, IInv, Types, WritingInv, WaitingInv, ReadingInv, IdleInv, Answered, Expected, Rejected, Words, Phases
<1>13. ASSUME NEW p \in Filters, TakeSector(p) PROVE IInv'
  BY <1>13 DEF TakeSector, registers, state, program, IInv, Types, WritingInv, WaitingInv, ReadingInv, IdleInv, Answered, Expected, Rejected
<1>14. ASSUME NEW d \in Drives, ChangeDrive(d) PROVE IInv'
  BY <1>14 DEF ChangeDrive, registers, state, program, IInv, Types, WritingInv, WaitingInv, ReadingInv, IdleInv, Answered, Expected, Rejected
<1> QED
  BY <1>1, <1>2, <1>3, <1>4, <1>5, <1>6, <1>7, <1>8, <1>9, <1>10, <1>11, <1>12, <1>13, <1>14 DEF Next

THEOREM Invariance == Spec => []IInv
BY InitInv, StepInv, PTL DEF Spec

(* What the program reads is what its command leaves in the words, its own *)
(* where the command answers nothing, with no word of a periodic report,   *)
(* and the command executed is the one it wrote.                           *)
THEOREM AnswersHold == Spec => []AnswersAreWhole
<1>1. IInv => AnswersAreWhole
  BY PendingWaits DEF IInv, Types, WaitingInv, ReadingInv, Answered, AnswersAreWhole, Words
<1> QED
  BY <1>1, Invariance, PTL
-----------------------------------------------------------------------------
(* The sum of the partitions.  FoldFunction adds them up in the order of a *)
(* CHOOSE; what it returns is proved by induction on the set still to add. *)

Any(s) == CHOOSE x \in s : TRUE

Total(w) == FoldFunction(+, 0, w)

(* What the fold has added up for each set of partitions.                  *)
SumSteps(a, w, S) ==
  a = [s \in SUBSET S |-> IF s = {} THEN 0 ELSE w[Any(s)] + a[s \ {Any(s)}]]

(* Every set of naturals with a member has a smallest one.                 *)
LEMMA LeastNatural ==
  ASSUME NEW T \in SUBSET Nat, T # {}
  PROVE  \E x \in T : \A y \in T : x <= y
<1> DEFINE R == OpToRel(<, Nat)
<1>1. IsWellFoundedOn(R, Nat)
  BY NatLessThanWellFounded
<1>2. PICK x \in T : \A y \in T : ~ (<<y, x>> \in R)
  <2> HIDE DEF R
  <2> QED BY <1>1, WFMin
<1>3. \A y \in T : ~(y < x)
  BY <1>2 DEF OpToRel
<1> QED
  BY <1>3

(* A set of naturals that holds 0 and every successor holds them all.      *)
LEMMA Induction ==
  ASSUME NEW S \in SUBSET Nat, 0 \in S, \A n \in S : n + 1 \in S
  PROVE  S = Nat
<1> SUFFICES ASSUME Nat \ S # {} PROVE FALSE
  OBVIOUS
<1>1. PICK x \in Nat \ S : \A y \in Nat \ S : x <= y
  BY LeastNatural
<1>2. x - 1 \in S
  BY <1>1
<1> QED
  BY <1>1, <1>2

(* The same for the subsets of a finite set: the empty one, and each that  *)
(* is in it without the element that is added first.                       *)
LEMMA SubsetInduction ==
  ASSUME NEW S, IsFiniteSet(S), NEW G, {} \in G,
         \A T \in SUBSET S : T # {} /\ T \ {Any(T)} \in G => T \in G
  PROVE  SUBSET S \subseteq G
<1> SUFFICES ASSUME (SUBSET S) \ G # {} PROVE FALSE
  OBVIOUS
<1>1. (SUBSET S) \ G \subseteq FiniteSubsetsOf(S)
  BY FS_Subset DEF FiniteSubsetsOf
<1>2. PICK T \in (SUBSET S) \ G :
        \A U \in (SUBSET S) \ G : <<U, T>> \notin StrictSubsetOrdering(S)
  BY <1>1, FS_StrictSubsetOrderingWellFounded, WFMin
<1>3. T # {} /\ Any(T) \in T
  BY DEF Any
<1>4. <<T \ {Any(T)}, T>> \in StrictSubsetOrdering(S)
  BY <1>3 DEF StrictSubsetOrdering
<1> QED
  BY <1>2, <1>3, <1>4

LEMMA FiltersAreFinite == IsFiniteSet(Filters)
<1>1. 0 \in Int /\ NoFilter - 1 \in Int
  BY DEF NoFilter
<1>2. IsFiniteSet(0..(NoFilter - 1))
  BY <1>1, FS_Interval
<1> QED
  BY <1>2, CommandsAssumption, FS_Subset

LEMMA TotalIsALoop ==
  ASSUME NEW w, IsFiniteSet(DOMAIN w)
  PROVE  \E a : SumSteps(a, w, DOMAIN w) /\ Total(w) = a[DOMAIN w]
<1> DEFINE D == DOMAIN w
           Small(n) == {s \in SUBSET D : Cardinality(s) <= n}
           Rec(a, n) == \A s \in Small(n) :
                           a[s] = IF s = {} THEN 0 ELSE w[Any(s)] + a[s \ {Any(s)}]
           S == {n \in Nat : \E a : Rec(a, n)}
<1>1. \A s \in SUBSET D : IsFiniteSet(s) /\ Cardinality(s) \in Nat
  BY FS_Subset, FS_CardinalityType
<1>2. 0 \in S
  <2>1. \A s \in Small(0) : s = {}
    BY <1>1, FS_EmptySet
  <2>2. Rec([s \in {{}} |-> 0], 0)
    BY <2>1
  <2> QED
    BY <2>2
<1>3. ASSUME NEW n \in S PROVE n + 1 \in S
  <2>1. PICK a : Rec(a, n)
    OBVIOUS
  <2> DEFINE b == [s \in SUBSET D |-> IF s \in Small(n) THEN a[s] ELSE w[Any(s)] + a[s \ {Any(s)}]]
  <2>2. ASSUME NEW s \in Small(n + 1), s # {}
        PROVE  s \ {Any(s)} \in Small(n)
    <3>1. Any(s) \in s
      BY <2>2 DEF Any
    <3>2. Cardinality(s \ {Any(s)}) = Cardinality(s) - 1
      BY <1>1, <3>1, FS_RemoveElement
    <3> QED
      BY <1>1, <3>2
  <2>3. {} \in Small(n)
    BY FS_EmptySet
  <2>4. ASSUME NEW s \in Small(n + 1)
        PROVE  b[s] = IF s = {} THEN 0 ELSE w[Any(s)] + b[s \ {Any(s)}]
    <3>1. s # {} => b[s \ {Any(s)}] = a[s \ {Any(s)}]
      BY <2>2
    <3>2. CASE s \in Small(n)
      <4>1. b[s] = a[s]
        BY <3>2
      <4> QED
        BY <2>1, <3>1, <3>2, <4>1
    <3>3. CASE s \notin Small(n)
      <4>1. b[s] = w[Any(s)] + a[s \ {Any(s)}] /\ s # {}
        BY <2>3, <3>3
      <4> QED
        BY <3>1, <4>1
    <3> QED
      BY <3>2, <3>3
  <2>5. Rec(b, n + 1)
    <3> HIDE DEF b
    <3> QED BY <2>4
  <2> HIDE DEF Rec, b
  <2> QED
    BY <2>5
<1>4. S = Nat
  <2> HIDE DEF S
  <2> QED BY <1>2, <1>3, Induction DEF S
<1>5. Small(Cardinality(D)) = SUBSET D
  BY <1>1, FS_Subset
<1>6. PICK a : Rec(a, Cardinality(D))
  BY <1>1, <1>4
<1> DEFINE c == [s \in SUBSET D |-> a[s]]
<1>7. SumSteps(c, w, D)
  BY <1>5, <1>6 DEF SumSteps
<1> DEFINE f == CHOOSE g : SumSteps(g, w, D)
<1>8. SumSteps(f, w, D)
  BY <1>7
<1>9. Total(w) = f[D]
  BY DEF Total, FoldFunction, FoldFunctionOnSet, MapThenFoldSet, SumSteps, Any
<1> QED
  BY <1>8, <1>9

(* What a sum of naturals is.                                              *)
LEMMA TotalFacts ==
  ASSUME NEW w \in [Filters -> Nat]
  PROVE  /\ Total(w) \in Nat
         /\ \A f \in Filters : w[f] <= Total(w)
         /\ (\A f \in Filters : w[f] = 0) => Total(w) = 0
<1>1. IsFiniteSet(Filters)
  BY FiltersAreFinite
<1>2. PICK a : SumSteps(a, w, Filters) /\ Total(w) = a[Filters]
  BY <1>1, TotalIsALoop
<1> DEFINE G == {s \in SUBSET Filters :
                   /\ a[s] \in Nat
                   /\ \A f \in s : w[f] <= a[s]
                   /\ (\A f \in s : w[f] = 0) => a[s] = 0}
<1>3. {} \in G
  BY <1>2 DEF SumSteps
<1>4. ASSUME NEW T \in SUBSET Filters, T # {}, T \ {Any(T)} \in G
      PROVE  T \in G
  <2>1. Any(T) \in T /\ w[Any(T)] \in Nat
    BY <1>4 DEF Any
  <2>2. a[T] = w[Any(T)] + a[T \ {Any(T)}]
    BY <1>2, <1>4 DEF SumSteps
  <2>3. \A f \in T : f = Any(T) \/ f \in T \ {Any(T)}
    OBVIOUS
  <2> QED
    BY <1>4, <2>1, <2>2, <2>3
<1>5. Filters \in G
  <2> HIDE DEF G
  <2> QED BY <1>1, <1>3, <1>4, SubsetInduction
<1> QED
  BY <1>2, <1>5

(* A partition that changes changes the sum by as much.                    *)
LEMMA TotalOfUpdate ==
  ASSUME NEW w \in [Filters -> Nat], NEW p \in Filters, NEW k \in Nat
  PROVE  Total([w EXCEPT ![p] = k]) = Total(w) - w[p] + k
<1> DEFINE v == [w EXCEPT ![p] = k]
<1>1. IsFiniteSet(Filters)
  BY FiltersAreFinite
<1>2. PICK a : SumSteps(a, w, Filters) /\ Total(w) = a[Filters]
  BY <1>1, TotalIsALoop
<1>3. v \in [Filters -> Nat] /\ v[p] = k /\ \A f \in Filters : f # p => v[f] = w[f]
  OBVIOUS
<1> HIDE DEF v
<1>4. PICK b : SumSteps(b, v, Filters) /\ Total(v) = b[Filters]
  BY <1>1, <1>3, TotalIsALoop
<1> DEFINE G == {s \in SUBSET Filters :
                   /\ a[s] \in Nat
                   /\ b[s] = IF p \in s THEN a[s] - w[p] + k ELSE a[s]}
<1>5. {} \in G
  BY <1>2, <1>4 DEF SumSteps
<1>6. ASSUME NEW T \in SUBSET Filters, T # {}, T \ {Any(T)} \in G
      PROVE  T \in G
  <2>1. Any(T) \in T /\ w[Any(T)] \in Nat /\ w[p] \in Nat
    BY <1>6 DEF Any
  <2>2. a[T] = w[Any(T)] + a[T \ {Any(T)}]
    BY <1>2, <1>6 DEF SumSteps
  <2>3. b[T] = v[Any(T)] + b[T \ {Any(T)}]
    BY <1>4, <1>6 DEF SumSteps
  <2>4. CASE Any(T) = p
    BY <1>3, <1>6, <2>1, <2>2, <2>3, <2>4
  <2>5. CASE Any(T) # p
    <3>1. p \in T <=> p \in T \ {Any(T)}
      BY <2>5
    <3> QED
      BY <1>3, <1>6, <2>1, <2>2, <2>3, <2>5, <3>1
  <2> QED
    BY <2>4, <2>5
<1>7. Filters \in G
  <2> HIDE DEF G
  <2> QED BY <1>1, <1>5, <1>6, SubsetInduction
<1> QED
  BY <1>2, <1>4, <1>7 DEF v
-----------------------------------------------------------------------------
(* The walk along the false connectors.  The model looks at the first      *)
(* Cardinality(Filters) steps of it; the loop of Cs2FilterData has no such *)
(* bound.                                                                  *)
FilterTypes ==
  filter \in [Filters -> [sectors : SUBSET Sectors, condtrue : Filters,
                         condfalse : Filters \cup {NoFilter}]]

Follow(f, fad) == IF f = NoFilter \/ Accepts(f, fad) THEN f ELSE filter[f].condfalse

ChainSteps(at, fad, n) ==
  at = [k \in 0..n |-> IF k = 0 THEN outconcddev ELSE Follow(at[k - 1], fad)]

LEMMA ChainIsALoop ==
  ASSUME NEW fad
  PROVE  \E at : ChainSteps(at, fad, Cardinality(Filters)) /\ Chain(fad) = at[Cardinality(Filters)]
<1> DEFINE C == Cardinality(Filters)
           S == {n \in Nat : \E at : ChainSteps(at, fad, n)}
<1>1. C \in Nat
  BY FiltersAreFinite, FS_CardinalityType
<1>2. 0 \in S
  <2>1. ChainSteps([k \in 0..0 |-> outconcddev], fad, 0)
    BY DEF ChainSteps
  <2> QED
    BY <2>1
<1>3. ASSUME NEW n \in S PROVE n + 1 \in S
  <2>1. PICK at : ChainSteps(at, fad, n)
    OBVIOUS
  <2> DEFINE b == [k \in 0..(n + 1) |-> IF k = n + 1 THEN Follow(at[n], fad) ELSE at[k]]
  <2>2. n \in Nat /\ \A k \in 0..n : b[k] = at[k]
    OBVIOUS
  <2>3. \A k \in 0..(n + 1) : b[k] = IF k = 0 THEN outconcddev ELSE Follow(b[k - 1], fad)
    BY <2>1, <2>2 DEF ChainSteps
  <2>4. ChainSteps(b, fad, n + 1)
    BY <2>3 DEF ChainSteps
  <2> HIDE DEF b
  <2> QED
    BY <2>2, <2>4
<1>4. S = Nat
  <2> HIDE DEF S
  <2> QED BY <1>2, <1>3, Induction DEF S
<1>5. \E at : ChainSteps(at, fad, C)
  BY <1>1, <1>4
<1> DEFINE f == CHOOSE at : ChainSteps(at, fad, C)
<1>6. ChainSteps(f, fad, C)
  BY <1>5
<1>7. Chain(fad) = f[C]
  BY DEF Chain, ChainSteps, Follow
<1> QED
  BY <1>6, <1>7

(* The drive's filter and the filters behind its false connectors: none    *)
(* keeps the sector and none leads out.                                    *)
Circle(c, fad) ==
  /\ outconcddev \in c
  /\ \A f \in c : ~Accepts(f, fad) /\ filter[f].condfalse \in c

(* Loops, which looks only so far, is true exactly when the loop of        *)
(* Cs2FilterData does not end: it stays among filters that neither keep    *)
(* the sector nor lead out.  In every other case it ends at the filter     *)
(* that Chain tells, or with none.                                         *)
LEMMA LoopsIsEndless ==
  ASSUME FilterTypes, outconcddev \in Filters \cup {NoFilter}, NEW fad
  PROVE  /\ Loops(fad) <=> \E c \in SUBSET Filters : Circle(c, fad)
         /\ ~Loops(fad) => Chain(fad) = NoFilter \/ (Chain(fad) \in Filters /\ Accepts(Chain(fad), fad))
<1> DEFINE C == Cardinality(Filters)
<1>1. C \in Nat /\ IsFiniteSet(Filters) /\ NoFilter \notin Filters
  BY FiltersAreFinite, FS_CardinalityType, CommandsAssumption DEF NoFilter
<1>2. PICK at : ChainSteps(at, fad, C) /\ Chain(fad) = at[C]
  BY ChainIsALoop
<1>3. /\ at[0] = outconcddev
      /\ \A k \in 0..C : k < C => at[k + 1] = Follow(at[k], fad)
  BY <1>1, <1>2 DEF ChainSteps
<1>4. \A f \in Filters \cup {NoFilter} : Follow(f, fad) \in Filters \cup {NoFilter}
  BY DEF FilterTypes, Follow
<1>5. \A k \in 0..C : at[k] \in Filters \cup {NoFilter}
  <2> DEFINE G == {k \in Nat : k <= C => at[k] \in Filters \cup {NoFilter}}
  <2>1. 0 \in G
    BY <1>3
  <2>2. \A k \in G : k + 1 \in G
    BY <1>1, <1>3, <1>4
  <2>3. G = Nat
    <3> HIDE DEF G
    <3> QED BY <2>1, <2>2, Induction DEF G
  <2> QED
    BY <2>3
<1>6. ASSUME Loops(fad) PROVE \E c \in SUBSET Filters : Circle(c, fad)
  <2> DEFINE Goes(f) == f \in Filters /\ ~Accepts(f, fad)
  <2>1. \A f : Goes(Follow(f, fad)) /\ f \in Filters \cup {NoFilter} => Goes(f)
    BY <1>1 DEF Follow
  <2>2. \A k \in 0..C : Goes(at[k])
    <3> DEFINE G == {k \in Nat : k <= C => Goes(at[C - k])}
    <3>1. 0 \in G
      BY <1>1, <1>2, <1>6 DEF Loops
    <3>2. ASSUME NEW k \in G, k + 1 <= C PROVE Goes(at[C - (k + 1)])
      <4>1. C - (k + 1) \in 0..C /\ C - (k + 1) < C /\ C - (k + 1) + 1 = C - k
        BY <1>1, <3>2
      <4>2. at[C - k] = Follow(at[C - (k + 1)], fad) /\ at[C - (k + 1)] \in Filters \cup {NoFilter}
        BY <1>3, <1>5, <4>1
      <4> QED
        BY <1>1, <2>1, <3>2, <4>2
    <3>3. \A k \in G : k + 1 \in G
      BY <3>2
    <3>4. G = Nat
      <4> HIDE DEF G
      <4> QED BY <3>1, <3>3, Induction DEF G
    <3>5. ASSUME NEW k \in 0..C PROVE Goes(at[k])
      <4>1. C - k \in G /\ C - k <= C /\ C - (C - k) = k
        BY <1>1, <3>4
      <4> QED
        BY <4>1
    <3> QED
      BY <3>5
  <2>3. PICK i, j \in 0..C : i < j /\ at[i] = at[j]
    <3> DEFINE g == [k \in 0..C |-> at[k]]
    <3>1. IsFiniteSet(0..C) /\ Cardinality(0..C) = C + 1
      BY <1>1, FS_Interval
    <3>2. g \in [0..C -> Filters]
      BY <2>2
    <3>3. \E x, y \in 0..C : x # y /\ g[x] = g[y]
      <4> HIDE DEF g
      <4> QED BY <1>1, <3>1, <3>2, FS_PigeonHole
    <3>4. PICK x, y \in 0..C : x # y /\ at[x] = at[y]
      BY <3>3
    <3>5. x < y \/ y < x
      BY <1>1, <3>4
    <3> QED
      BY <3>4, <3>5
  <2> DEFINE c == {at[k] : k \in 0..(j - 1)}
  <2>4. outconcddev \in c
    BY <1>1, <1>3, <2>3
  <2>5. ASSUME NEW k \in 0..(j - 1) PROVE filter[at[k]].condfalse \in c
    <3>1. k \in 0..C /\ k < C
      BY <1>1
    <3>2. at[k + 1] = filter[at[k]].condfalse
      BY <1>1, <1>3, <2>2, <3>1 DEF Follow
    <3>3. k + 1 = j \/ k + 1 \in 0..(j - 1)
      BY <1>1
    <3>4. i \in 0..(j - 1)
      BY <1>1, <2>3
    <3> QED
      BY <2>3, <3>2, <3>3, <3>4
  <2>6. c \in SUBSET Filters /\ \A f \in c : ~Accepts(f, fad)
    BY <1>1, <2>2
  <2> QED
    BY <2>4, <2>5, <2>6 DEF Circle
<1>7. ASSUME NEW c \in SUBSET Filters, Circle(c, fad) PROVE Loops(fad)
  <2> DEFINE G == {k \in Nat : k <= C => at[k] \in c}
  <2>1. 0 \in G
    BY <1>3, <1>7 DEF Circle
  <2>2. \A k \in G : k + 1 \in G
    BY <1>1, <1>3, <1>7 DEF Circle, Follow
  <2>3. G = Nat
    <3> HIDE DEF G
    <3> QED BY <2>1, <2>2, Induction DEF G
  <2>4. at[C] \in c
    BY <1>1, <2>3
  <2> QED
    BY <1>2, <1>7, <2>4 DEF Circle, Loops
<1> QED
  BY <1>1, <1>2, <1>5, <1>6, <1>7 DEF Loops
-----------------------------------------------------------------------------
(* The count of the free blocks, which no code ever compares with the      *)
(* partitions, is right until the commands that break it; until then the   *)
(* buffer has room unless it says that it is full.  A sector needs room    *)
(* and a partition, so the connectors of the filters and the commands that *)
(* set them are part of the invariant.                                     *)
BlocksAdd ==
  /\ partition \in [Filters -> Nat] /\ Total(partition) <= NumBlocks
  /\ blockfreespace \in 0..(U32 - 1)
  /\ ~cleared => blockfreespace = NumBlocks - Total(partition)

Room == cleared \/ isbufferfull \/ blockfreespace > 0

BInv == Room /\ BlocksAdd /\ FilterTypes /\ cmd \in Program \cup {NoCommand}

LEMMA FreeIs ==
  ASSUME BlocksAdd
  PROVE  /\ Free = NumBlocks - Total(partition) /\ Free \in Nat
         /\ Total(partition) \in Nat /\ NumBlocks \in Nat \ {0} /\ blockfreespace \in Nat
         /\ ~cleared => blockfreespace = Free
<1>1. Free = NumBlocks - Total(partition)
  BY DEF Free, Total
<1>2. Total(partition) \in Nat
  BY TotalFacts DEF BlocksAdd
<1> QED
  BY <1>1, <1>2, CommandsAssumption DEF BlocksAdd

LEMMA CommandTypes ==
  ASSUME NEW c \in Program \cup {NoCommand}
  PROVE  /\ c.op \in {"empty", "true", "false", "accept"} => c.filter \in Filters
         /\ c.op = "true" => c.to \in Filters
         /\ c.op = "false" => c.to \in Filters \cup {NoFilter}
         /\ c.op = "accept" => c.sectors \subseteq Sectors
         /\ c.op = "put" => c.filter \in Filters /\ c.sectors \in Nat
<1>1. CASE c = NoCommand
  BY <1>1 DEF NoCommand
<1>2. CASE c \in Commands
  BY <1>2 DEF Commands
<1> QED
  BY <1>1, <1>2, CommandsAssumption

LEMMA BufferInit == Init => BInv
<1> SUFFICES ASSUME Init PROVE BInv
  OBVIOUS
<1>1. Room /\ BlocksAdd
  <2>1. partition \in [Filters -> Nat] /\ \A f \in Filters : partition[f] = 0
    BY DEF Init
  <2> QED
    BY <2>1, TotalFacts, CommandsAssumption DEF Init, Room, BlocksAdd
<1>2. \A f \in Filters : OpenFilter(f) \in [sectors : SUBSET Sectors, condtrue : Filters,
                                            condfalse : Filters \cup {NoFilter}]
  BY DEF OpenFilter
<1>3. FilterTypes
  BY <1>2 DEF Init, FilterTypes
<1> QED
  BY <1>1, <1>3 DEF Init, BInv

(* The arithmetic of the count: it moves against the partition.            *)
LEMMA CountMoves ==
  ASSUME BlocksAdd, NEW p \in Filters, NEW d \in Int, 0 <= partition[p] + d, d <= Free,
         partition' = [partition EXCEPT ![p] = @ + d],
         blockfreespace' = (blockfreespace - d) % U32, cleared' = cleared
  PROVE  BlocksAdd' /\ (~cleared => blockfreespace' = blockfreespace - d)
<1> DEFINE k == partition[p] + d
<1>1. partition[p] \in Nat /\ k \in Nat /\ partition \in [Filters -> Nat]
  BY DEF BlocksAdd
<1>2. Total(partition') = Total(partition) - partition[p] + k
  <2>1. partition' = [partition EXCEPT ![p] = k]
    OBVIOUS
  <2>2. Total([partition EXCEPT ![p] = k]) = Total(partition) - partition[p] + k
    <3> HIDE DEF k
    <3> QED BY <1>1, TotalOfUpdate
  <2> QED
    BY <2>1, <2>2
<1>3. Total(partition') \in Nat /\ Total(partition') = Total(partition) + d /\ Total(partition') <= NumBlocks
  <2>1. partition' \in [Filters -> Nat]
    BY <1>1
  <2> QED
    BY <1>1, <1>2, <2>1, TotalFacts, FreeIs
<1>4. U32 \in Nat /\ U32 > NumBlocks /\ blockfreespace - d \in Int
  BY FreeIs, CommandsAssumption
<1>5. blockfreespace' \in 0..(U32 - 1)
  BY <1>4, FreeIs
<1>6. ~cleared => blockfreespace' = blockfreespace - d
  <2>1. ~cleared => blockfreespace - d \in 0..(U32 - 1)
    BY <1>3, <1>4, FreeIs
  <2> QED
    BY <1>4, <2>1
<1>7. Total(partition)' = Total(partition')
  OBVIOUS
<1> QED
  BY <1>1, <1>3, <1>5, <1>6, <1>7, FreeIs DEF BlocksAdd

LEMMA DropKeepsRoom ==
  ASSUME Room, BlocksAdd, NEW p \in Filters, NEW n \in 0..partition[p], cleared' = cleared,
         partition' = [partition EXCEPT ![p] = @ - n],
         blockfreespace' = (blockfreespace + n) % U32,
         isbufferfull /\ n = 0 /\ blockfreespace' = 0 => isbufferfull'
  PROVE  Room' /\ BlocksAdd'
<1> DEFINE d == -n
<1>1. /\ partition[p] \in Nat /\ d \in Int /\ 0 <= partition[p] + d /\ d <= Free
      /\ partition[p] + d = partition[p] - n /\ blockfreespace - d = blockfreespace + n
  BY FreeIs DEF BlocksAdd
<1>2. /\ partition' = [partition EXCEPT ![p] = @ + d]
      /\ blockfreespace' = (blockfreespace - d) % U32
  BY <1>1
<1>3. BlocksAdd' /\ (~cleared => blockfreespace' = blockfreespace - d)
  <2> HIDE DEF d
  <2> QED BY <1>1, <1>2, CountMoves
<1>4. ~cleared => blockfreespace' = blockfreespace + n
  BY <1>1, <1>3
<1>5. blockfreespace \in Nat /\ blockfreespace' \in Nat
  BY <1>3, FreeIs DEF BlocksAdd
<1>6. ASSUME ~cleared', ~isbufferfull' PROVE blockfreespace' > 0
  <2>1. CASE n = 0
    BY <1>4, <1>5, <1>6, <2>1 DEF Room
  <2>2. CASE n # 0
    BY <1>4, <1>5, <1>6, <2>2
  <2> QED
    BY <2>1, <2>2
<1> QED
  BY <1>3, <1>6 DEF Room

LEMMA KeepKeepsRoom ==
  ASSUME Room, BlocksAdd, NEW p \in Filters, NEW n \in 0..Free, Keep(p, n), cleared' = cleared
  PROVE  Room' /\ BlocksAdd'
<1>1. n \in Int /\ 0 <= partition[p] + n /\ n <= Free
  BY FreeIs DEF BlocksAdd
<1>2. BlocksAdd' /\ (~cleared => blockfreespace' = blockfreespace - n)
  <2>1. /\ partition' = [partition EXCEPT ![p] = @ + n]
        /\ blockfreespace' = (blockfreespace - n) % U32
    BY DEF Keep
  <2> QED
    BY <1>1, <2>1, CountMoves
<1>3. isbufferfull' = (isbufferfull \/ blockfreespace \in 1..n)
  BY DEF Keep
<1>4. ASSUME ~cleared', ~isbufferfull' PROVE blockfreespace' > 0
  <2>1. ~cleared /\ blockfreespace > 0 /\ blockfreespace \notin 1..n
    BY <1>3, <1>4 DEF Room
  <2> QED
    BY <1>1, <1>2, <2>1, FreeIs
<1> QED
  BY <1>2, <1>4 DEF Room

LEMMA StoreKeepsRoom ==
  ASSUME Room, BlocksAdd, NEW p \in Filters, Store(p), cleared' = cleared
  PROVE  Room' /\ BlocksAdd'
<1>1. CASE Free > 0
  BY <1>1, FreeIs, KeepKeepsRoom DEF Store
<1>2. CASE ~(Free > 0)
  BY <1>2 DEF Store, Room, BlocksAdd
<1> QED
  BY <1>1, <1>2

LEMMA DestinationType ==
  ASSUME FilterTypes, NEW fad, Destination(fad) # NoFilter
  PROVE  Destination(fad) \in Filters
BY DEF FilterTypes, Destination

LEMMA BufferStep ==
  ASSUME BInv, [Next]_vars PROVE BInv'
<1>1. CASE UNCHANGED vars
  BY <1>1 DEF vars, buffer, selector, program, BInv, Room, BlocksAdd, FilterTypes
<1>2. CASE Reset
  <2>1. Room' /\ BlocksAdd'
    <3>1. partition' \in [Filters -> Nat] /\ \A f \in Filters : partition'[f] = 0
      BY <1>2 DEF Reset
    <3>2. Total(partition') = 0 /\ Total(partition)' = Total(partition')
      BY <3>1, TotalFacts
    <3> QED
      BY <1>2, <3>1, <3>2, CommandsAssumption DEF Reset, Room, BlocksAdd
  <2>2. \A f \in Filters : OpenFilter(f) \in [sectors : SUBSET Sectors, condtrue : Filters,
                                              condfalse : Filters \cup {NoFilter}]
    BY DEF OpenFilter
  <2> QED
    BY <1>2, <2>1, <2>2 DEF Reset, BInv, FilterTypes
<1>3. CASE Write \/ SeeAnswer \/ Read \/ Acknowledge \/ Poll \/ Hang \/ NoSector
  <2>1. UNCHANGED <<buffer, selector>> /\ cmd' \in {cmd, NoCommand}
    BY <1>3 DEF Write, SeeAnswer, Read, Acknowledge, Poll, Hang, NoSector, program
  <2> QED
    BY <2>1 DEF buffer, selector, BInv, Room, BlocksAdd, FilterTypes
<1>4. CASE Execute
  <2> USE DEF Executes, BInv
  <2>1. cmd' = cmd
    BY <1>4 DEF Execute, Ask, GetToc, InitializeCDSystem, OpenTray, ScanDisc, AbortFile,
        PlayDisc, ReadFile, SeekDisc, SetCDDeviceConnection, SetFilter, ResetSelector, ResetSelectors,
        GetFadSearchResults, GetSectorInfo, PutSectorData, Answer, AnswerIn, program
  <2>2. CASE Ask \/ GetToc \/ OpenTray \/ ScanDisc \/ AbortFile \/ PlayDisc \/ SeekDisc
             \/ GetFadSearchResults \/ GetSectorInfo
    <3>1. UNCHANGED <<buffer, selector>>
      BY <2>2 DEF Ask, GetToc, OpenTray, ScanDisc, AbortFile, PlayDisc, SeekDisc,
          GetFadSearchResults, GetSectorInfo
    <3> QED
      BY <2>1, <3>1 DEF buffer, selector, Room, BlocksAdd, FilterTypes
  <2>3. CASE InitializeCDSystem
    <3>1. UNCHANGED <<partition, blockfreespace, selector>>
      BY <2>3 DEF InitializeCDSystem
    <3>2. cleared' = (cleared \/ Free = 0)
      BY <2>3 DEF InitializeCDSystem
    <3>3. Total(partition)' = Total(partition)
      BY <3>1
    <3>4. ~cleared' => ~cleared /\ Free # 0
      BY <3>2
    <3>5. BlocksAdd'
      BY <3>1, <3>3, <3>4 DEF BlocksAdd
    <3>6. Room'
      BY <3>1, <3>4, FreeIs DEF Room
    <3> QED
      BY <2>1, <3>1, <3>5, <3>6 DEF selector, FilterTypes
  <2>4. CASE ReadFile \/ SetCDDeviceConnection
    <3>1. UNCHANGED <<buffer, filter>>
      BY <2>4 DEF ReadFile, SetCDDeviceConnection
    <3> QED
      BY <2>1, <3>1 DEF buffer, Room, BlocksAdd, FilterTypes
  <2>5. CASE SetFilter
    <3>1. FilterTypes'
      <4>1. CASE cmd.op = "true"
        BY <2>5, <4>1, CommandTypes DEF SetFilter, FilterTypes
      <4>2. CASE cmd.op = "false"
        BY <2>5, <4>2, CommandTypes DEF SetFilter, FilterTypes
      <4>3. CASE cmd.op = "accept"
        BY <2>5, <4>3, CommandTypes DEF SetFilter, FilterTypes
      <4> QED
        BY <2>5, <4>1, <4>2, <4>3 DEF SetFilter
    <3> QED
      BY <2>1, <2>5, <3>1 DEF SetFilter, buffer, Room, BlocksAdd
  <2>6. CASE ResetSelector
    <3>1. cmd.filter \in Filters /\ partition[cmd.filter] \in Nat
      BY <2>6, CommandTypes DEF ResetSelector, BlocksAdd
    <3> DEFINE n == partition[cmd.filter]
    <3>2. n - n = 0 /\ n \in 0..partition[cmd.filter]
      BY <3>1
    <3>3. partition' = [partition EXCEPT ![cmd.filter] = @ - n]
      BY <2>6, <3>2 DEF ResetSelector
    <3>4. /\ cleared' = cleared /\ blockfreespace' = (blockfreespace + n) % U32
          /\ isbufferfull /\ n = 0 /\ blockfreespace' = 0 => isbufferfull'
      BY <2>6 DEF ResetSelector
    <3>5. Room' /\ BlocksAdd'
      <4> HIDE DEF n
      <4> QED BY <3>1, <3>2, <3>3, <3>4, DropKeepsRoom
    <3> QED
      BY <2>1, <2>6, <3>5 DEF ResetSelector, selector, FilterTypes
  <2>7. CASE ResetSelectors
    <3>1. FilterTypes'
      BY <2>7, CommandsAssumption DEF ResetSelectors, FilterTypes
    <3>2. CASE "data" \in cmd.flags
      <4>1. partition' \in [Filters -> Nat] /\ \A f \in Filters : partition'[f] = 0
        BY <2>7, <3>2 DEF ResetSelectors
      <4>2. Total(partition') = 0 /\ Total(partition)' = Total(partition')
        BY <4>1, TotalFacts
      <4>3. cleared' = (cleared \/ Free < NumBlocks) /\ blockfreespace' = blockfreespace
        BY <2>7, <3>2 DEF ResetSelectors
      <4>4. ~cleared' => ~cleared /\ blockfreespace' = NumBlocks
        <5>1. ASSUME ~cleared' PROVE ~cleared /\ ~(Free < NumBlocks)
          BY <4>3, <5>1
        <5> QED
          BY <4>3, <5>1, FreeIs
      <4>5. BlocksAdd'
        BY <4>1, <4>2, <4>3, <4>4, FreeIs DEF BlocksAdd
      <4>6. Room'
        BY <4>4, FreeIs DEF Room
      <4> QED
        BY <2>1, <3>1, <4>5, <4>6
    <3>3. CASE "data" \notin cmd.flags
      BY <2>1, <2>7, <3>1, <3>3 DEF ResetSelectors, buffer, Room, BlocksAdd
    <3> QED
      BY <3>2, <3>3
  <2>8. CASE PutSectorData
    <3>1. UNCHANGED <<cleared, selector>>
      BY <2>8 DEF PutSectorData
    <3>2. cmd.filter \in Filters /\ cmd.sectors \in Nat
      BY <2>8, CommandTypes DEF PutSectorData
    <3>3. CASE Keep(cmd.filter, cmd.sectors) /\ cmd.sectors <= Free
      BY <2>1, <3>1, <3>2, <3>3, FreeIs, KeepKeepsRoom DEF selector, FilterTypes
    <3>4. CASE UNCHANGED <<partition, blockfreespace, isbufferfull>>
      BY <2>1, <3>1, <3>4 DEF selector, Room, BlocksAdd, FilterTypes
    <3>5. cmd.sectors <= blockfreespace /\ ~hung' => cmd.sectors <= Free
      <4>1. hung' = (cmd.sectors <= blockfreespace /\ cmd.sectors > Free)
        BY <2>8 DEF PutSectorData
      <4>2. CASE cmd.sectors > Free
        BY <4>1, <4>2
      <4>3. CASE ~(cmd.sectors > Free)
        BY <3>2, <4>3, FreeIs
      <4> QED
        BY <4>2, <4>3
    <3> QED
      BY <2>8, <3>3, <3>4, <3>5 DEF PutSectorData
  <2> QED
    BY <1>4, <2>2, <2>3, <2>4, <2>5, <2>6, <2>7, <2>8 DEF Execute
<1>5. CASE ReadSector
  <2>1. UNCHANGED <<cleared, selector, cmd>>
    BY <1>5 DEF ReadSector, program
  <2>2. CASE UNCHANGED <<partition, blockfreespace, isbufferfull>>
    BY <2>1, <2>2 DEF selector, BInv, Room, BlocksAdd, FilterTypes
  <2>3. CASE Store(Destination(FAD)) /\ Destination(FAD) # NoFilter
    <3>1. Room' /\ BlocksAdd'
      BY <2>1, <2>3, DestinationType, StoreKeepsRoom DEF BInv
    <3> QED
      BY <2>1, <3>1 DEF selector, BInv, FilterTypes
  <2> QED
    BY <1>5, <2>2, <2>3 DEF ReadSector
<1>6. ASSUME NEW c \in Program, Begin(c) PROVE BInv'
  BY <1>6 DEF Begin, buffer, selector, BInv, Room, BlocksAdd, FilterTypes
<1>7. ASSUME NEW p \in Filters, TakeSector(p) PROVE BInv'
  <2>1. 1 \in 0..partition[p]
    BY <1>7 DEF TakeSector, BInv, BlocksAdd
  <2>2. Room' /\ BlocksAdd'
    BY <1>7, <2>1, DropKeepsRoom DEF TakeSector, Drop, BInv
  <2> QED
    BY <1>7, <2>2 DEF TakeSector, selector, program, BInv, FilterTypes
<1>8. ASSUME NEW d \in Drives, ChangeDrive(d) PROVE BInv'
  BY <1>8 DEF ChangeDrive, buffer, selector, program, BInv, Room, BlocksAdd, FilterTypes
<1> QED
  BY <1>1, <1>2, <1>3, <1>4, <1>5, <1>6, <1>7, <1>8 DEF Next

(* A play stores every sector a filter keeps, as long as the full flag was *)
(* not cleared over a full buffer and no sectors were discarded uncounted. *)
THEOREM SectorsAreStored == Spec => NoSectorIsSkipped
<1>1. BInv /\ [Next]_vars => [ReadSector /\ FAD \notin Audio /\ Destination(FAD) # NoFilter /\ ~cleared
        => partition'[Destination(FAD)] = partition[Destination(FAD)] + 1]_vars
  <2> SUFFICES ASSUME BInv, ReadSector, FAD \notin Audio, Destination(FAD) # NoFilter, ~cleared
               PROVE  partition'[Destination(FAD)] = partition[Destination(FAD)] + 1
    OBVIOUS
  <2>1. Store(Destination(FAD)) /\ Free > 0
    BY FreeIs DEF ReadSector, Reads, BInv, Room
  <2> QED
    BY <2>1, DestinationType DEF Store, Keep, BInv, BlocksAdd
<1> QED
  BY <1>1, BufferInit, BufferStep, PTL DEF Spec, NoSectorIsSkipped
-----------------------------------------------------------------------------
(* TypeOK in parts, each of which every step keeps. *)
ProgramTypes ==
  /\ cmd \in Program \cup {NoCommand} /\ given \in 0..MaxCommands
  /\ drive \in Drives /\ status \in Statuses
  /\ hirq \subseteq {"CMOK", "PEND"}

FlagTypes ==
  /\ peri \in BOOLEAN /\ command \in BOOLEAN /\ pending \in BOOLEAN
  /\ isbufferfull \in BOOLEAN /\ cleared \in BOOLEAN /\ hung \in BOOLEAN

PlayTypes ==
  /\ FAD \in 0..Nowhere /\ playFAD \in 0..Nowhere /\ playendFAD \in 0..Nowhere
  /\ repcnt \in (0..RepeatCap) \cup {NoCount} /\ maxrepeat \in 0..Forever

SelectorTypes == outconcddev \in Filters \cup {NoFilter} /\ FilterTypes

LEMMA PartsAreTypeOK ==
  ASSUME Types, ProgramTypes, FlagTypes, PlayTypes, SelectorTypes, BlocksAdd
  PROVE  TypeOK
<1>1. \A f \in Filters : partition[f] \in 0..NumBlocks
  BY TotalFacts, FreeIs DEF BlocksAdd
<1>2. partition \in [Filters -> 0..NumBlocks]
  BY <1>1 DEF BlocksAdd
<1>3. {peri, command, pending, isbufferfull, cleared, hung} \subseteq BOOLEAN
  BY Zenon DEF FlagTypes
<1>4. {FAD, playFAD, playendFAD} \subseteq 0..Nowhere
  BY DEF PlayTypes
<1>5. blockfreespace \in 0..(U32 - 1) /\ Free >= 0 /\ (~cleared => blockfreespace = Free)
  BY FreeIs DEF BlocksAdd
<1> QED
  BY <1>2, <1>3, <1>4, <1>5 DEF TypeOK, Types, Phases, ProgramTypes, PlayTypes, SelectorTypes,
     FilterTypes

(* What a play, seek or file command of the program carries.               *)
LEMMA PlayCommandTypes ==
  ASSUME NEW c \in Program \cup {NoCommand}
  PROVE  /\ c.op = "play" => /\ c.start \in Sectors \cup {Same, Pickup}
                             /\ c.length \in -1..LeadOut /\ c.repeat \in -1..Forever
         /\ c.op = "seek" => c.fad \in Sectors
         /\ c.op = "file" => c.fad \in Sectors /\ c.length \in 1..LeadOut /\ c.filter \in Filters
         /\ c.op = "connect" => c.filter \in Filters
<1>1. CASE c = NoCommand
  BY <1>1 DEF NoCommand
<1>2. CASE c \in Commands
  BY <1>2 DEF Commands
<1> QED
  BY <1>1, <1>2, CommandsAssumption

LEMMA FirstFilter ==
  (CHOOSE f \in Filters : \A g \in Filters : f <= g) \in Filters
<1>1. Filters \in SUBSET Nat /\ Filters # {}
  BY CommandsAssumption DEF NoFilter
<1>2. \E f \in Filters : \A g \in Filters : f <= g
  BY <1>1, LeastNatural
<1> QED
  BY <1>2

LEMMA TypesInit ==
  Init => ProgramTypes /\ FlagTypes /\ PlayTypes /\ SelectorTypes
<1> SUFFICES ASSUME Init
             PROVE  ProgramTypes /\ FlagTypes /\ PlayTypes /\ SelectorTypes
  OBVIOUS
<1>1. ProgramTypes
  BY CommandsAssumption DEF Init, ProgramTypes, Statuses
<1>f. FlagTypes
  BY Zenon DEF Init, FlagTypes
<1>2. PlayTypes
  BY CommandsAssumption DEF Init, PlayTypes, Nowhere, Forever
<1>3. SelectorTypes
  BY BufferInit DEF Init, BInv, SelectorTypes
<1> QED
  BY <1>1, <1>f, <1>2, <1>3

LEMMA ProgramTypesStep ==
  ASSUME ProgramTypes, [Next]_vars PROVE ProgramTypes'
<1>1. CASE UNCHANGED vars
  BY <1>1 DEF vars, registers, state, program, ProgramTypes
<1>2. CASE Reset
  <2>1. status' \in Statuses
    BY <1>2, CommandsAssumption DEF Reset, ProgramTypes, Statuses
  <2> QED
    BY <1>2, <2>1 DEF Reset, ProgramTypes
<1>3. CASE Write \/ SeeAnswer \/ Read \/ Acknowledge \/ Hang \/ NoSector
  BY <1>3 DEF Write, SeeAnswer, Read, Acknowledge, Hang, NoSector, registers, state, program, ProgramTypes
<1>4. CASE Poll
  <2>1. status' \in Statuses
    BY <1>4, CommandsAssumption DEF Poll, ProgramTypes, Statuses
  <2> QED
    BY <1>4, <2>1 DEF Poll, registers, program, ProgramTypes
<1>5. CASE Execute
  <2>1. UNCHANGED <<cmd, given, drive>>
    BY <1>5 DEF Execute, Ask, GetToc, InitializeCDSystem, OpenTray, ScanDisc, AbortFile,
        PlayDisc, ReadFile, SeekDisc, SetCDDeviceConnection, SetFilter, ResetSelector, ResetSelectors,
        GetFadSearchResults, GetSectorInfo, PutSectorData, Answer, AnswerIn, program
  <2>2. hirq' \subseteq {"CMOK", "PEND"}
    BY <1>5 DEF Execute, Ask, GetToc, InitializeCDSystem, OpenTray, ScanDisc, AbortFile,
        PlayDisc, ReadFile, SeekDisc, SetCDDeviceConnection, SetFilter, ResetSelector, ResetSelectors,
        GetFadSearchResults, GetSectorInfo, PutSectorData, Answer, AnswerIn, ProgramTypes
  <2>3. status' \in Statuses
    BY <1>5 DEF Execute, Ask, GetToc, InitializeCDSystem, OpenTray, ScanDisc, AbortFile,
        PlayDisc, ReadFile, SeekDisc, SetCDDeviceConnection, SetFilter, ResetSelector, ResetSelectors,
        GetFadSearchResults, GetSectorInfo, PutSectorData, state,
        ProgramTypes, Statuses
  <2> QED
    BY <2>1, <2>2, <2>3 DEF ProgramTypes
<1>6. CASE ReadSector
  <2>1. status' \in Statuses /\ hirq' \subseteq {"CMOK", "PEND"}
    BY <1>6 DEF ReadSector, Advance, ProgramTypes, Statuses
  <2> QED
    BY <1>6, <2>1 DEF ReadSector, program, ProgramTypes
<1>7. ASSUME NEW c \in Program, Begin(c) PROVE ProgramTypes'
  BY <1>7, CommandsAssumption DEF Begin, state, ProgramTypes
<1>8. ASSUME NEW p \in Filters, TakeSector(p) PROVE ProgramTypes'
  BY <1>8 DEF TakeSector, registers, state, program, ProgramTypes
<1>9. ASSUME NEW d \in Drives, ChangeDrive(d) PROVE ProgramTypes'
  BY <1>9 DEF ChangeDrive, registers, state, program, ProgramTypes
<1> QED
  BY <1>1, <1>2, <1>3, <1>4, <1>5, <1>6, <1>7, <1>8, <1>9 DEF Next

LEMMA FlagTypesStep ==
  ASSUME FlagTypes, [Next]_vars PROVE FlagTypes'
<1>1. CASE UNCHANGED vars
  BY <1>1, Zenon DEF vars, registers, state, buffer, FlagTypes
<1>2. CASE Reset
  BY <1>2, Zenon DEF Reset, FlagTypes
<1>3. CASE Write
  BY <1>3, Zenon DEF Write, Taken, buffer, FlagTypes
<1>4. CASE SeeAnswer \/ Acknowledge \/ Hang
  BY <1>4, Zenon DEF SeeAnswer, Acknowledge, Hang, registers, state, buffer, program, FlagTypes
<1>5. CASE Read
  BY <1>5, Zenon DEF Read, state, buffer, FlagTypes
<1>6. CASE Poll
  BY <1>6, Zenon DEF Poll, registers, buffer, FlagTypes
<1>7. CASE NoSector
  BY <1>7, Zenon DEF NoSector, Report, buffer, FlagTypes
<1>8. CASE ReadSector
  <2>1. isbufferfull' \in BOOLEAN
    BY <1>8, Zenon DEF ReadSector, Store, Keep, FlagTypes
  <2> QED
    BY <1>8, <2>1, Zenon DEF ReadSector, Report, FlagTypes
<1>9. CASE Execute
  <2>1. command' = command /\ pending' = FALSE
    BY <1>9 DEF Execute, Ask, GetToc, InitializeCDSystem, OpenTray, ScanDisc, AbortFile,
        PlayDisc, ReadFile, SeekDisc, SetCDDeviceConnection, SetFilter, ResetSelector, ResetSelectors,
        GetFadSearchResults, GetSectorInfo, PutSectorData, Answer, AnswerIn
  <2>h. hung' = hung \/ hung' = (cmd.sectors <= blockfreespace /\ cmd.sectors > Free)
    BY <1>9 DEF Execute, Ask, GetToc, InitializeCDSystem, OpenTray, ScanDisc, AbortFile,
        PlayDisc, ReadFile, SeekDisc, SetCDDeviceConnection, SetFilter, ResetSelector, ResetSelectors,
        GetFadSearchResults, GetSectorInfo, PutSectorData, Answer
  <2>2. peri' = peri \/ peri' = FALSE
    BY <1>9 DEF Execute, Ask, GetToc, InitializeCDSystem, OpenTray, ScanDisc, AbortFile,
        PlayDisc, ReadFile, SeekDisc, SetCDDeviceConnection, SetFilter, ResetSelector, ResetSelectors,
        GetFadSearchResults, GetSectorInfo, PutSectorData, state
  <2>3. isbufferfull' = isbufferfull \/ isbufferfull' = FALSE
        \/ (\E n, m : isbufferfull' = (isbufferfull /\ n = 0 /\ m = 0))
        \/ (\E n : isbufferfull' = (isbufferfull \/ blockfreespace \in 1..n))
    BY <1>9 DEF Execute, Ask, GetToc, InitializeCDSystem, OpenTray, ScanDisc, AbortFile,
        PlayDisc, ReadFile, SeekDisc, SetCDDeviceConnection, SetFilter, ResetSelector, ResetSelectors,
        GetFadSearchResults, GetSectorInfo, PutSectorData, buffer, Keep
  <2>4. cleared' = cleared \/ cleared' = (cleared \/ Free = 0) \/ cleared' = (cleared \/ Free < NumBlocks)
    BY <1>9 DEF Execute, Ask, GetToc, InitializeCDSystem, OpenTray, ScanDisc, AbortFile,
        PlayDisc, ReadFile, SeekDisc, SetCDDeviceConnection, SetFilter, ResetSelector, ResetSelectors,
        GetFadSearchResults, GetSectorInfo, PutSectorData, buffer, Keep
  <2> QED
    BY <2>1, <2>h, <2>2, <2>3, <2>4, Zenon DEF FlagTypes
<1>10. ASSUME NEW c \in Program, Begin(c) PROVE FlagTypes'
  BY <1>10, Zenon DEF Begin, state, buffer, FlagTypes
<1>11. ASSUME NEW p \in Filters, TakeSector(p) PROVE FlagTypes'
  BY <1>11, Zenon DEF TakeSector, Drop, registers, state, FlagTypes
<1>12. ASSUME NEW d \in Drives, ChangeDrive(d) PROVE FlagTypes'
  BY <1>12, Zenon DEF ChangeDrive, registers, state, buffer, FlagTypes
<1> QED
  BY <1>1, <1>2, <1>3, <1>4, <1>5, <1>6, <1>7, <1>8, <1>9, <1>10, <1>11, <1>12 DEF Next

LEMMA PlayTypesStep ==
  ASSUME PlayTypes, cmd \in Program \cup {NoCommand}, [Next]_vars PROVE PlayTypes'
<1> USE DEF Nowhere, Forever, Sectors
<1>n. LeadOut \in Nat \ {0} /\ RepeatCap \in Nat
  BY CommandsAssumption
<1>1. CASE UNCHANGED play
  BY <1>1 DEF play, PlayTypes
<1>2. CASE Reset
  BY <1>2, <1>n DEF Reset, PlayTypes
<1>3. CASE Execute
  <2>1. CASE Ask \/ GetToc \/ OpenTray \/ ScanDisc \/ AbortFile \/ SetCDDeviceConnection
             \/ SetFilter \/ ResetSelector \/ ResetSelectors \/ GetFadSearchResults
             \/ GetSectorInfo \/ PutSectorData
    BY <2>1, <1>1 DEF Ask, GetToc, OpenTray, ScanDisc, AbortFile, SetCDDeviceConnection,
        SetFilter, ResetSelector, ResetSelectors, GetFadSearchResults, GetSectorInfo, PutSectorData
  <2>2. CASE InitializeCDSystem
    BY <2>2, <1>n DEF InitializeCDSystem, PlayTypes
  <2>3. CASE PlayDisc
    <3>1. /\ cmd.start \in Sectors \cup {Same, Pickup}
          /\ cmd.length \in -1..LeadOut /\ cmd.repeat \in -1..Forever
      BY <2>3, PlayCommandTypes DEF PlayDisc, Executes
    <3>2. playFAD' \in 0..Nowhere /\ FAD' \in 0..Nowhere
      BY <2>3, <1>n DEF PlayDisc, PlayTypes
    <3>3. repcnt' \in (0..RepeatCap) \cup {NoCount} /\ maxrepeat' \in 0..Forever
      BY <2>3, <3>1, <1>n DEF PlayDisc, PlayTypes
    <3>4. (playFAD' + cmd.length) % (Nowhere + 1) \in 0..Nowhere
      BY <3>1, <3>2, <1>n
    <3>5. playendFAD' \in 0..Nowhere
      BY <2>3, <3>1, <3>4, <1>n DEF PlayDisc, PlayTypes
    <3> QED
      BY <3>2, <3>3, <3>5 DEF PlayTypes
  <2>4. CASE ReadFile
    <3>1. cmd.fad \in Sectors /\ cmd.length \in 1..LeadOut
      BY <2>4, PlayCommandTypes DEF ReadFile, Executes
    <3>2. (cmd.fad + cmd.length) % (Nowhere + 1) \in 0..Nowhere
      BY <3>1, <1>n
    <3> QED
      BY <2>4, <3>1, <3>2, <1>n DEF ReadFile, PlayTypes
  <2>5. CASE SeekDisc
    <3>1. cmd.op = "seek" => cmd.fad \in Sectors
      BY PlayCommandTypes
    <3> QED
      BY <2>5, <3>1, <1>n DEF SeekDisc, PlayTypes
  <2> QED
    BY <1>3, <2>1, <2>2, <2>3, <2>4, <2>5 DEF Execute
<1>4. CASE ReadSector
  <2>1. FAD \in Sectors /\ UNCHANGED <<playFAD, playendFAD, maxrepeat>>
    BY <1>4 DEF ReadSector, Reads
  <2>2. Counted \in (0..RepeatCap) \cup {NoCount}
    BY <1>n DEF Counted, PlayTypes, NoCount
  <2> QED
    BY <1>4, <2>1, <2>2, <1>n DEF ReadSector, Advance, PlayTypes
<1>5. CASE UNCHANGED vars \/ Write \/ SeeAnswer \/ Read \/ Acknowledge \/ Poll \/ Hang \/ NoSector
           \/ (\E c \in Program : Begin(c)) \/ (\E p \in Filters : TakeSector(p))
           \/ (\E d \in Drives : ChangeDrive(d))
  BY <1>5, <1>1 DEF vars, Write, SeeAnswer, Read, Acknowledge, Poll, Hang, NoSector, Begin,
      TakeSector, ChangeDrive
<1> QED
  BY <1>2, <1>3, <1>4, <1>5 DEF Next

LEMMA ConnectionStep ==
  ASSUME outconcddev \in Filters \cup {NoFilter}, cmd \in Program \cup {NoCommand}, [Next]_vars
  PROVE  outconcddev' \in Filters \cup {NoFilter}
<1>1. CASE ReadFile
  BY <1>1, PlayCommandTypes DEF ReadFile, Executes
<1>2. CASE SetCDDeviceConnection
  BY <1>2, PlayCommandTypes, FirstFilter DEF SetCDDeviceConnection, Executes
<1>3. CASE Execute /\ ~ReadFile /\ ~SetCDDeviceConnection
  <2>1. outconcddev' = outconcddev
    BY <1>3 DEF Execute, Ask, GetToc, InitializeCDSystem, OpenTray, ScanDisc, AbortFile,
        PlayDisc, SeekDisc, SetFilter, ResetSelector, ResetSelectors, GetFadSearchResults,
        GetSectorInfo, PutSectorData, selector
  <2> QED
    BY <2>1
<1>4. CASE UNCHANGED vars \/ Reset \/ Write \/ SeeAnswer \/ Read \/ Acknowledge \/ Poll \/ Hang
           \/ NoSector \/ ReadSector \/ (\E c \in Program : Begin(c))
           \/ (\E p \in Filters : TakeSector(p)) \/ (\E d \in Drives : ChangeDrive(d))
  <2>1. outconcddev' = outconcddev
    BY <1>4 DEF vars, Reset, Write, SeeAnswer, Read, Acknowledge, Poll, Hang, NoSector, ReadSector,
        Begin, TakeSector, ChangeDrive, selector
  <2> QED
    BY <2>1
<1> QED
  BY <1>1, <1>2, <1>3, <1>4 DEF Next

(* Every register keeps its type, and until the commands that break it the *)
(* count of free blocks and the sectors of the partitions add up to the    *)
(* blocks there are, whatever the program asks for and the drive reads.    *)
THEOREM TypesHold == Spec => []TypeOK
<1> DEFINE TInv == ProgramTypes /\ FlagTypes /\ PlayTypes /\ SelectorTypes
<1>1. Init => TInv
  BY TypesInit
<1>2. TInv /\ BInv /\ BInv' /\ [Next]_vars => TInv'
  BY ProgramTypesStep, FlagTypesStep, PlayTypesStep, ConnectionStep
     DEF BInv, SelectorTypes
<1>3. IInv /\ BInv /\ TInv => TypeOK
  BY PartsAreTypeOK DEF IInv, BInv
<1> QED
  BY <1>1, <1>2, <1>3, BufferInit, BufferStep, Invariance, PTL DEF Spec
-----------------------------------------------------------------------------
(* The filters are a circle for the sector exactly when the model says so; *)
(* otherwise the walk ends at a filter that keeps the sector, or at none.  *)
HangsAreReal ==
  \A fad \in Sectors :
    /\ Loops(fad) <=> \E c \in SUBSET Filters : Circle(c, fad)
    /\ ~Loops(fad) => Chain(fad) = NoFilter
                      \/ (Chain(fad) \in Filters /\ Accepts(Chain(fad), fad))

(* Whatever the program made of the filters, the loop of Cs2FilterData     *)
(* fails to end exactly when the drive's filter leads into a circle, of    *)
(* any length, of filters that all refuse the sector.                      *)
THEOREM HangsHold == Spec => []HangsAreReal
<1>1. SelectorTypes => HangsAreReal
  BY LoopsIsEndless DEF SelectorTypes, HangsAreReal
<1>2. BInv /\ BInv' /\ SelectorTypes /\ [Next]_vars => SelectorTypes'
  BY ConnectionStep DEF BInv, SelectorTypes
<1>3. Init => SelectorTypes
  BY TypesInit
<1> QED
  BY <1>1, <1>2, <1>3, BufferInit, BufferStep, PTL DEF Spec
=============================================================================
