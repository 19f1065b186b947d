-------------------------- MODULE Cs2BufferProofs --------------------------
(***************************************************************************)
(* Proofs about Cs2Buffer for every number of blocks, partitions and every *)
(* set of sector lengths, in five sections: the types, which hold whatever *)
(* the host asks for; the pool, whose invariant holds until a deletion of  *)
(* what is not stored; the open transfer, whose window and position stay   *)
(* inside its partition until a deletion from it; the theorems; and the    *)
(* refinement of SectorQueues.                                             *)
(***************************************************************************)
EXTENDS Cs2Buffer, Sequences, FiniteSetTheorems, FunctionTheorems, WellFoundedInduction, TLAPS

(* Where the transfer is. *)
Transfers == [type : TransferType, part : Partitions, partnum : Partitions,
              offset : Nat, numsect : Nat, sectpos : Nat, sects : Nat]

(* The types of the pool and the partitions, and of everything else.       *)
PoolTypes ==
  /\ blocksize \in [Blocks -> {-1} \cup Sizes \cup {Form2Size}]
  /\ blockfreespace \in 0..(U32 - 1)
  /\ isbufferfull \in BOOLEAN
  /\ numblocks \in [Partitions -> 0..(U8 - 1)]
  /\ block \in [Partitions -> [Slots -> Blocks \cup {NULL}]]
  /\ blocknum \in [Partitions -> [Slots -> Blocks \cup {NULL}]]

HostTypes ==
  /\ isonesectorstored \in BOOLEAN
  /\ getsectsize \in Sizes /\ putsectsize \in Sizes
  /\ trans \in Transfers
  /\ psize \in [Partitions -> Int] /\ cdwnum \in Nat
  /\ uncounted \in BOOLEAN /\ strayed \in BOOLEAN /\ intact \in BOOLEAN /\ fault \in BOOLEAN

Typed == PoolTypes /\ HostTypes

(* While nothing is strayed the counts stay below MaxBlocks, so the u8     *)
(* never wraps.                                                            *)
PoolTypeOK ==
  /\ blocksize \in [Blocks -> {-1} \cup Sizes \cup {Form2Size}]
  /\ blockfreespace \in 0..(U32 - 1)
  /\ isbufferfull \in BOOLEAN
  /\ numblocks \in [Partitions -> 0..MaxBlocks]
  /\ block \in [Partitions -> [Slots -> Blocks \cup {NULL}]]
  /\ blocknum \in [Partitions -> [Slots -> Blocks \cup {NULL}]]

(* What the pool's three properties say then. *)
SectorsAreApart ==
  \A p, q \in Partitions : \A i \in Live(p), j \in Live(q) :
    /\ block[p][i] # NULL /\ blocksize[block[p][i]] # -1
    /\ block[p][i] = block[q][j] => p = q /\ i = j

CountIsExact == ~uncounted => blockfreespace = Cardinality(FreeBlocks)

FullIsHonest == isbufferfull /\ ~uncounted => FreeBlocks = {}

(* Blocks, partitions and the free counter: stored sectors hold distinct   *)
(* allocated blocks and the count agrees with the pool.                    *)
PoolInv == PoolTypeOK /\ SectorsAreApart /\ CountIsExact /\ FullIsHonest

(* The invariant of pool and transfer: deleting a transfer's window needs  *)
(* the window to be stored, and a window stays stored by what each step    *)
(* does to the pool.                                                       *)
Placed == Typed /\ (~strayed => PoolInv) /\ TransferStaysInPartition

(* The transfer's position is inside its sector: what one access to the    *)
(* data port moves is a unit of a stored sector, whatever the drive stores *)
(* and the host does elsewhere between two accesses.                       *)
PositionIsInside ==
  ~strayed /\ intact /\ trans.type # INVALID =>
    IF trans.numsect < trans.sects THEN trans.offset < blocksize[Current] ELSE trans.offset = 0

(* The inductive invariant: a rapid copy is kept from running out of the   *)
(* data by the position it starts from.                                    *)
IInv == Placed /\ PositionIsInside /\ FaultHasACause

-----------------------------------------------------------------------------
(* Counting blocks. *)

(* The pool has MaxBlocks blocks, and the free ones among them can be      *)
(* counted.                                                                *)
LEMMA BlocksFinite ==
  /\ IsFiniteSet(Blocks) /\ Cardinality(Blocks) = MaxBlocks
  /\ IsFiniteSet(FreeBlocks) /\ Cardinality(FreeBlocks) \in 0..MaxBlocks
<1>1. IsFiniteSet(Blocks) /\ Cardinality(Blocks) = MaxBlocks
  BY BoundsAssumption, FS_Interval DEF Blocks
<1>2. FreeBlocks \in SUBSET Blocks
  BY DEF FreeBlocks
<1>3. QED
  BY <1>1, <1>2, FS_Subset, FS_CardinalityType, BoundsAssumption

(* Taking a subset away lowers the cardinality by that of the subset.      *)
LEMMA SubsetLeaves ==
  ASSUME NEW S, IsFiniteSet(S), NEW R, R \subseteq S
  PROVE  Cardinality(S \ R) = Cardinality(S) - Cardinality(R)
<1>1. S \cap R = R
  OBVIOUS
<1>2. QED
  BY <1>1, FS_Difference

(* The cardinalities of disjoint sets add up.                              *)
LEMMA DisjointAdd ==
  ASSUME NEW S, NEW T, IsFiniteSet(S), IsFiniteSet(T), S \cap T = {}
  PROVE  /\ IsFiniteSet(S \cup T)
         /\ Cardinality(S \cup T) = Cardinality(S) + Cardinality(T)
<1>1. Cardinality(S \cup T) = Cardinality(S) + Cardinality(T) - Cardinality(S \cap T)
  BY FS_Union
<1>2. Cardinality(S) \in Nat /\ Cardinality(T) \in Nat /\ Cardinality(S \cap T) = 0
  BY FS_CardinalityType, FS_EmptySet
<1>3. QED
  BY <1>1, <1>2, FS_Union

(* n blocks chosen by LowestFree are n different free blocks. *)
LEMMA LowestFreeTakes ==
  ASSUME NEW n \in Nat, NEW s \in LowestFree(n)
  PROVE  /\ \A i \in 0..(n - 1) : s[i] \in FreeBlocks
         /\ \A i, j \in 0..(n - 1) : s[i] = s[j] => i = j
         /\ n <= Cardinality(FreeBlocks)
         /\ Cardinality(FreeBlocks \ {s[i] : i \in 0..(n - 1)})
              = Cardinality(FreeBlocks) - n
<1> DEFINE I == 0..(n - 1)
           R == {s[i] : i \in I}
<1>1. s \in [I -> FreeBlocks] /\ \A i, j \in I : i < j => s[i] < s[j]
  BY DEF LowestFree
<1>2. \A b \in FreeBlocks : b \in Int
  BY DEF FreeBlocks, Blocks
<1>3. \A i, j \in I : s[i] = s[j] => i = j
  <2> SUFFICES ASSUME NEW i \in I, NEW j \in I, s[i] = s[j], i # j PROVE FALSE
    OBVIOUS
  <2>1. s[i] \in Int /\ s[j] \in Int
    BY <1>1, <1>2
  <2>2. i < j \/ j < i
    OBVIOUS
  <2>3. QED
    BY <2>1, <2>2, <1>1
<1>4. s \in Bijection(I, R)
  BY <1>1, <1>3 DEF Bijection, Injection, Surjection, IsInjective
<1>5. IsFiniteSet(I) /\ Cardinality(I) = n
  BY FS_Interval
<1>6. IsFiniteSet(R) /\ Cardinality(R) = n
  BY <1>4, <1>5, FS_Bijection DEF ExistsBijection
<1>7. R \subseteq FreeBlocks
  BY <1>1
<1>8. n <= Cardinality(FreeBlocks)
  BY <1>6, <1>7, BlocksFinite, FS_Subset
<1>9. Cardinality(FreeBlocks \ R) = Cardinality(FreeBlocks) - n
  BY <1>6, <1>7, BlocksFinite, SubsetLeaves
<1>10. QED
  BY <1>1, <1>3, <1>8, <1>9

-----------------------------------------------------------------------------
(* Sorting. *)

(* Cs2SortBlocks keeps pointers pointers. *)
LEMMA SortKeepsType ==
  ASSUME NEW h \in [Slots -> Blocks \cup {NULL}]
  PROVE  SortBlocks(h) \in [Slots -> Blocks \cup {NULL}]
<1> SUFFICES ASSUME NEW i \in Slots
             PROVE  SortBlocks(h)[i] \in Blocks \cup {NULL}
  BY DEF SortBlocks
<1> DEFINE from == {j \in Slots : h[j] # NULL /\ Rank(h, j) = i}
<1>1. SortBlocks(h)[i] = IF from = {} THEN NULL ELSE h[CHOOSE j \in from : TRUE]
  BY DEF SortBlocks
<1>2. CASE from = {}
  BY <1>1, <1>2
<1>3. CASE from # {}
  <2>1. (CHOOSE j \in from : TRUE) \in from
    BY <1>3
  <2>2. QED
    BY <1>1, <1>3, <2>1
<1>4. QED
  BY <1>2, <1>3

(* Cs2SortBlocks closes one gap: entries before it stay, those after it    *)
(* move down.                                                              *)
LEMMA SortClosesGap ==
  ASSUME NEW h \in [Slots -> Blocks \cup {NULL}],
         NEW num \in 0..MaxBlocks, NEW off \in Nat, NEW n \in Nat, off + n <= num,
         \A i \in 0..(num - 1) : h[i] = NULL <=> i \in off..(off + n - 1)
  PROVE  /\ SortBlocks(h) \in [Slots -> Blocks \cup {NULL}]
         /\ \A i \in 0..(num - n - 1) :
              SortBlocks(h)[i] = IF i < off THEN h[i] ELSE h[i + n]
<1> DEFINE Before(j) == {k \in Slots : k < j /\ h[k] # NULL}
           Kept(j) == (0..(off - 1)) \cup ((off + n)..(j - 1))
<1>1. 0..(num - 1) \subseteq Slots
  BY BoundsAssumption DEF Slots
<1> num \in Nat
  BY BoundsAssumption
<1>2. ASSUME NEW j \in (off + n)..num
      PROVE  IsFiniteSet(Kept(j)) /\ Cardinality(Kept(j)) = j - n
  <2>0. off + n \in Int /\ j - 1 \in Int /\ j >= off + n
    BY BoundsAssumption
  <2>1. IsFiniteSet(0..(off - 1)) /\ Cardinality(0..(off - 1)) = off
    BY FS_Interval
  <2>2. /\ IsFiniteSet((off + n)..(j - 1))
        /\ Cardinality((off + n)..(j - 1)) = j - off - n
    <3>1. Cardinality((off + n)..(j - 1))
            = IF off + n > j - 1 THEN 0 ELSE (j - 1) - (off + n) + 1
      BY <2>0, FS_Interval
    <3>2. IsFiniteSet((off + n)..(j - 1))
      BY <2>0, FS_Interval
    <3>3. QED
      BY <2>0, <3>1, <3>2
  <2>3. (0..(off - 1)) \cap ((off + n)..(j - 1)) = {}
    OBVIOUS
  <2>4. Cardinality(Kept(j)) = off + (j - off - n) /\ IsFiniteSet(Kept(j))
    BY <2>1, <2>2, <2>3, DisjointAdd
  <2>5. off + (j - off - n) = j - n
    OBVIOUS
  <2>6. QED
    BY <2>4, <2>5
<1>3. ASSUME NEW j \in 0..(num - 1), h[j] # NULL
      PROVE  Rank(h, j) = IF j < off THEN j ELSE j - n
  <2>1. CASE j < off
    <3>1. Before(j) = 0..(j - 1)
      BY <1>1, <2>1 DEF Slots
    <3>2. Cardinality(0..(j - 1)) = j
      BY FS_Interval
    <3>3. QED
      BY <3>1, <3>2, <2>1 DEF Rank
  <2>2. CASE ~(j < off)
    <3>1. j \in (off + n)..num
      BY <1>3, <2>2
    <3>2. Before(j) = Kept(j)
      BY <1>1, <3>1 DEF Slots
    <3>3. QED
      BY <3>1, <3>2, <1>2, <2>2 DEF Rank
  <2>3. QED
    BY <2>1, <2>2
<1>4. ASSUME NEW j \in Slots, j >= num
      PROVE  Rank(h, j) >= num - n
  <2>1. Kept(num) \subseteq Before(j)
    BY <1>1, <1>4 DEF Slots
  <2>2. Before(j) \subseteq Blocks
    BY DEF Slots, Blocks
  <2>3. IsFiniteSet(Before(j))
    BY <2>2, BlocksFinite, FS_Subset
  <2>4. Cardinality(Kept(num)) = num - n
    <3>1. num \in (off + n)..num
      OBVIOUS
    <3>2. QED
      BY <3>1, <1>2
  <2>5. Cardinality(Kept(num)) <= Cardinality(Before(j))
    BY <2>1, <2>3, FS_Subset
  <2>6. Cardinality(Before(j)) \in Nat
    BY <2>3, FS_CardinalityType
  <2>7. QED
    BY <2>4, <2>5, <2>6 DEF Rank
<1>5. SortBlocks(h) \in [Slots -> Blocks \cup {NULL}]
  BY SortKeepsType
<1>6. ASSUME NEW i \in 0..(num - n - 1)
      PROVE  SortBlocks(h)[i] = IF i < off THEN h[i] ELSE h[i + n]
  <2> DEFINE from == {j \in Slots : h[j] # NULL /\ Rank(h, j) = i}
             t == IF i < off THEN i ELSE i + n
  <2>1. t \in 0..(num - 1) /\ t \notin off..(off + n - 1)
    BY <1>6
  <2>2. t \in Slots /\ h[t] # NULL
    BY <2>1, <1>1
  <2>3. Rank(h, t) = i
    BY <2>1, <2>2, <1>3
  <2>4. ASSUME NEW j \in from PROVE j = t
    <3>1. CASE j >= num
      <4>1. Rank(h, j) >= num - n /\ Rank(h, j) = i
        BY <3>1, <1>4
      <4>2. QED
        BY <4>1
    <3>2. CASE ~(j >= num)
      <4>1. j \in 0..(num - 1) /\ h[j] # NULL /\ Rank(h, j) = i
        BY <3>2 DEF Slots
      <4>2. i = IF j < off THEN j ELSE j - n
        BY <4>1, <1>3
      <4>3. j \notin off..(off + n - 1)
        BY <4>1
      <4>4. QED
        BY <4>1, <4>2, <4>3
    <3>3. QED
      BY <3>1, <3>2
  <2>5. from = {t}
    BY <2>2, <2>3, <2>4
  <2>6. (CHOOSE j \in from : TRUE) = t
    BY <2>5
  <2>7. i \in Slots
    BY <1>1, <1>6
  <2>8. SortBlocks(h)[i] = IF from = {} THEN NULL ELSE h[CHOOSE j \in from : TRUE]
    BY <2>7 DEF SortBlocks
  <2>9. QED
    BY <2>5, <2>6, <2>8
<1>7. QED
  BY <1>5, <1>6

-----------------------------------------------------------------------------
(* Sums over sectors: Copied, and the sizes Cs2DeleteSectorData takes from *)
(* the partition.                                                          *)

Any(s) == CHOOSE x \in s : TRUE

(* What MapThenSumSet has added up for each set of the terms F.            *)
SumSteps(g, F, S) ==
  g = [s \in SUBSET S |-> IF s = {} THEN 0 ELSE F[Any(s)] + g[s \ {Any(s)}]]

(* A set of naturals that holds 0 and every successor holds them all.      *)
LEMMA Induction ==
  ASSUME NEW S \in SUBSET Nat, 0 \in S, \A n \in S : n + 1 \in S
  PROVE  S = Nat
<1> SUFFICES ASSUME Nat \ S # {} PROVE FALSE
  OBVIOUS
<1> DEFINE R == OpToRel(<, Nat)
<1>1. IsWellFoundedOn(R, Nat)
  BY NatLessThanWellFounded
<1>2. PICK x \in Nat \ S : \A y \in Nat \ S : ~ (<<y, x>> \in R)
  <2> HIDE DEF R
  <2> QED BY <1>1, WFMin
<1>3. \A y \in Nat \ S : ~(y < x)
  BY <1>2 DEF OpToRel
<1> QED
  BY <1>3

(* The same for the subsets of a finite set: the empty one, and each that  *)
(* is in it without the element that is added first.                       *)
LEMMA SubsetInduction ==
  ASSUME NEW S, IsFiniteSet(S), NEW G, {} \in G,
         \A T \in SUBSET S : T # {} /\ T \ {Any(T)} \in G => T \in G
  PROVE  SUBSET S \subseteq G
<1> SUFFICES ASSUME (SUBSET S) \ G # {} PROVE FALSE
  OBVIOUS
<1>1. (SUBSET S) \ G \subseteq FiniteSubsetsOf(S)
  BY FS_Subset DEF FiniteSubsetsOf
<1>2. PICK T \in (SUBSET S) \ G :
        \A U \in (SUBSET S) \ G : <<U, T>> \notin StrictSubsetOrdering(S)
  BY <1>1, FS_StrictSubsetOrderingWellFounded, WFMin
<1>3. T # {} /\ Any(T) \in T
  BY DEF Any
<1>4. <<T \ {Any(T)}, T>> \in StrictSubsetOrdering(S)
  BY <1>3 DEF StrictSubsetOrdering
<1> QED
  BY <1>2, <1>3, <1>4

(* The terms of a finite set can be added up one after the other. *)
LEMMA SumIsALoop ==
  ASSUME NEW F, NEW D, IsFiniteSet(D)
  PROVE  \E g : SumSteps(g, F, D)
<1> DEFINE Small(n) == {s \in SUBSET D : Cardinality(s) <= n}
           Rec(a, n) == \A s \in Small(n) :
                           a[s] = IF s = {} THEN 0 ELSE F[Any(s)] + a[s \ {Any(s)}]
           S == {n \in Nat : \E a : Rec(a, n)}
<1>1. \A s \in SUBSET D : IsFiniteSet(s) /\ Cardinality(s) \in Nat
  BY FS_Subset, FS_CardinalityType
<1>2. 0 \in S
  <2>1. \A s \in Small(0) : s = {}
    BY <1>1, FS_EmptySet
  <2>2. Rec([s \in {{}} |-> 0], 0)
    BY <2>1
  <2> QED
    BY <2>2
<1>3. ASSUME NEW n \in S PROVE n + 1 \in S
  <2>1. PICK a : Rec(a, n)
    OBVIOUS
  <2> DEFINE b == [s \in SUBSET D |-> IF s \in Small(n) THEN a[s] ELSE F[Any(s)] + a[s \ {Any(s)}]]
  <2>2. ASSUME NEW s \in Small(n + 1), s # {}
        PROVE  s \ {Any(s)} \in Small(n)
    <3>1. Any(s) \in s
      BY <2>2 DEF Any
    <3>2. Cardinality(s \ {Any(s)}) = Cardinality(s) - 1
      BY <1>1, <3>1, FS_RemoveElement
    <3> QED
      BY <1>1, <3>2
  <2>3. {} \in Small(n)
    BY FS_EmptySet
  <2>4. ASSUME NEW s \in Small(n + 1)
        PROVE  b[s] = IF s = {} THEN 0 ELSE F[Any(s)] + b[s \ {Any(s)}]
    <3>1. s # {} => b[s \ {Any(s)}] = a[s \ {Any(s)}]
      BY <2>2
    <3>2. CASE s \in Small(n)
      <4>1. b[s] = a[s]
        BY <3>2
      <4> QED
        BY <2>1, <3>1, <3>2, <4>1
    <3>3. CASE s \notin Small(n)
      <4>1. b[s] = F[Any(s)] + a[s \ {Any(s)}] /\ s # {}
        BY <2>3, <3>3
      <4> QED
        BY <3>1, <4>1
    <3> QED
      BY <3>2, <3>3
  <2>5. Rec(b, n + 1)
    <3> HIDE DEF b
    <3> QED BY <2>4
  <2> HIDE DEF Rec, b
  <2> QED
    BY <2>5
<1>4. S = Nat
  <2> HIDE DEF S
  <2> QED BY <1>2, <1>3, Induction DEF S
<1>5. Small(Cardinality(D)) = SUBSET D
  BY <1>1, FS_Subset
<1>6. PICK a : Rec(a, Cardinality(D))
  BY <1>1, <1>4
<1> DEFINE c == [s \in SUBSET D |-> a[s]]
<1>7. SumSteps(c, F, D)
  BY <1>5, <1>6 DEF SumSteps
<1> QED
  BY <1>7

(* A sum of integers is an integer; one of naturals is a natural, and no   *)
(* less than each of its terms.                                            *)
LEMMA SumIsTyped ==
  ASSUME NEW F, NEW D, IsFiniteSet(D), NEW g, SumSteps(g, F, D), \A i \in D : F[i] \in Int
  PROVE  /\ g[D] \in Int
         /\ D = {} => g[D] = 0
         /\ (\A i \in D : F[i] \in Nat) => g[D] \in Nat /\ \A i \in D : F[i] <= g[D]
<1> DEFINE AllNat == \A i \in D : F[i] \in Nat
           G == {s \in SUBSET D : g[s] \in Int /\ (AllNat => g[s] \in Nat /\ \A i \in s : F[i] <= g[s])}
<1>1. {} \in G
  BY DEF SumSteps
<1>2. ASSUME NEW T \in SUBSET D, T # {}, T \ {Any(T)} \in G
      PROVE  T \in G
  <2>1. Any(T) \in T /\ F[Any(T)] \in Int
    BY <1>2 DEF Any
  <2>2. g[T] = F[Any(T)] + g[T \ {Any(T)}]
    BY <1>2 DEF SumSteps
  <2>3. g[T \ {Any(T)}] \in Int
    BY <1>2
  <2>4. ASSUME AllNat PROVE g[T] \in Nat /\ \A i \in T : F[i] <= g[T]
    <3>1. g[T \ {Any(T)}] \in Nat /\ \A i \in T \ {Any(T)} : F[i] <= g[T \ {Any(T)}]
      BY <1>2, <2>4
    <3>2. \A i \in T : F[i] \in Nat
      BY <2>4
    <3>3. g[T] \in Nat
      BY <2>1, <2>2, <3>1, <3>2
    <3>4. ASSUME NEW i \in T PROVE F[i] <= g[T]
      <4>1. CASE i = Any(T)
        BY <2>1, <2>2, <3>1, <3>2, <4>1
      <4>2. CASE i # Any(T)
        <5>1. F[i] \in Nat /\ F[i] <= g[T \ {Any(T)}]
          BY <3>1, <3>2, <4>2
        <5> QED
          BY <2>1, <2>2, <3>1, <3>2, <5>1
      <4> QED
        BY <4>1, <4>2
    <3> QED
      BY <3>3, <3>4
  <2> QED
    BY <2>1, <2>2, <2>3, <2>4
<1>3. D \in G
  <2> HIDE DEF G
  <2> QED BY <1>1, <1>2, SubsetInduction
<1>4. D = {} => g[D] = 0
  BY DEF SumSteps
<1> QED
  BY <1>3, <1>4

(* The units of the entries from a to b. *)
Units(a, b) == MapThenSumSet(EntrySize, a..b)

LEMMA EntriesAddUp ==
  ASSUME NEW a \in Int, NEW b \in Int, \A i \in a..b : EntrySize(i) \in Nat
  PROVE  /\ Units(a, b) \in Nat
         /\ a > b => Units(a, b) = 0
         /\ a <= b => EntrySize(a) <= Units(a, b)
<1> DEFINE D == a..b
           F == [i \in D |-> EntrySize(i)]
           f == CHOOSE g : g = [s \in SUBSET D |-> IF s = {} THEN 0
                                  ELSE EntrySize(Any(s)) + g[s \ {Any(s)}]]
<1>1. IsFiniteSet(D)
  BY FS_Interval
<1>2. \A i \in D : F[i] \in Nat /\ F[i] \in Int
  OBVIOUS
<1>3. ASSUME NEW s \in SUBSET D, s # {} PROVE F[Any(s)] = EntrySize(Any(s))
  <2>1. Any(s) \in D
    BY <1>3 DEF Any
  <2> QED
    BY <2>1
<1>4. a > b <=> D = {}
  <2>1. a <= b => a \in D
    OBVIOUS
  <2> QED
    BY <2>1
<1>5. a <= b => a \in D /\ F[a] = EntrySize(a)
  OBVIOUS
<1>6. MapThenSumSet(EntrySize, D) = f[D]
  BY DEF MapThenSumSet, MapThenFoldSet, Any
<1> HIDE DEF F, D
<1>7. PICK g : SumSteps(g, F, D)
  BY <1>1, SumIsALoop
<1>8. g = [s \in SUBSET D |-> IF s = {} THEN 0 ELSE EntrySize(Any(s)) + g[s \ {Any(s)}]]
  BY <1>3, <1>7 DEF SumSteps
<1>9. f = [s \in SUBSET D |-> IF s = {} THEN 0 ELSE EntrySize(Any(s)) + f[s \ {Any(s)}]]
  BY <1>8
<1> HIDE DEF f
<1>10. SumSteps(f, F, D)
  BY <1>3, <1>9 DEF SumSteps
<1>11. f[D] \in Nat /\ (D = {} => f[D] = 0) /\ \A i \in D : F[i] <= f[D]
  BY <1>1, <1>2, <1>10, SumIsTyped
<1>12. Units(a, b) = f[D]
  BY <1>6 DEF Units, D
<1> QED
  BY <1>4, <1>5, <1>11, <1>12

(* The size taken from a partition is an integer. *)
LEMMA SizeIsInteger ==
  ASSUME NEW p \in Partitions, NEW win, IsFiniteSet(win),
         \A i \in win : blocksize[block[p][i]] \in Int
  PROVE  SizeOf(p, win) \in Int
<1> DEFINE Term(i) == IF \E j \in win : j < i /\ block[p][j] = block[p][i]
                      THEN -1 ELSE blocksize[block[p][i]]
           F == [i \in win |-> Term(i)]
           f == CHOOSE g : g = [s \in SUBSET win |-> IF s = {} THEN 0
                                  ELSE Term(Any(s)) + g[s \ {Any(s)}]]
<1>1. \A i \in win : F[i] \in Int
  OBVIOUS
<1>2. ASSUME NEW s \in SUBSET win, s # {} PROVE F[Any(s)] = Term(Any(s))
  <2>1. Any(s) \in win
    BY <1>2 DEF Any
  <2> QED
    BY <2>1
<1>3. SizeOf(p, win) = f[win]
  BY DEF SizeOf, MapThenSumSet, MapThenFoldSet, Any
<1> HIDE DEF F, Term
<1>4. PICK g : SumSteps(g, F, win)
  BY SumIsALoop
<1>5. g = [s \in SUBSET win |-> IF s = {} THEN 0 ELSE Term(Any(s)) + g[s \ {Any(s)}]]
  BY <1>2, <1>4 DEF SumSteps
<1>6. f = [s \in SUBSET win |-> IF s = {} THEN 0 ELSE Term(Any(s)) + f[s \ {Any(s)}]]
  BY <1>5
<1> HIDE DEF f
<1>7. SumSteps(f, F, win)
  BY <1>2, <1>6 DEF SumSteps
<1> QED
  BY <1>1, <1>3, <1>7, SumIsTyped

-----------------------------------------------------------------------------
(* Each step keeps the types, whatever the host asks for. *)

(* Typed is what TypeOK says. *)
LEMMA TypedIsTypeOK == Typed => TypeOK
  BY DEF Typed, PoolTypes, HostTypes, Transfers, TypeOK, BufferTypeOK

(* The size of a block is a number. *)
LEMMA BlockSizes ==
  ASSUME PoolTypes
  PROVE  /\ \A b \in Blocks : blocksize[b] \in Int
         /\ \A b \in Blocks : blocksize[b] # -1 => blocksize[b] \in Nat \ {0}
<1>1. \A b \in Blocks : blocksize[b] \in {-1} \cup Sizes \cup {Form2Size}
  BY DEF PoolTypes
<1>2. \A z \in Sizes \cup {Form2Size} : z \in Nat \ {0}
  BY SizesAssumption
<1> QED
  BY <1>1, <1>2

(* n blocks more. *)
LEMMA AppendKeepsTypes ==
  ASSUME PoolTypes, NEW p \in Partitions, NEW k \in Nat, NEW n \in Nat, NEW s \in LowestFree(k),
         NEW size \in Sizes \cup {Form2Size}, AppendBlocks(p, s, k, n, size)
  PROVE  PoolTypes' /\ fault' \in BOOLEAN
<1> DEFINE last == numblocks[p] + k
<1>1. s \in [0..(k - 1) -> Blocks] /\ k \in 0..MaxBlocks
  <2>1. k <= Cardinality(FreeBlocks) /\ Cardinality(FreeBlocks) \in 0..MaxBlocks
    BY LowestFreeTakes, BlocksFinite
  <2>2. s \in [0..(k - 1) -> FreeBlocks] /\ FreeBlocks \subseteq Blocks
    BY DEF LowestFree, FreeBlocks
  <2> QED
    BY <2>1, <2>2, BoundsAssumption
<1>2. numblocks[p] \in 0..(U8 - 1) /\ MaxBlocks \in Nat /\ U8 \in Nat /\ U32 \in Nat
  BY BoundsAssumption DEF PoolTypes
<1>3. blocksize' \in [Blocks -> {-1} \cup Sizes \cup {Form2Size}]
  BY DEF AppendBlocks, PoolTypes
<1>4. blockfreespace' \in 0..(U32 - 1) /\ isbufferfull' \in BOOLEAN /\ fault' \in BOOLEAN
  <2>1. blockfreespace' = Wrap(blockfreespace - k, U32) /\ blockfreespace \in 0..(U32 - 1)
    BY DEF AppendBlocks, PoolTypes
  <2>2. blockfreespace' \in 0..(U32 - 1)
    BY <1>1, <1>2, <2>1, BoundsAssumption DEF Wrap
  <2> QED
    BY <2>2 DEF AppendBlocks, PoolTypes
<1>5. numblocks' \in [Partitions -> 0..(U8 - 1)]
  <2>1. Wrap(numblocks[p] + k, U8) \in 0..(U8 - 1)
    BY <1>1, <1>2, BoundsAssumption DEF Wrap
  <2> QED
    BY <2>1 DEF AppendBlocks, PoolTypes
<1>6. \A i \in Slots : numblocks[p] <= i /\ i < last => s[i - numblocks[p]] \in Blocks
  BY <1>1, <1>2 DEF Slots
<1>7. block' \in [Partitions -> [Slots -> Blocks \cup {NULL}]]
  <2>1. block' = [block EXCEPT ![p] =
                    [i \in Slots |-> IF k < n /\ i = last THEN NULL
                                     ELSE IF numblocks[p] <= i /\ i < last
                                          THEN s[i - numblocks[p]] ELSE block[p][i]]]
    BY DEF AppendBlocks, PoolTypes
  <2> QED
    BY <1>6, <2>1 DEF PoolTypes
<1>8. blocknum' \in [Partitions -> [Slots -> Blocks \cup {NULL}]]
  <2>1. blocknum' = [blocknum EXCEPT ![p] =
                       [i \in Slots |-> IF k < n /\ last = MaxBlocks /\ i < PointerBytes THEN 0
                                        ELSE IF numblocks[p] <= i /\ i < last
                                             THEN s[i - numblocks[p]] ELSE blocknum[p][i]]]
    BY DEF AppendBlocks, PoolTypes
  <2>2. 0 \in Blocks
    BY BoundsAssumption DEF Blocks
  <2> QED
    BY <1>6, <2>1, <2>2 DEF PoolTypes
<1> QED
  BY <1>3, <1>4, <1>5, <1>7, <1>8 DEF PoolTypes

(* Blocks fewer. *)
LEMMA FreeingKeepsTypes ==
  ASSUME PoolTypes, NEW p \in Partitions, NEW win \in SUBSET Slots, FreeEntries(p, win)
  PROVE  /\ blocksize' \in [Blocks -> {-1} \cup Sizes \cup {Form2Size}]
         /\ blockfreespace' \in 0..(U32 - 1)
<1>1. Freed(p, win) \in SUBSET Blocks
  BY DEF Freed, Slots, Blocks
<1>2. Cardinality(Freed(p, win)) \in 0..MaxBlocks
  BY <1>1, BlocksFinite, FS_Subset, FS_CardinalityType, BoundsAssumption
<1>3. /\ blockfreespace' = Wrap(blockfreespace + Cardinality(Freed(p, win)), U32)
      /\ blockfreespace \in 0..(U32 - 1)
  BY DEF FreeEntries, PoolTypes
<1>4. blockfreespace' \in 0..(U32 - 1)
  BY <1>2, <1>3, BoundsAssumption DEF Wrap
<1>5. blocksize' \in [Blocks -> {-1} \cup Sizes \cup {Form2Size}]
  BY DEF FreeEntries, PoolTypes
<1> QED
  BY <1>4, <1>5

LEMMA DeletionKeepsTypes ==
  ASSUME PoolTypes, psize \in [Partitions -> Int], NEW p \in Partitions,
         NEW off, NEW n \in Int, NEW units \in Int, DeleteEntries(p, off, n, units)
  PROVE  PoolTypes' /\ psize' \in [Partitions -> Int]
<1>1. Window(off, n) \in SUBSET Slots
  BY DEF Window
<1>2. /\ blocksize' \in [Blocks -> {-1} \cup Sizes \cup {Form2Size}]
      /\ blockfreespace' \in 0..(U32 - 1)
  BY <1>1, FreeingKeepsTypes DEF DeleteEntries
<1>3. isbufferfull' \in BOOLEAN
  BY DEF DeleteEntries, FullAfterFree, PoolTypes
<1>4. numblocks' \in [Partitions -> 0..(U8 - 1)]
  <2>1. numblocks[p] - n \in Int /\ U8 \in Nat /\ U8 > 0
    BY BoundsAssumption DEF PoolTypes
  <2>2. (numblocks[p] - n) % U8 \in 0..(U8 - 1)
    BY <2>1
  <2> QED
    BY <2>2 DEF DeleteEntries, PoolTypes
<1>5. block' \in [Partitions -> [Slots -> Blocks \cup {NULL}]]
  <2>1. Holes(block[p], Window(off, n)) \in [Slots -> Blocks \cup {NULL}]
    BY DEF Holes, PoolTypes
  <2>2. SortBlocks(Holes(block[p], Window(off, n))) \in [Slots -> Blocks \cup {NULL}]
    BY <2>1, SortKeepsType
  <2> QED
    BY <2>2 DEF DeleteEntries, PoolTypes
<1>6. blocknum' \in [Partitions -> [Slots -> Blocks \cup {NULL}]]
  BY DEF DeleteEntries, Holes, PoolTypes
<1>7. psize' \in [Partitions -> Int]
  BY DEF DeleteEntries
<1> QED
  BY <1>2, <1>3, <1>4, <1>5, <1>6, <1>7 DEF PoolTypes

(* Nothing of the pool. *)
LEMMA SamePoolTypes ==
  ASSUME PoolTypes, UNCHANGED <<pool, partition>>
  PROVE  PoolTypes' /\ psize' = psize
  BY DEF PoolTypes, pool, partition

(* Nothing but the transfer's fields. *)
LEMMA SameHostTypes ==
  ASSUME HostTypes, UNCHANGED <<lengths, history>>, isonesectorstored' \in BOOLEAN,
         trans' \in Transfers, cdwnum' \in Nat, psize' \in [Partitions -> Int], fault' \in BOOLEAN
  PROVE  HostTypes'
  BY DEF HostTypes, lengths, history

LEMMA DriveTypes ==
  ASSUME Typed, Drive
  PROVE  Typed'
<1> USE DEF Typed
<1>0. /\ getsectsize \in Sizes /\ getsectsize \in Int /\ Form2Size \in Int
      /\ trans \in Transfers /\ cdwnum \in Nat /\ isonesectorstored \in BOOLEAN
      /\ \A p \in Partitions : Opened(p) \in Int
  BY SizesAssumption DEF HostTypes, Opened
<1>1. ASSUME NEW p \in Partitions, StoreSector(p) PROVE Typed'
  <2>1. PICK s \in LowestFree(1), size \in {getsectsize, Form2Size} :
          AppendBlocks(p, s, 1, 1, size) /\ psize' = [psize EXCEPT ![p] = Opened(p) + size]
    BY <1>1 DEF StoreSector
  <2>2. size \in Sizes \cup {Form2Size} /\ Opened(p) + size \in Int
    BY <1>0
  <2>3. PoolTypes' /\ fault' \in BOOLEAN
    BY <2>1, <2>2, AppendKeepsTypes
  <2>4. psize' \in [Partitions -> Int]
    BY <2>1, <2>2 DEF HostTypes
  <2>5. HostTypes'
    BY <1>0, <1>1, <2>3, <2>4, SameHostTypes DEF StoreSector, transfer
  <2> QED
    BY <2>3, <2>5
<1>2. ASSUME NEW p \in Partitions, DropSector(p) PROVE Typed'
  <2>1. PICK s \in LowestFree(0) : AppendBlocks(p, s, 0, 1, getsectsize)
    BY <1>2 DEF DropSector
  <2>2. PoolTypes' /\ fault' \in BOOLEAN
    BY <1>0, <2>1, AppendKeepsTypes
  <2>3. HostTypes'
    BY <1>0, <1>2, <2>2, SameHostTypes DEF DropSector, transfer, HostTypes
  <2> QED
    BY <2>2, <2>3
<1> QED
  BY <1>1, <1>2 DEF Drive

(* What CalcSectorOffsetNumber chooses is an integer, and wraps to one the *)
(* transfer's fields can hold.                                             *)
LEMMA ChosenIsTyped ==
  ASSUME PoolTypes, NEW p \in Partitions, NEW off \in Words, NEW num \in Words
  PROVE  Chosen(p, off, num) \in Int /\ Chosen(p, off, num) % U16 \in Nat
<1>1. numblocks[p] \in Int /\ off \in Int /\ num \in Int /\ U16 \in Nat /\ U16 > 0
  BY BoundsAssumption DEF PoolTypes, Words
<1>2. Chosen(p, off, num) \in Int
  BY <1>1 DEF Chosen
<1> HIDE DEF Chosen
<1> QED
  BY <1>1, <1>2

LEMMA EmptyTypes ==
  ASSUME blocksize' = [b \in Blocks |-> -1], isbufferfull' = FALSE,
         numblocks' = [p \in Partitions |-> 0],
         block' = [p \in Partitions |-> [i \in Slots |-> NULL]],
         blocknum' = [p \in Partitions |-> [i \in Slots |-> NULL]],
         blockfreespace' \in 0..(U32 - 1)
  PROVE  PoolTypes'
<1>1. numblocks' \in [Partitions -> 0..(U8 - 1)]
  BY BoundsAssumption
<1> QED
  BY <1>1 DEF PoolTypes

LEMMA CancelledTypes == trans \in Transfers => Cancelled \in Transfers
  BY DEF Transfers, TransferType, Cancelled

LEMMA CommandTypes ==
  ASSUME Typed, Command
  PROVE  Typed'
<1> USE DEF Typed
<1>0. /\ getsectsize \in Sizes /\ putsectsize \in Sizes /\ getsectsize \in Nat /\ putsectsize \in Nat
      /\ trans \in Transfers /\ cdwnum \in Nat /\ isonesectorstored \in BOOLEAN
      /\ fault \in BOOLEAN /\ isbufferfull \in BOOLEAN
      /\ psize \in [Partitions -> Int] /\ Cancelled \in Transfers
      /\ \A p \in Partitions : Opened(p) \in Int
      /\ U32 \in Nat /\ MaxBlocks \in 0..(U32 - 1) /\ U32 > 1
  BY SizesAssumption, BoundsAssumption, CancelledTypes DEF HostTypes, PoolTypes, Opened
<1>1. CASE SetSectorLength
  BY <1>0, <1>1 DEF SetSectorLength, pool, partition, transfer, history, PoolTypes, HostTypes
<1>2. CASE InitializeCDSystem
  BY <1>0, <1>2 DEF InitializeCDSystem, partition, transfer, lengths, history, PoolTypes, HostTypes
<1>3. CASE ResetNoPartition
  BY <1>0, <1>3 DEF ResetNoPartition, partition, lengths, history, PoolTypes, HostTypes
<1>4. CASE ResetAllPartitions
  <2>1. PoolTypes'
    BY <1>4, EmptyTypes DEF ResetAllPartitions, PoolTypes
  <2>2. psize' \in [Partitions -> Int]
    BY <1>4 DEF ResetAllPartitions
  <2>3. uncounted' \in BOOLEAN
    BY <1>4 DEF ResetAllPartitions
  <2>4. HostTypes'
    BY <1>0, <1>4, <2>2, <2>3 DEF ResetAllPartitions, lengths, HostTypes
  <2> QED
    BY <2>1, <2>4
<1>5. CASE AbortFile
  BY <1>0, <1>5 DEF AbortFile, pool, partition, lengths, history, PoolTypes, HostTypes
<1>6. CASE Reset
  <2>1. PoolTypes'
    BY <1>0, <1>6, EmptyTypes DEF Reset
  <2>2. psize' \in [Partitions -> Int]
    BY <1>6 DEF Reset
  <2>3. HostTypes'
    BY <1>0, <1>6, <2>2 DEF Reset, HostTypes
  <2> QED
    BY <2>1, <2>3
<1>7. ASSUME NEW p \in Partitions, ReadFileSystem(p) PROVE Typed'
  <2>1. PICK s \in LowestFree(1) :
          /\ block' = [block EXCEPT ![p] = SortBlocks([@ EXCEPT ![numblocks[p]] = s[0]])]
          /\ blocknum' = [blocknum EXCEPT ![p] = [@ EXCEPT ![numblocks[p]] = NULL]]
          /\ fault' = (numblocks[p] >= MaxBlocks)
    BY <1>7 DEF ReadFileSystem
  <2>2. s[0] \in Blocks
    <3>1. 0 \in 0..(1 - 1)
      OBVIOUS
    <3> QED
      BY <3>1, LowestFreeTakes DEF FreeBlocks
  <2>3. [block[p] EXCEPT ![numblocks[p]] = s[0]] \in [Slots -> Blocks \cup {NULL}]
    BY <2>2 DEF PoolTypes
  <2>4. block' \in [Partitions -> [Slots -> Blocks \cup {NULL}]]
    BY <2>1, <2>3, SortKeepsType DEF PoolTypes
  <2>5. blocknum' \in [Partitions -> [Slots -> Blocks \cup {NULL}]]
    BY <2>1 DEF PoolTypes
  <2>6. PoolTypes'
    BY <1>7, <2>4, <2>5 DEF ReadFileSystem, PoolTypes
  <2>7. psize' \in [Partitions -> Int]
    BY <1>0, <1>7 DEF ReadFileSystem
  <2>8. HostTypes'
    BY <1>0, <1>7, <2>1, <2>7, SameHostTypes DEF ReadFileSystem, transfer
  <2> QED
    BY <2>6, <2>8
<1>8. ASSUME NEW p \in Partitions, ReadFileSystemFails(p) PROVE Typed'
  <2>1. PICK s \in LowestFree(1), reads \in {0, 1} :
          /\ block' = [block EXCEPT ![p] = [@ EXCEPT ![numblocks[p]] = s[0]]]
          /\ blocknum' = [blocknum EXCEPT ![p] = [@ EXCEPT ![numblocks[p]] = s[0]]]
          /\ fault' = (numblocks[p] >= MaxBlocks)
          /\ blocksize' = [blocksize EXCEPT ![s[0]] = getsectsize]
          /\ psize' = [psize EXCEPT ![p] = IF reads = 0 THEN @ ELSE Opened(p)]
    BY <1>8 DEF ReadFileSystemFails
  <2>2. s[0] \in Blocks
    <3>1. 0 \in 0..(1 - 1)
      OBVIOUS
    <3> QED
      BY <3>1, LowestFreeTakes DEF FreeBlocks
  <2>3. /\ blocksize' \in [Blocks -> {-1} \cup Sizes \cup {Form2Size}]
        /\ block' \in [Partitions -> [Slots -> Blocks \cup {NULL}]]
        /\ blocknum' \in [Partitions -> [Slots -> Blocks \cup {NULL}]]
    BY <1>0, <2>1, <2>2 DEF PoolTypes
  <2>4. /\ blockfreespace' = Wrap(blockfreespace - 1, U32)
        /\ isbufferfull' = (blockfreespace = 1) /\ numblocks' = numblocks
    BY <1>8 DEF ReadFileSystemFails
  <2>5. blockfreespace' \in 0..(U32 - 1)
    BY <1>0, <2>4 DEF Wrap, PoolTypes
  <2>6. PoolTypes'
    BY <2>3, <2>4, <2>5 DEF PoolTypes
  <2>7. psize' \in [Partitions -> Int]
    BY <1>0, <2>1
  <2>8. HostTypes'
    BY <1>0, <1>8, <2>1, <2>7, SameHostTypes DEF ReadFileSystemFails, transfer
  <2> QED
    BY <2>6, <2>8
<1>9. ASSUME NEW p \in Partitions, ResetPartition(p) PROVE Typed'
  <2>1. Live(p) \in SUBSET Slots
    BY DEF Live
  <2>2. /\ blocksize' \in [Blocks -> {-1} \cup Sizes \cup {Form2Size}]
        /\ blockfreespace' \in 0..(U32 - 1)
    BY <1>9, <2>1, FreeingKeepsTypes DEF ResetPartition
  <2>3. /\ block' \in [Partitions -> [Slots -> Blocks \cup {NULL}]]
        /\ blocknum' \in [Partitions -> [Slots -> Blocks \cup {NULL}]]
    BY <1>9 DEF ResetPartition, Holes, PoolTypes
  <2>4. numblocks' \in [Partitions -> 0..(U8 - 1)] /\ isbufferfull' \in BOOLEAN
    BY <1>9, BoundsAssumption DEF ResetPartition, FullAfterFree, PoolTypes
  <2>5. PoolTypes'
    BY <2>2, <2>3, <2>4 DEF PoolTypes
  <2>6. HostTypes'
    BY <1>0, <1>9 DEF ResetPartition, lengths, HostTypes
  <2> QED
    BY <2>5, <2>6
<1>10. ASSUME NEW p \in Partitions, NEW n \in Words, GetMPEGRom(p, n) PROVE Typed'
  <2> DEFINE room == Cardinality(FreeBlocks)
             k == IF n <= room THEN n ELSE room
  <2>1. k \in Nat /\ n \in Nat
    BY BlocksFinite, BoundsAssumption DEF Words
  <2>2. PICK s \in LowestFree(k) : AppendBlocks(p, s, k, n, getsectsize)
    BY <1>10 DEF GetMPEGRom
  <2>3. /\ psize' = [psize EXCEPT ![p] = k * getsectsize] /\ isonesectorstored' = TRUE
        /\ UNCHANGED <<lengths, transfer, history>>
    BY <1>10 DEF GetMPEGRom
  <2> HIDE DEF k
  <2>4. PoolTypes' /\ fault' \in BOOLEAN
    BY <1>0, <2>1, <2>2, AppendKeepsTypes
  <2>5. k * getsectsize \in Int
    BY <1>0, <2>1
  <2>6. HostTypes'
    BY <1>0, <2>3, <2>4, <2>5, SameHostTypes DEF transfer
  <2> QED
    BY <2>4, <2>6
<1>11. ASSUME NEW p \in Partitions, NEW n \in Words, PutSectorData(p, n) PROVE Typed'
  <2>1. CASE n > Cardinality(FreeBlocks)
    BY <1>0, <1>11, <2>1 DEF PutSectorData, pool, partition, transfer, lengths, PoolTypes, HostTypes
  <2>2. CASE ~(n > Cardinality(FreeBlocks))
    <3>1. PICK s \in LowestFree(n) : AppendBlocks(p, s, n, n, putsectsize)
      BY <1>11, <2>2 DEF PutSectorData
    <3>2. n \in Nat
      BY DEF Words
    <3>3. PoolTypes' /\ fault' \in BOOLEAN
      BY <1>0, <3>1, <3>2, AppendKeepsTypes
    <3>4. /\ psize' = [psize EXCEPT ![p] = n * putsectsize]
          /\ trans' = [NoTransfer EXCEPT !.type = PUTSECTOR, !.part = p, !.partnum = p, !.sects = n]
          /\ cdwnum' = 0 /\ intact' = TRUE
          /\ UNCHANGED <<lengths, isonesectorstored, uncounted, strayed>>
      BY <1>11, <2>2 DEF PutSectorData
    <3>5. n * putsectsize \in Int
      BY <1>0, <3>2
    <3>6. trans' \in Transfers
      BY <3>2, <3>4 DEF NoTransfer, Transfers, TransferType
    <3>7. HostTypes'
      BY <1>0, <3>3, <3>4, <3>5, <3>6 DEF lengths, HostTypes
    <3> QED
      BY <3>3, <3>7
  <2> QED
    BY <2>1, <2>2
<1>12. ASSUME NEW p \in Partitions, NEW n \in Words, NEW off \in Words, DeleteSectorData(p, off, n)
       PROVE  Typed'
  <2> DEFINE m == Chosen(p, off, n)
             win == off..(off + m - 1)
  <2>1. m \in Int /\ off \in Int
    BY ChosenIsTyped DEF Words
  <2>2. isonesectorstored' \in BOOLEAN /\ fault' \in BOOLEAN /\ strayed' \in BOOLEAN
        /\ intact' \in BOOLEAN /\ UNCHANGED <<lengths, transfer, uncounted>>
    BY <1>0, <1>12 DEF DeleteSectorData, HostTypes
  <2>3. CASE win \subseteq Slots /\ \A i \in win : block[p][i] # NULL
    <3>1. DeleteEntries(p, off, m, SizeOf(p, win))
      BY <1>12, <2>3 DEF DeleteSectorData
    <3>2. \A i \in win : blocksize[block[p][i]] \in Int
      <4>1. \A i \in win : block[p][i] \in Blocks
        BY <2>3 DEF PoolTypes
      <4>2. \A b \in Blocks : blocksize[b] \in Int
        BY BlockSizes
      <4> QED
        BY <4>1, <4>2
    <3>3. IsFiniteSet(win)
      BY <2>1, FS_Interval
    <3> HIDE DEF win, m
    <3>4. SizeOf(p, win) \in Int
      BY <3>2, <3>3, SizeIsInteger
    <3>5. PoolTypes' /\ psize' \in [Partitions -> Int]
      BY <1>0, <2>1, <3>1, <3>4, DeletionKeepsTypes
    <3> QED
      BY <2>2, <3>5 DEF lengths, transfer, HostTypes
  <2>4. CASE ~(win \subseteq Slots /\ \A i \in win : block[p][i] # NULL)
    <3>1. UNCHANGED <<pool, partition>>
      BY <1>12, <2>4 DEF DeleteSectorData
    <3> QED
      BY <2>2, <3>1, SamePoolTypes DEF lengths, transfer, HostTypes
  <2> QED
    BY <2>3, <2>4
<1>13. ASSUME NEW p \in Partitions, NEW n \in Words, NEW off \in Words,
              GetSectorData(p, off, n) \/ GetThenDeleteSectorData(p, off, n)
       PROVE  Typed'
  <2> DEFINE m == Chosen(p, off, n) % U16
  <2>1. m \in Nat /\ off \in Nat
    BY ChosenIsTyped DEF Words
  <2>2. PICK type \in {GETSECTOR, GETDELSECTOR}, num \in {p, trans.partnum} :
          trans' = [NoTransfer EXCEPT !.type = type, !.part = p, !.partnum = num,
                                      !.sectpos = off, !.sects = m]
    BY <1>13 DEF GetSectorData, GetThenDeleteSectorData
  <2>3. num \in Partitions /\ type \in TransferType
    BY <1>0 DEF Transfers, TransferType
  <2> HIDE DEF m
  <2>4. trans' \in Transfers
    BY <2>1, <2>2, <2>3 DEF NoTransfer, Transfers
  <2>5. /\ cdwnum' = 0 /\ intact' \in BOOLEAN
        /\ UNCHANGED <<pool, partition, lengths, isonesectorstored, uncounted, strayed, fault>>
    BY <1>13 DEF GetSectorData, GetThenDeleteSectorData, IsStored
  <2> QED
    BY <2>4, <2>5, SamePoolTypes DEF lengths, HostTypes
<1> QED
  BY <1>1, <1>2, <1>3, <1>4, <1>5, <1>6, <1>7, <1>8, <1>9, <1>10, <1>11, <1>12, <1>13 DEF Command

(* While a rapid copy reaches sect, what it has copied is a natural        *)
(* number: of the first sector no more is taken than it has.               *)
LEMMA CopiedIsNatural ==
  ASSUME Typed, NEW count \in Nat, NEW sect \in trans.numsect..trans.sects, Reaches(sect, count)
  PROVE  /\ Copied(sect) \in Nat /\ count - Copied(sect) \in Nat
         /\ sect \in Nat /\ Start(sect) \in Nat
<1>1. trans.numsect \in Nat /\ trans.sects \in Nat /\ trans.offset \in Nat
  BY DEF Typed, HostTypes, Transfers
<1>2. sect \in Nat /\ sect - 1 \in Int /\ trans.numsect \in Int /\ Start(sect) \in Nat
  BY <1>1 DEF Start
<1>3. \A i \in trans.numsect..(sect - 1) : EntrySize(i) \in Nat /\ Start(i) <= EntrySize(i)
  <2> TAKE i \in trans.numsect..(sect - 1)
  <2>1. i \in Slots /\ block[trans.part][i] # NULL
        /\ EntrySize(i) - Start(i) \in 0..EntrySize(i)
    BY DEF Reaches, Fits, Readable
  <2>2. block[trans.part][i] \in Blocks
    BY <2>1 DEF Typed, PoolTypes, HostTypes, Transfers
  <2>3. EntrySize(i) \in Int
    BY <2>2, BlockSizes DEF Typed, EntrySize
  <2>4. Start(i) \in Nat
    BY <1>1 DEF Start
  <2> QED
    BY <2>1, <2>3, <2>4
<1>4. /\ Units(trans.numsect, sect - 1) \in Nat
      /\ trans.numsect <= sect - 1 => EntrySize(trans.numsect) <= Units(trans.numsect, sect - 1)
      /\ trans.numsect > sect - 1 => Units(trans.numsect, sect - 1) = 0
  BY <1>2, <1>3, EntriesAddUp
<1>5. Copied(sect) = Units(trans.numsect, sect - 1)
                       - (IF sect = trans.numsect THEN 0 ELSE trans.offset)
  BY DEF Copied, Units
<1>6. Copied(sect) \in Nat
  <2>1. CASE sect = trans.numsect
    BY <1>1, <1>2, <1>4, <1>5, <2>1
  <2>2. CASE sect # trans.numsect
    <3>1. trans.numsect \in trans.numsect..(sect - 1)
      BY <1>1, <1>2, <2>2
    <3>2. EntrySize(trans.numsect) \in Nat /\ trans.offset <= EntrySize(trans.numsect)
      BY <1>3, <3>1 DEF Start
    <3> QED
      BY <1>1, <1>2, <1>4, <1>5, <2>2, <3>1, <3>2
  <2> QED
    BY <2>1, <2>2
<1> QED
  BY <1>2, <1>6 DEF Reaches

(* The end of a get-then-delete transfer. *)
LEMMA FinishDeleteTypes ==
  ASSUME Typed, NEW t \in Transfers, NEW moved \in Nat, FinishDelete(t, moved)
  PROVE  /\ PoolTypes' /\ psize' \in [Partitions -> Int]
         /\ strayed' \in BOOLEAN /\ fault' \in BOOLEAN
         /\ UNCHANGED <<lengths, uncounted, intact>>
<1>1. t.part \in Partitions /\ t.sects \in Int
  BY DEF Transfers
<1>2. PoolTypes' /\ psize' \in [Partitions -> Int]
  BY <1>1, DeletionKeepsTypes DEF FinishDelete, Typed, HostTypes
<1>3. strayed' \in BOOLEAN /\ fault' \in BOOLEAN
  BY DEF FinishDelete, Typed, HostTypes
<1> QED
  BY <1>2, <1>3 DEF FinishDelete

(* The end of a rapid copy at position t. *)
LEMMA EndCopyTypes ==
  ASSUME Typed, NEW t \in Transfers, NEW moved \in Nat, EndCopy(t, moved),
         isonesectorstored' = isonesectorstored
  PROVE  Typed'
<1>1. cdwnum' \in Nat
  BY DEF EndCopy, Typed, HostTypes
<1>2. CASE t.type = GETDELSECTOR /\ t.numsect >= t.sects
  <2>1. FinishDelete(t, cdwnum') /\ trans' = [t EXCEPT !.type = INVALID]
    BY <1>2 DEF EndCopy
  <2>2. trans' \in Transfers
    BY <2>1 DEF Transfers, TransferType
  <2>3. /\ PoolTypes' /\ psize' \in [Partitions -> Int]
        /\ strayed' \in BOOLEAN /\ fault' \in BOOLEAN
        /\ UNCHANGED <<lengths, uncounted, intact>>
    BY <1>1, <2>1, FinishDeleteTypes
  <2> QED
    BY <1>1, <2>2, <2>3 DEF Typed, HostTypes, lengths
<1>3. CASE ~(t.type = GETDELSECTOR /\ t.numsect >= t.sects)
  <2>1. trans' = t /\ UNCHANGED <<pool, partition, lengths, history, fault>>
    BY <1>3 DEF EndCopy
  <2> QED
    BY <1>1, <2>1, SamePoolTypes DEF Typed, HostTypes, lengths, history
<1> QED
  BY <1>2, <1>3

LEMMA DataPortTypes ==
  ASSUME Typed, DataPort
  PROVE  Typed'
<1>0. /\ trans \in Transfers /\ cdwnum \in Nat /\ isonesectorstored \in BOOLEAN
      /\ PoolTypes /\ HostTypes /\ Cancelled \in Transfers
      /\ psize \in [Partitions -> Int] /\ fault \in BOOLEAN
  BY CancelledTypes DEF Typed, HostTypes
<1>1. CASE ReadLong \/ WriteLong
  <2>1. /\ trans' = Advance /\ cdwnum' = cdwnum + 1
        /\ UNCHANGED <<pool, partition, lengths, isonesectorstored, history, fault>>
    BY <1>1 DEF ReadLong, WriteLong
  <2>2. trans' \in Transfers
    <3> DEFINE end == trans.offset + 1 >= blocksize[Current]
               sect == IF end THEN trans.numsect + 1 ELSE trans.numsect
               at == IF end THEN 0 ELSE trans.offset + 1
    <3>1. trans' = [trans EXCEPT !.offset = at, !.numsect = sect]
      BY <2>1 DEF Advance
    <3>2. sect \in Nat /\ at \in Nat
      BY <1>0 DEF Transfers
    <3> HIDE DEF sect, at
    <3> QED
      BY <1>0, <3>1, <3>2 DEF Transfers
  <2> QED
    BY <1>0, <2>1, <2>2, SamePoolTypes, SameHostTypes DEF Typed
<1>2. CASE AccessFaults
  <2>1. /\ fault' = TRUE
        /\ UNCHANGED <<pool, partition, lengths, isonesectorstored, transfer, history>>
    BY <1>2 DEF AccessFaults
  <2> QED
    BY <1>0, <2>1, SamePoolTypes, SameHostTypes DEF Typed, transfer
<1>3. CASE ReadLongDeletes
  <2>1. /\ FinishDelete(trans, cdwnum) /\ trans' = Cancelled
        /\ UNCHANGED <<isonesectorstored, cdwnum>>
    BY <1>3 DEF ReadLongDeletes
  <2>2. /\ PoolTypes' /\ psize' \in [Partitions -> Int]
        /\ strayed' \in BOOLEAN /\ fault' \in BOOLEAN
        /\ UNCHANGED <<lengths, uncounted, intact>>
    BY <1>0, <2>1, FinishDeleteTypes
  <2> QED
    BY <1>0, <2>1, <2>2 DEF Typed, HostTypes, lengths
<1>4. CASE EndDataTransfer
  <2>1. CASE trans.type = GETDELSECTOR /\ psize[trans.part] > 0
    <3>1. /\ FinishDelete(trans, cdwnum) /\ trans' = Cancelled /\ cdwnum' = 0
          /\ isonesectorstored' = (isonesectorstored /\ blockfreespace' # MaxBlocks)
      BY <1>4, <2>1 DEF EndDataTransfer
    <3>2. /\ PoolTypes' /\ psize' \in [Partitions -> Int]
          /\ strayed' \in BOOLEAN /\ fault' \in BOOLEAN
          /\ UNCHANGED <<lengths, uncounted, intact>>
      BY <1>0, <3>1, FinishDeleteTypes
    <3> QED
      BY <1>0, <3>1, <3>2 DEF Typed, HostTypes, lengths
  <2>2. CASE ~(trans.type = GETDELSECTOR /\ psize[trans.part] > 0)
    <3>1. /\ cdwnum' = 0
          /\ UNCHANGED <<pool, partition, lengths, isonesectorstored, trans, history, fault>>
      BY <1>4, <2>2 DEF EndDataTransfer
    <3> QED
      BY <1>0, <3>1, SamePoolTypes, SameHostTypes DEF Typed
  <2> QED
    BY <2>1, <2>2
<1>5. ASSUME NEW count \in 1..MaxCopy, RapidCopy(count) PROVE Typed'
  <2>1. PICK sect \in trans.numsect..trans.sects :
          /\ Reaches(sect, count)
          /\ IF sect = trans.sects \/ Copied(sect) = count
             THEN EndCopy([trans EXCEPT !.numsect = sect, !.offset = Start(sect)], Copied(sect))
             ELSE /\ ~Fits(sect, count - Copied(sect))
                  /\ CopyRest(sect, count - Copied(sect), count)
    BY <1>5 DEF RapidCopy
  <2>2. isonesectorstored' = isonesectorstored /\ count \in Nat
    BY <1>5, SizesAssumption DEF RapidCopy
  <2>3. /\ Copied(sect) \in Nat /\ count - Copied(sect) \in Nat
        /\ sect \in Nat /\ Start(sect) \in Nat
    BY <2>1, <2>2, CopiedIsNatural
  <2>4. CASE EndCopy([trans EXCEPT !.numsect = sect, !.offset = Start(sect)], Copied(sect))
    <3>1. [trans EXCEPT !.numsect = sect, !.offset = Start(sect)] \in Transfers
      BY <1>0, <2>3 DEF Transfers
    <3> QED
      BY <2>2, <2>3, <2>4, <3>1, EndCopyTypes
  <2>5. CASE CopyRest(sect, count - Copied(sect), count)
    <3> DEFINE upto == Start(sect) + (count - Copied(sect))
               over == EntrySize(sect) # -1 /\ EntrySize(sect) <= upto
               next == IF over THEN sect + 1 ELSE sect
               at == IF over THEN 0 ELSE upto
               t == [trans EXCEPT !.numsect = next, !.offset = at]
    <3>1. \/ fault' = TRUE /\ UNCHANGED <<pool, partition, lengths, transfer, history>>
          \/ EndCopy(t, count)
      BY <2>5 DEF CopyRest
    <3>2. next \in Nat /\ at \in Nat
      BY <2>3
    <3> HIDE DEF next, at
    <3>3. t \in Transfers
      BY <1>0, <2>3, <3>2 DEF Transfers
    <3> HIDE DEF t
    <3>4. CASE EndCopy(t, count)
      BY <2>2, <3>3, <3>4, EndCopyTypes
    <3>5. CASE fault' = TRUE /\ UNCHANGED <<pool, partition, lengths, transfer, history>>
      BY <1>0, <2>2, <3>5, SamePoolTypes, SameHostTypes DEF Typed, transfer
    <3> QED
      BY <3>1, <3>4, <3>5
  <2> QED
    BY <2>1, <2>4, <2>5
<1> QED
  BY <1>1, <1>2, <1>3, <1>4, <1>5 DEF DataPort

(* Power-on, and any step. *)
LEMMA InitTypes == Init => Typed
<1> SUFFICES ASSUME Init PROVE Typed
  OBVIOUS
<1>1. trans \in Transfers
  <2>1. 0 \in Partitions
    BY BoundsAssumption DEF Partitions
  <2> QED
    BY <2>1 DEF Init, NoTransfer, Transfers, TransferType
<1>2. numblocks \in [Partitions -> 0..(U8 - 1)] /\ blockfreespace \in 0..(U32 - 1)
  BY BoundsAssumption DEF Init
<1>3. psize \in [Partitions -> Int]
  BY DEF Init
<1> QED
  BY <1>1, <1>2, <1>3 DEF Init, Typed, PoolTypes, HostTypes

LEMMA StepTypes == Typed /\ [Next]_vars => Typed'
<1> SUFFICES ASSUME Typed, [Next]_vars PROVE Typed'
  OBVIOUS
<1>1. CASE UNCHANGED vars
  BY <1>1 DEF vars, Typed, PoolTypes, HostTypes
<1> QED
  BY <1>1, DriveTypes, CommandTypes, DataPortTypes DEF Next

-----------------------------------------------------------------------------
(* The pool, while nothing is strayed. *)

(* A partition's sectors and the free blocks fit the pool together. *)
LEMMA RoomBeside ==
  ASSUME PoolTypeOK, SectorsAreApart, NEW p \in Partitions
  PROVE  numblocks[p] + Cardinality(FreeBlocks) <= MaxBlocks
<1> DEFINE I == 0..(numblocks[p] - 1)
           f == [i \in I |-> block[p][i]]
           Used == Blocks \ FreeBlocks
<1>1. numblocks[p] \in 0..MaxBlocks
  BY DEF PoolTypeOK
<1>2. I \subseteq Slots /\ \A i \in I : i \in Live(p)
  BY <1>1, BoundsAssumption DEF Slots, Live
<1>3. \A i \in I : block[p][i] \in Used
  <2> TAKE i \in I
  <2>1. i \in Live(p) /\ i \in Slots
    BY <1>2
  <2>2. block[p][i] # NULL /\ blocksize[block[p][i]] # -1
    BY <2>1 DEF SectorsAreApart
  <2>3. block[p][i] \in Blocks \cup {NULL}
    BY <2>1 DEF PoolTypeOK
  <2>4. QED
    BY <2>2, <2>3 DEF FreeBlocks
<1>4. \A i, j \in I : block[p][i] = block[p][j] => i = j
  BY <1>2 DEF SectorsAreApart
<1>5. f \in Injection(I, Used)
  BY <1>3, <1>4 DEF Injection, IsInjective
<1>6. IsFiniteSet(Used) /\ Cardinality(Used) = MaxBlocks - Cardinality(FreeBlocks)
  <2>1. FreeBlocks \subseteq Blocks
    BY DEF FreeBlocks
  <2>2. QED
    BY <2>1, BlocksFinite, SubsetLeaves, FS_Subset
<1>7. Cardinality(I) <= Cardinality(Used)
  BY <1>5, <1>6, FS_Injection
<1>8. Cardinality(I) = numblocks[p]
  BY <1>1, FS_Interval
<1>9. QED
  BY <1>1, <1>6, <1>7, <1>8, BlocksFinite, BoundsAssumption

(* The length of a stored sector is positive.                              *)
LEMMA StoredLength ==
  ASSUME PoolInv, NEW p \in Partitions, NEW i \in 0..(numblocks[p] - 1)
  PROVE  /\ i \in Slots /\ i \in Live(p) /\ block[p][i] \in Blocks
         /\ blocksize[block[p][i]] \in Nat \ {0}
<1>1. numblocks[p] \in 0..MaxBlocks /\ MaxBlocks \in Nat
  BY BoundsAssumption DEF PoolInv, PoolTypeOK
<1>2. i \in Slots /\ i \in Live(p)
  BY <1>1 DEF Slots, Live
<1>3. block[p][i] # NULL /\ blocksize[block[p][i]] # -1
  BY <1>2 DEF PoolInv, SectorsAreApart
<1>4. block[p][i] \in Blocks
  BY <1>2, <1>3 DEF PoolInv, PoolTypeOK
<1>5. blocksize[block[p][i]] \in Sizes \cup {Form2Size}
  BY <1>3, <1>4 DEF PoolInv, PoolTypeOK
<1> QED
  BY <1>2, <1>4, <1>5, SizesAssumption

(* The sectors of a partition stay where they are. *)
StoredKept(p) ==
  \A i \in 0..(numblocks[p] - 1) :
    /\ i < numblocks'[p] /\ block'[p][i] = block[p][i]
    /\ blocksize'[block[p][i]] = blocksize[block[p][i]]

(* AppendBlocks takes k free blocks and keeps the pool's invariant.         *)
LEMMA AppendKeepsPool ==
  ASSUME PoolInv, NEW p \in Partitions, NEW k \in Nat, NEW n \in Nat,
         k = n \/ k = Cardinality(FreeBlocks), k <= n, NEW s \in LowestFree(k),
         NEW size \in Sizes \cup {Form2Size}, AppendBlocks(p, s, k, n, size),
         uncounted' = uncounted
  PROVE  PoolInv' /\ numblocks' = [numblocks EXCEPT ![p] = @ + k] /\ ~fault'
<1> DEFINE R == {s[i] : i \in 0..(k - 1)}
           last == numblocks[p] + k
<1>1. /\ \A i \in 0..(k - 1) : s[i] \in FreeBlocks
      /\ \A i, j \in 0..(k - 1) : s[i] = s[j] => i = j
      /\ k <= Cardinality(FreeBlocks)
      /\ Cardinality(FreeBlocks \ R) = Cardinality(FreeBlocks) - k
  BY LowestFreeTakes
<1>2. numblocks[p] \in 0..MaxBlocks /\ numblocks[p] + Cardinality(FreeBlocks) <= MaxBlocks
  BY RoomBeside DEF PoolInv, PoolTypeOK
<1>3. MaxBlocks \in Nat /\ Cardinality(FreeBlocks) \in 0..MaxBlocks /\ last \in 0..MaxBlocks
  BY <1>1, <1>2, BlocksFinite, BoundsAssumption
<1>4. size # -1 /\ size \in {-1} \cup Sizes \cup {Form2Size}
  BY SizesAssumption
<1>5. blocksize' = [b \in Blocks |-> IF b \in R THEN size ELSE blocksize[b]]
  BY DEF AppendBlocks
<1>6. FreeBlocks' = FreeBlocks \ R
  BY <1>4, <1>5 DEF FreeBlocks
<1>7. Cardinality(FreeBlocks)' = Cardinality(FreeBlocks) - k
  BY <1>1, <1>6
<1>8. numblocks' = [numblocks EXCEPT ![p] = @ + k]
  <2>1. Wrap(numblocks[p] + k, U8) = numblocks[p] + k
    BY <1>3, BoundsAssumption DEF Wrap
  <2>2. QED
    BY <2>1 DEF AppendBlocks
<1>9. /\ \A q \in Partitions : \A i \in Slots :
           /\ q # p \/ i < numblocks[p] \/ i > last => block'[q][i] = block[q][i]
           /\ q = p /\ i = last => block'[q][i] \in {block[q][i], NULL}
           /\ q = p /\ i >= numblocks[p] /\ i < last
                => block'[q][i] = s[i - numblocks[p]]
      /\ block' = [block EXCEPT ![p] = block'[p]]
      /\ block'[p] = [i \in Slots |-> block'[p][i]]
  BY <1>2, <1>3 DEF AppendBlocks, PoolInv, PoolTypeOK, Slots
<1>10. PoolTypeOK'
  <2>1. blocksize' \in [Blocks -> {-1} \cup Sizes \cup {Form2Size}]
    BY <1>4, <1>5 DEF PoolInv, PoolTypeOK
  <2>2. blockfreespace' \in 0..(U32 - 1) /\ isbufferfull' \in BOOLEAN
    <3>1. blockfreespace' = Wrap(blockfreespace - k, U32)
      BY DEF AppendBlocks
    <3>2. blockfreespace \in 0..(U32 - 1) /\ k <= MaxBlocks /\ U32 > MaxBlocks /\ U32 \in Nat
      BY <1>1, <1>3, BoundsAssumption DEF PoolInv, PoolTypeOK
    <3>3. blockfreespace' \in 0..(U32 - 1)
      BY <3>1, <3>2, <1>3 DEF Wrap
    <3>4. isbufferfull' \in BOOLEAN
      BY DEF AppendBlocks, PoolInv, PoolTypeOK
    <3>5. QED
      BY <3>3, <3>4
  <2>3. numblocks' \in [Partitions -> 0..MaxBlocks]
    BY <1>3, <1>8 DEF PoolInv, PoolTypeOK
  <2>4. s \in [0..(k - 1) -> FreeBlocks] /\ FreeBlocks \subseteq Blocks
    BY DEF LowestFree, FreeBlocks
  <2>5. block' \in [Partitions -> [Slots -> Blocks \cup {NULL}]]
    <3>1. block' = [block EXCEPT ![p] =
                      [i \in Slots |-> IF k < n /\ i = last THEN NULL
                                       ELSE IF numblocks[p] <= i /\ i < last
                                            THEN s[i - numblocks[p]] ELSE block[p][i]]]
      BY DEF AppendBlocks, PoolInv, PoolTypeOK
    <3>2. \A i \in Slots : numblocks[p] <= i /\ i < last => s[i - numblocks[p]] \in Blocks
      BY <2>4, <1>2, <1>3 DEF Slots
    <3>3. QED
      BY <3>1, <3>2 DEF PoolInv, PoolTypeOK
  <2>6. blocknum' \in [Partitions -> [Slots -> Blocks \cup {NULL}]]
    <3>1. blocknum' = [blocknum EXCEPT ![p] =
                      [i \in Slots |-> IF k < n /\ last = MaxBlocks /\ i < PointerBytes THEN 0
                                       ELSE IF numblocks[p] <= i /\ i < last
                                            THEN s[i - numblocks[p]] ELSE blocknum[p][i]]]
      BY DEF AppendBlocks, PoolInv, PoolTypeOK
    <3>2. \A i \in Slots : numblocks[p] <= i /\ i < last => s[i - numblocks[p]] \in Blocks
      BY <2>4, <1>2, <1>3 DEF Slots
    <3>3. 0 \in Blocks
      BY BoundsAssumption DEF Blocks
    <3>4. QED
      BY <3>1, <3>2, <3>3 DEF PoolInv, PoolTypeOK
  <2>7. QED
    BY <2>1, <2>2, <2>3, <2>5, <2>6 DEF PoolTypeOK
<1>11. SectorsAreApart'
  <2> DEFINE New(q, i) == q = p /\ i >= numblocks[p]
  <2>1. ASSUME NEW q \in Partitions, NEW i \in Live(q)'
        PROVE  /\ i \in Slots
               /\ New(q, i) => /\ i - numblocks[p] \in 0..(k - 1)
                               /\ block'[q][i] = s[i - numblocks[p]]
               /\ ~New(q, i) => i \in Live(q) /\ block'[q][i] = block[q][i]
    BY <1>2, <1>3, <1>8, <1>9 DEF Live, Slots, PoolInv, PoolTypeOK
  <2>2. ASSUME NEW q \in Partitions, NEW i \in Live(q)'
        PROVE  /\ New(q, i) <=> block'[q][i] \in FreeBlocks
               /\ block'[q][i] # NULL /\ block'[q][i] \in Blocks \cup {NULL}
               /\ blocksize'[block'[q][i]] # -1
    <3>1. CASE New(q, i)
      <4>1. block'[q][i] \in R /\ block'[q][i] \in FreeBlocks
        BY <3>1, <2>1, <1>1
      <4>2. block'[q][i] \in Blocks /\ block'[q][i] # NULL
        BY <4>1 DEF FreeBlocks, Blocks, NULL
      <4>3. QED
        BY <3>1, <4>1, <4>2, <1>4, <1>5
    <3>2. CASE ~New(q, i)
      <4>1. i \in Live(q) /\ i \in Slots /\ block'[q][i] = block[q][i]
        BY <3>2, <2>1
      <4>2. block[q][i] # NULL /\ blocksize[block[q][i]] # -1
        BY <4>1 DEF PoolInv, SectorsAreApart
      <4>3. block[q][i] \in Blocks
        BY <4>1, <4>2 DEF PoolInv, PoolTypeOK
      <4>4. block[q][i] \notin FreeBlocks /\ block[q][i] \notin R
        BY <4>2, <1>1 DEF FreeBlocks
      <4>5. QED
        BY <3>2, <4>1, <4>2, <4>3, <4>4, <1>5
    <3>3. QED
      BY <3>1, <3>2
  <2>3. ASSUME NEW q \in Partitions, NEW r \in Partitions,
               NEW i \in Live(q)', NEW j \in Live(r)', block'[q][i] = block'[r][j]
        PROVE  q = r /\ i = j
    <3>1. New(q, i) <=> New(r, j)
      BY <2>2, <2>3
    <3>2. CASE New(q, i)
      <4>1. i - numblocks[p] = j - numblocks[p]
        BY <3>1, <3>2, <2>1, <2>3, <1>1
      <4>2. QED
        BY <3>1, <3>2, <4>1, <2>1, <1>2 DEF Slots
    <3>3. CASE ~New(q, i)
      <4>1. i \in Live(q) /\ j \in Live(r) /\ block[q][i] = block[r][j]
        BY <3>1, <3>3, <2>1, <2>3
      <4>2. QED
        BY <4>1 DEF PoolInv, SectorsAreApart
    <3>4. QED
      BY <3>2, <3>3
  <2>4. QED
    BY <2>2, <2>3 DEF SectorsAreApart
<1>12. CountIsExact' /\ FullIsHonest'
  <2> SUFFICES ASSUME ~uncounted
               PROVE  /\ blockfreespace' = Cardinality(FreeBlocks)'
                      /\ isbufferfull' => FreeBlocks' = {}
    BY DEF CountIsExact, FullIsHonest
  <2>1. blockfreespace = Cardinality(FreeBlocks)
    BY DEF PoolInv, CountIsExact
  <2>2. blockfreespace' = blockfreespace - k
    BY <2>1, <1>1, <1>3, BoundsAssumption DEF AppendBlocks, Wrap
  <2>3. ASSUME isbufferfull' PROVE FreeBlocks' = {}
    <3>1. CASE isbufferfull
      BY <3>1, <1>6 DEF PoolInv, FullIsHonest
    <3>2. CASE ~isbufferfull
      <4>1. k < n \/ blockfreespace \in 1..k
        BY <2>3, <3>2 DEF AppendBlocks
      <4>2. Cardinality(FreeBlocks) = k
        BY <4>1, <2>1, <1>1, <1>3
      <4>3. Cardinality(FreeBlocks)' = 0
        BY <4>2, <1>7
      <4>4. IsFiniteSet(FreeBlocks')
        BY <1>6, BlocksFinite, FS_Subset
      <4>5. QED
        BY <4>3, <4>4, FS_EmptySet
    <3>3. QED
      BY <3>1, <3>2
  <2>4. QED
    BY <2>1, <2>2, <2>3, <1>7
<1>13. ~fault'
  <2>1. ~(n > 0 /\ last > MaxBlocks)
    BY <1>3
  <2>2. fault' = (n > 0 /\ last > MaxBlocks)
    BY DEF AppendBlocks
  <2> QED
    BY <2>1, <2>2
<1>14. QED
  BY <1>8, <1>10, <1>11, <1>12, <1>13 DEF PoolInv

(* Freeing the entries win of a partition, and closing the gap. *)
LEMMA FreeingCounts ==
  ASSUME PoolInv, NEW p \in Partitions, NEW win \in SUBSET Live(p), FreeEntries(p, win)
  PROVE  /\ Freed(p, win) = win
         /\ \A b \in Blocks : /\ b \in FreeBlocks \/ (\E i \in win : block[p][i] = b)
                                 => blocksize'[b] = -1
                              /\ ~(b \in FreeBlocks \/ (\E i \in win : block[p][i] = b))
                                 => blocksize'[b] = blocksize[b]
         /\ blocksize' \in [Blocks -> {-1} \cup Sizes \cup {Form2Size}]
         /\ blockfreespace' \in 0..(U32 - 1)
         /\ Cardinality(FreeBlocks)' = Cardinality(FreeBlocks) + Cardinality(win)
         /\ ~uncounted => blockfreespace' = Cardinality(FreeBlocks)'
         /\ win = {} => FreeBlocks' = FreeBlocks
<1> DEFINE R == {block[p][i] : i \in win}
           g == [i \in win |-> block[p][i]]
<1>1. \A i \in win : i \in Slots /\ block[p][i] # NULL /\ blocksize[block[p][i]] # -1
  BY DEF PoolInv, SectorsAreApart, Live
<1>2. Freed(p, win) = win
  BY <1>1 DEF Freed
<1>3. R \subseteq Blocks
  BY <1>1 DEF PoolInv, PoolTypeOK
<1>4. blocksize' = [b \in Blocks |-> IF b \in R THEN -1 ELSE blocksize[b]]
  BY <1>2 DEF FreeEntries
<1>5. FreeBlocks' = FreeBlocks \cup R
  BY <1>3, <1>4 DEF FreeBlocks
<1>6. FreeBlocks \cap R = {}
  BY <1>1 DEF FreeBlocks
<1>7. IsFiniteSet(win)
  <2>1. win \subseteq Blocks
    BY <1>1 DEF Slots, Blocks
  <2>2. QED
    BY <2>1, BlocksFinite, FS_Subset
<1>8. IsFiniteSet(R) /\ Cardinality(R) = Cardinality(win)
  <2>1. \A i, j \in win : block[p][i] = block[p][j] => i = j
    BY DEF PoolInv, SectorsAreApart
  <2>2. g \in Bijection(win, R)
    BY <2>1 DEF Bijection, Injection, Surjection, IsInjective
  <2>3. QED
    BY <2>2, <1>7, FS_Bijection DEF ExistsBijection
<1>9. Cardinality(FreeBlocks)' = Cardinality(FreeBlocks) + Cardinality(win)
  BY <1>5, <1>6, <1>8, BlocksFinite, DisjointAdd
<1>10. Cardinality(FreeBlocks) \in Nat /\ Cardinality(win) \in Nat
  BY <1>7, BlocksFinite, FS_CardinalityType
<1>11. Cardinality(FreeBlocks)' <= MaxBlocks
  <2>1. FreeBlocks' \subseteq Blocks
    BY <1>3, <1>5 DEF FreeBlocks
  <2>2. Cardinality(FreeBlocks') <= Cardinality(Blocks)
    BY <2>1, BlocksFinite, FS_Subset
  <2>3. QED
    BY <2>2, BlocksFinite
<1>12. blockfreespace' = Wrap(blockfreespace + Cardinality(win), U32)
  BY <1>2 DEF FreeEntries
<1>13. blockfreespace' \in 0..(U32 - 1)
  <2>1. blockfreespace \in 0..(U32 - 1)
    BY DEF PoolInv, PoolTypeOK
  <2>2. Cardinality(win) < U32 /\ U32 \in Nat
    BY <1>9, <1>10, <1>11, BoundsAssumption
  <2>3. QED
    BY <2>1, <2>2, <1>10, <1>12 DEF Wrap
<1>14. ~uncounted => blockfreespace' = Cardinality(FreeBlocks)'
  <2> SUFFICES ASSUME ~uncounted PROVE blockfreespace' = Cardinality(FreeBlocks)'
    OBVIOUS
  <2>1. blockfreespace = Cardinality(FreeBlocks)
    BY DEF PoolInv, CountIsExact
  <2>2. blockfreespace + Cardinality(win) <= MaxBlocks
    BY <2>1, <1>9, <1>11
  <2>3. QED
    BY <2>1, <2>2, <1>9, <1>10, <1>12, BoundsAssumption DEF Wrap
<1>15. blocksize' \in [Blocks -> {-1} \cup Sizes \cup {Form2Size}]
  BY <1>4 DEF PoolInv, PoolTypeOK
<1>16. win = {} => FreeBlocks' = FreeBlocks
  BY <1>5
<1>17. \A b \in Blocks : b \in FreeBlocks <=> blocksize[b] = -1
  BY DEF FreeBlocks
<1>18. QED
  BY <1>2, <1>4, <1>9, <1>13, <1>14, <1>15, <1>16, <1>17

(* Deleting sectors that the partition has, as DeleteSectorData and the    *)
(* end of a get-then-delete transfer do, keeps the pool's invariant: each  *)
(* entry frees a block no other entry holds.                               *)
LEMMA DeleteKeepsPool ==
  ASSUME PoolInv, NEW p \in Partitions, NEW off \in Nat, NEW n \in Nat,
         off + n <= numblocks[p], NEW units, DeleteEntries(p, off, n, units),
         uncounted' = uncounted
  PROVE  PoolInv' /\ numblocks' = [numblocks EXCEPT ![p] = @ - n]
<1> DEFINE win == Window(off, n)
           num == numblocks[p]
           h == Holes(block[p], win)
<1>1. num \in 0..MaxBlocks /\ num \in Nat /\ num - n \in 0..MaxBlocks
  BY BoundsAssumption DEF PoolInv, PoolTypeOK
<1>2. win \in SUBSET Live(p)
  BY <1>1 DEF Window, Live, Slots
<1>3. FreeEntries(p, win) /\ isbufferfull' = FullAfterFree(p, win)
  BY DEF DeleteEntries
<1>4. /\ Freed(p, win) = win
      /\ \A b \in Blocks : /\ b \in FreeBlocks \/ (\E i \in win : block[p][i] = b)
                              => blocksize'[b] = -1
                           /\ ~(b \in FreeBlocks \/ (\E i \in win : block[p][i] = b))
                              => blocksize'[b] = blocksize[b]
      /\ blocksize' \in [Blocks -> {-1} \cup Sizes \cup {Form2Size}]
      /\ blockfreespace' \in 0..(U32 - 1)
      /\ ~uncounted => blockfreespace' = Cardinality(FreeBlocks)'
      /\ win = {} => FreeBlocks' = FreeBlocks
  BY <1>2, <1>3, FreeingCounts
<1>5. numblocks' = [numblocks EXCEPT ![p] = @ - n]
  <2>1. (num - n) % U8 = num - n
    BY <1>1, BoundsAssumption
  <2>2. QED
    BY <2>1 DEF DeleteEntries
<1>6. /\ h \in [Slots -> Blocks \cup {NULL}]
      /\ \A i \in 0..(num - 1) : h[i] = NULL <=> i \in off..(off + n - 1)
      /\ \A i \in 0..(num - 1) : i \notin off..(off + n - 1) => h[i] = block[p][i]
  <2>1. block[p] \in [Slots -> Blocks \cup {NULL}]
    BY DEF PoolInv, PoolTypeOK
  <2>2. \A i \in 0..(num - 1) : i \in Slots /\ i \in Live(p) /\ block[p][i] # NULL
    BY <1>1, BoundsAssumption DEF Slots, Live, PoolInv, SectorsAreApart
  <2>3. \A i \in 0..(num - 1) : i \in win <=> i \in off..(off + n - 1)
    BY <2>2, <1>1 DEF Window
  <2>4. \A i \in Slots : h[i] = IF i \in win THEN NULL ELSE block[p][i]
    BY DEF Holes
  <2>5. h \in [Slots -> Blocks \cup {NULL}]
    BY <2>1 DEF Holes
  <2>6. QED
    BY <2>2, <2>3, <2>4, <2>5
<1>7. /\ block' = [block EXCEPT ![p] = SortBlocks(h)]
      /\ SortBlocks(h) \in [Slots -> Blocks \cup {NULL}]
      /\ \A i \in 0..(num - n - 1) :
           SortBlocks(h)[i] = IF i < off THEN h[i] ELSE h[i + n]
  BY <1>1, <1>6, SortClosesGap DEF DeleteEntries
<1>8. PoolTypeOK'
  <2>1. numblocks' \in [Partitions -> 0..MaxBlocks]
    BY <1>1, <1>5 DEF PoolInv, PoolTypeOK
  <2>2. block' \in [Partitions -> [Slots -> Blocks \cup {NULL}]]
    BY <1>7 DEF PoolInv, PoolTypeOK
  <2>3. blocknum' \in [Partitions -> [Slots -> Blocks \cup {NULL}]]
    BY DEF DeleteEntries, Holes, PoolInv, PoolTypeOK
  <2>4. isbufferfull' \in BOOLEAN
    BY <1>3 DEF FullAfterFree, PoolInv, PoolTypeOK
  <2>5. QED
    BY <1>4, <2>1, <2>2, <2>3, <2>4 DEF PoolTypeOK
<1>9. SectorsAreApart'
  <2> DEFINE was(q, i) == IF q = p /\ i >= off THEN i + n ELSE i
  <2>1. ASSUME NEW q \in Partitions, NEW i \in Live(q)'
        PROVE  /\ was(q, i) \in Live(q)
               /\ block'[q][i] = block[q][was(q, i)]
               /\ q = p => was(q, i) \notin win
               /\ i \in Int
    <3>1. i \in Slots /\ i \in Nat
      BY DEF Live, Slots
    <3>2. CASE q # p
      BY <3>1, <3>2, <1>5, <1>7 DEF Live, PoolInv, PoolTypeOK
    <3>3. CASE q = p
      <4>1. i \in 0..(num - n - 1)
        BY <3>1, <3>3, <1>1, <1>5 DEF Live, PoolInv, PoolTypeOK
      <4>2. was(q, i) \in 0..(num - 1) /\ was(q, i) \notin off..(off + n - 1)
        BY <3>3, <4>1, <1>1
      <4>3. block'[q][i] = h[was(q, i)]
        BY <3>3, <4>1, <1>7 DEF PoolInv, PoolTypeOK
      <4>4. was(q, i) \in Live(q) /\ was(q, i) \notin win
        BY <3>3, <4>2, <1>1, BoundsAssumption DEF Live, Slots, Window
      <4>5. QED
        BY <3>1, <3>3, <4>2, <4>3, <4>4, <1>6
    <3>4. QED
      BY <3>2, <3>3
  <2>2. ASSUME NEW q \in Partitions, NEW i \in Live(q)'
        PROVE  block'[q][i] # NULL /\ blocksize'[block'[q][i]] # -1
    <3> DEFINE b == block[q][was(q, i)]
    <3>1. b # NULL /\ blocksize[b] # -1 /\ was(q, i) \in Slots
      BY <2>1 DEF PoolInv, SectorsAreApart, Live
    <3>2. b \in Blocks /\ b \notin FreeBlocks
      BY <3>1 DEF PoolInv, PoolTypeOK, FreeBlocks
    <3>3. \A j \in win : block[p][j] # b
      BY <2>1, <1>2 DEF PoolInv, SectorsAreApart
    <3>4. QED
      BY <2>1, <3>1, <3>2, <3>3, <1>4
  <2>3. ASSUME NEW q \in Partitions, NEW r \in Partitions,
               NEW i \in Live(q)', NEW j \in Live(r)', block'[q][i] = block'[r][j]
        PROVE  q = r /\ i = j
    <3>1. q = r /\ was(q, i) = was(r, j)
      BY <2>1, <2>3 DEF PoolInv, SectorsAreApart
    <3>2. i \in Int /\ j \in Int
      BY <2>1
    <3>3. QED
      BY <3>1, <3>2
  <2>4. QED
    BY <2>2, <2>3 DEF SectorsAreApart
<1>10. CountIsExact' /\ FullIsHonest'
  BY <1>3, <1>4 DEF FullAfterFree, CountIsExact, FullIsHonest, PoolInv
<1>11. QED
  BY <1>5, <1>8, <1>9, <1>10 DEF PoolInv

(* The entries a command names without leaving what is stored.             *)
LEMMA StoredWindow ==
  ASSUME PoolTypeOK, NEW p \in Partitions, NEW off \in Nat, NEW n, IsStored(p, off, n)
  PROVE  /\ n \in Nat
         /\ \E o \in Nat : o + n <= numblocks[p] /\ Window(o, n) = Window(off, n)
                           /\ (n # 0 => o = off)
<1>1. n \in Nat /\ numblocks[p] \in Nat
  BY BoundsAssumption DEF IsStored, PoolTypeOK
<1>2. CASE n = 0
  <2>1. Window(0, n) = {} /\ Window(off, n) = {}
    BY <1>2 DEF Window, Slots
  <2> QED
    BY <1>1, <1>2, <2>1
<1>3. CASE n # 0
  <2>1. off + n - 1 \in off..(off + n - 1)
    BY <1>1, <1>3
  <2>2. off + n - 1 \in Live(p)
    BY <2>1 DEF IsStored
  <2>3. off + n - 1 < numblocks[p]
    BY <2>2 DEF Live
  <2> QED
    BY <1>1, <1>3, <2>3
<1> QED
  BY <1>1, <1>2, <1>3

(* Deleting what is stored, wherever a window of no entries begins.        *)
LEMMA StoredDeletion ==
  ASSUME PoolTypeOK, NEW p \in Partitions, NEW off \in Nat, NEW n, IsStored(p, off, n),
         NEW units, DeleteEntries(p, off, n, units)
  PROVE  \E o \in Nat : n \in Nat /\ o + n <= numblocks[p] /\ DeleteEntries(p, o, n, units)
<1>1. PICK o \in Nat : o + n <= numblocks[p] /\ Window(o, n) = Window(off, n)
  BY StoredWindow
<1>2. DeleteEntries(p, o, n, units)
  BY <1>1 DEF DeleteEntries
<1> QED
  BY <1>1, <1>2, StoredWindow

(* Reading the file system into a partition borrows one block and gives it *)
(* back, the pool is as it was.                                            *)
LEMMA ReadFileSystemKeepsPool ==
  ASSUME PoolInv, NEW p \in Partitions, ReadFileSystem(p)
  PROVE  PoolInv' /\ ~fault' /\ \A q \in Partitions : StoredKept(q)
<1>0. PICK s \in LowestFree(1) :
        /\ block' = [block EXCEPT ![p] = SortBlocks([@ EXCEPT ![numblocks[p]] = s[0]])]
        /\ blocknum' = [blocknum EXCEPT ![p] = [@ EXCEPT ![numblocks[p]] = NULL]]
  BY DEF ReadFileSystem
<1> DEFINE num == numblocks[p]
           h == [block[p] EXCEPT ![num] = s[0]]
<1>1. s[0] \in FreeBlocks /\ 1 <= Cardinality(FreeBlocks)
  <2>1. 0 \in 0..(1 - 1)
    OBVIOUS
  <2>2. QED
    BY <2>1, LowestFreeTakes
<1>2. num \in 0..MaxBlocks /\ num < MaxBlocks
  <2>1. num + Cardinality(FreeBlocks) <= MaxBlocks /\ num \in 0..MaxBlocks
    BY RoomBeside DEF PoolInv, PoolTypeOK
  <2>2. QED
    BY <2>1, <1>1, BlocksFinite, BoundsAssumption
<1>3. h \in [Slots -> Blocks \cup {NULL}]
  BY <1>1 DEF FreeBlocks, PoolInv, PoolTypeOK
<1> num \in Nat
  BY <1>2, BoundsAssumption
<1>4. \A i \in 0..(num - 1) : i \in Live(p) /\ i \in Slots /\ h[i] = block[p][i] /\ h[i] # NULL
  BY <1>2, BoundsAssumption DEF Live, Slots, PoolInv, PoolTypeOK, SectorsAreApart
<1>5. block' = [block EXCEPT ![p] = SortBlocks(h)]
  BY <1>0
<1> HIDE DEF h, num
<1>6. /\ SortBlocks(h) \in [Slots -> Blocks \cup {NULL}]
      /\ \A i \in 0..(num - 1) : SortBlocks(h)[i] = block[p][i]
  <2>1. PICK off \in Nat, n \in Nat : off = 0 /\ n = 0
    OBVIOUS
  <2>2. \A i \in 0..(num - 1) : h[i] = NULL <=> i \in off..(off + n - 1)
    BY <2>1, <1>3, <1>4
  <2>3. num \in Nat /\ off + n <= num
    BY <2>1, <1>2, BoundsAssumption
  <2>4. /\ SortBlocks(h) \in [Slots -> Blocks \cup {NULL}]
        /\ \A i \in 0..(num - n - 1) :
             SortBlocks(h)[i] = IF i < off THEN h[i] ELSE h[i + n]
    BY <1>2, <1>3, <2>2, <2>3, SortClosesGap
  <2>5. QED
    BY <2>1, <2>3, <2>4, <1>4
<1>7. \A q \in Partitions : \A i \in Live(q) : block'[q][i] = block[q][i]
  <2>1. \A i \in Live(p) : i \in 0..(num - 1)
    BY <1>2, BoundsAssumption DEF Live, Slots, num
  <2>2. \A q \in Partitions : block'[q] = IF q = p THEN SortBlocks(h) ELSE block[q]
    BY <1>5 DEF PoolInv, PoolTypeOK
  <2>3. QED
    BY <1>6, <2>1, <2>2
<1>8. UNCHANGED <<blocksize, blockfreespace, numblocks, uncounted>> /\ isbufferfull' = FALSE
  BY DEF ReadFileSystem, history
<1>9. FreeBlocks' = FreeBlocks /\ \A q \in Partitions : Live(q)' = Live(q)
  BY <1>8 DEF FreeBlocks, Live
<1>10. PoolTypeOK'
  <2>1. blocknum' \in [Partitions -> [Slots -> Blocks \cup {NULL}]]
    BY <1>0 DEF PoolInv, PoolTypeOK
  <2>2. block' \in [Partitions -> [Slots -> Blocks \cup {NULL}]]
    BY <1>5, <1>6 DEF PoolInv, PoolTypeOK
  <2>3. QED
    BY <1>8, <2>1, <2>2 DEF PoolInv, PoolTypeOK
<1>11. SectorsAreApart'
  BY <1>7, <1>8, <1>9 DEF PoolInv, SectorsAreApart
<1>12. ~fault'
  <2> DEFINE over == numblocks[p] >= MaxBlocks
  <2>1. ~over
    BY <1>2, BoundsAssumption DEF num
  <2>2. fault' = over
    BY DEF ReadFileSystem
  <2> HIDE DEF over
  <2> QED
    BY <2>1, <2>2
<1>13. \A q \in Partitions : StoredKept(q)
  <2> TAKE q \in Partitions
  <2>0. numblocks[q] \in Nat
    BY BoundsAssumption DEF PoolInv, PoolTypeOK
  <2>1. \A i \in 0..(numblocks[q] - 1) : i \in Live(q) /\ i < numblocks[q]
    BY <2>0, StoredLength
  <2> QED
    BY <1>7, <1>8, <2>1 DEF StoredKept
<1>14. QED
  BY <1>8, <1>9, <1>10, <1>11, <1>12, <1>13 DEF PoolInv, CountIsExact, FullIsHonest

(* When the read fails the borrowed block stays in the partition, as one   *)
(* more stored sector.                                                     *)
LEMMA ReadFileSystemFailsKeepsPool ==
  ASSUME PoolInv, getsectsize \in Sizes, NEW p \in Partitions, ReadFileSystemFails(p)
  PROVE  PoolInv' /\ ~fault' /\ \A q \in Partitions : StoredKept(q)
<1> DEFINE num == numblocks[p]
<1>1. PICK s \in LowestFree(1) :
        /\ block' = [block EXCEPT ![p] = [@ EXCEPT ![num] = s[0]]]
        /\ blocknum' = [blocknum EXCEPT ![p] = [@ EXCEPT ![num] = s[0]]]
        /\ blocksize' = [blocksize EXCEPT ![s[0]] = getsectsize]
  BY DEF ReadFileSystemFails
<1>2. /\ blockfreespace' = Wrap(blockfreespace - 1, U32)
      /\ isbufferfull' = (blockfreespace = 1)
      /\ numblocks' = numblocks /\ uncounted' = uncounted
      /\ fault' = (num >= MaxBlocks)
  BY DEF ReadFileSystemFails, history
<1>3. /\ s[0] \in FreeBlocks /\ 1 <= Cardinality(FreeBlocks)
      /\ Cardinality(FreeBlocks \ {s[0]}) = Cardinality(FreeBlocks) - 1
  <2>1. 0 \in 0..(1 - 1) /\ {s[i] : i \in 0..(1 - 1)} = {s[0]}
    OBVIOUS
  <2>2. QED
    BY <2>1, LowestFreeTakes
<1>4. getsectsize # -1 /\ s[0] \in Blocks
  BY <1>3, SizesAssumption DEF FreeBlocks
<1>5. FreeBlocks' = FreeBlocks \ {s[0]}
  BY <1>1, <1>4 DEF FreeBlocks, PoolInv, PoolTypeOK
<1>6. Cardinality(FreeBlocks)' = Cardinality(FreeBlocks) - 1
  BY <1>3, <1>5
<1>7. PoolTypeOK'
  <2>1. blockfreespace' \in 0..(U32 - 1)
    BY <1>2, BoundsAssumption DEF Wrap, PoolInv, PoolTypeOK
  <2>2. /\ block' \in [Partitions -> [Slots -> Blocks \cup {NULL}]]
        /\ blocknum' \in [Partitions -> [Slots -> Blocks \cup {NULL}]]
    BY <1>1, <1>4 DEF PoolInv, PoolTypeOK
  <2>3. blocksize' \in [Blocks -> {-1} \cup Sizes \cup {Form2Size}]
    BY <1>1, <1>4 DEF PoolInv, PoolTypeOK
  <2>4. QED
    BY <1>2, <2>1, <2>2, <2>3 DEF PoolInv, PoolTypeOK
<1>8. SectorsAreApart'
  <2>1. num \in 0..MaxBlocks
    BY DEF PoolInv, PoolTypeOK
  <2>2. \A q \in Partitions : \A i \in Live(q) :
          /\ i \in Slots /\ block'[q][i] = block[q][i]
          /\ block[q][i] # NULL /\ blocksize[block[q][i]] # -1
    BY <1>1, <2>1, BoundsAssumption
    DEF Live, Slots, PoolInv, PoolTypeOK, SectorsAreApart
  <2>3. \A q \in Partitions : \A i \in Live(q) : blocksize'[block'[q][i]] # -1
    BY <2>2, <1>1, <1>4 DEF PoolInv, PoolTypeOK
  <2>4. \A q \in Partitions : Live(q)' = Live(q)
    BY <1>2 DEF Live
  <2>5. QED
    BY <2>2, <2>3, <2>4 DEF PoolInv, SectorsAreApart
<1>9. CountIsExact' /\ FullIsHonest'
  <2> SUFFICES ASSUME ~uncounted
               PROVE  /\ blockfreespace' = Cardinality(FreeBlocks)'
                      /\ isbufferfull' => FreeBlocks' = {}
    BY <1>2 DEF CountIsExact, FullIsHonest
  <2>1. blockfreespace = Cardinality(FreeBlocks)
    BY DEF PoolInv, CountIsExact
  <2>2. blockfreespace' = Cardinality(FreeBlocks)'
    <3>1. blockfreespace \in 1..MaxBlocks
      BY <2>1, <1>3, BlocksFinite
    <3>2. Wrap(blockfreespace - 1, U32) = blockfreespace - 1
      BY <3>1, BoundsAssumption DEF Wrap
    <3>3. QED
      BY <2>1, <3>2, <1>2, <1>6
  <2>3. ASSUME isbufferfull' PROVE FreeBlocks' = {}
    <3>0. Cardinality(FreeBlocks) = 1
      BY <2>1, <2>3, <1>2
    <3>1. Cardinality(FreeBlocks)' = 0
      BY <3>0, <1>6
    <3>2. IsFiniteSet(FreeBlocks')
      BY <1>5, BlocksFinite, FS_Subset
    <3>3. QED
      BY <3>1, <3>2, FS_EmptySet
  <2>4. QED
    BY <2>2, <2>3
<1>10. ~fault'
  <2>1. num + Cardinality(FreeBlocks) <= MaxBlocks /\ num \in 0..MaxBlocks
    BY RoomBeside DEF PoolInv, PoolTypeOK
  <2> DEFINE over == num >= MaxBlocks
  <2>2. ~over
    BY <1>3, <2>1, BlocksFinite, BoundsAssumption
  <2>3. fault' = over
    BY <1>2
  <2> HIDE DEF over
  <2> QED
    BY <2>2, <2>3
<1>11. \A q \in Partitions : StoredKept(q)
  <2> TAKE q \in Partitions
  <2>1. \A i \in 0..(numblocks[q] - 1) :
          /\ i \in Live(q) /\ i \in Slots /\ i < numblocks[q]
          /\ block[q][i] \in Blocks /\ blocksize[block[q][i]] # -1
    <3> TAKE i \in 0..(numblocks[q] - 1)
    <3>1. numblocks[q] \in Nat
      BY BoundsAssumption DEF PoolInv, PoolTypeOK
    <3>2. i \in Slots /\ i \in Live(q) /\ block[q][i] \in Blocks
          /\ blocksize[block[q][i]] \in Nat \ {0}
      BY StoredLength
    <3> QED
      BY <3>1, <3>2
  <2>2. num \in 0..MaxBlocks /\ \A i \in 0..(numblocks[q] - 1) : q = p => i # num
    BY <2>1, BoundsAssumption DEF PoolInv, PoolTypeOK
  <2>3. \A i \in 0..(numblocks[q] - 1) : block'[q][i] = block[q][i]
    BY <1>1, <2>1, <2>2 DEF PoolInv, PoolTypeOK
  <2>4. \A i \in 0..(numblocks[q] - 1) : blocksize'[block[q][i]] = blocksize[block[q][i]]
    BY <1>1, <1>3, <2>1 DEF FreeBlocks, PoolInv, PoolTypeOK
  <2> QED
    BY <1>2, <2>1, <2>3, <2>4 DEF StoredKept
<1>12. QED
  BY <1>7, <1>8, <1>9, <1>10, <1>11 DEF PoolInv

(* Emptying one partition frees its blocks and keeps the pool's invariant. *)
LEMMA ResetPartitionKeepsPool ==
  ASSUME PoolInv, NEW p \in Partitions, ResetPartition(p)
  PROVE  PoolInv' /\ ~fault'
<1> DEFINE win == Live(p)
<1>1. /\ FreeEntries(p, win)
      /\ block' = [block EXCEPT ![p] = Holes(@, win)]
      /\ blocknum' = [blocknum EXCEPT ![p] = Holes(@, win)]
      /\ numblocks' = [numblocks EXCEPT ![p] = 0]
      /\ isbufferfull' = (FullAfterFree(p, win) /\ blockfreespace' = 0)
      /\ uncounted' = uncounted
  BY DEF ResetPartition
<1>2. win \in SUBSET Live(p)
  OBVIOUS
<1>3. /\ Freed(p, win) = win
      /\ \A b \in Blocks : /\ b \in FreeBlocks \/ (\E i \in win : block[p][i] = b)
                              => blocksize'[b] = -1
                           /\ ~(b \in FreeBlocks \/ (\E i \in win : block[p][i] = b))
                              => blocksize'[b] = blocksize[b]
      /\ blocksize' \in [Blocks -> {-1} \cup Sizes \cup {Form2Size}]
      /\ blockfreespace' \in 0..(U32 - 1)
      /\ ~uncounted => blockfreespace' = Cardinality(FreeBlocks)'
      /\ win = {} => FreeBlocks' = FreeBlocks
  BY <1>1, <1>2, FreeingCounts
<1>4. PoolTypeOK'
  <2>1. numblocks' \in [Partitions -> 0..MaxBlocks]
    BY <1>1, BoundsAssumption DEF PoolInv, PoolTypeOK
  <2>2. /\ block' \in [Partitions -> [Slots -> Blocks \cup {NULL}]]
        /\ blocknum' \in [Partitions -> [Slots -> Blocks \cup {NULL}]]
    BY <1>1 DEF Holes, PoolInv, PoolTypeOK
  <2>3. QED
    BY <1>1, <1>3, <2>1, <2>2 DEF PoolTypeOK, FullAfterFree, PoolInv
<1>5. SectorsAreApart'
  <2>1. \A q \in Partitions : \A i \in Live(q)' :
          q # p /\ i \in Live(q) /\ i \in Slots /\ block'[q][i] = block[q][i]
    BY <1>1 DEF Live, Slots, PoolInv, PoolTypeOK
  <2>2. \A q \in Partitions : \A i \in Live(q)' :
          block'[q][i] # NULL /\ blocksize'[block'[q][i]] # -1
    <3> TAKE q \in Partitions
    <3> TAKE i \in Live(q)'
    <3> DEFINE b == block[q][i]
    <3>1. b # NULL /\ blocksize[b] # -1 /\ b \in Blocks \cup {NULL}
      BY <2>1 DEF PoolInv, SectorsAreApart, PoolTypeOK
    <3>2. b \in Blocks /\ b \notin FreeBlocks
      BY <3>1 DEF FreeBlocks
    <3>3. \A j \in win : block[p][j] # b
      BY <2>1 DEF PoolInv, SectorsAreApart
    <3>4. QED
      BY <2>1, <3>1, <3>2, <3>3, <1>3
  <2>3. QED
    BY <2>1, <2>2 DEF PoolInv, SectorsAreApart
<1>6. CountIsExact' /\ FullIsHonest'
  BY <1>1, <1>3 DEF FullAfterFree, CountIsExact, FullIsHonest, PoolInv
<1>7. ~fault'
  <2>1. numblocks[p] \in 0..MaxBlocks
    BY DEF PoolInv, PoolTypeOK
  <2> DEFINE over == numblocks[p] > MaxBlocks
  <2>2. ~over
    BY <2>1, BoundsAssumption
  <2>3. fault' = over
    BY DEF ResetPartition
  <2> HIDE DEF over
  <2> QED
    BY <2>2, <2>3
<1>8. QED
  BY <1>4, <1>5, <1>6, <1>7 DEF PoolInv

(* The two resets that free every block. *)
LEMMA EmptyPool ==
  ASSUME blocksize' = [b \in Blocks |-> -1], isbufferfull' = FALSE,
         numblocks' = [p \in Partitions |-> 0],
         block' = [p \in Partitions |-> [i \in Slots |-> NULL]],
         blocknum' = [p \in Partitions |-> [i \in Slots |-> NULL]],
         blockfreespace' \in 0..(U32 - 1), ~uncounted' => blockfreespace' = MaxBlocks
  PROVE  PoolInv'
<1>1. FreeBlocks' = Blocks
  BY DEF FreeBlocks
<1>2. Cardinality(FreeBlocks)' = MaxBlocks
  BY <1>1, BlocksFinite
<1>3. PoolTypeOK'
  <2>1. blocksize' \in [Blocks -> {-1} \cup Sizes \cup {Form2Size}]
    OBVIOUS
  <2>2. numblocks' \in [Partitions -> 0..MaxBlocks]
    BY BoundsAssumption
  <2>3. /\ block' \in [Partitions -> [Slots -> Blocks \cup {NULL}]]
        /\ blocknum' \in [Partitions -> [Slots -> Blocks \cup {NULL}]]
    OBVIOUS
  <2>4. QED
    BY <2>1, <2>2, <2>3 DEF PoolTypeOK
<1>4. \A p \in Partitions : Live(p)' = {}
  BY DEF Live, Slots
<1>5. SectorsAreApart'
  BY <1>4 DEF SectorsAreApart
<1>6. QED
  BY <1>2, <1>3, <1>5 DEF PoolInv, CountIsExact, FullIsHonest

(* A step that leaves pool and partitions alone keeps the pool's           *)
(* invariant.                                                              *)
LEMMA PoolUnchanged ==
  ASSUME PoolInv, UNCHANGED <<pool, partition, uncounted>>
  PROVE  PoolInv'
<1>1. UNCHANGED <<blocksize, blockfreespace, isbufferfull, numblocks, block, blocknum>>
  BY DEF pool, partition
<1>2. FreeBlocks' = FreeBlocks /\ \A p \in Partitions : Live(p)' = Live(p)
  BY <1>1 DEF FreeBlocks, Live
<1>3. QED
  BY <1>1, <1>2 DEF PoolInv, PoolTypeOK, SectorsAreApart, CountIsExact,
                    FullIsHonest

(* New sectors leave the stored ones alone. *)
LEMMA AppendKeepsStored ==
  ASSUME PoolInv, NEW q \in Partitions, NEW k \in Nat, NEW n \in Nat,
         k = n \/ k = Cardinality(FreeBlocks), k <= n, NEW s \in LowestFree(k),
         NEW size \in Sizes \cup {Form2Size}, AppendBlocks(q, s, k, n, size),
         uncounted' = uncounted, NEW p \in Partitions
  PROVE  StoredKept(p)
<1>1. numblocks' = [numblocks EXCEPT ![q] = @ + k] /\ numblocks[p] \in 0..MaxBlocks
      /\ MaxBlocks \in Nat /\ PoolTypeOK
  BY AppendKeepsPool, BoundsAssumption DEF PoolInv, PoolTypeOK
<1>2. ASSUME NEW i \in 0..(numblocks[p] - 1)
      PROVE  /\ i < numblocks'[p] /\ block'[p][i] = block[p][i]
             /\ blocksize'[block[p][i]] = blocksize[block[p][i]]
  <2>1. i \in Slots /\ block[p][i] \in Blocks /\ blocksize[block[p][i]] \in Nat \ {0}
    BY StoredLength
  <2>2. i < numblocks'[p]
    BY <1>1
  <2>3. \A j \in 0..(k - 1) : s[j] \in FreeBlocks
    BY LowestFreeTakes
  <2>4. block[p][i] \notin FreeBlocks
    BY <2>1 DEF FreeBlocks
  <2>5. blocksize'[block[p][i]] = blocksize[block[p][i]]
    BY <2>1, <2>3, <2>4 DEF AppendBlocks
  <2>6. block'[p][i] = block[p][i]
    <3>1. CASE p = q
      <4>1. i < numblocks[q] /\ i # numblocks[q] + k
        BY <1>1, <3>1
      <4> QED
        BY <1>1, <2>1, <3>1, <4>1 DEF AppendBlocks, PoolTypeOK
    <3>2. CASE p # q
      BY <1>1, <3>2 DEF AppendBlocks, PoolTypeOK
    <3> QED
      BY <3>1, <3>2
  <2> QED
    BY <2>2, <2>5, <2>6
<1> QED
  BY <1>2 DEF StoredKept

(* Freeing sectors of one partition leaves those of the others alone. *)
LEMMA FreeingKeepsOthers ==
  ASSUME PoolInv, NEW q \in Partitions, NEW p \in Partitions, p # q, NEW win,
         win \subseteq Live(q), FreeEntries(q, win),
         block'[p] = block[p], numblocks'[p] = numblocks[p]
  PROVE  StoredKept(p)
<1>1. ASSUME NEW i \in 0..(numblocks[p] - 1)
      PROVE  blocksize'[block[p][i]] = blocksize[block[p][i]]
  <2>1. i \in Live(p) /\ block[p][i] \in Blocks
    BY StoredLength
  <2>2. \A j \in Freed(q, win) : j \in Live(q)
    BY DEF Freed
  <2>3. \A j \in Freed(q, win) : block[q][j] # block[p][i]
    BY <2>1, <2>2 DEF PoolInv, SectorsAreApart
  <2> QED
    BY <2>1, <2>3 DEF FreeEntries
<1>2. numblocks[p] \in Nat
  BY BoundsAssumption DEF PoolInv, PoolTypeOK
<1> QED
  BY <1>1, <1>2 DEF StoredKept

-----------------------------------------------------------------------------
(* The pool and the transfer's window, step by step, while nothing is      *)
(* strayed.                                                                *)

(* A window stays stored when its partition does not shrink. *)
LEMMA WindowStays ==
  ASSUME Placed, ~strayed, Typed',
         intact' /\ trans'.type # INVALID =>
           /\ intact /\ trans.type # INVALID
           /\ trans'.part = trans.part /\ trans'.sectpos = trans.sectpos
           /\ trans'.sects = trans.sects /\ trans'.numsect <= trans.sects
           /\ numblocks'[trans.part] >= numblocks[trans.part]
  PROVE  TransferStaysInPartition'
<1>1. /\ trans.part \in Partitions
      /\ intact /\ trans.type # INVALID =>
           trans.sectpos..(trans.sectpos + trans.sects - 1) \subseteq Live(trans.part)
  BY DEF Placed, Typed, HostTypes, Transfers, TransferStaysInPartition
<1>2. numblocks[trans.part] \in Int /\ numblocks'[trans.part] \in Int
  BY <1>1 DEF Placed, Typed, PoolTypes
<1>3. ASSUME numblocks'[trans.part] >= numblocks[trans.part]
      PROVE  Live(trans.part) \subseteq {i \in Slots : i < numblocks'[trans.part]}
  BY <1>2, <1>3 DEF Live, Slots
<1> QED
  BY <1>1, <1>3 DEF TransferStaysInPartition, Live

(* A sector from the drive only adds to a partition. *)
LEMMA DrivePlaces ==
  ASSUME Placed, ~strayed, Drive
  PROVE  /\ PoolInv' /\ ~fault' /\ \A q \in Partitions : StoredKept(q)
         /\ \A q \in Partitions : numblocks'[q] >= numblocks[q]
         /\ UNCHANGED <<trans, history>>
<1>0. /\ PoolInv /\ numblocks \in [Partitions -> Nat] /\ getsectsize \in Sizes
  BY BoundsAssumption DEF Placed, PoolInv, PoolTypeOK, Typed, HostTypes
<1>1. ASSUME NEW p \in Partitions, StoreSector(p)
      PROVE  /\ PoolInv' /\ ~fault' /\ \A q \in Partitions : StoredKept(q)
             /\ numblocks' = [numblocks EXCEPT ![p] = @ + 1] /\ UNCHANGED <<trans, history>>
  <2>1. PICK s \in LowestFree(1), size \in {getsectsize, Form2Size} : AppendBlocks(p, s, 1, 1, size)
    BY <1>1 DEF StoreSector
  <2>2. size \in Sizes \cup {Form2Size} /\ uncounted' = uncounted /\ UNCHANGED <<trans, history>>
    BY <1>0, <1>1, <2>1 DEF StoreSector, history, transfer
  <2> QED
    BY <1>0, <2>1, <2>2, AppendKeepsPool, AppendKeepsStored
<1>2. ASSUME NEW p \in Partitions, DropSector(p)
      PROVE  /\ PoolInv' /\ ~fault' /\ \A q \in Partitions : StoredKept(q)
             /\ numblocks' = [numblocks EXCEPT ![p] = @ + 0] /\ UNCHANGED <<trans, history>>
  <2>1. PICK s \in LowestFree(0) : AppendBlocks(p, s, 0, 1, getsectsize)
    BY <1>2 DEF DropSector
  <2>2. FreeBlocks = {} /\ uncounted' = uncounted /\ UNCHANGED <<trans, history>>
    BY <1>2 DEF DropSector, history, transfer
  <2>3. Cardinality(FreeBlocks) = 0
    BY <2>2, FS_EmptySet
  <2> QED
    BY <1>0, <2>1, <2>2, <2>3, AppendKeepsPool, AppendKeepsStored
<1> QED
  BY <1>0, <1>1, <1>2 DEF Drive

(* The MPEG ROM and the sectors the host writes join a partition.          *)
LEMMA GetMPEGRomPlaces ==
  ASSUME Placed, ~strayed, NEW p \in Partitions, NEW n \in Words, GetMPEGRom(p, n)
  PROVE  /\ PoolInv' /\ ~fault' /\ \A q \in Partitions : StoredKept(q)
         /\ \A q \in Partitions : numblocks'[q] >= numblocks[q]
         /\ UNCHANGED <<trans, history>>
<1>0. PoolInv /\ numblocks \in [Partitions -> Nat] /\ getsectsize \in Sizes
  BY BoundsAssumption DEF Placed, PoolInv, PoolTypeOK, Typed, HostTypes
<1> DEFINE room == Cardinality(FreeBlocks)
           k == IF n <= room THEN n ELSE room
<1>1. k \in Nat /\ n \in Nat /\ (k = n \/ k = room) /\ k <= n
  BY BlocksFinite, BoundsAssumption DEF Words
<1>2. PICK s \in LowestFree(k) : AppendBlocks(p, s, k, n, getsectsize)
  BY DEF GetMPEGRom
<1>3. uncounted' = uncounted /\ UNCHANGED <<trans, history>>
  BY DEF GetMPEGRom, history, transfer
<1> HIDE DEF k
<1>4. /\ PoolInv' /\ ~fault' /\ numblocks' = [numblocks EXCEPT ![p] = @ + k]
      /\ \A q \in Partitions : StoredKept(q)
  BY <1>0, <1>1, <1>2, <1>3, AppendKeepsPool, AppendKeepsStored
<1> QED
  BY <1>0, <1>1, <1>3, <1>4

LEMMA PutSectorDataPlaces ==
  ASSUME Placed, ~strayed, Typed', NEW p \in Partitions, NEW n \in Words, PutSectorData(p, n)
  PROVE  PoolInv' /\ TransferStaysInPartition' /\ (fault' => uncounted')
<1>0. PoolInv /\ numblocks \in [Partitions -> 0..MaxBlocks] /\ putsectsize \in Sizes
  BY DEF Placed, PoolInv, PoolTypeOK, Typed, HostTypes
<1>1. uncounted' = uncounted /\ strayed' = strayed /\ n <= blockfreespace
  BY DEF PutSectorData, RoomFor
<1>2. CASE n > Cardinality(FreeBlocks)
  <2>1. UNCHANGED <<pool, partition, trans, intact>>
    BY <1>2 DEF PutSectorData, transfer
  <2>2. PoolInv'
    BY <1>0, <1>1, <2>1, PoolUnchanged
  <2>3. uncounted
    <3> SUFFICES ASSUME ~uncounted PROVE FALSE
      OBVIOUS
    <3>1. blockfreespace = Cardinality(FreeBlocks)
      BY <1>0 DEF PoolInv, CountIsExact
    <3> QED
      BY <1>1, <1>2, <3>1, BlocksFinite, BoundsAssumption DEF Words
  <2>4. TransferStaysInPartition'
    BY <2>1 DEF Placed, TransferStaysInPartition, Live, partition, PutSectorData
  <2> QED
    BY <1>1, <2>2, <2>3, <2>4
<1>3. CASE ~(n > Cardinality(FreeBlocks))
  <2>1. PICK s \in LowestFree(n) : AppendBlocks(p, s, n, n, putsectsize)
    BY <1>3 DEF PutSectorData
  <2>2. /\ n \in Nat
        /\ trans' = [NoTransfer EXCEPT !.type = PUTSECTOR, !.part = p, !.partnum = p, !.sects = n]
    BY <1>3 DEF PutSectorData, Words
  <2>3. PoolInv' /\ ~fault' /\ numblocks' = [numblocks EXCEPT ![p] = @ + n]
    BY <1>0, <1>1, <2>1, <2>2, AppendKeepsPool
  <2>4. /\ trans'.part = p /\ trans'.sectpos = 0 /\ trans'.sects = n /\ trans'.numsect = 0
    BY <2>2 DEF NoTransfer
  <2>5. 0..(0 + n - 1) \subseteq Live(p)'
    <3>1. numblocks'[p] \in 0..MaxBlocks /\ numblocks'[p] = numblocks[p] + n
      BY <1>0, <2>3 DEF PoolInv, PoolTypeOK
    <3> QED
      BY <1>0, <2>2, <3>1, BoundsAssumption DEF Live, Slots
  <2>6. TransferStaysInPartition'
    BY <2>2, <2>4, <2>5 DEF TransferStaysInPartition
  <2> QED
    BY <2>3, <2>6
<1> QED
  BY <1>2, <1>3

(* Deleting stored sectors, whatever command or access asks for it.        *)
LEMMA StoredDeletionPlaces ==
  ASSUME PoolInv, NEW p \in Partitions, NEW off \in Nat, NEW n, IsStored(p, off, n),
         NEW units, DeleteEntries(p, off, n, units), uncounted' = uncounted
  PROVE  /\ PoolInv'
         /\ \A q \in Partitions \ {p} : numblocks'[q] = numblocks[q] /\ StoredKept(q)
<1>1. PICK o \in Nat : n \in Nat /\ o + n <= numblocks[p] /\ DeleteEntries(p, o, n, units)
  BY StoredDeletion DEF PoolInv
<1>2. PoolInv' /\ numblocks' = [numblocks EXCEPT ![p] = @ - n]
  BY <1>1, DeleteKeepsPool
<1>3. Window(o, n) \subseteq Live(p)
  BY <1>1, BoundsAssumption DEF Window, Live, Slots, PoolInv, PoolTypeOK
<1>4. \A q \in Partitions \ {p} : numblocks'[q] = numblocks[q] /\ block'[q] = block[q]
  BY <1>1, <1>2 DEF DeleteEntries, PoolInv, PoolTypeOK
<1>5. \A q \in Partitions \ {p} : StoredKept(q)
  BY <1>1, <1>3, <1>4, FreeingKeepsOthers DEF DeleteEntries
<1> QED
  BY <1>2, <1>4, <1>5

LEMMA DeleteSectorDataPlaces ==
  ASSUME Placed, ~strayed, ~strayed', NEW p \in Partitions, NEW off \in Words, NEW num \in Words,
         DeleteSectorData(p, off, num)
  PROVE  /\ PoolInv' /\ ~fault'
         /\ \A q \in Partitions \ {p} : numblocks'[q] = numblocks[q] /\ StoredKept(q)
         /\ UNCHANGED <<trans, uncounted>> /\ (intact' => intact /\ trans.part # p)
<1> DEFINE n == Chosen(p, off, num)
           win == off..(off + n - 1)
<1>1. PoolInv /\ off \in Nat
  BY DEF Placed, Words
<1>2. /\ IsStored(p, off, n) /\ UNCHANGED <<trans, uncounted>>
      /\ (intact' => intact /\ trans.part # p)
  BY DEF DeleteSectorData, transfer
<1>3. win \subseteq Slots /\ \A i \in win : block[p][i] # NULL
  BY <1>1, <1>2 DEF IsStored, Live, PoolInv, SectorsAreApart
<1>4. DeleteEntries(p, off, n, SizeOf(p, win)) /\ ~fault'
  BY <1>3 DEF DeleteSectorData
<1> HIDE DEF n, win
<1> QED
  BY <1>1, <1>2, <1>4, StoredDeletionPlaces

(* The end of a get-then-delete transfer. *)
LEMMA FinishDeletePlaces ==
  ASSUME Placed, ~strayed, ~strayed', NEW t \in Transfers, NEW moved, FinishDelete(t, moved)
  PROVE  PoolInv' /\ ~fault'
<1>1. /\ PoolInv /\ t.part \in Partitions /\ t.sectpos \in Nat
      /\ IsStored(t.part, t.sectpos, t.sects)
      /\ DeleteEntries(t.part, t.sectpos, t.sects, moved) /\ uncounted' = uncounted
  BY DEF Placed, Transfers, FinishDelete
<1>2. PoolInv'
  BY <1>1, StoredDeletionPlaces
<1>3. t.sectpos..(t.sectpos + t.sects - 1) \subseteq Slots
  BY <1>1 DEF IsStored, Live
<1>4. fault' = ~(t.sectpos..(t.sectpos + t.sects - 1) \subseteq Slots)
  BY DEF FinishDelete
<1> QED
  BY <1>2, <1>3, <1>4

(* Resetting one partition. *)
LEMMA ResetPartitionPlaces ==
  ASSUME Placed, ~strayed, NEW p \in Partitions, ResetPartition(p)
  PROVE  /\ PoolInv' /\ ~fault'
         /\ \A q \in Partitions \ {p} : numblocks'[q] = numblocks[q] /\ StoredKept(q)
         /\ trans' \in {trans, Cancelled} /\ (intact' => intact /\ trans.part # p)
         /\ UNCHANGED <<uncounted, strayed>>
<1>1. PoolInv /\ PoolInv' /\ ~fault'
  BY ResetPartitionKeepsPool DEF Placed
<1>2. \A q \in Partitions \ {p} : numblocks'[q] = numblocks[q] /\ block'[q] = block[q]
  BY <1>1 DEF ResetPartition, PoolInv, PoolTypeOK
<1>3. FreeEntries(p, Live(p)) /\ Live(p) \subseteq Live(p)
  BY DEF ResetPartition
<1>4. \A q \in Partitions \ {p} : StoredKept(q)
  BY <1>1, <1>2, <1>3, FreeingKeepsOthers
<1>5. trans' \in {trans, Cancelled} /\ (intact' => intact /\ trans.part # p)
      /\ UNCHANGED <<uncounted, strayed>>
  BY DEF ResetPartition
<1> QED
  BY <1>1, <1>2, <1>4, <1>5

(* A transfer that is opened lies inside its partition when it is intact.  *)
LEMMA OpeningPlaces ==
  ASSUME Placed, ~strayed, Typed', NEW p \in Partitions, NEW off \in Words, NEW num \in Words,
         GetSectorData(p, off, num) \/ GetThenDeleteSectorData(p, off, num)
  PROVE  /\ PoolInv' /\ TransferStaysInPartition' /\ ~fault'
         /\ trans'.offset = 0
<1> DEFINE n == Chosen(p, off, num) % U16
<1>1. /\ intact' = IsStored(p, off, n) /\ ~fault
      /\ UNCHANGED <<pool, partition, uncounted, fault>>
  BY DEF GetSectorData, GetThenDeleteSectorData, Running
<1>2. PICK type \in {GETSECTOR, GETDELSECTOR}, pn \in {p, trans.partnum} :
        trans' = [NoTransfer EXCEPT !.type = type, !.part = p, !.partnum = pn,
                                    !.sectpos = off, !.sects = n]
  BY DEF GetSectorData, GetThenDeleteSectorData
<1> HIDE DEF n
<1>3. /\ trans'.part = p /\ trans'.sectpos = off /\ trans'.sects = n /\ trans'.numsect = 0
      /\ trans'.offset = 0
  BY <1>2 DEF NoTransfer
<1>4. PoolInv'
  BY <1>1, PoolUnchanged DEF Placed
<1>5. Live(p)' = Live(p)
  BY <1>1 DEF Live, partition
<1>6. TransferStaysInPartition'
  <2> SUFFICES ASSUME intact'
               PROVE  off..(off + n - 1) \subseteq Live(p)' /\ 0 <= n
    BY <1>3 DEF TransferStaysInPartition
  <2>1. IsStored(p, off, n)
    BY <1>1
  <2> QED
    BY <1>5, <2>1 DEF IsStored
<1> QED
  BY <1>1, <1>3, <1>4, <1>6

(* Only Cs2Reset brings back what a stray deletion has taken.              *)
LEMMA StrayedStays ==
  ASSUME Command, strayed, ~Reset
  PROVE  strayed'
<1>1. ASSUME SetSectorLength \/ InitializeCDSystem \/ ResetNoPartition
             \/ ResetAllPartitions \/ AbortFile
      PROVE  strayed'
  BY <1>1 DEF SetSectorLength, InitializeCDSystem, ResetNoPartition, ResetAllPartitions,
              AbortFile, history
<1>2. ASSUME NEW p \in Partitions,
             ReadFileSystem(p) \/ ReadFileSystemFails(p) \/ ResetPartition(p)
      PROVE  strayed'
  BY <1>2 DEF ReadFileSystem, ReadFileSystemFails, ResetPartition, history
<1>3. ASSUME NEW p \in Partitions, NEW n \in Words, GetMPEGRom(p, n) \/ PutSectorData(p, n)
      PROVE  strayed'
  BY <1>3 DEF GetMPEGRom, PutSectorData, history
<1>4. ASSUME NEW p \in Partitions, NEW n \in Words, NEW off \in Words, DeleteSectorData(p, off, n)
      PROVE  strayed'
  BY <1>4 DEF DeleteSectorData
<1>5. ASSUME NEW p \in Partitions, NEW n \in Words, NEW off \in Words,
             GetSectorData(p, off, n) \/ GetThenDeleteSectorData(p, off, n)
      PROVE  strayed'
  BY <1>5 DEF GetSectorData, GetThenDeleteSectorData
<1> QED
  BY <1>1, <1>2, <1>3, <1>4, <1>5 DEF Command

(* Every command keeps the pool's invariant and the window.                *)
LEMMA CommandPlaces ==
  ASSUME Placed, Typed', ~strayed', Command
  PROVE  PoolInv' /\ TransferStaysInPartition' /\ (fault' => uncounted')
<1>0. /\ trans \in Transfers /\ trans.part \in Partitions /\ getsectsize \in Sizes
      /\ (~strayed => PoolInv) /\ numblocks \in [Partitions -> Int]
  BY DEF Placed, Typed, PoolTypes, HostTypes, Transfers
<1>1. ASSUME Reset PROVE PoolInv' /\ TransferStaysInPartition' /\ (fault' => uncounted')
  <2>1. MaxBlocks \in 0..(U32 - 1)
    BY BoundsAssumption
  <2>2. PoolInv'
    BY <1>1, <2>1, EmptyPool DEF Reset
  <2>3. trans'.type = INVALID /\ ~fault'
    BY <1>0, <1>1 DEF Reset, Cancelled, Running, Transfers
  <2> QED
    BY <2>2, <2>3 DEF TransferStaysInPartition
<1>2. CASE ~strayed
  <2>0. PoolInv
    BY <1>0, <1>2
  <2>1. CASE SetSectorLength \/ AbortFile
    <3>1. /\ UNCHANGED <<pool, partition, history, fault>> /\ ~fault
          /\ trans' = trans \/ trans'.type = INVALID
      BY <1>0, <2>1 DEF SetSectorLength, AbortFile, transfer, Cancelled, Running, Transfers
    <3>2. PoolInv' /\ numblocks' = numblocks
      BY <2>0, <3>1, PoolUnchanged DEF history, partition
    <3>3. TransferStaysInPartition'
      BY <3>1, <3>2 DEF Placed, TransferStaysInPartition, Live, history
    <3> QED
      BY <3>1, <3>2, <3>3
  <2>2. CASE InitializeCDSystem
    <3>1. /\ UNCHANGED <<blocksize, blockfreespace, numblocks, block, blocknum, uncounted, trans>>
          /\ UNCHANGED <<history, fault>> /\ ~fault /\ isbufferfull' = FALSE
      BY <2>2 DEF InitializeCDSystem, partition, history, transfer, Running
    <3>2. FreeBlocks' = FreeBlocks /\ \A p \in Partitions : Live(p)' = Live(p)
      BY <3>1 DEF FreeBlocks, Live
    <3>3. PoolTypeOK'
      BY <2>0, <3>1 DEF PoolInv, PoolTypeOK
    <3>4. SectorsAreApart'
      BY <2>0, <3>1, <3>2 DEF PoolInv, SectorsAreApart
    <3>5. CountIsExact' /\ FullIsHonest'
      BY <2>0, <3>1, <3>2 DEF PoolInv, CountIsExact, FullIsHonest
    <3>6. TransferStaysInPartition'
      BY <1>0, <3>1 DEF Placed, TransferStaysInPartition, history, Live
    <3> QED
      BY <3>1, <3>3, <3>4, <3>5, <3>6 DEF PoolInv
  <2>3. CASE ResetNoPartition
    <3>1. /\ UNCHANGED <<blocksize, blockfreespace, numblocks, block, blocknum, uncounted>>
          /\ UNCHANGED <<history, fault>> /\ ~fault
          /\ isbufferfull' = (isbufferfull /\ blockfreespace = 0)
          /\ trans' = trans \/ trans'.type = INVALID
      BY <1>0, <2>3 DEF ResetNoPartition, partition, history, Running, Cancelled, Transfers
    <3>2. FreeBlocks' = FreeBlocks /\ \A p \in Partitions : Live(p)' = Live(p)
      BY <3>1 DEF FreeBlocks, Live
    <3>3. PoolTypeOK'
      BY <2>0, <3>1 DEF PoolInv, PoolTypeOK
    <3>4. SectorsAreApart'
      BY <2>0, <3>1, <3>2 DEF PoolInv, SectorsAreApart
    <3>5. CountIsExact' /\ FullIsHonest'
      BY <2>0, <3>1, <3>2 DEF PoolInv, CountIsExact, FullIsHonest
    <3>6. TransferStaysInPartition'
      BY <1>0, <3>1 DEF Placed, TransferStaysInPartition, history, Live
    <3> QED
      BY <3>1, <3>3, <3>4, <3>5, <3>6 DEF PoolInv
  <2>4. CASE ResetAllPartitions
    <3>1. blockfreespace' = blockfreespace /\ uncounted' = (uncounted \/ FreeBlocks # Blocks)
      BY <2>4 DEF ResetAllPartitions
    <3>2. ASSUME ~uncounted' PROVE blockfreespace' = MaxBlocks
      <4>1. ~uncounted /\ FreeBlocks = Blocks
        BY <3>1, <3>2
      <4>2. blockfreespace = Cardinality(Blocks)
        BY <2>0, <4>1 DEF PoolInv, CountIsExact
      <4> QED
        BY <3>1, <4>2, BlocksFinite
    <3>3. blockfreespace' \in 0..(U32 - 1)
      BY <2>0, <3>1 DEF PoolInv, PoolTypeOK
    <3>4. PoolInv'
      BY <2>4, <3>2, <3>3, EmptyPool DEF ResetAllPartitions
    <3>5. trans'.type = INVALID /\ ~fault'
      BY <1>0, <2>4 DEF ResetAllPartitions, Cancelled, Running, Transfers
    <3> QED
      BY <3>4, <3>5 DEF TransferStaysInPartition
  <2>5. ASSUME NEW p \in Partitions, ReadFileSystem(p) \/ ReadFileSystemFails(p)
        PROVE  PoolInv' /\ TransferStaysInPartition' /\ ~fault'
    <3>1. PoolInv' /\ ~fault'
      BY <1>0, <2>0, <2>5, ReadFileSystemKeepsPool, ReadFileSystemFailsKeepsPool
    <3>2. UNCHANGED <<numblocks, trans, history>>
      BY <2>5 DEF ReadFileSystem, ReadFileSystemFails, transfer
    <3>3. TransferStaysInPartition'
      BY <3>2 DEF Placed, TransferStaysInPartition, history, Live
    <3> QED
      BY <3>1, <3>3
  <2>6. ASSUME NEW p \in Partitions, ResetPartition(p)
        PROVE  PoolInv' /\ TransferStaysInPartition' /\ ~fault'
    <3>1. /\ PoolInv' /\ ~fault' /\ trans' \in {trans, Cancelled}
          /\ \A q \in Partitions \ {p} : numblocks'[q] = numblocks[q]
          /\ (intact' => intact /\ trans.part # p)
      BY <1>2, <2>6, ResetPartitionPlaces
    <3>2. trans'.type # INVALID => trans' = trans
      BY <1>0, <3>1 DEF Cancelled, Transfers
    <3>3. trans'.type # INVALID /\ intact' => numblocks'[trans.part] >= numblocks[trans.part]
      BY <1>0, <3>1
    <3>4. TransferStaysInPartition'
      BY <1>2, <3>1, <3>2, <3>3, WindowStays DEF Placed, TransferStaysInPartition
    <3> QED
      BY <3>1, <3>4
  <2>7. ASSUME NEW p \in Partitions, NEW n \in Words, GetMPEGRom(p, n)
        PROVE  PoolInv' /\ TransferStaysInPartition' /\ ~fault'
    <3>1. /\ PoolInv' /\ ~fault' /\ UNCHANGED <<trans, history>>
          /\ \A q \in Partitions : numblocks'[q] >= numblocks[q]
      BY <1>2, <2>7, GetMPEGRomPlaces
    <3>2. TransferStaysInPartition'
      BY <1>0, <1>2, <3>1, WindowStays DEF Placed, TransferStaysInPartition, history
    <3> QED
      BY <3>1, <3>2
  <2>8. ASSUME NEW p \in Partitions, NEW n \in Words, PutSectorData(p, n)
        PROVE  PoolInv' /\ TransferStaysInPartition' /\ (fault' => uncounted')
    BY <1>2, <2>8, PutSectorDataPlaces
  <2>9. ASSUME NEW p \in Partitions, NEW n \in Words, NEW off \in Words, DeleteSectorData(p, off, n)
        PROVE  PoolInv' /\ TransferStaysInPartition' /\ ~fault'
    <3>1. /\ PoolInv' /\ ~fault' /\ trans' = trans
          /\ \A q \in Partitions \ {p} : numblocks'[q] = numblocks[q]
          /\ (intact' => intact /\ trans.part # p)
      BY <1>2, <2>9, DeleteSectorDataPlaces
    <3>2. intact' => numblocks'[trans.part] >= numblocks[trans.part]
      BY <1>0, <3>1
    <3>3. TransferStaysInPartition'
      BY <1>2, <3>1, <3>2, WindowStays DEF Placed, TransferStaysInPartition
    <3> QED
      BY <3>1, <3>3
  <2>10. ASSUME NEW p \in Partitions, NEW n \in Words, NEW off \in Words,
                GetSectorData(p, off, n) \/ GetThenDeleteSectorData(p, off, n)
         PROVE  PoolInv' /\ TransferStaysInPartition' /\ ~fault'
    BY <1>2, <2>10, OpeningPlaces
  <2> QED
    BY <1>1, <2>1, <2>2, <2>3, <2>4, <2>5, <2>6, <2>7, <2>8, <2>9, <2>10 DEF Command
<1>3. CASE strayed /\ ~Reset
  BY <1>3, StrayedStays
<1> QED
  BY <1>1, <1>2, <1>3

(* A rapid copy ends at position t.                                        *)
LEMMA EndCopyPlaces ==
  ASSUME Placed, ~strayed, Typed', ~strayed', NEW t \in Transfers, NEW moved, EndCopy(t, moved),
         t.type = trans.type, t.part = trans.part, t.sectpos = trans.sectpos,
         t.sects = trans.sects, t.numsect <= t.sects, trans.type # INVALID, Running
  PROVE  PoolInv' /\ TransferStaysInPartition' /\ ~fault'
<1>0. PoolInv /\ trans.part \in Partitions /\ numblocks \in [Partitions -> Int] /\ ~fault
  BY DEF Placed, Typed, PoolTypes, HostTypes, Transfers, Running
<1>1. CASE t.type = GETDELSECTOR /\ t.numsect >= t.sects
  <2>1. FinishDelete(t, cdwnum') /\ trans' = [t EXCEPT !.type = INVALID]
    BY <1>1 DEF EndCopy
  <2>2. trans'.type = INVALID
    BY <2>1 DEF Transfers
  <2> QED
    BY <2>1, <2>2, FinishDeletePlaces DEF TransferStaysInPartition
<1>2. CASE ~(t.type = GETDELSECTOR /\ t.numsect >= t.sects)
  <2>1. trans' = t /\ UNCHANGED <<pool, partition, lengths, history, fault>>
    BY <1>2 DEF EndCopy
  <2>2. PoolInv'
    BY <1>0, <2>1, PoolUnchanged DEF history
  <2>3. TransferStaysInPartition'
    BY <1>0, <2>1, WindowStays DEF history, partition
  <2> QED
    BY <1>0, <2>1, <2>2, <2>3
<1> QED
  BY <1>1, <1>2

(* A step that moves no sector and leaves the window alone. *)
LEMMA NothingPlaced ==
  ASSUME Placed, ~strayed, UNCHANGED <<pool, partition, history>>,
         trans'.type # INVALID => /\ trans.type # INVALID /\ trans'.numsect <= trans.sects
                                  /\ trans'.part = trans.part /\ trans'.sectpos = trans.sectpos
                                  /\ trans'.sects = trans.sects,
         Typed'
  PROVE  PoolInv' /\ TransferStaysInPartition'
<1>1. PoolInv /\ trans.part \in Partitions /\ numblocks \in [Partitions -> Int]
  BY DEF Placed, Typed, PoolTypes, HostTypes, Transfers
<1>2. PoolInv' /\ numblocks' = numblocks
  BY <1>1, PoolUnchanged DEF history, partition
<1>3. TransferStaysInPartition'
  <2>1. CASE intact' /\ trans'.type # INVALID
    BY <1>1, <1>2, <2>1, WindowStays DEF history
  <2>2. CASE ~(intact' /\ trans'.type # INVALID)
    BY <2>2 DEF TransferStaysInPartition
  <2> QED
    BY <2>1, <2>2
<1> QED
  BY <1>2, <1>3

(* Every access to the data port, and the end of a transfer.               *)
LEMMA DataPortPlaces ==
  ASSUME Placed, Typed', ~strayed', DataPort
  PROVE  ~strayed /\ PoolInv' /\ TransferStaysInPartition'
<1>0. /\ trans \in Transfers /\ trans.sects \in Nat /\ trans.numsect \in Nat
      /\ numblocks \in [Partitions -> Int]
  BY DEF Placed, Typed, PoolTypes, HostTypes, Transfers
<1>1. CASE ReadLong \/ WriteLong
  <2>1. /\ trans' = Advance /\ trans.type # INVALID /\ trans.numsect < trans.sects
        /\ UNCHANGED <<pool, partition, history>>
    BY <1>1 DEF ReadLong, WriteLong, Pending
  <2>2. ~strayed
    BY <2>1 DEF history
  <2>3. /\ trans'.numsect <= trans.sects /\ trans'.part = trans.part
        /\ trans'.sectpos = trans.sectpos /\ trans'.sects = trans.sects
    BY <1>0, <2>1 DEF Advance, Transfers
  <2> QED
    BY <2>1, <2>2, <2>3, NothingPlaced
<1>2. CASE AccessFaults
  <2>1. UNCHANGED <<pool, partition, history, trans>>
        /\ trans.type # INVALID /\ trans.numsect < trans.sects
    BY <1>2 DEF AccessFaults, transfer, Pending
  <2>2. ~strayed
    BY <2>1 DEF history
  <2>3. trans.numsect <= trans.sects
    BY <1>0, <2>1
  <2> QED
    BY <2>1, <2>2, <2>3, NothingPlaced
<1>3. CASE ReadLongDeletes
  <2>1. FinishDelete(trans, cdwnum) /\ trans' = Cancelled
    BY <1>3 DEF ReadLongDeletes
  <2>2. ~strayed /\ trans'.type = INVALID
    BY <1>0, <2>1 DEF FinishDelete, Cancelled, Transfers
  <2> QED
    BY <1>0, <2>1, <2>2, FinishDeletePlaces DEF TransferStaysInPartition
<1>4. CASE EndDataTransfer
  <2>1. CASE trans.type = GETDELSECTOR /\ psize[trans.part] > 0
    <3>1. FinishDelete(trans, cdwnum) /\ trans' = Cancelled
      BY <1>4, <2>1 DEF EndDataTransfer
    <3>2. ~strayed /\ trans'.type = INVALID
      BY <1>0, <3>1 DEF FinishDelete, Cancelled, Transfers
    <3> QED
      BY <1>0, <3>1, <3>2, FinishDeletePlaces DEF TransferStaysInPartition
  <2>2. CASE ~(trans.type = GETDELSECTOR /\ psize[trans.part] > 0)
    <3>1. UNCHANGED <<pool, partition, history, trans>>
      BY <1>4, <2>2 DEF EndDataTransfer
    <3>2. ~strayed /\ UNCHANGED <<strayed, intact, uncounted, numblocks>>
      BY <3>1 DEF history, partition
    <3>3. PoolInv'
      BY <3>1, <3>2, PoolUnchanged DEF Placed
    <3>4. TransferStaysInPartition'
      BY <3>1, <3>2 DEF Placed, TransferStaysInPartition, Live
    <3> QED
      BY <3>2, <3>3, <3>4
  <2> QED
    BY <2>1, <2>2
<1>5. ASSUME NEW count \in 1..MaxCopy, RapidCopy(count)
      PROVE  ~strayed /\ PoolInv' /\ TransferStaysInPartition'
  <2>1. PICK sect \in trans.numsect..trans.sects :
          /\ Reaches(sect, count)
          /\ IF sect = trans.sects \/ Copied(sect) = count
             THEN EndCopy([trans EXCEPT !.numsect = sect, !.offset = Start(sect)], Copied(sect))
             ELSE /\ ~Fits(sect, count - Copied(sect))
                  /\ CopyRest(sect, count - Copied(sect), count)
    BY <1>5 DEF RapidCopy
  <2>2. /\ Copied(sect) \in Nat /\ count - Copied(sect) \in Nat /\ sect \in Nat
        /\ Start(sect) \in Nat /\ sect <= trans.sects /\ Running /\ trans.type # INVALID
    BY <1>0, <1>5, <2>1, CopiedIsNatural, SizesAssumption DEF Placed, RapidCopy
  <2>3. CASE EndCopy([trans EXCEPT !.numsect = sect, !.offset = Start(sect)], Copied(sect))
    <3> DEFINE t == [trans EXCEPT !.numsect = sect, !.offset = Start(sect)]
    <3>1. /\ t \in Transfers /\ t.type = trans.type /\ t.part = trans.part
          /\ t.sectpos = trans.sectpos /\ t.sects = trans.sects /\ t.numsect = sect
      BY <1>0, <2>2 DEF Transfers
    <3> HIDE DEF t
    <3>2. EndCopy(t, Copied(sect))
      BY <2>3 DEF t
    <3>3. ~strayed
      BY <3>2 DEF EndCopy, FinishDelete, history
    <3> QED
      BY <2>2, <3>1, <3>2, <3>3, EndCopyPlaces
  <2>4. CASE ~(sect = trans.sects \/ Copied(sect) = count)
    <3> DEFINE upto == Start(sect) + (count - Copied(sect))
               over == EntrySize(sect) # -1 /\ EntrySize(sect) <= upto
               next == IF over THEN sect + 1 ELSE sect
               at == IF over THEN 0 ELSE upto
               t == [trans EXCEPT !.numsect = next, !.offset = at]
    <3>1. \/ UNCHANGED <<pool, partition, transfer, history>>
          \/ EndCopy(t, count)
      BY <2>1, <2>4 DEF CopyRest
    <3>2. next \in Nat /\ at \in Nat /\ next <= trans.sects
      BY <1>0, <2>2, <2>4
    <3> HIDE DEF next, at
    <3>3. /\ t \in Transfers /\ t.type = trans.type /\ t.part = trans.part
          /\ t.sectpos = trans.sectpos /\ t.sects = trans.sects /\ t.numsect = next
      BY <1>0, <3>2 DEF Transfers
    <3> HIDE DEF t
    <3>4. CASE EndCopy(t, count)
      <4>1. ~strayed
        BY <3>4 DEF EndCopy, FinishDelete, history
      <4> QED
        BY <2>2, <3>2, <3>3, <3>4, <4>1, EndCopyPlaces
    <3>5. CASE UNCHANGED <<pool, partition, transfer, history>>
      <4>1. ~strayed /\ trans' = trans
        BY <3>5 DEF history, transfer
      <4>2. trans.numsect <= trans.sects
        BY <1>0, <2>1
      <4> QED
        BY <3>5, <4>1, <4>2, NothingPlaced, <2>2
    <3> QED
      BY <3>1, <3>4, <3>5
  <2> QED
    BY <2>1, <2>3, <2>4
<1> QED
  BY <1>1, <1>2, <1>3, <1>4, <1>5 DEF DataPort

LEMMA InitPlaces == Init => Placed
<1> SUFFICES ASSUME Init PROVE PoolInv /\ TransferStaysInPartition
  BY InitTypes DEF Placed
<1>1. FreeBlocks = Blocks /\ Cardinality(FreeBlocks) = MaxBlocks
  <2>1. FreeBlocks = Blocks
    BY DEF Init, FreeBlocks
  <2> QED
    BY <2>1, BlocksFinite
<1>2. PoolTypeOK
  <2>1. numblocks \in [Partitions -> 0..MaxBlocks]
    BY BoundsAssumption DEF Init
  <2> QED
    BY <2>1, InitTypes DEF Typed, PoolTypes, PoolTypeOK
<1>3. SectorsAreApart
  <2>1. \A p \in Partitions : Live(p) = {}
    BY DEF Init, Live, Slots
  <2> QED
    BY <2>1 DEF SectorsAreApart
<1>4. CountIsExact /\ FullIsHonest
  BY <1>1 DEF Init, CountIsExact, FullIsHonest
<1>5. TransferStaysInPartition
  BY DEF Init, TransferStaysInPartition
<1> QED
  BY <1>2, <1>3, <1>4, <1>5 DEF PoolInv

LEMMA StepPlaces == Placed /\ [Next]_vars => Placed'
<1> SUFFICES ASSUME Placed, [Next]_vars PROVE Placed'
  OBVIOUS
<1>1. Typed'
  BY StepTypes DEF Placed
<1>2. CASE strayed'
  BY <1>1, <1>2 DEF Placed, TransferStaysInPartition
<1>3. CASE ~strayed'
  <2>1. CASE Drive
    <3>1. ~strayed
      BY <1>3, <2>1 DEF Drive, StoreSector, DropSector, history
    <3>2. /\ PoolInv' /\ \A q \in Partitions : numblocks'[q] >= numblocks[q]
          /\ UNCHANGED <<trans, history>>
      BY <2>1, <3>1, DrivePlaces
    <3>3. trans.part \in Partitions
      BY DEF Placed, Typed, HostTypes, Transfers
    <3>4. TransferStaysInPartition'
      BY <1>1, <3>1, <3>2, <3>3, WindowStays DEF Placed, TransferStaysInPartition, history
    <3> QED
      BY <1>1, <3>2, <3>4 DEF Placed
  <2>2. CASE Command
    BY <1>1, <1>3, <2>2, CommandPlaces DEF Placed
  <2>3. CASE DataPort
    BY <1>1, <1>3, <2>3, DataPortPlaces DEF Placed
  <2>4. CASE UNCHANGED vars
    <3>1. UNCHANGED <<pool, partition, uncounted, strayed, intact, trans, numblocks>>
      BY <2>4 DEF vars, pool, partition
    <3>2. PoolInv'
      BY <1>3, <3>1, PoolUnchanged DEF Placed
    <3>3. TransferStaysInPartition'
      BY <3>1 DEF Placed, TransferStaysInPartition, Live
    <3> QED
      BY <1>1, <3>2, <3>3 DEF Placed
  <2> QED
    BY <2>1, <2>2, <2>3, <2>4 DEF Next
<1> QED
  BY <1>2, <1>3


-----------------------------------------------------------------------------
(* The position, and what a fault takes.                                   *)

(* What is left of a transfer of stored sectors, while nothing is strayed, *)
(* are stored sectors.                                                     *)
LEMMA CurrentIsStored ==
  ASSUME Placed, ~strayed, intact, trans.type # INVALID, NEW i \in Nat, i < trans.sects
  PROVE  /\ PoolInv /\ trans.part \in Partitions
         /\ i \in 0..(numblocks[trans.part] - 1) /\ i \in Slots
         /\ block[trans.part][i] \in Blocks
         /\ EntrySize(i) \in Sizes \cup {Form2Size} /\ EntrySize(i) \in Nat \ {0}
<1>1. /\ PoolInv /\ trans.part \in Partitions /\ trans.sectpos \in Nat /\ trans.sects \in Nat
      /\ numblocks[trans.part] \in 0..MaxBlocks
  BY DEF Placed, Typed, HostTypes, Transfers, PoolInv, PoolTypeOK
<1>2. trans.sectpos + trans.sects - 1 \in Live(trans.part)
  BY <1>1 DEF Placed, TransferStaysInPartition
<1>3. i \in 0..(numblocks[trans.part] - 1)
  BY <1>1, <1>2 DEF Live, Slots
<1>4. /\ i \in Slots /\ block[trans.part][i] \in Blocks
      /\ blocksize[block[trans.part][i]] \in Nat \ {0}
  BY <1>1, <1>3, StoredLength
<1>5. blocksize[block[trans.part][i]] \in Sizes \cup {Form2Size}
  BY <1>4 DEF Placed, Typed, PoolTypes
<1> QED
  BY <1>1, <1>3, <1>4, <1>5 DEF EntrySize

AtStart == trans.type = INVALID \/ trans.offset = 0

(* The start of a sector is inside it. *)
LEMMA StartIsInside == Placed /\ AtStart => PositionIsInside
<1> SUFFICES ASSUME Placed, ~strayed, intact, trans.type # INVALID, trans.offset = 0,
                    trans.numsect < trans.sects
             PROVE  trans.offset < blocksize[Current]
  BY DEF AtStart, PositionIsInside
<1>1. trans.numsect \in Nat
  BY DEF Placed, Typed, HostTypes, Transfers
<1> QED
  BY <1>1, CurrentIsStored DEF EntrySize, Current

LEMMA StartWillBeInside == (Placed /\ AtStart => PositionIsInside)'
  BY StartIsInside, PTL

(* A position stays inside while its partition's sectors are kept. *)
LEMMA KeptIsInside ==
  ASSUME Placed, PositionIsInside, ~strayed, trans' = trans,
         intact' => intact /\ StoredKept(trans.part)
  PROVE  PositionIsInside'
<1> SUFFICES ASSUME intact', trans.type # INVALID
             PROVE  IF trans.numsect < trans.sects
                    THEN trans.offset < blocksize'[block'[trans.part][trans.numsect]]
                    ELSE trans.offset = 0
  BY DEF PositionIsInside, Current
<1>1. trans.numsect \in Nat
  BY DEF Placed, Typed, HostTypes, Transfers
<1>2. ASSUME trans.numsect < trans.sects
      PROVE  blocksize'[block'[trans.part][trans.numsect]] = blocksize[Current]
  BY <1>1, <1>2, CurrentIsStored DEF StoredKept, Current
<1> QED
  BY <1>2 DEF PositionIsInside

LEMMA SamePosition ==
  ASSUME PositionIsInside, ~strayed, trans.type # INVALID => intact \/ ~intact',
         UNCHANGED <<blocksize, block, trans>>
  PROVE  PositionIsInside'
  BY DEF PositionIsInside, Current

(* A rapid copy that ends inside a stored sector ends before its end. *)
LEMMA CopyEndsInside ==
  ASSUME Placed, PositionIsInside, ~strayed, intact, trans.type # INVALID, NEW count \in Nat,
         NEW sect \in trans.numsect..trans.sects, Reaches(sect, count), sect # trans.sects
  PROVE  /\ Readable(sect) /\ EntrySize(sect) \in Sizes \cup {Form2Size}
         /\ EntrySize(sect) \in Nat \ {0} /\ Start(sect) < EntrySize(sect)
         /\ ~Fits(sect, count - Copied(sect)) => EntrySize(sect) > Start(sect) + (count - Copied(sect))
<1>1. trans.numsect \in Nat /\ trans.sects \in Nat
  BY DEF Placed, Typed, HostTypes, Transfers
<1>2. /\ count - Copied(sect) \in Nat /\ sect \in Nat /\ Start(sect) \in Nat /\ sect < trans.sects
  <2>1. Typed
    BY DEF Placed
  <2>2. count - Copied(sect) \in Nat /\ sect \in Nat /\ Start(sect) \in Nat
    BY <2>1, CopiedIsNatural
  <2> QED
    BY <1>1, <2>2
<1>3. /\ sect \in Slots /\ block[trans.part][sect] \in Blocks
      /\ EntrySize(sect) \in Sizes \cup {Form2Size} /\ EntrySize(sect) \in Nat \ {0}
  BY <1>2, CurrentIsStored
<1>4. Readable(sect)
  BY <1>3 DEF Readable, Blocks, NULL
<1>5. Start(sect) < EntrySize(sect)
  BY <1>2, <1>3 DEF Start, PositionIsInside, EntrySize, Current
<1> HIDE DEF EntrySize, Start, Copied
<1>6. ASSUME ~Fits(sect, count - Copied(sect))
      PROVE  EntrySize(sect) > Start(sect) + (count - Copied(sect))
  BY <1>2, <1>3, <1>4, <1>5, <1>6 DEF Fits
<1> QED
  BY <1>3, <1>4, <1>5, <1>6

(* A get-then-delete transfer leaves the array only by straying. *)
LEMMA FinishDeleteCause ==
  ASSUME NEW t, NEW moved, FinishDelete(t, moved), fault'
  PROVE  strayed'
  BY DEF FinishDelete, IsStored, Live

(* What every command does to the position. *)
LEMMA CommandKeepsPosition ==
  ASSUME Placed, PositionIsInside, Placed', ~strayed', Command
  PROVE  PositionIsInside'
<1>0. trans \in Transfers /\ getsectsize \in Sizes
  BY DEF Placed, Typed, HostTypes
<1>1. AtStart' => PositionIsInside'
  BY StartWillBeInside
<1>2. CASE Reset \/ AbortFile \/ ResetAllPartitions
  <2>1. trans'.type = INVALID
    BY <1>0, <1>2 DEF Reset, AbortFile, ResetAllPartitions, Cancelled, Transfers
  <2> QED
    BY <1>1, <2>1 DEF AtStart
<1>3. CASE ~Reset
  <2>0. ~strayed /\ PoolInv
    BY <1>3, StrayedStays DEF Placed
  <2>1. CASE SetSectorLength \/ InitializeCDSystem
    <3>1. UNCHANGED <<blocksize, block, trans, intact>>
      BY <2>1 DEF SetSectorLength, InitializeCDSystem, pool, partition, transfer, history
    <3> QED
      BY <2>0, <3>1, SamePosition
  <2>2. CASE ResetNoPartition
    <3>1. UNCHANGED <<blocksize, block, intact>> /\ trans' \in {trans, Cancelled}
      BY <2>2 DEF ResetNoPartition, partition, history
    <3>2. CASE trans' = trans
      BY <2>0, <3>1, <3>2, SamePosition
    <3>3. CASE trans' = Cancelled
      BY <1>0, <1>1, <3>3 DEF AtStart, Cancelled, Transfers
    <3> QED
      BY <3>1, <3>2, <3>3
  <2>3. ASSUME NEW p \in Partitions, ReadFileSystem(p) \/ ReadFileSystemFails(p)
        PROVE  PositionIsInside'
    <3>1. \A q \in Partitions : StoredKept(q)
      BY <1>0, <2>0, <2>3, ReadFileSystemKeepsPool, ReadFileSystemFailsKeepsPool
    <3>2. UNCHANGED <<trans, intact>>
      BY <2>3 DEF ReadFileSystem, ReadFileSystemFails, transfer, history
    <3>3. trans.part \in Partitions
      BY <1>0 DEF Transfers
    <3> QED
      BY <2>0, <3>1, <3>2, <3>3, KeptIsInside
  <2>4. ASSUME NEW p \in Partitions, ResetPartition(p)
        PROVE  PositionIsInside'
    <3>1. /\ \A q \in Partitions \ {p} : StoredKept(q)
          /\ trans' \in {trans, Cancelled} /\ (intact' => intact /\ trans.part # p)
      BY <2>0, <2>4, ResetPartitionPlaces
    <3>2. CASE trans' = trans
      <4>1. trans.part \in Partitions
        BY <1>0 DEF Transfers
      <4> QED
        BY <2>0, <3>1, <3>2, <4>1, KeptIsInside
    <3>3. CASE trans' = Cancelled
      BY <1>0, <1>1, <3>3 DEF AtStart, Cancelled, Transfers
    <3> QED
      BY <3>1, <3>2, <3>3
  <2>5. ASSUME NEW p \in Partitions, NEW n \in Words, GetMPEGRom(p, n)
        PROVE  PositionIsInside'
    <3>1. UNCHANGED <<trans, history>> /\ \A q \in Partitions : StoredKept(q)
      BY <2>0, <2>5, GetMPEGRomPlaces
    <3>2. trans.part \in Partitions /\ intact' = intact
      BY <1>0, <3>1 DEF Transfers, history
    <3> QED
      BY <2>0, <3>1, <3>2, KeptIsInside
  <2>6. ASSUME NEW p \in Partitions, NEW n \in Words, PutSectorData(p, n)
        PROVE  PositionIsInside'
    <3>1. CASE n > Cardinality(FreeBlocks)
      <4>1. UNCHANGED <<blocksize, block, trans, intact>>
        BY <2>6, <3>1 DEF PutSectorData, pool, partition, transfer
      <4> QED
        BY <2>0, <4>1, SamePosition
    <3>2. CASE ~(n > Cardinality(FreeBlocks))
      <4>1. trans' = [NoTransfer EXCEPT !.type = PUTSECTOR, !.part = p, !.partnum = p, !.sects = n]
        BY <2>6, <3>2 DEF PutSectorData
      <4>2. trans'.offset = 0
        BY <4>1 DEF NoTransfer
      <4> QED
        BY <1>1, <4>2 DEF AtStart
    <3> QED
      BY <3>1, <3>2
  <2>7. ASSUME NEW p \in Partitions, NEW n \in Words, NEW off \in Words, DeleteSectorData(p, off, n)
        PROVE  PositionIsInside'
    <3>1. /\ \A q \in Partitions \ {p} : StoredKept(q)
          /\ trans' = trans /\ (intact' => intact /\ trans.part # p)
      BY <2>0, <2>7, DeleteSectorDataPlaces
    <3>2. trans.part \in Partitions
      BY <1>0 DEF Transfers
    <3> QED
      BY <2>0, <3>1, <3>2, KeptIsInside
  <2>8. ASSUME NEW p \in Partitions, NEW n \in Words, NEW off \in Words,
               GetSectorData(p, off, n) \/ GetThenDeleteSectorData(p, off, n)
        PROVE  PositionIsInside'
    <3>1. Typed'
      BY DEF Placed
    <3>2. trans'.offset = 0
      BY <2>0, <2>8, <3>1, OpeningPlaces
    <3> QED
      BY <1>1, <3>2 DEF AtStart
  <2> QED
    BY <1>2, <1>3, <2>1, <2>2, <2>3, <2>4, <2>5, <2>6, <2>7, <2>8 DEF Command
<1> QED
  BY <1>2, <1>3

(* An access to the data port steps inside a sector or to the next one,    *)
(* and leaves the array only when the transfer's sectors are gone.         *)
LEMMA AccessKeepsPosition ==
  ASSUME Placed, PositionIsInside, Placed', ReadLong \/ WriteLong
  PROVE  PositionIsInside'
<1>0. /\ trans \in Transfers /\ trans.offset \in Nat
  BY DEF Placed, Typed, HostTypes, Transfers
<1>1. /\ trans' = Advance /\ trans.numsect < trans.sects
      /\ UNCHANGED <<blocksize, block, strayed, intact>>
  BY DEF ReadLong, WriteLong, Pending, pool, partition, history
<1>2. CASE trans.offset + 1 >= blocksize[Current]
  <2>1. trans'.offset = 0
    BY <1>0, <1>1, <1>2 DEF Advance, Transfers
  <2> QED
    BY <2>1, StartWillBeInside DEF AtStart
<1>3. CASE ~(trans.offset + 1 >= blocksize[Current])
  <2>1. /\ trans'.offset = trans.offset + 1 /\ trans'.numsect = trans.numsect
        /\ trans'.part = trans.part /\ trans'.sects = trans.sects /\ trans'.type = trans.type
    BY <1>0, <1>1, <1>3 DEF Advance, Transfers
  <2> SUFFICES ASSUME ~strayed, intact, trans.type # INVALID
               PROVE  trans.offset + 1 < blocksize[Current]
    BY <1>1, <2>1 DEF PositionIsInside, Current
  <2>2. trans.numsect \in Nat
    BY <1>0 DEF Transfers
  <2>3. blocksize[Current] \in Nat
    BY <1>1, <2>2, CurrentIsStored DEF EntrySize, Current
  <2> QED
    BY <1>0, <1>3, <2>3
<1> QED
  BY <1>2, <1>3

(* The end of a rapid copy at a position that is inside a sector.          *)
LEMMA EndCopyKeepsPosition ==
  ASSUME Placed, ~strayed, Placed', FaultHasACause, Running, NEW t \in Transfers, NEW moved,
         EndCopy(t, moved), t.part = trans.part, t.type # INVALID,
         IF t.numsect < t.sects THEN t.offset < EntrySize(t.numsect) ELSE t.offset = 0
  PROVE  PositionIsInside' /\ FaultHasACause'
<1>1. CASE t.type = GETDELSECTOR /\ t.numsect >= t.sects
  <2>1. FinishDelete(t, cdwnum') /\ trans' = [t EXCEPT !.type = INVALID]
    BY <1>1 DEF EndCopy
  <2>2. trans'.type = INVALID
    BY <2>1 DEF Transfers
  <2> QED
    BY <2>1, <2>2, StartWillBeInside, FinishDeleteCause DEF AtStart, FaultHasACause
<1>2. CASE ~(t.type = GETDELSECTOR /\ t.numsect >= t.sects)
  <2>1. trans' = t /\ ~fault' /\ UNCHANGED <<blocksize, block, strayed>>
    BY <1>2 DEF EndCopy, pool, partition, history, Running
  <2> QED
    BY <2>1 DEF PositionIsInside, FaultHasACause, Current, EntrySize
<1> QED
  BY <1>1, <1>2

(* A rapid copy that may run anywhere: only its window makes it harmless.  *)
LEMMA EndCopyCause ==
  ASSUME Running, NEW t, NEW moved, EndCopy(t, moved)
  PROVE  /\ fault' => strayed'
         /\ intact' = intact /\ (strayed => strayed')
<1>1. CASE t.type = GETDELSECTOR /\ t.numsect >= t.sects
  <2>1. FinishDelete(t, cdwnum')
    BY <1>1 DEF EndCopy
  <2> QED
    BY <2>1, FinishDeleteCause DEF FinishDelete
<1>2. CASE ~(t.type = GETDELSECTOR /\ t.numsect >= t.sects)
  BY <1>2 DEF EndCopy, history, Running
<1> QED
  BY <1>1, <1>2

LEMMA RapidCopyKeepsPosition ==
  ASSUME IInv, Placed', NEW count \in 1..MaxCopy, RapidCopy(count)
  PROVE  PositionIsInside' /\ FaultHasACause'
<1>0. /\ trans \in Transfers /\ trans.numsect \in Nat /\ trans.sects \in Nat
      /\ Running /\ trans.type # INVALID /\ count \in Nat /\ Placed /\ PositionIsInside
      /\ FaultHasACause
  BY SizesAssumption DEF IInv, Placed, Typed, HostTypes, Transfers, RapidCopy
<1>1. PICK sect \in trans.numsect..trans.sects :
        /\ Reaches(sect, count)
        /\ IF sect = trans.sects \/ Copied(sect) = count
           THEN EndCopy([trans EXCEPT !.numsect = sect, !.offset = Start(sect)], Copied(sect))
           ELSE /\ ~Fits(sect, count - Copied(sect))
                /\ CopyRest(sect, count - Copied(sect), count)
  BY DEF RapidCopy
<1>2. /\ Copied(sect) \in Nat /\ count - Copied(sect) \in Nat /\ sect \in Nat
      /\ Start(sect) \in Nat /\ sect <= trans.sects
  <2>1. Typed
    BY <1>0 DEF Placed
  <2>2. Copied(sect) \in Nat /\ count - Copied(sect) \in Nat /\ sect \in Nat /\ Start(sect) \in Nat
    BY <1>0, <1>1, <2>1, CopiedIsNatural
  <2> QED
    BY <1>0, <2>2
<1> DEFINE whole == [trans EXCEPT !.numsect = sect, !.offset = Start(sect)]
           upto == Start(sect) + (count - Copied(sect))
           over == EntrySize(sect) # -1 /\ EntrySize(sect) <= upto
           rest == [trans EXCEPT !.numsect = IF over THEN sect + 1 ELSE sect,
                                 !.offset = IF over THEN 0 ELSE upto]
<1>3. CASE strayed \/ ~intact
  <2>1. ASSUME NEW t, NEW moved, EndCopy(t, moved)
        PROVE  PositionIsInside' /\ FaultHasACause'
    BY <1>0, <1>3, <2>1, EndCopyCause DEF PositionIsInside, FaultHasACause
  <2>2. CASE sect = trans.sects \/ Copied(sect) = count
    BY <1>1, <2>1, <2>2
  <2>3. CASE ~(sect = trans.sects \/ Copied(sect) = count)
    <3>1. (fault' /\ UNCHANGED <<transfer, history>>) \/ EndCopy(rest, count)
      BY <1>1, <2>3 DEF CopyRest
    <3>2. CASE UNCHANGED <<transfer, history>>
      BY <1>0, <1>3, <3>2 DEF PositionIsInside, FaultHasACause, transfer, history
    <3> QED
      BY <2>1, <3>1, <3>2
  <2> QED
    BY <2>2, <2>3
<1>4. CASE ~strayed /\ intact
  <2>1. ASSUME sect # trans.sects
        PROVE  /\ Readable(sect) /\ EntrySize(sect) \in Sizes \cup {Form2Size}
               /\ EntrySize(sect) \in Nat \ {0} /\ Start(sect) < EntrySize(sect)
               /\ ~Fits(sect, count - Copied(sect)) => EntrySize(sect) > upto
    BY <1>0, <1>1, <1>4, <2>1, CopyEndsInside
  <2>2. ASSUME sect = trans.sects PROVE Start(sect) = 0
    BY <1>0, <1>4, <2>2 DEF Start, PositionIsInside
  <2> HIDE DEF upto
  <2>3. CASE sect = trans.sects \/ Copied(sect) = count
    <3>1. /\ whole.part = trans.part /\ whole.type = trans.type /\ whole.numsect = sect
          /\ whole.sects = trans.sects /\ whole.offset = Start(sect) /\ whole \in Transfers
      BY <1>0, <1>2 DEF Transfers
    <3>2. EndCopy(whole, Copied(sect))
      BY <1>1, <2>3
    <3> HIDE DEF whole
    <3>3. IF whole.numsect < whole.sects
          THEN whole.offset < EntrySize(whole.numsect) ELSE whole.offset = 0
      BY <1>0, <1>2, <2>1, <2>2, <3>1
    <3> QED
      BY <1>0, <1>4, <3>1, <3>2, <3>3, EndCopyKeepsPosition
  <2>4. CASE ~(sect = trans.sects \/ Copied(sect) = count)
    <3>0. upto \in Nat
      BY <1>2 DEF upto
    <3>1. EntrySize(sect) > upto /\ Readable(sect) /\ ~over
      BY <1>1, <2>1, <2>4, <3>0
    <3>2. ~(\A z \in Sizes \cup {Form2Size} : z < upto)
      BY <2>1, <2>4, <3>0, <3>1
    <3> DEFINE inside == [trans EXCEPT !.numsect = sect, !.offset = upto]
    <3>3. EndCopy(inside, count)
      BY <1>1, <2>4, <3>1, <3>2 DEF CopyRest, upto
    <3>4. /\ inside.part = trans.part /\ inside.type = trans.type /\ inside.numsect = sect
          /\ inside.sects = trans.sects /\ inside.offset = upto /\ inside \in Transfers
      BY <1>0, <1>2, <3>0 DEF Transfers
    <3> HIDE DEF inside
    <3>5. IF inside.numsect < inside.sects
          THEN inside.offset < EntrySize(inside.numsect) ELSE inside.offset = 0
      BY <1>0, <1>2, <2>4, <3>0, <3>1, <3>4, <2>1
    <3> QED
      BY <1>0, <1>4, <3>3, <3>4, <3>5, EndCopyKeepsPosition
  <2> QED
    BY <2>3, <2>4
<1> QED
  BY <1>3, <1>4

LEMMA DataPortKeepsPosition ==
  ASSUME IInv, Placed', DataPort
  PROVE  PositionIsInside' /\ FaultHasACause'
<1>0. Placed /\ PositionIsInside /\ FaultHasACause /\ trans \in Transfers
  BY DEF IInv, Placed, Typed, HostTypes
<1>1. CASE ReadLong \/ WriteLong
  <2>1. ~fault'
    BY <1>1 DEF ReadLong, WriteLong, Running
  <2> QED
    BY <1>0, <1>1, <2>1, AccessKeepsPosition DEF FaultHasACause
<1>2. CASE AccessFaults
  <2>1. /\ UNCHANGED <<blocksize, block, trans, strayed, intact>>
        /\ trans.type # INVALID /\ trans.numsect < trans.sects /\ trans.numsect \notin Slots
    BY <1>2 DEF AccessFaults, pool, partition, transfer, history, Pending
  <2>2. strayed \/ ~intact
    <3>1. trans.numsect \in Nat
      BY <1>0 DEF Transfers
    <3> QED
      BY <1>0, <2>1, <3>1, CurrentIsStored
  <2> QED
    BY <2>1, <2>2 DEF PositionIsInside, FaultHasACause
<1>3. CASE ReadLongDeletes
  <2>1. FinishDelete(trans, cdwnum) /\ trans' = Cancelled
    BY <1>3 DEF ReadLongDeletes
  <2>2. trans'.type = INVALID
    BY <1>0, <2>1 DEF Cancelled, Transfers
  <2> QED
    BY <2>1, <2>2, StartWillBeInside, FinishDeleteCause DEF AtStart, FaultHasACause
<1>4. CASE EndDataTransfer
  <2>1. CASE trans.type = GETDELSECTOR /\ psize[trans.part] > 0
    <3>1. FinishDelete(trans, cdwnum) /\ trans' = Cancelled
      BY <1>4, <2>1 DEF EndDataTransfer
    <3>2. trans'.type = INVALID
      BY <1>0, <3>1 DEF Cancelled, Transfers
    <3> QED
      BY <3>1, <3>2, StartWillBeInside, FinishDeleteCause DEF AtStart, FaultHasACause
  <2>2. CASE ~(trans.type = GETDELSECTOR /\ psize[trans.part] > 0)
    <3>1. ~fault' /\ UNCHANGED <<blocksize, block, trans, strayed, intact>>
      BY <1>4, <2>2 DEF EndDataTransfer, Running, pool, partition, history
    <3> QED
      BY <1>0, <3>1 DEF PositionIsInside, FaultHasACause, Current
  <2> QED
    BY <2>1, <2>2
<1>5. ASSUME NEW count \in 1..MaxCopy, RapidCopy(count)
      PROVE  PositionIsInside' /\ FaultHasACause'
  BY <1>5, RapidCopyKeepsPosition
<1> QED
  BY <1>1, <1>2, <1>3, <1>4, <1>5 DEF DataPort

-----------------------------------------------------------------------------
LEMMA InitEstablishesIInv == Init => IInv
<1> SUFFICES ASSUME Init PROVE IInv
  OBVIOUS
<1>1. Placed
  BY InitPlaces
<1>2. PositionIsInside /\ FaultHasACause
  BY DEF Init, PositionIsInside, FaultHasACause
<1> QED
  BY <1>1, <1>2 DEF IInv

LEMMA StepKeepsIInv == IInv /\ [Next]_vars => IInv'
<1> SUFFICES ASSUME IInv, [Next]_vars PROVE PositionIsInside' /\ FaultHasACause'
  BY StepPlaces DEF IInv
<1>1. Placed /\ Placed' /\ Typed' /\ PositionIsInside /\ FaultHasACause
  BY StepPlaces DEF IInv, Placed
<1>2. trans.part \in Partitions
  BY <1>1 DEF Placed, Typed, HostTypes, Transfers
<1>3. CASE strayed' /\ ~DataPort
  BY <1>3 DEF PositionIsInside, FaultHasACause
<1>4. CASE Drive /\ ~strayed'
  <2>1. ~strayed
    BY <1>4 DEF Drive, StoreSector, DropSector, history
  <2>2. ~fault' /\ (\A q \in Partitions : StoredKept(q)) /\ UNCHANGED <<trans, history>>
    BY <1>1, <1>4, <2>1, DrivePlaces
  <2>3. intact' = intact
    BY <2>2 DEF history
  <2>4. PositionIsInside'
    BY <1>1, <1>2, <2>1, <2>2, <2>3, KeptIsInside
  <2> QED
    BY <2>2, <2>4 DEF FaultHasACause
<1>5. CASE Command /\ ~strayed'
  <2>1. PositionIsInside'
    BY <1>1, <1>5, CommandKeepsPosition
  <2>2. fault' => uncounted'
    BY <1>1, <1>5, CommandPlaces
  <2> QED
    BY <2>1, <2>2 DEF FaultHasACause
<1>6. CASE DataPort
  BY <1>1, <1>6, DataPortKeepsPosition
<1>7. CASE UNCHANGED vars
  BY <1>1, <1>7 DEF vars, PositionIsInside, FaultHasACause, Current
<1> QED
  BY <1>3, <1>4, <1>5, <1>6, <1>7 DEF Next

(* The inductive invariant holds. *)
THEOREM Invariance == Spec => []IInv
  BY InitEstablishesIInv, StepKeepsIInv, PTL DEF Spec

-----------------------------------------------------------------------------
(* Every field keeps its type whatever the host asks for, a deletion of    *)
(* what is not stored included: the indices into the fields that are not   *)
(* arrays of this program are guarded by fault.                            *)
THEOREM TypesHold == Spec => []TypeOK
<1>1. IInv => TypeOK
  BY TypedIsTypeOK DEF IInv, Placed
<1> QED
  BY <1>1, Invariance, PTL

(* The types of the buffer alone.                                          *)
THEOREM TypesOK == Spec => []BufferTypeOK
<1>1. TypeOK => BufferTypeOK
  BY DEF TypeOK
<1> QED
  BY <1>1, TypesHold, PTL

(* However the drive's stores and the host's commands and transfers        *)
(* interleave, no two stored sectors share a block and none is in a block  *)
(* that Cs2AllocateBlock may hand out again, until the host deletes what   *)
(* is not stored.                                                          *)
THEOREM StoredSectorsAreSafe == Spec => []SectorsOwnTheirBlocks
<1>1. IInv => SectorsOwnTheirBlocks
  BY DEF IInv, Placed, PoolInv, SectorsAreApart, SectorsOwnTheirBlocks
<1> QED
  BY <1>1, Invariance, PTL

(* blockfreespace, which Cs2AllocateBlock and Cs2FreeBlock only step up    *)
(* and down, is the number of free blocks until ResetSelector's flag 0x4   *)
(* discards sectors or a deletion strays.                                  *)
THEOREM FreeSpaceCounts == Spec => []FreeSpaceIsExact
<1>1. IInv => FreeSpaceIsExact
  BY DEF IInv, Placed, PoolInv, CountIsExact, FreeSpaceIsExact
<1> QED
  BY <1>1, Invariance, PTL

(* The flag that stops Cs2Exec from playing is raised only when no block   *)
(* is free: until then the drive never stops while it has room.            *)
THEOREM FullFlagIsHonest == Spec => []FullMeansNoFreeBlock
<1>1. IInv => FullMeansNoFreeBlock
  BY DEF IInv, Placed, PoolInv, FullIsHonest, FullMeansNoFreeBlock
<1> QED
  BY <1>1, Invariance, PTL

(* Neither the check of blockfreespace in Cs2PutSectorData nor the loops   *)
(* of the data port and of the deletions leave their arrays, until one of  *)
(* the three causes has come first.                                        *)
THEOREM NoFaultWithoutCause == Spec => []FaultHasACause
<1>1. IInv => FaultHasACause
  BY DEF IInv
<1> QED
  BY <1>1, Invariance, PTL

(* The window of a transfer that was opened on stored sectors stays stored *)
(* until a command deletes from its partition, although nothing reserves   *)
(* it: the drive, the other commands and other partitions' deletions may   *)
(* come between any two accesses.                                          *)
THEOREM TransfersStayInside == Spec => []TransferStaysInPartition
<1>1. IInv => TransferStaysInPartition
  BY DEF IInv, Placed
<1> QED
  BY <1>1, Invariance, PTL

(* Of such a transfer the next unit the data port moves is a unit of a     *)
(* stored sector, at every length SetSectorLength can choose and after any *)
(* rapid copy.                                                             *)
THEOREM PositionStaysInside == Spec => []PositionIsInside
<1>1. IInv => PositionIsInside
  BY DEF IInv
<1> QED
  BY <1>1, Invariance, PTL

-----------------------------------------------------------------------------
(* The pool of blocks, the pointer arrays and Cs2SortBlocks implement the  *)
(* queues of sectors of SectorQueues, for every number of blocks and       *)
(* partitions: while nothing is strayed, every step adds sectors to the    *)
(* end of one queue, takes a range out of one, empties them all, or leaves *)
(* them; only Cs2Reset, which empties them, ends a stray.                  *)

(* A queue holds the first numblocks pointers of its partition. *)
LEMMA QueueHolds ==
  ASSUME PoolTypeOK, NEW p \in Partitions
  PROVE  /\ queue[p] = [i \in 1..numblocks[p] |-> block[p][i - 1]]
         /\ numblocks[p] \in Nat
         /\ Len(queue[p]) = numblocks[p]
         /\ DOMAIN queue[p] = 1..numblocks[p]
<1>1. queue[p] = [i \in 1..numblocks[p] |-> block[p][i - 1]]
  BY BoundsAssumption DEF queue, stored, PoolTypeOK
<1>2. numblocks[p] \in Nat
  BY BoundsAssumption DEF PoolTypeOK
<1> QED
  BY <1>1, <1>2

(* The same of the next state. *)
LEMMA QueueWillHold ==
  ASSUME PoolTypeOK', NEW p \in Partitions
  PROVE  /\ queue'[p] = [i \in 1..numblocks'[p] |-> block'[p][i - 1]]
         /\ numblocks'[p] \in Nat
         /\ Len(queue'[p]) = numblocks'[p]
         /\ DOMAIN queue'[p] = 1..numblocks'[p]
<1>1. queue'[p] = [i \in 1..numblocks'[p] |-> block'[p][i - 1]]
  BY BoundsAssumption DEF queue, stored, PoolTypeOK
<1>2. numblocks'[p] \in Nat
  BY BoundsAssumption DEF PoolTypeOK
<1> QED
  BY <1>1, <1>2

(* A partition whose stored pointers stay keeps its queue. *)
LEMMA SameQueue ==
  ASSUME PoolTypeOK, PoolTypeOK', NEW p \in Partitions, numblocks'[p] = numblocks[p],
         \A i \in 0..(numblocks[p] - 1) : block'[p][i] = block[p][i]
  PROVE  queue'[p] = queue[p]
<1>1. numblocks[p] \in Nat
  BY QueueHolds
<1>2. ASSUME NEW i \in 1..numblocks[p] PROVE block'[p][i - 1] = block[p][i - 1]
  <2>1. i - 1 \in 0..(numblocks[p] - 1)
    BY <1>1
  <2> QED
    BY <2>1
<1>3. /\ queue[p] = [i \in 1..numblocks[p] |-> block[p][i - 1]]
      /\ queue'[p] = [i \in 1..numblocks[p] |-> block'[p][i - 1]]
  BY QueueHolds, QueueWillHold
<1> QED
  BY <1>2, <1>3

(* Queues are equal when each of them is. *)
LEMMA SameQueues ==
  ASSUME \A p \in Partitions : queue'[p] = queue[p]
  PROVE  queue' = queue
<1>1. /\ queue = [p \in Partitions |-> queue[p]]
      /\ queue' = [p \in Partitions |-> queue'[p]]
  BY DEF queue
<1> QED
  BY <1>1

(* Stored sectors are distinct blocks, in the queues as in the arrays. *)
LEMMA QueuesAreDistinct ==
  ASSUME PoolInv'
  PROVE  /\ Queues!Distinct(queue')
         /\ \A p \in Partitions : \A i \in DOMAIN queue'[p] : queue'[p][i] \in Blocks
<1> PoolTypeOK' /\ SectorsAreApart'
  BY DEF PoolInv
<1>1. ASSUME NEW p \in Partitions, NEW i \in DOMAIN queue'[p]
      PROVE  /\ i - 1 \in {k \in Slots : k < numblocks'[p]} /\ queue'[p][i] = block'[p][i - 1] /\ i \in Int
             /\ queue'[p][i] \in Blocks
  <2>1. i \in 1..numblocks'[p] /\ queue'[p][i] = block'[p][i - 1]
    BY QueueWillHold, <1>1
  <2>2. numblocks'[p] \in 0..MaxBlocks
    BY DEF PoolTypeOK
  <2>3. i - 1 \in {k \in Slots : k < numblocks'[p]} /\ i - 1 \in Slots
    BY <2>1, <2>2, BoundsAssumption DEF Live, Slots
  <2>4. block'[p][i - 1] # NULL
    BY <2>3 DEF SectorsAreApart, Live
  <2>5. block'[p][i - 1] \in Blocks \cup {NULL}
    BY <2>3 DEF PoolTypeOK
  <2> QED
    BY <2>1, <2>2, <2>3, <2>4, <2>5, BoundsAssumption
<1>2. ASSUME NEW p \in Partitions, NEW r \in Partitions,
             NEW i \in DOMAIN queue'[p], NEW j \in DOMAIN queue'[r],
             queue'[p][i] = queue'[r][j]
      PROVE  p = r /\ i = j
  <2>1. block'[p][i - 1] = block'[r][j - 1]
    BY <1>1, <1>2
  <2>2. p = r /\ i - 1 = j - 1
    BY <1>1, <2>1 DEF SectorsAreApart, Live
  <2>3. i \in Int /\ j \in Int
    BY <1>1
  <2> QED
    BY <2>2, <2>3
<1> QED
  BY <1>1, <1>2 DEF Queues!Distinct

-----------------------------------------------------------------------------
(* AppendBlocks adds its k sectors to the end of one queue. *)
LEMMA AppendStores ==
  ASSUME PoolInv, NEW p \in Partitions, NEW k \in Nat, NEW n \in Nat,
         k = n \/ k = Cardinality(FreeBlocks), k <= n, NEW s \in LowestFree(k),
         NEW size \in Sizes \cup {Form2Size}, AppendBlocks(p, s, k, n, size),
         uncounted' = uncounted
  PROVE  queue' = queue \/ Queues!Stored(queue, queue', p)
<1>1. PoolInv' /\ numblocks' = [numblocks EXCEPT ![p] = @ + k]
  BY AppendKeepsPool
<1>2. PoolTypeOK /\ PoolTypeOK' /\ numblocks[p] \in 0..MaxBlocks /\ MaxBlocks \in Nat
  BY <1>1, BoundsAssumption DEF PoolInv, PoolTypeOK
<1>3. /\ \A r \in Partitions \ {p} : block'[r] = block[r] /\ numblocks'[r] = numblocks[r]
      /\ numblocks'[p] = numblocks[p] + k
  BY <1>1, <1>2 DEF AppendBlocks, PoolTypeOK
<1>4. \A i \in 0..(numblocks[p] - 1) : block'[p][i] = block[p][i]
  <2> TAKE i \in 0..(numblocks[p] - 1)
  <2>1. i \in Slots /\ i < numblocks[p] /\ i # numblocks[p] + k
    BY <1>2 DEF Slots
  <2> QED
    BY <1>2, <2>1 DEF AppendBlocks, PoolTypeOK
<1>5. \A r \in Partitions \ {p} : queue'[r] = queue[r]
  BY <1>2, <1>3, SameQueue
<1>6. CASE k = 0
  <2>1. queue'[p] = queue[p]
    BY <1>2, <1>3, <1>4, <1>6, SameQueue
  <2> QED
    BY <1>5, <2>1, SameQueues
<1>7. CASE k # 0
  <2>1. Len(queue'[p]) > Len(queue[p])
    <3>1. Len(queue'[p]) = numblocks[p] + k /\ Len(queue[p]) = numblocks[p]
      BY <1>2, <1>3, QueueHolds, QueueWillHold
    <3> QED
      BY <1>2, <1>7, <3>1
  <2>2. \A i \in DOMAIN queue[p] : queue'[p][i] = queue[p][i]
    <3> TAKE i \in DOMAIN queue[p]
    <3>1. i \in 1..numblocks[p] /\ queue[p][i] = block[p][i - 1]
      BY <1>2, QueueHolds
    <3>2. i \in 1..numblocks'[p] /\ i - 1 \in 0..(numblocks[p] - 1)
      BY <1>2, <1>3, <3>1
    <3>3. queue'[p][i] = block'[p][i - 1]
      BY <1>2, <3>2, QueueWillHold
    <3> QED
      BY <1>4, <3>1, <3>2, <3>3
  <2> QED
    BY <1>1, <1>5, <2>1, <2>2, QueuesAreDistinct DEF Queues!Stored
<1> QED
  BY <1>6, <1>7

(* A step that takes n sectors of one partition away from off on. *)
Taken(p, off, n) ==
  /\ numblocks' = [numblocks EXCEPT ![p] = @ - n]
  /\ \A r \in Partitions \ {p} : block'[r] = block[r]
  /\ \A i \in 0..(numblocks[p] - n - 1) :
       block'[p][i] = IF i < off THEN block[p][i] ELSE block[p][i + n]

(* A range of the queue has left, or nothing has changed. *)
RangeLeaves(p, off, n) ==
  \/ queue' = queue
  \/ n \in 1..Len(queue[p]) /\ off \in 0..(Len(queue[p]) - n)
     /\ Queues!Deleted(queue, queue', p, off, n)

(* Such a step takes a range out of one queue. *)
LEMMA TakenIsDeleted ==
  ASSUME PoolTypeOK, PoolTypeOK', NEW p \in Partitions, NEW off \in Nat, NEW n \in Nat,
         off + n <= numblocks[p], Taken(p, off, n)
  PROVE  RangeLeaves(p, off, n)
<1> DEFINE num == numblocks[p]
<1>1. num \in Nat /\ Len(queue[p]) = num
  BY QueueHolds
<1>2. /\ numblocks'[p] = num - n
      /\ \A r \in Partitions \ {p} : numblocks'[r] = numblocks[r]
  BY DEF Taken, PoolTypeOK
<1>3. \A r \in Partitions \ {p} : queue'[r] = queue[r]
  BY <1>2, SameQueue DEF Taken
<1>4. CASE n = 0
  <2>1. \A i \in 0..(num - 1) : block'[p][i] = block[p][i]
    BY <1>1, <1>4 DEF Taken
  <2>2. queue'[p] = queue[p]
    BY <1>1, <1>2, <1>4, <2>1, SameQueue
  <2> QED
    BY <1>3, <2>2, SameQueues DEF RangeLeaves
<1>5. CASE n # 0
  <2> DEFINE rest == [k \in 1..(Len(queue[p]) - n) |->
                        IF k <= off THEN queue[p][k] ELSE queue[p][k + n]]
  <2>1. n \in 1..num /\ off \in 0..(num - n)
    BY <1>1, <1>5
  <2>2. /\ Len(queue'[p]) = num - n
        /\ queue'[p] = [k \in 1..(num - n) |-> block'[p][k - 1]]
    BY <1>2, QueueWillHold
  <2>3. ASSUME NEW k \in 1..(num - n) PROVE block'[p][k - 1] = rest[k]
    <3>1. k - 1 \in 0..(num - n - 1)
      BY <1>1
    <3>2. block'[p][k - 1] = IF k - 1 < off THEN block[p][k - 1] ELSE block[p][k - 1 + n]
      BY <3>1 DEF Taken
    <3>3. /\ k \in 1..num /\ k + n \in 1..num
      BY <1>1
    <3>4. queue[p][k] = block[p][k - 1] /\ queue[p][k + n] = block[p][k + n - 1]
      <4>1. queue[p] = [i \in 1..num |-> block[p][i - 1]]
        BY QueueHolds
      <4> QED
        BY <3>3, <4>1
    <3>5. k - 1 + n = k + n - 1 /\ (k - 1 < off <=> k <= off)
      OBVIOUS
    <3> QED
      BY <1>1, <3>2, <3>4, <3>5
  <2>4. queue'[p] = rest
    BY <1>1, <2>2, <2>3
  <2>5. queue' = [queue EXCEPT ![p] = rest]
    <3>1. /\ queue = [r \in Partitions |-> queue[r]]
          /\ queue' = [r \in Partitions |-> queue'[r]]
      BY DEF queue
    <3> HIDE DEF rest
    <3> QED
      BY <1>3, <2>4, <3>1
  <2>6. Queues!Deleted(queue, queue', p, off, n)
    BY <1>1, <2>2, <2>5 DEF Queues!Deleted
  <2> QED
    BY <1>1, <2>1, <2>6 DEF RangeLeaves
<1> QED
  BY <1>4, <1>5

(* Cs2FreeBlock and Cs2SortBlocks together take a range out of one queue. *)
LEMMA DeleteEntriesTakes ==
  ASSUME PoolInv, NEW p \in Partitions, NEW off \in Nat, NEW n \in Nat,
         off + n <= numblocks[p], NEW units, DeleteEntries(p, off, n, units),
         uncounted' = uncounted
  PROVE  RangeLeaves(p, off, n)
<1> DEFINE num == numblocks[p]
           win == Window(off, n)
           h == Holes(block[p], win)
<1>1. PoolInv' /\ numblocks' = [numblocks EXCEPT ![p] = @ - n]
  BY DeleteKeepsPool
<1>2. /\ PoolTypeOK /\ PoolTypeOK' /\ SectorsAreApart
      /\ num \in 0..MaxBlocks /\ num \in Nat /\ MaxBlocks \in Nat
  BY <1>1, BoundsAssumption DEF PoolInv, PoolTypeOK
<1>3. block' = [block EXCEPT ![p] = SortBlocks(h)]
  BY DEF DeleteEntries
<1>4. h \in [Slots -> Blocks \cup {NULL}]
  BY <1>2 DEF Holes, PoolTypeOK
<1>5. ASSUME NEW i \in 0..(num - 1)
      PROVE  /\ h[i] = NULL <=> i \in off..(off + n - 1)
             /\ i \notin off..(off + n - 1) => h[i] = block[p][i]
  <2>1. i \in Slots /\ i \in Live(p)
    BY <1>2 DEF Slots, Live
  <2>2. block[p][i] # NULL
    BY <1>2, <2>1 DEF SectorsAreApart
  <2>3. i \in win <=> i \in off..(off + n - 1)
    BY <2>1 DEF Window
  <2>4. h[i] = IF i \in win THEN NULL ELSE block[p][i]
    BY <2>1 DEF Holes
  <2> QED
    BY <2>2, <2>3, <2>4
<1> HIDE DEF h
<1>6. \A i \in 0..(num - n - 1) : SortBlocks(h)[i] = IF i < off THEN h[i] ELSE h[i + n]
  BY <1>2, <1>4, <1>5, SortClosesGap
<1>7. ASSUME NEW i \in 0..(num - n - 1)
      PROVE  SortBlocks(h)[i] = IF i < off THEN block[p][i] ELSE block[p][i + n]
  <2>1. CASE i < off
    <3>1. i \in 0..(num - 1) /\ i \notin off..(off + n - 1)
      BY <1>2, <2>1
    <3> QED
      BY <1>5, <1>6, <2>1, <3>1
  <2>2. CASE ~(i < off)
    <3>1. i + n \in 0..(num - 1) /\ i + n \notin off..(off + n - 1)
      BY <1>2, <2>2
    <3>2. h[i + n] = block[p][i + n]
      BY <1>5, <3>1
    <3> QED
      BY <1>6, <2>2, <3>2
  <2> QED
    BY <2>1, <2>2
<1>8. Taken(p, off, n)
  BY <1>1, <1>2, <1>3, <1>7 DEF Taken, PoolTypeOK
<1> QED
  BY <1>2, <1>8, TakenIsDeleted

(* Emptying a partition takes its whole queue away. *)
LEMMA ResetPartitionTakes ==
  ASSUME PoolInv, NEW p \in Partitions, ResetPartition(p)
  PROVE  \E n \in Nat : RangeLeaves(p, 0, n)
<1>1. PoolTypeOK /\ PoolTypeOK' /\ numblocks[p] \in Nat
  BY ResetPartitionKeepsPool, BoundsAssumption DEF PoolInv, PoolTypeOK
<1>2. numblocks' = [numblocks EXCEPT ![p] = @ - numblocks[p]]
  <2>1. numblocks' = [numblocks EXCEPT ![p] = 0] /\ numblocks[p] - numblocks[p] = 0
    BY <1>1 DEF ResetPartition
  <2> QED
    BY <2>1
<1>3. \A r \in Partitions \ {p} : block'[r] = block[r]
  BY <1>1 DEF ResetPartition, PoolTypeOK
<1>4. 0..(numblocks[p] - numblocks[p] - 1) = {}
  BY <1>1
<1>5. Taken(p, 0, numblocks[p])
  BY <1>2, <1>3, <1>4 DEF Taken
<1>6. 0 \in Nat /\ 0 + numblocks[p] <= numblocks[p]
  BY <1>1
<1>7. RangeLeaves(p, 0, numblocks[p])
  BY <1>1, <1>5, <1>6, TakenIsDeleted
<1> QED
  BY <1>1, <1>7

(* With no sector stored every queue is empty. *)
LEMMA NothingStored ==
  ASSUME numblocks' = [p \in Partitions |-> 0]
  PROVE  queue' = [p \in Partitions |-> <<>>]
<1>1. \A p \in Partitions : [i \in 1..stored(p)' |-> block'[p][i - 1]] = <<>>
  BY BoundsAssumption DEF stored
<1> QED
  BY <1>1 DEF queue

(* Steps that leave the stored pointers alone leave the queues. *)
LEMMA NothingMoves ==
  ASSUME numblocks' = numblocks, block' = block
  PROVE  queue' = queue
  BY DEF queue, stored

(* A step that keeps the stored sectors and adds none keeps the queues.    *)
LEMMA KeptQueues ==
  ASSUME PoolInv, PoolInv', numblocks' = numblocks, \A q \in Partitions : StoredKept(q)
  PROVE  queue' = queue
<1>1. \A q \in Partitions : queue'[q] = queue[q]
  BY SameQueue DEF PoolInv, StoredKept
<1> QED
  BY <1>1, SameQueues

-----------------------------------------------------------------------------
(* One step of each kind of action is a step of the queues, or none.       *)
Moves == [Queues!Next]_<<queue, strayed>>

LEMMA StoringMoves ==
  ASSUME ~strayed, ~strayed', strayed' = strayed, NEW p \in Partitions,
         queue' = queue \/ Queues!Stored(queue, queue', p)
  PROVE  Moves
  BY DEF Moves, Queues!Next

LEMMA DeletingMoves ==
  ASSUME ~strayed, ~strayed', strayed' = strayed, NEW p \in Partitions, NEW off, NEW n,
         RangeLeaves(p, off, n)
  PROVE  Moves
  BY DEF RangeLeaves, Moves, Queues!Next

(* A sector of the drive joins one queue. *)
LEMMA DriveMoves ==
  ASSUME IInv, Drive, ~strayed, ~strayed', strayed' = strayed
  PROVE  Moves
<1>0. PoolInv /\ getsectsize \in Sizes
  BY DEF IInv, Placed, Typed, HostTypes
<1>1. ASSUME NEW p \in Partitions, StoreSector(p)
      PROVE  queue' = queue \/ Queues!Stored(queue, queue', p)
  <2>1. PICK s \in LowestFree(1), size \in {getsectsize, Form2Size} : AppendBlocks(p, s, 1, 1, size)
    BY <1>1 DEF StoreSector
  <2>2. size \in Sizes \cup {Form2Size} /\ uncounted' = uncounted
    BY <1>0, <1>1, <2>1 DEF StoreSector, history
  <2> QED
    BY <1>0, <2>1, <2>2, AppendStores
<1>2. ASSUME NEW p \in Partitions, DropSector(p)
      PROVE  queue' = queue \/ Queues!Stored(queue, queue', p)
  <2>1. PICK s \in LowestFree(0) : AppendBlocks(p, s, 0, 1, getsectsize)
    BY <1>2 DEF DropSector
  <2>2. FreeBlocks = {} /\ uncounted' = uncounted
    BY <1>2 DEF DropSector, history
  <2>3. Cardinality(FreeBlocks) = 0
    BY <2>2, FS_EmptySet
  <2> QED
    BY <1>0, <2>1, <2>2, <2>3, AppendStores
<1> QED
  BY <1>1, <1>2, StoringMoves DEF Drive

(* A command stores, deletes or empties, or leaves the queues alone.       *)
LEMMA CommandMoves ==
  ASSUME IInv, Command, ~strayed, ~strayed', PoolInv'
  PROVE  Moves
<1>0. /\ PoolInv /\ getsectsize \in Sizes /\ putsectsize \in Sizes
      /\ strayed \in BOOLEAN /\ strayed' \in BOOLEAN /\ Placed
  BY StepPlaces DEF IInv, Placed, Typed, HostTypes, Next
<1>h. strayed' = strayed
  BY <1>0
<1>u. ASSUME queue' = queue PROVE Moves
  BY <1>h, <1>u DEF Moves
<1>1. CASE SetSectorLength \/ InitializeCDSystem \/ ResetNoPartition \/ AbortFile
  <2>1. numblocks' = numblocks /\ block' = block
    BY <1>1 DEF SetSectorLength, InitializeCDSystem, ResetNoPartition, AbortFile, partition
  <2> QED
    BY <1>u, <2>1, NothingMoves
<1>2. CASE ResetAllPartitions \/ Reset
  <2>1. numblocks' = [p \in Partitions |-> 0]
    BY <1>2 DEF ResetAllPartitions, Reset
  <2> QED
    BY <2>1, NothingStored DEF Moves, Queues!Next
<1>3. ASSUME NEW p \in Partitions, ReadFileSystem(p) \/ ReadFileSystemFails(p)
      PROVE  Moves
  <2>1. \A q \in Partitions : StoredKept(q)
    BY <1>0, <1>3, ReadFileSystemKeepsPool, ReadFileSystemFailsKeepsPool
  <2>2. numblocks' = numblocks
    BY <1>3 DEF ReadFileSystem, ReadFileSystemFails
  <2> QED
    BY <1>0, <1>u, <2>1, <2>2, KeptQueues
<1>4. ASSUME NEW p \in Partitions, ResetPartition(p)
      PROVE  Moves
  BY <1>0, <1>h, <1>4, ResetPartitionTakes, DeletingMoves
<1>5. ASSUME NEW p \in Partitions, NEW n \in Words, GetMPEGRom(p, n)
      PROVE  Moves
  <2> DEFINE room == Cardinality(FreeBlocks)
             k == IF n <= room THEN n ELSE room
  <2>1. k \in Nat /\ n \in Nat /\ (k = n \/ k = room) /\ k <= n
    BY BlocksFinite, BoundsAssumption DEF Words
  <2>2. PICK s \in LowestFree(k) : AppendBlocks(p, s, k, n, getsectsize)
    BY <1>5 DEF GetMPEGRom
  <2>3. uncounted' = uncounted /\ getsectsize \in Sizes \cup {Form2Size}
    BY <1>0, <1>5 DEF GetMPEGRom, history
  <2> HIDE DEF k
  <2>4. queue' = queue \/ Queues!Stored(queue, queue', p)
    BY <1>0, <2>1, <2>2, <2>3, AppendStores
  <2> QED
    BY <1>h, <2>4, StoringMoves
<1>6. ASSUME NEW p \in Partitions, NEW n \in Words, PutSectorData(p, n)
      PROVE  Moves
  <2>1. CASE n > Cardinality(FreeBlocks)
    <3>1. numblocks' = numblocks /\ block' = block
      BY <1>6, <2>1 DEF PutSectorData, partition
    <3> QED
      BY <1>u, <3>1, NothingMoves
  <2>2. CASE ~(n > Cardinality(FreeBlocks))
    <3>1. PICK s \in LowestFree(n) : AppendBlocks(p, s, n, n, putsectsize)
      BY <1>6, <2>2 DEF PutSectorData
    <3>2. uncounted' = uncounted /\ putsectsize \in Sizes \cup {Form2Size} /\ n \in Nat /\ n <= n
      BY <1>0, <1>6, BoundsAssumption DEF PutSectorData, Words
    <3>3. queue' = queue \/ Queues!Stored(queue, queue', p)
      BY <1>0, <3>1, <3>2, AppendStores
    <3> QED
      BY <1>h, <3>3, StoringMoves
  <2> QED
    BY <2>1, <2>2
<1>7. ASSUME NEW p \in Partitions, NEW num \in Words, NEW off \in Words,
             DeleteSectorData(p, off, num)
      PROVE  Moves
  <2> DEFINE n == Chosen(p, off, num)
             win == off..(off + n - 1)
  <2>1. IsStored(p, off, n) /\ uncounted' = uncounted
    BY <1>7 DEF DeleteSectorData
  <2>o. off \in Nat
    BY BoundsAssumption DEF Words
  <2>2. CASE win \subseteq Slots /\ \A i \in win : block[p][i] # NULL
    <3>1. PICK units : DeleteEntries(p, off, n, units)
      BY <1>7, <2>2 DEF DeleteSectorData
    <3> HIDE DEF n
    <3>2. PICK o \in Nat : n \in Nat /\ o + n <= numblocks[p] /\ DeleteEntries(p, o, n, units)
      BY <1>0, <2>1, <2>o, <3>1, StoredDeletion DEF PoolInv
    <3>3. RangeLeaves(p, o, n)
      BY <1>0, <2>1, <3>2, DeleteEntriesTakes
    <3> QED
      BY <1>h, <3>3, DeletingMoves
  <2>3. CASE ~(win \subseteq Slots /\ \A i \in win : block[p][i] # NULL)
    <3>1. numblocks' = numblocks /\ block' = block
      BY <1>7, <2>3 DEF DeleteSectorData, partition
    <3> QED
      BY <1>u, <3>1, NothingMoves
  <2> QED
    BY <2>2, <2>3
<1>8. ASSUME NEW p \in Partitions, NEW n \in Words, NEW off \in Words,
             GetSectorData(p, off, n) \/ GetThenDeleteSectorData(p, off, n)
      PROVE  Moves
  <2>1. numblocks' = numblocks /\ block' = block
    BY <1>8 DEF GetSectorData, GetThenDeleteSectorData, partition
  <2> QED
    BY <1>u, <2>1, NothingMoves
<1> QED
  BY <1>1, <1>2, <1>3, <1>4, <1>5, <1>6, <1>7, <1>8 DEF Command

(* The end of a get-then-delete transfer takes its window away.            *)
LEMMA FinishDeleteMoves ==
  ASSUME IInv, ~strayed, ~strayed', strayed' = strayed, NEW t \in Transfers, NEW moved,
         FinishDelete(t, moved)
  PROVE  Moves
<1>1. /\ t.part \in Partitions /\ t.sectpos \in Nat /\ PoolInv
      /\ IsStored(t.part, t.sectpos, t.sects)
      /\ DeleteEntries(t.part, t.sectpos, t.sects, moved) /\ uncounted' = uncounted
  BY DEF IInv, Placed, Transfers, FinishDelete
<1>2. PICK o \in Nat : /\ t.sects \in Nat /\ o + t.sects <= numblocks[t.part]
                       /\ DeleteEntries(t.part, o, t.sects, moved)
  BY <1>1, StoredDeletion DEF PoolInv
<1>3. RangeLeaves(t.part, o, t.sects)
  BY <1>1, <1>2, DeleteEntriesTakes
<1> QED
  BY <1>1, <1>3, DeletingMoves

(* The data port takes a window away when a get-then-delete transfer ends, *)
(* and leaves the queues alone otherwise.                                  *)
LEMMA DataPortMoves ==
  ASSUME IInv, DataPort, ~strayed, ~strayed', strayed' = strayed
  PROVE  Moves
<1>0. trans \in Transfers /\ Typed /\ trans.numsect \in Nat /\ trans.sects \in Nat
  BY DEF IInv, Placed, Typed, HostTypes, Transfers
<1>u. ASSUME partition' = partition PROVE Moves
  <2>1. numblocks' = numblocks /\ block' = block
    BY <1>u DEF partition
  <2> QED
    BY <2>1, NothingMoves DEF Moves
<1>c. ASSUME NEW t \in Transfers, NEW moved, EndCopy(t, moved) PROVE Moves
  BY <1>c, <1>u, FinishDeleteMoves DEF EndCopy
<1>1. CASE ReadLong \/ WriteLong \/ AccessFaults
  BY <1>1, <1>u DEF ReadLong, WriteLong, AccessFaults
<1>2. CASE ReadLongDeletes
  BY <1>0, <1>2, FinishDeleteMoves DEF ReadLongDeletes
<1>3. CASE EndDataTransfer
  BY <1>0, <1>3, <1>u, FinishDeleteMoves DEF EndDataTransfer
<1>4. ASSUME NEW count \in 1..MaxCopy, RapidCopy(count)
      PROVE  Moves
  <2>1. PICK sect \in trans.numsect..trans.sects :
          /\ Reaches(sect, count)
          /\ IF sect = trans.sects \/ Copied(sect) = count
             THEN EndCopy([trans EXCEPT !.numsect = sect, !.offset = Start(sect)], Copied(sect))
             ELSE /\ ~Fits(sect, count - Copied(sect))
                  /\ CopyRest(sect, count - Copied(sect), count)
    BY <1>4 DEF RapidCopy
  <2>0. count \in Nat
    BY <1>4, SizesAssumption
  <2>2. count - Copied(sect) \in Nat /\ sect \in Nat /\ Start(sect) \in Nat
    BY <1>0, <2>0, <2>1, CopiedIsNatural
  <2>3. CASE sect = trans.sects \/ Copied(sect) = count
    <3>1. [trans EXCEPT !.numsect = sect, !.offset = Start(sect)] \in Transfers
      BY <1>0, <2>2 DEF Transfers
    <3> QED
      BY <1>c, <2>1, <2>3, <3>1
  <2>4. CASE ~(sect = trans.sects \/ Copied(sect) = count)
    <3> DEFINE upto == Start(sect) + (count - Copied(sect))
               over == EntrySize(sect) # -1 /\ EntrySize(sect) <= upto
               next == IF over THEN sect + 1 ELSE sect
               at == IF over THEN 0 ELSE upto
               t == [trans EXCEPT !.numsect = next, !.offset = at]
    <3>1. partition' = partition \/ EndCopy(t, count)
      BY <2>1, <2>4 DEF CopyRest
    <3>2. next \in Nat /\ at \in Nat
      BY <2>2
    <3> HIDE DEF next, at
    <3>3. t \in Transfers
      BY <1>0, <3>2 DEF Transfers
    <3> HIDE DEF t
    <3> QED
      BY <1>c, <1>u, <3>1, <3>3
  <2> QED
    BY <2>3, <2>4
<1> QED
  BY <1>1, <1>2, <1>3, <1>4 DEF DataPort

(* At power-on every queue is empty. *)
LEMMA InitRefines == Init => Queues!Init
<1> SUFFICES ASSUME Init PROVE queue = [p \in Partitions |-> <<>>] /\ strayed = FALSE
  BY DEF Queues!Init
<1>1. numblocks = [p \in Partitions |-> 0] /\ strayed = FALSE
  BY DEF Init
<1>2. \A p \in Partitions : [i \in 1..stored(p) |-> block[p][i - 1]] = <<>>
  BY <1>1, BoundsAssumption DEF stored
<1> QED
  BY <1>1, <1>2 DEF queue

(* Every step keeps the promise of the queues.                             *)
LEMMA NextRefines == IInv /\ [Next]_vars => Moves
<1> SUFFICES ASSUME IInv, [Next]_vars PROVE Moves
  OBVIOUS
<1>0. IInv' /\ strayed \in BOOLEAN /\ strayed' \in BOOLEAN
  BY StepKeepsIInv DEF IInv, Placed, Typed, HostTypes
<1>1. CASE UNCHANGED vars
  <2>1. numblocks' = numblocks /\ block' = block /\ strayed' = strayed
    BY <1>1 DEF vars
  <2> QED
    BY <2>1, NothingMoves DEF Moves
<1>2. CASE strayed'
  BY <1>2 DEF Moves, Queues!Next
<1>3. CASE strayed /\ ~strayed' /\ Next
  <2>1. ~Drive
    BY <1>3 DEF Drive, StoreSector, DropSector, history
  <2>2. ~DataPort
    BY <1>0, <1>3, DataPortPlaces DEF IInv, Placed
  <2>3. Reset
    BY <1>3, <2>1, <2>2, StrayedStays DEF Next
  <2>4. numblocks' = [p \in Partitions |-> 0]
    BY <2>3 DEF Reset
  <2> QED
    BY <1>3, <2>4, NothingStored DEF Moves, Queues!Next
<1>4. CASE ~strayed /\ ~strayed' /\ Next
  <2>1. PoolInv' /\ strayed' = strayed
    BY <1>0, <1>4 DEF IInv, Placed
  <2> QED
    BY <1>4, <2>1, DriveMoves, CommandMoves, DataPortMoves DEF Next
<1> QED
  BY <1>1, <1>2, <1>3, <1>4

(* What the CD block stores behaves as queues of sectors, whatever the     *)
(* interleaving of the drive, the commands and the data port: the free     *)
(* list, the pointer arrays and the sort after each deletion cannot be     *)
(* told from them, until the host deletes what is not stored, and again    *)
(* after the next Cs2Reset.                                                *)
THEOREM BufferImplementsQueues == Spec => ImplementsQueues
<1>1. IInv /\ [Next]_vars => [Queues!Next]_<<queue, strayed>>
  BY NextRefines DEF Moves
<1> QED
  BY <1>1, Invariance, InitRefines, PTL DEF Spec, ImplementsQueues, Queues!Spec
=============================================================================
