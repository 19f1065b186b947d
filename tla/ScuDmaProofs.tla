---------------------------- MODULE ScuDmaProofs ----------------------------
(***************************************************************************)
(* Proofs about the queue of DMA transfers of scu.c, for any number of     *)
(* places: the double loop of scu_sort_dma sorts, nothing is lost or       *)
(* doubled by it, and the queue implements DmaService.                     *)
(***************************************************************************)
EXTENDS ScuDma, WellFoundedInduction, SequenceTheorems, FiniteSetTheorems, TLAPS

-----------------------------------------------------------------------------
(* Induction over the naturals, with a set for the predicate.              *)

(* Every set of naturals with a member has a smallest one.                 *)
LEMMA LeastNatural ==
  ASSUME NEW T \in SUBSET Nat, T # {}
  PROVE  \E x \in T : \A y \in T : x <= y
<1> DEFINE R == {ss \in Nat \X Nat : ss[1] < ss[2]}
<1>1. IsWellFoundedOn(R, Nat)
  BY NatLessThanWellFounded DEF OpToRel
<1>2. PICK x \in T : \A y \in T : ~ (<<y, x>> \in R)
  <2> HIDE DEF R
  <2> QED BY <1>1, WFMin
<1>3. \A y \in T : <<y, x>> \in R <=> y < x
  OBVIOUS
<1>4. x \in Nat /\ \A y \in T : y \in Nat /\ ~(y < x)
  BY <1>2, <1>3
<1> HIDE DEF R
<1>5. QED
  BY <1>4

(* A set of naturals that holds 0 and every successor holds them all.      *)
LEMMA Induction ==
  ASSUME NEW S \in SUBSET Nat, 0 \in S, \A n \in S : n + 1 \in S
  PROVE  S = Nat
<1>1. SUFFICES ASSUME Nat \ S # {} PROVE FALSE
  OBVIOUS
<1>2. PICK x \in Nat \ S : \A y \in Nat \ S : x <= y
  BY <1>1, LeastNatural
<1>3. x # 0 /\ x - 1 \in Nat /\ x - 1 \in S
  BY <1>2
<1>4. QED
  BY <1>2, <1>3

-----------------------------------------------------------------------------
(* The loops of scu_sort_dma step by step.                                 *)

(* What the inner loop has done after j comparisons.                       *)
PassSteps(a, q, i, n) ==
  a = [j \in 0..n |-> IF j = 0 THEN q ELSE Compared(a[j - 1], i, j - 1)]

LEMMA PassIsALoop ==
  ASSUME NEW q, NEW i
  PROVE  \E a : PassSteps(a, q, i, Slots) /\ Pass(q, i) = a[Slots]
<1> DEFINE Rec(a, n) == a = [j \in 0..n |->
             IF j = 0 THEN q
             ELSE CHOOSE r \in {Compared(p, i, j - 1) : p \in {a[j - 1]}} : TRUE]
           S == {n \in Nat : \E a : Rec(a, n)}
<1>1. \A a, j : (CHOOSE r \in {Compared(p, i, j - 1) : p \in {a[j - 1]}} : TRUE)
                  = Compared(a[j - 1], i, j - 1)
  OBVIOUS
<1>2. \A a, n : Rec(a, n) <=> PassSteps(a, q, i, n)
  BY <1>1, Zenon DEF PassSteps
<1>3. 0 \in S
  <2>1. PassSteps([j \in 0..0 |-> q], q, i, 0)
    BY DEF PassSteps
  <2>2. QED
    BY <2>1, <1>2
<1>4. ASSUME NEW n \in S PROVE n + 1 \in S
  <2>1. PICK a : PassSteps(a, q, i, n)
    BY <1>2
  <2> DEFINE b == [j \in 0..(n + 1) |-> IF j = n + 1 THEN Compared(a[n], i, n) ELSE a[j]]
  <2>2. n \in Nat /\ \A j \in 0..n : b[j] = a[j]
    OBVIOUS
  <2>3. \A j \in 0..(n + 1) :
           b[j] = IF j = 0 THEN q ELSE Compared(b[j - 1], i, j - 1)
    BY <2>1, <2>2 DEF PassSteps
  <2>4. PassSteps(b, q, i, n + 1)
    BY <2>3 DEF PassSteps
  <2>5. QED
    BY <2>4, <1>2
<1>5. S = Nat
  <2> HIDE DEF S
  <2> QED BY <1>3, <1>4, Induction DEF S
<1>6. \E a : Rec(a, Slots)
  BY <1>5, QueueAssumption
<1> DEFINE f == CHOOSE a : Rec(a, Slots)
<1>7. Rec(f, Slots)
  BY <1>6
<1>8. Pass(q, i) = f[Slots]
  BY DEF Pass
<1>9. QED
  BY <1>2, <1>7, <1>8

(* What the outer loop has done after n passes.                            *)
SortSteps(a, q, n) ==
  a = [i \in 0..n |-> IF i = 0 THEN q ELSE Pass(a[i - 1], i - 1)]

LEMMA SortIsALoop ==
  ASSUME NEW q
  PROVE  \E a : SortSteps(a, q, Slots) /\ Sort(q) = a[Slots]
<1> DEFINE Rec(a, n) == a = [i \in 0..n |->
             IF i = 0 THEN q
             ELSE CHOOSE r \in {Pass(p, i - 1) : p \in {a[i - 1]}} : TRUE]
           S == {n \in Nat : \E a : Rec(a, n)}
<1>1. \A a, i : (CHOOSE r \in {Pass(p, i - 1) : p \in {a[i - 1]}} : TRUE)
                  = Pass(a[i - 1], i - 1)
  OBVIOUS
<1>2. \A a, n : Rec(a, n) <=> SortSteps(a, q, n)
  BY <1>1, Zenon DEF SortSteps
<1>3. 0 \in S
  <2>1. SortSteps([i \in 0..0 |-> q], q, 0)
    BY DEF SortSteps
  <2>2. QED
    BY <2>1, <1>2
<1>4. ASSUME NEW n \in S PROVE n + 1 \in S
  <2>1. PICK a : SortSteps(a, q, n)
    BY <1>2
  <2> DEFINE b == [i \in 0..(n + 1) |-> IF i = n + 1 THEN Pass(a[n], n) ELSE a[i]]
  <2>2. n \in Nat /\ \A i \in 0..n : b[i] = a[i]
    OBVIOUS
  <2>3. \A i \in 0..(n + 1) : b[i] = IF i = 0 THEN q ELSE Pass(b[i - 1], i - 1)
    BY <2>1, <2>2 DEF SortSteps
  <2>4. SortSteps(b, q, n + 1)
    BY <2>3 DEF SortSteps
  <2>5. QED
    BY <2>4, <1>2
<1>5. S = Nat
  <2> HIDE DEF S
  <2> QED BY <1>3, <1>4, Induction DEF S
<1>6. \E a : Rec(a, Slots)
  BY <1>5, QueueAssumption
<1> DEFINE f == CHOOSE a : Rec(a, Slots)
<1>7. Rec(f, Slots)
  BY <1>6
<1>8. Sort(q) = f[Slots]
  BY DEF Sort
<1>9. QED
  BY <1>2, <1>7, <1>8

-----------------------------------------------------------------------------
(* What a comparison, a pass and the sort do to a queue.                   *)

IsQueue(q) ==
  /\ q = [i \in Places |-> q[i]]
  /\ \A i \in Places : q[i].status \in Nat

(* a holds the entries of q, each in one place. *)
Rearranged(q, a) ==
  \E from \in [Places -> Places] :
    /\ \A i, j \in Places : from[i] = from[j] => i = j
    /\ \A j \in Places : \E i \in Places : from[i] = j
    /\ a = [i \in Places |-> q[from[i]]]

LEMMA RearrangedTwice ==
  ASSUME NEW q, NEW a, NEW b, Rearranged(q, a), Rearranged(a, b)
  PROVE  Rearranged(q, b)
<1>1. PICK f \in [Places -> Places] :
        /\ \A i, j \in Places : f[i] = f[j] => i = j
        /\ \A j \in Places : \E i \in Places : f[i] = j
        /\ a = [i \in Places |-> q[f[i]]]
  BY DEF Rearranged
<1>2. PICK g \in [Places -> Places] :
        /\ \A i, j \in Places : g[i] = g[j] => i = j
        /\ \A j \in Places : \E i \in Places : g[i] = j
        /\ b = [i \in Places |-> a[g[i]]]
  BY DEF Rearranged
<1> DEFINE h == [i \in Places |-> f[g[i]]]
<1>3. h \in [Places -> Places] /\ b = [i \in Places |-> q[h[i]]]
  BY <1>1, <1>2
<1>4. \A i, j \in Places : h[i] = h[j] => i = j
  BY <1>1, <1>2
<1>5. \A j \in Places : \E i \in Places : h[i] = j
  <2> TAKE j \in Places
  <2>1. PICK k \in Places : f[k] = j
    BY <1>1
  <2>2. PICK i \in Places : g[i] = k
    BY <1>2
  <2>3. QED
    BY <2>1, <2>2
<1>6. QED
  <2> HIDE DEF h
  <2> QED BY <1>3, <1>4, <1>5 DEF Rearranged

LEMMA RearrangedQueue ==
  ASSUME NEW q, IsQueue(q)
  PROVE  /\ Rearranged(q, q)
         /\ \A a : Rearranged(q, a) => IsQueue(a)
<1>1. Rearranged(q, q)
  <2> DEFINE id == [i \in Places |-> i]
  <2>1. id \in [Places -> Places] /\ q = [i \in Places |-> q[id[i]]]
    BY DEF IsQueue
  <2>2. QED
    BY <2>1 DEF Rearranged
<1>2. ASSUME NEW a, Rearranged(q, a) PROVE IsQueue(a)
  <2>1. PICK from \in [Places -> Places] : a = [i \in Places |-> q[from[i]]]
    BY <1>2 DEF Rearranged
  <2>2. QED
    BY <2>1 DEF IsQueue
<1>3. QED
  BY <1>1, <1>2

LEMMA ComparisonRearranges ==
  ASSUME NEW q, IsQueue(q), NEW i \in Places, NEW j \in Places
  PROVE  Rearranged(q, Compared(q, i, j))
<1>1. CASE q[i].status > q[j].status
  <2> DEFINE from == [k \in Places |-> IF k = i THEN j ELSE IF k = j THEN i ELSE k]
  <2>1. /\ from \in [Places -> Places]
        /\ \A k, l \in Places : from[k] = from[l] => k = l
    OBVIOUS
  <2>2. \A k \in Places : from[from[k]] = k
    OBVIOUS
  <2>3. Compared(q, i, j) = [k \in Places |-> q[from[k]]]
    BY <1>1 DEF Compared, Swap, IsQueue
  <2> HIDE DEF from
  <2>4. QED
    BY <2>1, <2>2, <2>3 DEF Rearranged
<1>2. CASE ~(q[i].status > q[j].status)
  BY <1>2, RearrangedQueue DEF Compared
<1>3. QED
  BY <1>1, <1>2

(* The statuses of a queue, smaller ones behind. *)
Sorted(q) == \A x, y \in Places : x < y => q[x].status >= q[y].status

(* While place i is compared with the places before j: the places before i *)
(* are sorted, place i is not greater than those it was compared with, and *)
(* the smallest entry is in place i - 1 until that is reached.             *)
PassInv(a, i, j) ==
  /\ \A x, y \in 0..(i - 1) : x < y => a[x].status >= a[y].status
  /\ \A x \in 0..(j - 1) : a[i].status <= a[x].status
  /\ i > 0 /\ j < i => \A y \in Places : a[i - 1].status <= a[y].status
  /\ i > 0 /\ j >= i => \A y \in Places : a[i].status <= a[y].status

LEMMA ComparisonKeepsOrder ==
  ASSUME NEW a, IsQueue(a), NEW i \in Places, NEW j \in Places, PassInv(a, i, j)
  PROVE  PassInv(Compared(a, i, j), i, j + 1)
<1> DEFINE b == Compared(a, i, j)
<1>1. CASE ~(a[i].status > a[j].status)
  <2>1. b = a
    BY <1>1 DEF Compared
  <2>2. a[i].status <= a[j].status
    BY <1>1 DEF IsQueue
  <2>3. \A x \in 0..j : a[i].status <= a[x].status
    BY <2>2, QueueAssumption DEF PassInv, Places
  <2>4. ASSUME i > 0, j + 1 >= i, NEW y \in Places PROVE a[i].status <= a[y].status
    <3>1. CASE j >= i
      BY <2>4, <3>1 DEF PassInv
    <3>2. CASE j = i - 1
      BY <2>2, <2>4, <3>2, QueueAssumption DEF PassInv, IsQueue, Places
    <3>3. QED
      BY <2>4, <3>1, <3>2, QueueAssumption DEF Places
  <2> HIDE DEF b
  <2>5. QED
    BY <2>1, <2>3, <2>4, QueueAssumption DEF PassInv, Places, b
<1>2. CASE a[i].status > a[j].status
  <2>1. /\ b[i] = a[j] /\ b[j] = a[i]
        /\ \A k \in Places : k # i /\ k # j => b[k] = a[k]
        /\ i # j
    BY <1>2 DEF Compared, Swap, IsQueue
  <2>2. PICK s \in [Places -> Nat] : \A k \in Places : s[k] = a[k].status
    <3>1. [k \in Places |-> a[k].status] \in [Places -> Nat]
      BY DEF IsQueue
    <3>2. QED
      BY <3>1
  <2>3. PICK t \in [Places -> Nat] : \A k \in Places :
          t[k] = b[k].status /\ t[k] = IF k = i THEN s[j] ELSE IF k = j THEN s[i] ELSE s[k]
    <3> DEFINE u == [k \in Places |-> IF k = i THEN s[j] ELSE IF k = j THEN s[i] ELSE s[k]]
    <3>1. u \in [Places -> Nat] /\ \A k \in Places : u[k] = b[k].status
      BY <2>1, <2>2
    <3>2. QED
      BY <3>1
  <2>4. /\ s[i] > s[j]
        /\ \A x, y \in 0..(i - 1) : x < y => s[x] >= s[y]
        /\ \A x \in 0..(j - 1) : s[i] <= s[x]
        /\ i > 0 /\ j < i => \A y \in Places : s[i - 1] <= s[y]
        /\ i > 0 /\ j >= i => \A y \in Places : s[i] <= s[y]
        /\ i \in Nat /\ j \in Nat /\ i < Slots /\ j < Slots /\ Slots \in Nat
        /\ \A k : k \in Places <=> k \in Nat /\ k < Slots
    <3>1. /\ i \in Nat /\ j \in Nat /\ i < Slots /\ j < Slots /\ Slots \in Nat
          /\ \A k : k \in Places <=> k \in Nat /\ k < Slots
      BY QueueAssumption DEF Places
    <3>2. s[i] > s[j]
      BY <1>2, <2>2
    <3>3. \A x, y \in 0..(i - 1) : x < y => s[x] >= s[y]
      <4>1. \A x \in 0..(i - 1) : x \in Places
        BY <3>1
      <4>2. QED
        BY <2>2, <4>1 DEF PassInv
    <3>4. \A x \in 0..(j - 1) : s[i] <= s[x]
      <4>1. \A x \in 0..(j - 1) : x \in Places
        BY <3>1
      <4>2. QED
        BY <2>2, <4>1 DEF PassInv
    <3>5. i > 0 /\ j < i => \A y \in Places : s[i - 1] <= s[y]
      <4>1. i > 0 => i - 1 \in Places
        BY <3>1
      <4>2. QED
        BY <2>2, <4>1 DEF PassInv
    <3>6. i > 0 /\ j >= i => \A y \in Places : s[i] <= s[y]
      BY <2>2 DEF PassInv
    <3>7. QED
      BY <3>1, <3>2, <3>3, <3>4, <3>5, <3>6
  <2>5. j < i \/ i = 0
    BY <2>4
  <2>6. /\ \A x, y \in 0..(i - 1) : x < y => t[x] >= t[y]
        /\ \A x \in 0..j : t[i] <= t[x]
    BY <2>3, <2>4, <2>5
  <2>7. ASSUME i > 0 PROVE /\ j + 1 < i => \A y \in Places : t[i - 1] <= t[y]
                           /\ j + 1 >= i => \A y \in Places : t[i] <= t[y]
    BY <2>3, <2>4, <2>5, <2>7
  <2> HIDE DEF b
  <2>8. PassInv(b, i, j + 1)
    BY <2>3, <2>4, <2>6, <2>7 DEF PassInv
  <2>9. QED
    BY <2>8 DEF b
<1>3. QED
  BY <1>1, <1>2
(* One pass of the outer loop leaves the places up to i sorted.            *)
LEMMA PassKeepsOrder ==
  ASSUME NEW q, IsQueue(q), NEW i \in Places, PassInv(q, i, 0)
  PROVE  Rearranged(q, Pass(q, i)) /\ PassInv(Pass(q, i), i + 1, 0)
<1>1. PICK a : PassSteps(a, q, i, Slots) /\ Pass(q, i) = a[Slots]
  BY PassIsALoop
<1> DEFINE P(j) == Rearranged(q, a[j]) /\ PassInv(a[j], i, j)
           S == {j \in Nat : j <= Slots => P(j)}
<1>2. P(0)
  BY <1>1, RearrangedQueue, QueueAssumption DEF PassSteps
<1>3. ASSUME NEW j \in Nat, P(j), j < Slots PROVE P(j + 1)
  <2>1. j \in Places /\ a[j + 1] = Compared(a[j], i, j)
    BY <1>1, <1>3, QueueAssumption DEF PassSteps, Places
  <2>2. IsQueue(a[j])
    BY <1>3, RearrangedQueue
  <2>3. Rearranged(a[j], a[j + 1]) /\ PassInv(a[j + 1], i, j + 1)
    BY <1>3, <2>1, <2>2, ComparisonRearranges, ComparisonKeepsOrder
  <2>4. QED
    BY <1>3, <2>3, RearrangedTwice
<1>4. S = Nat
  <2>1. 0 \in S
    BY <1>2
  <2> HIDE DEF P
  <2>2. ASSUME NEW j \in S PROVE j + 1 \in S
    BY <1>3, QueueAssumption
  <2> HIDE DEF S
  <2>3. QED
    BY <2>1, <2>2, Induction DEF S
<1>5. P(Slots)
  <2> HIDE DEF P
  <2> QED BY <1>4, QueueAssumption
<1>6. PassInv(a[Slots], i + 1, 0)
  <2> DEFINE b == a[Slots]
  <2>1. IsQueue(b) /\ PassInv(b, i, Slots)
    BY <1>5, RearrangedQueue
  <2> HIDE DEF b
  <2>2. \A x \in Places : b[i].status <= b[x].status
    BY <2>1, QueueAssumption DEF PassInv, Places
  <2>3. \A x, y \in 0..i : x < y => b[x].status >= b[y].status
    <3> SUFFICES ASSUME NEW x \in 0..i, NEW y \in 0..i, x < y
                 PROVE  b[x].status >= b[y].status
      OBVIOUS
    <3>1. x \in Places /\ y \in Places
      BY QueueAssumption DEF Places
    <3>2. b[x].status \in Nat /\ b[y].status \in Nat
      BY <2>1, <3>1 DEF IsQueue
    <3>3. CASE y = i
      BY <2>2, <3>1, <3>2, <3>3
    <3>4. CASE y # i
      BY <2>1, <3>4, QueueAssumption DEF PassInv, Places
    <3>5. QED
      BY <3>3, <3>4
  <2>4. PassInv(b, i + 1, 0)
    BY <2>2, <2>3, QueueAssumption DEF PassInv, Places
  <2>5. QED
    BY <2>4 DEF b
<1>7. QED
  BY <1>1, <1>5, <1>6

(* scu_sort_dma: "sort active, queued, starting factor, finished".  The    *)
(* sort keeps every entry and leaves the larger statuses in front.         *)
THEOREM SortSorts ==
  ASSUME NEW q, IsQueue(q)
  PROVE  Rearranged(q, Sort(q)) /\ Sorted(Sort(q))
<1>1. PICK a : SortSteps(a, q, Slots) /\ Sort(q) = a[Slots]
  BY SortIsALoop
<1> DEFINE P(i) == Rearranged(q, a[i]) /\ PassInv(a[i], i, 0)
           S == {i \in Nat : i <= Slots => P(i)}
<1>2. P(0)
  <2>1. a[0] = q
    BY <1>1, QueueAssumption DEF SortSteps
  <2>2. QED
    BY <2>1, RearrangedQueue DEF PassInv
<1>3. ASSUME NEW i \in Nat, P(i), i < Slots PROVE P(i + 1)
  <2>1. i \in Places /\ a[i + 1] = Pass(a[i], i)
    BY <1>1, <1>3, QueueAssumption DEF SortSteps, Places
  <2>2. IsQueue(a[i])
    BY <1>3, RearrangedQueue
  <2>3. Rearranged(a[i], a[i + 1]) /\ PassInv(a[i + 1], i + 1, 0)
    BY <1>3, <2>1, <2>2, PassKeepsOrder
  <2>4. QED
    BY <1>3, <2>3, RearrangedTwice
<1>4. S = Nat
  <2>1. 0 \in S
    BY <1>2
  <2> HIDE DEF P
  <2>2. ASSUME NEW i \in S PROVE i + 1 \in S
    BY <1>3, QueueAssumption
  <2> HIDE DEF S
  <2>3. QED
    BY <2>1, <2>2, Induction DEF S
<1>5. P(Slots)
  <2> HIDE DEF P
  <2> QED BY <1>4, QueueAssumption
<1>6. QED
  BY <1>1, <1>5, QueueAssumption DEF PassInv, Sorted, Places

-----------------------------------------------------------------------------
(* Transfers and queues of them.                                           *)

Transfers(n) ==
  [status : {DMA_FINISHED, DMA_QUEUED, DMA_ACTIVE}, id : 0..n, level : 0..DspLevel,
   bus : Buses, count : 0..(U32 - 1), count_mod_4 : 0..3,
   table : Seq(Entries), indirect_address : Nat, last : BOOLEAN]

(* One of the first n transfers; an indirect one that has not read the     *)
(* last count of its table has one to read.                                *)
Sound(t, n) ==
  /\ t \in Transfers(n)
  /\ t.indirect_address <= Len(t.table)
  /\ t.table # <<>> /\ ~t.last => t.indirect_address < Len(t.table)

LEMMA EntryIsSound ==
  ASSUME NEW n \in Nat, NEW t, Sound(t, n), t.table # <<>>, ~t.last
  PROVE  /\ Entry(t) \in Transfers(n)
         /\ Entry(t).status = t.status /\ Entry(t).id = t.id /\ Entry(t).level = t.level
         /\ Entry(t).indirect_address = t.indirect_address
         /\ Entry(t).table = t.table
         /\ Entry(t).last <=> t.indirect_address + 1 = Len(t.table)
<1>1. PICK s \in Seq(Entries) : s = t.table
  BY DEF Sound, Transfers
<1>2. t.indirect_address \in Nat /\ t.indirect_address + 1 \in 1..Len(s)
  BY <1>1 DEF Sound, Transfers
<1>3. PICK e \in Entries : e = t.table[t.indirect_address + 1]
  BY <1>1, <1>2, ElementOfSeq
<1>4. PICK c \in 0..(U32 - 1), b \in Buses, l \in BOOLEAN :
        c = e.count /\ b = e.bus /\ l = (t.indirect_address + 1 = Len(t.table))
  BY DEF Entries
<1>5. Entry(t) = [t EXCEPT !.count = c, !.bus = b, !.last = l]
  BY <1>3, <1>4 DEF Entry
<1>6. QED
  BY <1>4, <1>5 DEF Sound, Transfers

LEMMA ClearedIsSound ==
  ASSUME NEW n \in Nat
  PROVE  Sound(Cleared, n) /\ Cleared.status = DMA_FINISHED
BY QueueAssumption DEF Cleared, Sound, Transfers, Buses, DMA_FINISHED, DspLevel

NewFields(new, level, bus) ==
  /\ new \in Transfers(asked + 1) /\ new.status = DMA_QUEUED /\ new.id = asked + 1
  /\ new.level = level /\ new.bus = bus /\ new.table = <<>>
  /\ new.indirect_address = 0 /\ new.last = FALSE

LEMMA NewTransfer ==
  ASSUME asked \in Nat, NEW level \in 0..DspLevel, NEW bus \in Buses
  PROVE  NewFields(New(level, bus), level, bus)
<1>1. PICK c : c = Cleared
  OBVIOUS
<1>2. /\ c \in Transfers(asked + 1)
      /\ c.table = <<>> /\ c.indirect_address = 0 /\ c.last = FALSE
  BY <1>1, QueueAssumption DEF Cleared, Transfers, Buses, DMA_FINISHED, DspLevel
<1>3. PICK k \in 0..(asked + 1), u \in {DMA_FINISHED, DMA_QUEUED, DMA_ACTIVE} :
        k = asked + 1 /\ u = DMA_QUEUED
  OBVIOUS
<1>4. New(level, bus) = [c EXCEPT !.status = u, !.id = k, !.level = level, !.bus = bus]
  BY <1>1, <1>3 DEF New
<1>5. QED
  BY <1>2, <1>3, <1>4 DEF NewFields, Transfers

LEMMA RequestIsSound ==
  ASSUME NEW r \in Requests, asked \in Nat
  PROVE  /\ Sound(Enqueued(r), asked + 1)
         /\ Enqueued(r).status = DMA_QUEUED
         /\ Enqueued(r).id = asked + 1
         /\ Enqueued(r).level \in 0..2
<1> DEFINE new == [New(r.level, r.bus) EXCEPT !.count = r.count, !.table = r.table]
<1>1. /\ r.level \in 0..2 /\ r.bus \in Buses
      /\ r.count \in 0..(U32 - 1) /\ r.table \in Seq(Entries)
  BY QueueAssumption
<1>2. /\ new \in Transfers(asked + 1) /\ new.indirect_address = 0 /\ new.table = r.table
      /\ new.status = DMA_QUEUED /\ new.id = asked + 1 /\ new.level = r.level
      /\ new.last = FALSE
  <2>1. PICK c \in 0..(U32 - 1), s \in Seq(Entries) : c = r.count /\ s = r.table
    BY <1>1
  <2>2. new = [New(r.level, r.bus) EXCEPT !.count = c, !.table = s]
    BY <2>1
  <2>3. NewFields(New(r.level, r.bus), r.level, r.bus)
    BY <1>1, NewTransfer DEF DspLevel
  <2>4. QED
    BY <2>1, <2>2, <2>3 DEF NewFields, Transfers
<1>3. Sound(new, asked + 1)
  BY <1>1, <1>2 DEF Sound
<1>4. PICK t : /\ t = (IF r.table = <<>> THEN new ELSE Entry(new))
               /\ Enqueued(r) = [t EXCEPT !.count_mod_4 = t.count % 4]
  BY DEF Enqueued
<1> HIDE DEF new
<1>5. Sound(t, asked + 1) /\ t.status = DMA_QUEUED /\ t.id = asked + 1 /\ t.level \in 0..2
  <2>1. CASE r.table = <<>>
    BY <1>1, <1>2, <1>3, <1>4, <2>1
  <2>2. CASE r.table # <<>>
    <3>1. /\ t \in Transfers(asked + 1)
          /\ t.status = new.status /\ t.id = new.id /\ t.level = new.level
          /\ t.indirect_address = 0 /\ t.table = r.table
          /\ t.last <=> 1 = Len(r.table)
      <4>1. t = Entry(new) /\ asked + 1 \in Nat /\ new.table # <<>> /\ ~new.last
        BY <1>2, <1>4, <2>2
      <4>2. t \in Transfers(asked + 1) /\ t.table = new.table
        BY <1>3, <4>1, EntryIsSound
      <4>3. /\ t.status = new.status /\ t.id = new.id /\ t.level = new.level
            /\ t.indirect_address = new.indirect_address
        BY <1>3, <4>1, EntryIsSound
      <4>4. t.last <=> new.indirect_address + 1 = Len(new.table)
        BY <1>3, <4>1, EntryIsSound
      <4>5. QED
        BY <1>2, <4>2, <4>3, <4>4
    <3>2. t.status = DMA_QUEUED /\ t.id = asked + 1 /\ t.level \in 0..2
      BY <1>1, <1>2, <3>1 DEF Transfers
    <3>3. Len(r.table) \in Nat \ {0}
      BY <1>1, <2>2
    <3>4. QED
      BY <3>1, <3>2, <3>3 DEF Sound
  <2>3. QED
    BY <2>1, <2>2
<1>6. t.count % 4 \in 0..3
  BY <1>5, QueueAssumption DEF Sound, Transfers
<1>7. QED
  BY <1>4, <1>5, <1>6 DEF Sound, Transfers

LEMMA DspTransferIsSound ==
  ASSUME NEW n \in DspCounts, asked \in Nat
  PROVE  /\ Sound([New(DspLevel, "none") EXCEPT !.count = n], asked + 1)
         /\ [New(DspLevel, "none") EXCEPT !.count = n].status = DMA_QUEUED
         /\ [New(DspLevel, "none") EXCEPT !.count = n].id = asked + 1
         /\ [New(DspLevel, "none") EXCEPT !.count = n].level = DspLevel
<1>1. NewFields(New(DspLevel, "none"), DspLevel, "none")
  BY NewTransfer DEF DspLevel, Buses
<1>2. n \in 0..(U32 - 1)
  BY QueueAssumption
<1>3. PICK new : new = New(DspLevel, "none")
  OBVIOUS
<1>4. /\ new \in Transfers(asked + 1) /\ new.status = DMA_QUEUED /\ new.id = asked + 1
      /\ new.level = DspLevel /\ new.table = <<>> /\ new.indirect_address = 0
  BY <1>1, <1>3 DEF NewFields
<1>5. Len(new.table) = 0
  BY <1>4
<1>6. QED
  BY <1>2, <1>3, <1>4, <1>5 DEF Sound, Transfers

(* What a step leaves of a transfer that does not end.                     *)
Rest(t) == IF Left(t) > 0 THEN [t EXCEPT !.count = Left(t)]
           ELSE [Entry(t) EXCEPT !.indirect_address = @ + 1]

LEMMA RestIsSound ==
  ASSUME NEW n \in Nat, NEW t, Sound(t, n), ~Ends(t)
  PROVE  /\ Sound(Rest(t), n)
         /\ Rest(t).status = t.status /\ Rest(t).id = t.id /\ Rest(t).level = t.level
<1>1. Left(t) \in 0..(U32 - 1)
  <2>1. t.count \in Int /\ Moved(t) \in Int
    BY DEF Sound, Transfers, Moved
  <2>2. QED
    BY <2>1, QueueAssumption DEF Left
<1>2. CASE Left(t) > 0
  BY <1>1, <1>2 DEF Rest, Sound, Transfers
<1>3. CASE Left(t) = 0
  <2>1. t.table # <<>> /\ ~t.last
    BY <1>3 DEF Ends
  <2>2. PICK e : e = Entry(t)
    OBVIOUS
  <2>3. /\ e.status = t.status /\ e.id = t.id /\ e.level = t.level
        /\ e \in Transfers(n) /\ e.indirect_address = t.indirect_address
        /\ e.table = t.table /\ (e.last <=> t.indirect_address + 1 = Len(t.table))
    BY <2>1, <2>2, EntryIsSound
  <2>4. t.indirect_address < Len(t.table) /\ t.indirect_address \in Nat /\ Len(t.table) \in Nat
    BY <2>1 DEF Sound, Transfers
  <2>5. Rest(t) = [e EXCEPT !.indirect_address = t.indirect_address + 1]
    BY <1>3, <2>2, <2>3 DEF Rest
  <2>6. PICK k \in Nat : k = t.indirect_address + 1
    BY <2>4
  <2>7. QED
    BY <2>3, <2>4, <2>5, <2>6 DEF Sound, Transfers
<1>4. QED
  BY <1>1, <1>2, <1>3

-----------------------------------------------------------------------------
(* Queues of transfers.                                                    *)

(* A queue of the first n transfers, each in one place, one under way.     *)
Valid(q, n) ==
  /\ q = [i \in Places |-> q[i]]
  /\ \A i \in Places : Sound(q[i], n)
  /\ \A i, j \in Live(q) : q[i].id = q[j].id => i = j
  /\ \A i, j \in Places : q[i].status = DMA_ACTIVE /\ q[j].status = DMA_ACTIVE => i = j

(* The transfer under way is in front, and there is one if any waits.      *)
Served(q) == Sorted(q) /\ (Live(q) # {} => q[0].status = DMA_ACTIVE)

(* The transfers with a status. *)
Ids(q, status) == {q[i].id : i \in {j \in Places : q[j].status = status}}

HasLevel(q, level) == \E i \in Live(q) : q[i].level = level

LEMMA ZeroIsAPlace == 0 \in Places /\ \A i \in Places : i \in Nat /\ (i # 0 => 0 < i)
BY QueueAssumption DEF Places

LEMMA StatusOfSound ==
  ASSUME NEW n, NEW t, Sound(t, n)
  PROVE  t.status \in {DMA_FINISHED, DMA_QUEUED, DMA_ACTIVE} /\ t.status \in Nat
BY DEF Sound, Transfers, DMA_FINISHED, DMA_QUEUED, DMA_ACTIVE

LEMMA RearrangedIsValid ==
  ASSUME NEW n \in Nat, NEW q, NEW a, Valid(q, n), Rearranged(q, a)
  PROVE  /\ Valid(a, n)
         /\ \A i \in Places : \E j \in Places : a[i] = q[j]
         /\ \A j \in Places : \E i \in Places : a[i] = q[j]
         /\ \A status : Ids(a, status) = Ids(q, status)
         /\ \A level : HasLevel(q, level) => HasLevel(a, level)
         /\ Live(a) = {} <=> Live(q) = {}
<1>1. PICK from \in [Places -> Places] :
        /\ \A i, j \in Places : from[i] = from[j] => i = j
        /\ \A j \in Places : \E i \in Places : from[i] = j
        /\ a = [i \in Places |-> q[from[i]]]
  BY DEF Rearranged
<1>2. \A i \in Places : from[i] \in Places /\ a[i] = q[from[i]]
  BY <1>1
<1>3. Valid(a, n)
  BY <1>1, <1>2 DEF Valid, Live
<1>4. \A i \in Places : \E j \in Places : a[i] = q[j]
  BY <1>2
<1>5. \A j \in Places : \E i \in Places : a[i] = q[j]
  BY <1>1, <1>2
<1>6. \A status : Ids(a, status) = Ids(q, status)
  BY <1>4, <1>5 DEF Ids
<1>7. \A level : HasLevel(q, level) => HasLevel(a, level)
  BY <1>5 DEF HasLevel, Live
<1>8. Live(a) = {} <=> Live(q) = {}
  BY <1>4, <1>5 DEF Live
<1>9. QED
  BY <1>3, <1>4, <1>5, <1>6, <1>7, <1>8

LEMMA SortIsValid ==
  ASSUME NEW n \in Nat, NEW q, Valid(q, n)
  PROVE  /\ Rearranged(q, Sort(q)) /\ Sorted(Sort(q)) /\ Valid(Sort(q), n)
<1>1. IsQueue(q)
  BY StatusOfSound DEF IsQueue, Valid
<1>2. QED
  BY <1>1, SortSorts, RearrangedIsValid

(* In a sorted queue the first place says what there is.                   *)
LEMMA FrontOfSorted ==
  ASSUME NEW n \in Nat, NEW q, Valid(q, n), Sorted(q)
  PROVE  /\ \A i \in Places : q[i].status = DMA_ACTIVE => i = 0
         /\ Live(q) # {} => q[0].status # DMA_FINISHED
<1>1. \A i \in Places : /\ q[i].status \in {DMA_FINISHED, DMA_QUEUED, DMA_ACTIVE}
                        /\ i # 0 => q[0].status >= q[i].status
  BY ZeroIsAPlace, StatusOfSound DEF Valid, Sorted
<1>2. \A i \in Places : q[i].status = DMA_ACTIVE => q[0].status = DMA_ACTIVE
  BY <1>1, ZeroIsAPlace DEF DMA_ACTIVE, DMA_QUEUED, DMA_FINISHED
<1>3. \A i \in Places : q[i].status # DMA_FINISHED => q[0].status # DMA_FINISHED
  BY <1>1, ZeroIsAPlace DEF DMA_ACTIVE, DMA_QUEUED, DMA_FINISHED
<1>4. QED
  BY <1>2, <1>3, ZeroIsAPlace DEF Valid, Live

(* Sorting a queue that is served changes none of what it tells.           *)
LEMMA SortStaysServed ==
  ASSUME NEW n \in Nat, NEW q, Valid(q, n), Served(q)
  PROVE  /\ Valid(Sort(q), n) /\ Served(Sort(q))
         /\ \A status : Ids(Sort(q), status) = Ids(q, status)
         /\ \A level : HasLevel(q, level) => HasLevel(Sort(q), level)
         /\ Live(Sort(q)) = {} <=> Live(q) = {}
         /\ Live(q) # {} => Sort(q)[0] = q[0]
<1>1. PICK a : a = Sort(q)
  OBVIOUS
<1>2. Rearranged(q, a) /\ Sorted(a) /\ Valid(a, n)
  BY <1>1, SortIsValid
<1>3. /\ \A i \in Places : \E j \in Places : a[i] = q[j]
      /\ \A j \in Places : \E i \in Places : a[i] = q[j]
      /\ \A status : Ids(a, status) = Ids(q, status)
      /\ \A level : HasLevel(q, level) => HasLevel(a, level)
      /\ Live(a) = {} <=> Live(q) = {}
  BY <1>2, RearrangedIsValid
<1>4. Live(q) # {} => a[0] = q[0] /\ a[0].status = DMA_ACTIVE
  <2> SUFFICES ASSUME Live(q) # {} PROVE a[0] = q[0] /\ q[0].status = DMA_ACTIVE
    OBVIOUS
  <2>1. PICK i \in Places : a[i] = q[0]
    BY <1>3, ZeroIsAPlace
  <2>2. q[0].status = DMA_ACTIVE
    BY DEF Served
  <2>3. i = 0
    BY <1>2, <2>1, <2>2, FrontOfSorted
  <2>4. QED
    BY <2>1, <2>2, <2>3
<1>5. Served(a)
  BY <1>2, <1>3, <1>4 DEF Served
<1>6. QED
  BY <1>1, <1>2, <1>3, <1>4, <1>5

(* Sorting and activating serves any valid queue: a transfer under way     *)
(* stays, and if there is none, one that waits begins.                     *)
LEMMA ActivateServes ==
  ASSUME NEW n \in Nat, NEW q, Valid(q, n)
  PROVE  LET s == Sort(q)
             a == Activate(s)
         IN  /\ Valid(a, n) /\ Served(a)
             /\ \A level : HasLevel(q, level) => HasLevel(a, level)
             /\ a[0].level = s[0].level
             /\ \A i \in Places : q[i].status = DMA_ACTIVE =>
                  /\ ~Activates(s) /\ a[0] = q[i]
                  /\ Ids(a, DMA_ACTIVE) = Ids(q, DMA_ACTIVE)
                  /\ Ids(a, DMA_QUEUED) = Ids(q, DMA_QUEUED)
             /\ (\A i \in Places : q[i].status # DMA_ACTIVE) =>
                  \/ /\ Live(q) = {} /\ ~Activates(s)
                     /\ Ids(a, DMA_ACTIVE) = {} /\ Ids(a, DMA_QUEUED) = {}
                  \/ /\ Live(q) # {} /\ Activates(s) /\ a[0].status = DMA_ACTIVE
                     /\ \E id \in Ids(q, DMA_QUEUED) :
                          /\ Ids(a, DMA_ACTIVE) = {id}
                          /\ Ids(a, DMA_QUEUED) = Ids(q, DMA_QUEUED) \ {id}
<1> DEFINE s == Sort(q)
           a == Activate(s)
<1>1. Rearranged(q, s) /\ Sorted(s) /\ Valid(s, n)
  BY SortIsValid
<1>2. /\ \A i \in Places : \E j \in Places : s[i] = q[j]
      /\ \A j \in Places : \E i \in Places : s[i] = q[j]
      /\ \A status : Ids(s, status) = Ids(q, status)
      /\ \A level : HasLevel(q, level) => HasLevel(s, level)
      /\ Live(s) = {} <=> Live(q) = {}
  BY <1>1, RearrangedIsValid
<1> HIDE DEF s
<1>3. /\ \A i \in Places : s[i].status = DMA_ACTIVE => i = 0
      /\ Live(s) # {} => s[0].status # DMA_FINISHED
      /\ \A i \in Places : s[i].status \in {DMA_FINISHED, DMA_QUEUED, DMA_ACTIVE}
  BY <1>1, FrontOfSorted, StatusOfSound DEF Valid
<1>4. CASE Activates(s)
  <2>1. /\ s[0].status = DMA_QUEUED
        /\ \A i \in Places : s[i].status # DMA_ACTIVE
        /\ a = [s EXCEPT ![0].status = DMA_ACTIVE]
    BY <1>4 DEF Activates, Activate
  <2>2. /\ a = [i \in Places |-> a[i]]
        /\ \A i \in Places : i # 0 => a[i] = s[i]
        /\ a[0] = [s[0] EXCEPT !.status = DMA_ACTIVE]
    BY <1>1, <2>1, ZeroIsAPlace DEF Valid
  <2>3. /\ a[0].status = DMA_ACTIVE /\ a[0].id = s[0].id /\ a[0].level = s[0].level
        /\ Sound(a[0], n)
    BY <1>1, <2>2, ZeroIsAPlace DEF Valid, Sound, Transfers
  <2> HIDE DEF a
  <2>4. \A i \in Places : /\ a[i].id = s[i].id /\ a[i].level = s[i].level
                          /\ i # 0 => a[i].status = s[i].status
                          /\ i # 0 => a[i].status # DMA_ACTIVE
    BY <2>1, <2>2, <2>3
  <2>5. Live(a) = Live(s) /\ 0 \in Live(s)
    BY <2>1, <2>3, <2>4, ZeroIsAPlace DEF Live, DMA_ACTIVE, DMA_QUEUED, DMA_FINISHED
  <2>6. Valid(a, n)
    <3>1. \A i, j \in Live(a) : a[i].id = a[j].id => i = j
      BY <1>1, <2>4, <2>5 DEF Valid, Live
    <3>2. \A i \in Places : Sound(a[i], n)
      BY <1>1, <2>2, <2>3 DEF Valid
    <3>3. QED
      BY <2>2, <2>4, <3>1, <3>2 DEF Valid
  <2>7. Served(a)
    <3> SUFFICES ASSUME NEW x \in Places, NEW y \in Places, x < y
                 PROVE  a[x].status >= a[y].status
      BY <2>3 DEF Served, Sorted
    <3>1. y # 0 /\ a[y].status = s[y].status /\ s[x].status >= s[y].status
      BY <1>1, <2>4, ZeroIsAPlace DEF Sorted
    <3>2. s[y].status \in {DMA_FINISHED, DMA_QUEUED, DMA_ACTIVE}
      BY <1>3
    <3>3. QED
      BY <2>3, <2>4, <3>1, <3>2 DEF DMA_ACTIVE, DMA_QUEUED, DMA_FINISHED
  <2>8. ASSUME NEW level, HasLevel(q, level) PROVE HasLevel(a, level)
    <3>1. PICK i \in Live(s) : s[i].level = level
      BY <1>2, <2>8 DEF HasLevel
    <3>2. i \in Live(a) /\ a[i].level = level
      BY <2>4, <2>5, <3>1 DEF Live
    <3>3. QED
      BY <3>2 DEF HasLevel
  <2>9. \A i \in Places : q[i].status # DMA_ACTIVE
    BY <1>2, <2>1
  <2>10. s[0].id \in Ids(q, DMA_QUEUED)
    <3>1. s[0].id \in Ids(s, DMA_QUEUED)
      BY <2>1, ZeroIsAPlace DEF Ids
    <3>2. QED
      BY <1>2, <3>1
  <2>11. Ids(a, DMA_ACTIVE) = {s[0].id}
    BY <2>3, <2>4, ZeroIsAPlace DEF Ids
  <2>12. Ids(a, DMA_QUEUED) = Ids(s, DMA_QUEUED) \ {s[0].id}
    <3>1. \A i \in Places : s[i].status = DMA_QUEUED /\ s[i].id = s[0].id => i = 0
      BY <1>1, <2>5 DEF Valid, Live, DMA_QUEUED, DMA_FINISHED
    <3>2. a[0].status # DMA_QUEUED
      BY <2>3 DEF DMA_ACTIVE, DMA_QUEUED
    <3>3. QED
      BY <2>4, <3>1, <3>2 DEF Ids
  <2>13. Live(q) # {}
    BY <1>2, <2>5
  <2>14. Ids(a, DMA_QUEUED) = Ids(q, DMA_QUEUED) \ {s[0].id}
    BY <1>2, <2>12
  <2>15. QED
    BY <1>4, <2>3, <2>6, <2>7, <2>8, <2>9, <2>10, <2>11, <2>13, <2>14 DEF a, s
<1>5. CASE ~Activates(s)
  <2>1. a = s
    BY <1>5 DEF Activate
  <2>2. CASE \E i \in Places : q[i].status = DMA_ACTIVE
    <3>1. \A i \in Places : q[i].status = DMA_ACTIVE => s[0] = q[i]
      BY <1>2, <1>3
    <3>2. Served(s)
      BY <1>1, <2>2, <3>1 DEF Served
    <3> HIDE DEF a
    <3>3. QED
      BY <1>1, <1>2, <1>5, <2>1, <2>2, <3>1, <3>2 DEF a, s
  <2>3. CASE \A i \in Places : q[i].status # DMA_ACTIVE
    <3>1. \A i \in Places : s[i].status # DMA_ACTIVE
      BY <1>2, <2>3
    <3>2. s[0].status # DMA_QUEUED
      BY <1>5, <3>1 DEF Activates
    <3>3. Live(s) = {}
      BY <1>3, <3>1, <3>2, ZeroIsAPlace
    <3>4. Served(s) /\ Ids(s, DMA_ACTIVE) = {} /\ Ids(s, DMA_QUEUED) = {}
      BY <1>1, <3>3 DEF Served, Ids, Live, DMA_QUEUED, DMA_ACTIVE, DMA_FINISHED
    <3> HIDE DEF a
    <3>5. QED
      BY <1>1, <1>2, <1>5, <2>1, <2>3, <3>3, <3>4 DEF a, s
  <2>4. QED
    BY <2>2, <2>3
<1>6. QED
  BY <1>4, <1>5

-----------------------------------------------------------------------------
(* The invariant.                                                          *)

Flags == {0, 4, 8, 12, 20, 21, 22}

RegistersTyped ==
  /\ DSTA \subseteq Flags /\ T0 \in BOOLEAN /\ torn \in BOOLEAN
  /\ saved \in [DSTA : SUBSET Flags, T0 : BOOLEAN]
  /\ asked \in 0..MaxTransfers

QueueInv == Valid(queue, asked) /\ Served(queue)

DspInv == ~torn /\ dropped = {} /\ T0 => HasLevel(queue, DspLevel)

IInv == RegistersTyped /\ QueueInv /\ FlaggedIsActive /\ DspInv

Waiting == Ids(queue, DMA_QUEUED)
Serving == Ids(queue, DMA_ACTIVE)

LEMMA FlagsOfActivation ==
  ASSUME NEW q, NEW bus, q[0].level \in 0..DspLevel
  PROVE  /\ ActivateFlags(q, bus) \subseteq Flags
         /\ ~Activates(q) => ActivateFlags(q, bus) = {}
         /\ \A level \in 0..2 : LevelBit(level) \subseteq ActivateFlags(q, bus) =>
              Activates(q) /\ q[0].level = level
BY DEF ActivateFlags, LevelBit, BusBits, Flags, DspLevel

LEMMA LevelBits ==
  /\ \A level \in 0..2 : LevelBit(level) = {4 * (level + 1)} /\ LevelBit(level) # {}
  /\ LevelBit(DspLevel) = {}
  /\ \A level, other \in 0..2 : 4 * (level + 1) \in LevelBit(other) => level = other
  /\ \A level \in 0..2 : 4 * (level + 1) \notin {0, 20, 21, 22}
BY DEF LevelBit, DspLevel

(* A new transfer in a free place. *)
LEMMA InsertIsValid ==
  ASSUME IInv, NEW t, Sound(t, asked + 1), t.status = DMA_QUEUED, t.id = asked + 1,
         Free # {}
  PROVE  LET b == [queue EXCEPT ![FirstFree] = t]
         IN  /\ FirstFree \in Free
             /\ Valid(b, asked + 1)
             /\ Live(b) # {}
             /\ Ids(b, DMA_QUEUED) = Waiting \cup {asked + 1}
             /\ Ids(b, DMA_ACTIVE) = Serving
             /\ \A level : HasLevel(queue, level) \/ t.level = level => HasLevel(b, level)
             /\ Ticking => b[0] = queue[0]
             /\ ~Ticking => Live(queue) = {} /\ \A i \in Places : b[i].status # DMA_ACTIVE
<1>1. FirstFree \in Free
  <2>1. Free \subseteq Nat
    BY ZeroIsAPlace DEF Free
  <2>2. \E i \in Free : \A j \in Free : i <= j
    BY <2>1, LeastNatural
  <2>3. QED
    BY <2>2 DEF FirstFree
<1>2. PICK f \in Places : f = FirstFree /\ queue[f].status = DMA_FINISHED
  BY <1>1 DEF Free
<1> DEFINE b == [queue EXCEPT ![FirstFree] = t]
<1>3. /\ b = [i \in Places |-> b[i]]
      /\ b[f] = t /\ \A i \in Places : i # f => b[i] = queue[i]
  BY <1>2 DEF IInv, QueueInv, Valid
<1> HIDE DEF b
<1>4. asked \in Nat /\ \A i \in Places : Sound(queue[i], asked) /\ queue[i].id \in 0..asked
  BY QueueAssumption DEF IInv, RegistersTyped, QueueInv, Valid, Sound, Transfers
<1>5. \A i \in Places : Sound(queue[i], asked + 1)
  BY <1>4 DEF Sound, Transfers
<1>6. \A i, j \in Live(b) : b[i].id = b[j].id => i = j
  BY <1>3, <1>4 DEF IInv, QueueInv, Valid, Live
<1>7. \A i \in Places : b[i].status = DMA_ACTIVE => queue[i].status = DMA_ACTIVE /\ i # f
  BY <1>3 DEF DMA_ACTIVE, DMA_QUEUED
<1>8. Valid(b, asked + 1)
  BY <1>3, <1>5, <1>6, <1>7 DEF IInv, QueueInv, Valid
<1>9. Live(b) # {}
  BY <1>3 DEF Live, DMA_QUEUED, DMA_FINISHED
<1>10. Ids(b, DMA_QUEUED) = Waiting \cup {asked + 1}
  BY <1>2, <1>3 DEF Ids, Waiting, DMA_QUEUED, DMA_FINISHED
<1>11. Ids(b, DMA_ACTIVE) = Serving
  BY <1>2, <1>3 DEF Ids, Serving, DMA_QUEUED, DMA_FINISHED, DMA_ACTIVE
<1>12. ASSUME NEW level, HasLevel(queue, level) \/ t.level = level PROVE HasLevel(b, level)
  BY <1>2, <1>3, <1>12 DEF HasLevel, Live, DMA_QUEUED, DMA_FINISHED
<1>13. Ticking => b[0] = queue[0]
  BY <1>2, <1>3, ZeroIsAPlace DEF Ticking, DMA_ACTIVE, DMA_FINISHED
<1>14. ~Ticking => Live(queue) = {} /\ \A i \in Places : b[i].status # DMA_ACTIVE
  BY <1>7 DEF IInv, QueueInv, Served, Ticking, Live, DMA_ACTIVE, DMA_FINISHED
<1>15. QED
  BY <1>1, <1>8, <1>9, <1>10, <1>11, <1>12, <1>13, <1>14 DEF b

-----------------------------------------------------------------------------
(* The queue has room for a transfer when the service has.                 *)
LEMMA RoomIsFree ==
  ASSUME IInv
  PROVE  Cardinality(Waiting \cup Serving) < Slots <=> Free # {}
<1> DEFINE T == Waiting \cup Serving
<1>1. T = {queue[i].id : i \in Live(queue)}
  <2>1. \A i \in Places : queue[i].status \in {DMA_FINISHED, DMA_QUEUED, DMA_ACTIVE}
    BY StatusOfSound DEF IInv, QueueInv, Valid
  <2>2. QED
    BY <2>1 DEF Waiting, Serving, Ids, Live, DMA_QUEUED, DMA_ACTIVE, DMA_FINISHED
<1>2. IsFiniteSet(Places) /\ Cardinality(Places) = Slots
  BY FS_Interval, QueueAssumption DEF Places
<1>3. IsFiniteSet(Live(queue)) /\ Cardinality(Live(queue)) <= Slots
      /\ (Cardinality(Live(queue)) = Slots => Live(queue) = Places)
  <2>1. Live(queue) \in SUBSET Places
    BY DEF Live
  <2>2. QED
    BY <1>2, <2>1, FS_Subset
<1>4. Cardinality(T) = Cardinality(Live(queue))
  <2> DEFINE f == [i \in Live(queue) |-> queue[i].id]
  <2>1. f \in Bijection(Live(queue), T)
    BY <1>1 DEF IInv, QueueInv, Valid, Bijection, Injection, Surjection, IsInjective
  <2>2. ExistsBijection(Live(queue), T)
    BY <2>1 DEF ExistsBijection
  <2>3. QED
    BY <1>3, <2>2, FS_Bijection
<1>5. Free = {} <=> Live(queue) = Places
  BY DEF Free, Live
<1>6. Cardinality(Live(queue)) \in Nat
  BY <1>3, FS_CardinalityType
<1>7. Live(queue) = Places => Cardinality(Live(queue)) = Slots
  BY <1>2
<1>8. QED
  BY <1>3, <1>4, <1>5, <1>6, <1>7, QueueAssumption

-----------------------------------------------------------------------------
(* The steps: each keeps the invariant and is a step of the service or     *)
(* none.                                                                   *)

ServiceStep ==
  Service!Ask \/ Service!End \/ UNCHANGED <<asked, Waiting, Serving, answered, dropped>>

LEMMA ServiceNames ==
  /\ Waiting = {queue[i].id : i \in {j \in Places : queue[j].status = DMA_QUEUED}}
  /\ Serving = {queue[i].id : i \in {j \in Places : queue[j].status = DMA_ACTIVE}}
BY DEF Waiting, Serving, Ids

LEMMA ServiceActions ==
  /\ Service!Ask <=>
       /\ asked' = asked + 1
       /\ IF ~(Cardinality(Waiting \cup Serving) < Slots)
          THEN dropped' = dropped \cup {asked'} /\ UNCHANGED <<Waiting, Serving>>
          ELSE IF Serving = {} THEN Serving' = {asked'} /\ UNCHANGED <<Waiting, dropped>>
          ELSE Waiting' = Waiting \cup {asked'} /\ UNCHANGED <<Serving, dropped>>
       /\ UNCHANGED answered
  /\ Service!End <=>
       /\ Serving # {} /\ answered' = answered \cup Serving
       /\ IF Waiting = {} THEN Serving' = {} /\ UNCHANGED Waiting
          ELSE \E id \in Waiting : Serving' = {id} /\ Waiting' = Waiting \ {id}
       /\ UNCHANGED <<asked, dropped>>
<1>1. \A S : Service!Cardinality(S) = Cardinality(S)
  BY DEF Service!Cardinality, Cardinality
<1>2. Service!Ask <=>
       /\ asked' = asked + 1
       /\ IF ~(Cardinality(Waiting \cup Serving) < Slots)
          THEN dropped' = dropped \cup {asked'} /\ UNCHANGED <<Waiting, Serving>>
          ELSE IF Serving = {} THEN Serving' = {asked'} /\ UNCHANGED <<Waiting, dropped>>
          ELSE Waiting' = Waiting \cup {asked'} /\ UNCHANGED <<Serving, dropped>>
       /\ UNCHANGED answered
  BY <1>1, Zenon DEF Service!Ask, Service!HasRoom, Waiting, Serving, Ids
<1>3. Service!End <=>
       /\ Serving # {} /\ answered' = answered \cup Serving
       /\ IF Waiting = {} THEN Serving' = {} /\ UNCHANGED Waiting
          ELSE \E id \in Waiting : Serving' = {id} /\ Waiting' = Waiting \ {id}
       /\ UNCHANGED <<asked, dropped>>
  BY Zenon DEF Service!End, Waiting, Serving, Ids
<1>4. QED
  BY <1>2, <1>3

LEMMA ValidGrows ==
  ASSUME NEW n \in Nat, NEW q, Valid(q, n)
  PROVE  Valid(q, n + 1)
<1>1. \A i \in Places : Sound(q[i], n + 1)
  BY DEF Valid, Sound, Transfers
<1>2. QED
  BY <1>1 DEF Valid

LEMMA IdleHasNoIds ==
  ASSUME Live(queue) = {}
  PROVE  Waiting = {} /\ Serving = {}
BY DEF Live, Waiting, Serving, Ids, DMA_FINISHED, DMA_QUEUED, DMA_ACTIVE

LEMMA TickingServes ==
  ASSUME IInv
  PROVE  /\ Ticking <=> Live(queue) # {}
         /\ Ticking => Serving # {}
BY ZeroIsAPlace
   DEF IInv, QueueInv, Served, Ticking, Live, Serving, Ids, DMA_FINISHED, DMA_ACTIVE

(* What an insertion into queue leads to: a is the queue when everything   *)
(* is sorted, flags are those that scu_dma_sort_activate sets.             *)
LEMMA AfterInsert ==
  ASSUME IInv, asked < MaxTransfers, NEW t, Sound(t, asked + 1), t.status = DMA_QUEUED,
         t.id = asked + 1, Free # {}, NEW bus
  PROVE  LET s == Sort([queue EXCEPT ![FirstFree] = t])
             a == Activate(s)
             flags == ActivateFlags(s, bus)
         IN  /\ Valid(a, asked + 1) /\ Served(a) /\ Live(a) # {}
             /\ \A level : HasLevel(queue, level) \/ t.level = level => HasLevel(a, level)
             /\ flags \subseteq Flags
             /\ \A level \in 0..2 : LevelBit(level) \subseteq DSTA \cup flags /\ ~torn =>
                   a[0].level = level
             /\ IF Serving = {}
                THEN Ids(a, DMA_ACTIVE) = {asked + 1} /\ Ids(a, DMA_QUEUED) = Waiting
                ELSE /\ Ids(a, DMA_ACTIVE) = Serving
                     /\ Ids(a, DMA_QUEUED) = Waiting \cup {asked + 1}
<1> DEFINE b == [queue EXCEPT ![FirstFree] = t]
           s == Sort(b)
           a == Activate(s)
           flags == ActivateFlags(s, bus)
<1>1. asked \in Nat /\ asked + 1 \in Nat
  BY QueueAssumption DEF IInv, RegistersTyped
<1>2. /\ Valid(b, asked + 1) /\ Live(b) # {}
      /\ Ids(b, DMA_QUEUED) = Waiting \cup {asked + 1}
      /\ Ids(b, DMA_ACTIVE) = Serving
      /\ \A level : HasLevel(queue, level) \/ t.level = level => HasLevel(b, level)
      /\ Ticking => b[0] = queue[0]
      /\ ~Ticking => Live(queue) = {} /\ \A i \in Places : b[i].status # DMA_ACTIVE
  BY InsertIsValid
<1> HIDE DEF b
<1>3. /\ Valid(a, asked + 1) /\ Served(a)
      /\ \A level : HasLevel(b, level) => HasLevel(a, level)
      /\ a[0].level = s[0].level
      /\ \A i \in Places : b[i].status = DMA_ACTIVE =>
           /\ ~Activates(s) /\ a[0] = b[i]
           /\ Ids(a, DMA_ACTIVE) = Ids(b, DMA_ACTIVE)
           /\ Ids(a, DMA_QUEUED) = Ids(b, DMA_QUEUED)
      /\ (\A i \in Places : b[i].status # DMA_ACTIVE) =>
           \/ /\ Live(b) = {} /\ ~Activates(s)
              /\ Ids(a, DMA_ACTIVE) = {} /\ Ids(a, DMA_QUEUED) = {}
           \/ /\ Live(b) # {} /\ Activates(s) /\ a[0].status = DMA_ACTIVE
              /\ \E id \in Ids(b, DMA_QUEUED) :
                   /\ Ids(a, DMA_ACTIVE) = {id}
                   /\ Ids(a, DMA_QUEUED) = Ids(b, DMA_QUEUED) \ {id}
  BY <1>1, <1>2, ActivateServes
<1>4. s[0].level \in 0..DspLevel
  BY <1>1, <1>2, SortIsValid, ZeroIsAPlace DEF Valid, Sound, Transfers
<1>5. /\ flags \subseteq Flags
      /\ ~Activates(s) => flags = {}
      /\ \A level \in 0..2 : LevelBit(level) \subseteq flags => s[0].level = level
  BY <1>4, FlagsOfActivation
<1> HIDE DEF flags, s
<1>6. \A level \in 0..2 : LevelBit(level) \subseteq DSTA \cup flags =>
                            LevelBit(level) \subseteq DSTA \/ LevelBit(level) \subseteq flags
  BY LevelBits
<1>7. CASE Ticking
  <2>1. b[0].status = DMA_ACTIVE /\ b[0] = queue[0]
    BY <1>2, <1>7 DEF Ticking
  <2>2. /\ ~Activates(s) /\ a[0] = queue[0]
        /\ Ids(a, DMA_ACTIVE) = Serving /\ Ids(a, DMA_QUEUED) = Waiting \cup {asked + 1}
    BY <1>2, <1>3, <2>1, ZeroIsAPlace
  <2>3. Serving # {}
    BY <1>7, TickingServes
  <2> HIDE DEF a
  <2>4. Live(a) # {}
    BY <2>1, <2>2, ZeroIsAPlace DEF Live, DMA_ACTIVE, DMA_FINISHED
  <2>5. \A level \in 0..2 : LevelBit(level) \subseteq DSTA \cup flags /\ ~torn =>
                              a[0].level = level
    BY <1>5, <2>2 DEF IInv, FlaggedIsActive
  <2>6. QED
    BY <1>2, <1>3, <1>5, <2>2, <2>3, <2>4, <2>5 DEF a, b, s, flags
<1>8. CASE ~Ticking
  <2>1. Waiting = {} /\ Serving = {}
    BY <1>2, <1>8, IdleHasNoIds
  <2>2. /\ a[0].status = DMA_ACTIVE
        /\ Ids(a, DMA_ACTIVE) = {asked + 1} /\ Ids(a, DMA_QUEUED) = Waiting
    <3> HIDE DEF a
    <3>1. PICK id \in Ids(b, DMA_QUEUED) :
            /\ a[0].status = DMA_ACTIVE
            /\ Ids(a, DMA_ACTIVE) = {id}
            /\ Ids(a, DMA_QUEUED) = Ids(b, DMA_QUEUED) \ {id}
      BY <1>2, <1>3, <1>8
    <3>2. QED
      BY <1>2, <2>1, <3>1
  <2> HIDE DEF a
  <2>3. Live(a) # {}
    BY <2>2, ZeroIsAPlace DEF Live, DMA_ACTIVE, DMA_FINISHED
  <2>4. \A level \in 0..2 : LevelBit(level) \subseteq DSTA \cup flags /\ ~torn =>
                              a[0].level = level
    BY <1>3, <1>5, <1>6, <1>8 DEF IInv, FlaggedIsActive
  <2>5. QED
    BY <1>2, <1>3, <1>5, <2>1, <2>2, <2>3, <2>4 DEF a, b, s, flags
<1>9. QED
  BY <1>7, <1>8

LEMMA InsertStep ==
  ASSUME IInv, asked < MaxTransfers, NEW t, Sound(t, asked + 1), t.status = DMA_QUEUED,
         t.id = asked + 1, Insert(t)
  PROVE  IInv' /\ ServiceStep
<1>1. /\ asked \in Nat /\ asked' = asked + 1
      /\ UNCHANGED <<T0, saved, answered, torn, runaway>>
  BY QueueAssumption DEF IInv, RegistersTyped, Insert
<1>2. CASE Free = {}
  <2>1. queue' = Sort(queue) /\ DSTA' = DSTA /\ dropped' = dropped \cup {asked + 1}
    BY <1>2 DEF Insert
  <2>2. 0 \notin Free
    BY <1>2
  <2>3. Ticking
    BY <2>2, TickingServes, ZeroIsAPlace DEF Free, Live
  <2>4. /\ Valid(queue', asked) /\ Served(queue')
        /\ \A status : Ids(queue', status) = Ids(queue, status)
        /\ queue'[0] = queue[0]
    BY <1>1, <2>1, <2>3, SortStaysServed, TickingServes DEF IInv, QueueInv
  <2>5. Valid(queue', asked') /\ Served(queue')
    BY <1>1, <2>4, ValidGrows
  <2>6. Waiting' = Waiting /\ Serving' = Serving
    BY <2>4 DEF Waiting, Serving
  <2>7. RegistersTyped' /\ FlaggedIsActive' /\ DspInv'
    BY <1>1, <2>1, <2>4, QueueAssumption
       DEF IInv, RegistersTyped, FlaggedIsActive, Ticking, DspInv
  <2>8. Service!Ask
    BY <1>1, <1>2, <2>1, <2>6, RoomIsFree, ServiceActions
  <2>9. QED
    BY <2>5, <2>7, <2>8 DEF IInv, QueueInv, ServiceStep
<1>3. CASE Free # {}
  <2> DEFINE s == Sort([queue EXCEPT ![FirstFree] = t])
             a == Activate(s)
             flags == ActivateFlags(s, s[FirstFree].bus)
  <2>1. queue' = Sort(a) /\ DSTA' = DSTA \cup flags /\ dropped' = dropped
    BY <1>3 DEF Insert
  <2>2. /\ Valid(a, asked + 1) /\ Served(a) /\ Live(a) # {}
        /\ \A level : HasLevel(queue, level) \/ t.level = level => HasLevel(a, level)
        /\ flags \subseteq Flags
        /\ \A level \in 0..2 : LevelBit(level) \subseteq DSTA \cup flags /\ ~torn =>
              a[0].level = level
        /\ IF Serving = {}
           THEN Ids(a, DMA_ACTIVE) = {asked + 1} /\ Ids(a, DMA_QUEUED) = Waiting
           ELSE /\ Ids(a, DMA_ACTIVE) = Serving
                /\ Ids(a, DMA_QUEUED) = Waiting \cup {asked + 1}
    BY <1>3, AfterInsert
  <2> HIDE DEF a, flags
  <2>3. /\ Valid(queue', asked') /\ Served(queue')
        /\ \A status : Ids(queue', status) = Ids(a, status)
        /\ \A level : HasLevel(a, level) => HasLevel(queue', level)
        /\ queue'[0] = a[0] /\ a[0].status = DMA_ACTIVE
    BY <1>1, <2>1, <2>2, SortStaysServed DEF Served
  <2>4. RegistersTyped'
    BY <1>1, <2>1, <2>2, QueueAssumption DEF IInv, RegistersTyped
  <2>5. FlaggedIsActive'
    BY <1>1, <2>1, <2>2, <2>3 DEF FlaggedIsActive, Ticking
  <2>6. DspInv'
    BY <1>1, <2>1, <2>2, <2>3 DEF IInv, DspInv
  <2>7. Waiting' = Ids(a, DMA_QUEUED) /\ Serving' = Ids(a, DMA_ACTIVE)
    BY <2>3 DEF Waiting, Serving
  <2>8. Service!Ask
    BY <1>1, <1>3, <2>1, <2>2, <2>7, RoomIsFree, ServiceActions
  <2>9. QED
    BY <2>3, <2>4, <2>5, <2>6, <2>8 DEF IInv, QueueInv, ServiceStep
<1>4. QED
  BY <1>2, <1>3

LEMMA DspStep ==
  ASSUME IInv, DspDma
  PROVE  IInv' /\ ServiceStep
<1>1. PICK n \in DspCounts, bits \in {{}, {20, 22}, {21, 22}} :
        LET t == [New(DspLevel, "none") EXCEPT !.count = n]
            q == Sort(IF Free = {} THEN queue ELSE [queue EXCEPT ![FirstFree] = t])
        IN  /\ queue' = Activate(q)
            /\ DSTA' = DSTA \cup bits \cup {0} \cup ActivateFlags(q, "none")
            /\ dropped' = IF Free = {} THEN dropped \cup {t.id} ELSE dropped
            /\ asked' = asked + 1
  BY DEF DspDma
<1>2. PICK t : t = [New(DspLevel, "none") EXCEPT !.count = n]
  OBVIOUS
<1>3. /\ asked \in Nat /\ asked' = asked + 1 /\ asked < MaxTransfers /\ T0' = TRUE
      /\ UNCHANGED <<saved, answered, torn, runaway>>
  BY QueueAssumption DEF IInv, RegistersTyped, DspDma
<1>4. Sound(t, asked + 1) /\ t.status = DMA_QUEUED /\ t.id = asked + 1 /\ t.level = DspLevel
  BY <1>2, <1>3, DspTransferIsSound
<1>5. ASSUME NEW level \in 0..2, NEW flags, LevelBit(level) \subseteq DSTA \cup bits \cup {0} \cup flags
      PROVE  LevelBit(level) \subseteq DSTA \cup flags
  BY <1>5 DEF LevelBit, DspLevel
<1>6. CASE Free = {}
  <2> DEFINE s == Sort(queue)
             flags == ActivateFlags(s, "none")
  <2>1. /\ queue' = Activate(s) /\ DSTA' = DSTA \cup bits \cup {0} \cup flags
        /\ dropped' = dropped \cup {asked + 1}
    BY <1>1, <1>2, <1>4, <1>6
  <2>2. 0 \notin Free
    BY <1>6
  <2>3. Ticking
    BY <2>2, TickingServes, ZeroIsAPlace DEF Free, Live
  <2>4. /\ Valid(s, asked) /\ Served(s)
        /\ \A status : Ids(s, status) = Ids(queue, status)
        /\ s[0] = queue[0]
    BY <1>3, <2>3, SortStaysServed, TickingServes DEF IInv, QueueInv
  <2> HIDE DEF s
  <2>5. ~Activates(s)
    BY <2>3, <2>4, ZeroIsAPlace DEF Activates, Ticking
  <2>6. queue' = s /\ flags = {}
    BY <2>1, <2>5 DEF Activate, ActivateFlags
  <2> HIDE DEF flags
  <2>7. Valid(queue', asked') /\ Served(queue')
    BY <1>3, <2>4, <2>6, ValidGrows
  <2>8. Waiting' = Waiting /\ Serving' = Serving
    BY <2>4, <2>6 DEF Waiting, Serving
  <2>9. RegistersTyped'
    <3>1. DSTA' \subseteq Flags
      <4>1. bits \subseteq Flags /\ 0 \in Flags
        BY DEF Flags
      <4>2. QED
        BY <2>1, <2>6, <4>1 DEF IInv, RegistersTyped
    <3>2. QED
      BY <1>3, <3>1, QueueAssumption DEF IInv, RegistersTyped
  <2>10. FlaggedIsActive'
    <3>1. \A level \in 0..2 : LevelBit(level) \subseteq DSTA' => LevelBit(level) \subseteq DSTA
      BY <1>5, <2>1, <2>6
    <3>2. QED
      BY <1>3, <2>4, <2>6, <3>1 DEF IInv, FlaggedIsActive, Ticking
  <2>11. DspInv'
    BY <2>1 DEF DspInv
  <2>12. Service!Ask
    BY <1>3, <1>6, <2>1, <2>8, RoomIsFree, ServiceActions
  <2>13. QED
    BY <2>7, <2>9, <2>10, <2>11, <2>12 DEF IInv, QueueInv, ServiceStep
<1>7. CASE Free # {}
  <2> DEFINE s == Sort([queue EXCEPT ![FirstFree] = t])
             a == Activate(s)
             flags == ActivateFlags(s, "none")
  <2>1. queue' = a /\ DSTA' = DSTA \cup bits \cup {0} \cup flags /\ dropped' = dropped
    BY <1>1, <1>2, <1>7
  <2>2. /\ Valid(a, asked + 1) /\ Served(a) /\ Live(a) # {}
        /\ \A level : HasLevel(queue, level) \/ t.level = level => HasLevel(a, level)
        /\ flags \subseteq Flags
        /\ \A level \in 0..2 : LevelBit(level) \subseteq DSTA \cup flags /\ ~torn =>
              a[0].level = level
        /\ IF Serving = {}
           THEN Ids(a, DMA_ACTIVE) = {asked + 1} /\ Ids(a, DMA_QUEUED) = Waiting
           ELSE /\ Ids(a, DMA_ACTIVE) = Serving
                /\ Ids(a, DMA_QUEUED) = Waiting \cup {asked + 1}
    BY <1>3, <1>4, <1>7, AfterInsert
  <2> HIDE DEF a, flags
  <2>3. Valid(queue', asked') /\ Served(queue') /\ a[0].status = DMA_ACTIVE
    BY <1>3, <2>1, <2>2 DEF Served
  <2>4. RegistersTyped'
    <3>1. DSTA' \subseteq Flags
      <4>1. bits \subseteq Flags /\ 0 \in Flags
        BY DEF Flags
      <4>2. QED
        BY <2>1, <2>2, <4>1 DEF IInv, RegistersTyped
    <3>2. QED
      BY <1>3, <3>1, QueueAssumption DEF IInv, RegistersTyped
  <2>5. FlaggedIsActive'
    <3>1. \A level \in 0..2 : LevelBit(level) \subseteq DSTA' =>
                                LevelBit(level) \subseteq DSTA \cup flags
      BY <1>5, <2>1
    <3>2. QED
      BY <1>3, <2>1, <2>2, <2>3, <3>1 DEF FlaggedIsActive, Ticking
  <2>6. DspInv'
    BY <1>4, <2>1, <2>2 DEF DspInv
  <2>7. Waiting' = Ids(a, DMA_QUEUED) /\ Serving' = Ids(a, DMA_ACTIVE)
    BY <2>1 DEF Waiting, Serving
  <2>8. Service!Ask
    BY <1>3, <1>7, <2>1, <2>2, <2>7, RoomIsFree, ServiceActions
  <2>9. QED
    BY <2>3, <2>4, <2>5, <2>6, <2>8 DEF IInv, QueueInv, ServiceStep
<1>8. QED
  BY <1>6, <1>7

(* A word of the transfer in front.                                        *)
LEMMA MoveStep ==
  ASSUME IInv, Tick, ~Ends(queue[0])
  PROVE  IInv' /\ ServiceStep
<1> DEFINE r == Rest(queue[0])
<1>1. /\ Ticking /\ queue' = [queue EXCEPT ![0] = r]
      /\ UNCHANGED <<DSTA, T0, answered, saved, asked, dropped, torn>>
  BY DEF Tick, Rest
<1>2. asked \in Nat /\ Sound(queue[0], asked)
  BY ZeroIsAPlace, QueueAssumption DEF IInv, RegistersTyped, QueueInv, Valid
<1>3. /\ Sound(r, asked)
      /\ r.status = queue[0].status /\ r.id = queue[0].id /\ r.level = queue[0].level
  BY <1>2, RestIsSound
<1> HIDE DEF r
<1>4. /\ queue' = [i \in Places |-> queue'[i]]
      /\ \A i \in Places : /\ queue'[i].status = queue[i].status
                           /\ queue'[i].id = queue[i].id
                           /\ queue'[i].level = queue[i].level
                           /\ Sound(queue'[i], asked)
  BY <1>1, <1>3, ZeroIsAPlace DEF IInv, QueueInv, Valid
<1>5. Live(queue') = Live(queue)
  BY <1>4 DEF Live
<1>6. Valid(queue', asked')
  BY <1>1, <1>4, <1>5 DEF IInv, QueueInv, Valid, Live
<1>7. Served(queue')
  BY <1>4, <1>5, ZeroIsAPlace DEF IInv, QueueInv, Served, Sorted
<1>8. Waiting' = Waiting /\ Serving' = Serving
  BY <1>4 DEF Waiting, Serving, Ids
<1>9. DspInv'
  <2> SUFFICES ASSUME ~torn, dropped = {}, T0 PROVE HasLevel(queue', DspLevel)
    BY <1>1 DEF DspInv
  <2>1. PICK i \in Live(queue) : queue[i].level = DspLevel
    BY DEF IInv, DspInv, HasLevel
  <2>2. i \in Live(queue') /\ queue'[i].level = DspLevel
    BY <1>4, <1>5, <2>1 DEF Live
  <2>3. QED
    BY <2>2 DEF HasLevel
<1>10. FlaggedIsActive' /\ RegistersTyped'
  BY <1>1, <1>4, ZeroIsAPlace DEF IInv, FlaggedIsActive, Ticking, RegistersTyped
<1>11. QED
  BY <1>1, <1>6, <1>7, <1>8, <1>9, <1>10 DEF IInv, QueueInv, ServiceStep

(* The end of the transfer in front.                                       *)
LEMMA EndStep ==
  ASSUME IInv, Tick, Ends(queue[0])
  PROVE  IInv' /\ ServiceStep
<1> DEFINE t == queue[0]
           b == [queue EXCEPT ![0] = Cleared]
           a == Activate(Sort(b))
<1>1. /\ Ticking /\ queue' = a
      /\ DSTA' = DSTA \ ClearedBits(t) /\ T0' = T0After(t)
      /\ answered' = answered \cup {t.id}
      /\ UNCHANGED <<saved, asked, dropped, torn>>
  BY DEF Tick, Finish
<1>2. asked \in Nat /\ Sound(t, asked) /\ t.level \in 0..DspLevel /\ t.status = DMA_ACTIVE
  BY <1>1, ZeroIsAPlace, QueueAssumption
     DEF IInv, RegistersTyped, QueueInv, Valid, Sound, Transfers, Ticking
<1>3. /\ b = [i \in Places |-> b[i]]
      /\ b[0] = Cleared /\ \A i \in Places : i # 0 => b[i] = queue[i]
  BY ZeroIsAPlace DEF IInv, QueueInv, Valid
<1> HIDE DEF b
<1>4. Sound(Cleared, asked) /\ Cleared.status = DMA_FINISHED
  BY <1>2, ClearedIsSound
<1>5. \A i \in Places : b[i].status # DMA_ACTIVE
  BY <1>2, <1>3, <1>4, ZeroIsAPlace
     DEF IInv, QueueInv, Valid, DMA_FINISHED, DMA_ACTIVE
<1>6. Live(b) = Live(queue) \ {0}
  BY <1>3, <1>4 DEF Live
<1>7. Valid(b, asked)
  BY <1>3, <1>4, <1>5, <1>6 DEF IInv, QueueInv, Valid, Live
<1>8. Ids(b, DMA_QUEUED) = Waiting
  BY <1>2, <1>3, <1>4, ZeroIsAPlace DEF Ids, Waiting, DMA_FINISHED, DMA_QUEUED, DMA_ACTIVE
<1>9. Serving = {t.id}
  BY <1>2, ZeroIsAPlace DEF Serving, Ids, IInv, QueueInv, Valid
<1>10. /\ Valid(a, asked) /\ Served(a)
       /\ \A level : HasLevel(b, level) => HasLevel(a, level)
       /\ \/ Live(b) = {} /\ Ids(a, DMA_ACTIVE) = {} /\ Ids(a, DMA_QUEUED) = {}
          \/ \E id \in Ids(b, DMA_QUEUED) :
               /\ Ids(a, DMA_ACTIVE) = {id}
               /\ Ids(a, DMA_QUEUED) = Ids(b, DMA_QUEUED) \ {id}
  BY <1>2, <1>5, <1>7, ActivateServes
<1> HIDE DEF a
<1>11. RegistersTyped'
  BY <1>1 DEF IInv, RegistersTyped, T0After
<1>12. FlaggedIsActive'
  <2>1. ASSUME ~torn, NEW level \in 0..2, LevelBit(level) \subseteq DSTA \ ClearedBits(t)
        PROVE  FALSE
    <3>1. t.level = level
      BY <2>1 DEF IInv, FlaggedIsActive
    <3>2. LevelBit(level) \subseteq ClearedBits(t)
      BY <2>1, <3>1 DEF ClearedBits, DspLevel
    <3>3. QED
      BY <2>1, <3>2, LevelBits
  <2>2. QED
    BY <1>1, <2>1 DEF FlaggedIsActive
<1>13. DspInv'
  <2> SUFFICES ASSUME ~torn, dropped = {}, T0, t.level # DspLevel
               PROVE  HasLevel(a, DspLevel)
    BY <1>1 DEF DspInv, T0After
  <2>1. PICK i \in Live(queue) : queue[i].level = DspLevel
    BY DEF IInv, DspInv, HasLevel
  <2>2. i \in Live(b) /\ b[i].level = DspLevel
    BY <1>3, <1>6, <2>1 DEF Live
  <2>3. QED
    BY <1>10, <2>2 DEF HasLevel
<1>14. Waiting' = Ids(a, DMA_QUEUED) /\ Serving' = Ids(a, DMA_ACTIVE)
  BY <1>1 DEF Waiting, Serving
<1>15. Live(b) = {} => Waiting = {}
  BY <1>8 DEF Live, Ids, DMA_FINISHED, DMA_QUEUED
<1>16. Service!End
  <2>1. CASE Waiting = {}
    BY <1>1, <1>8, <1>9, <1>10, <1>14, <2>1, ServiceActions
  <2>2. CASE Waiting # {}
    BY <1>1, <1>8, <1>9, <1>10, <1>14, <1>15, <2>2, ServiceActions
  <2>3. QED
    BY <2>1, <2>2
<1>17. QED
  BY <1>1, <1>10, <1>11, <1>12, <1>13, <1>16 DEF IInv, QueueInv, ServiceStep

(* Reset, save and load leave the queue alone.                             *)
LEMMA OtherSteps ==
  ASSUME IInv, Reset \/ SaveState \/ LoadState \/ UNCHANGED vars
  PROVE  IInv' /\ ServiceStep
<1>1. UNCHANGED <<queue, asked, answered, dropped>>
  BY DEF Reset, SaveState, LoadState, vars, history
<1>2. UNCHANGED <<Waiting, Serving>> /\ QueueInv'
  BY <1>1 DEF Waiting, Serving, IInv, QueueInv
<1>3. RegistersTyped'
  <2>1. CASE Reset
    BY <2>1 DEF IInv, RegistersTyped, Reset, history
  <2>2. CASE SaveState
    BY <2>2 DEF IInv, RegistersTyped, SaveState, history
  <2>3. CASE LoadState
    BY <2>3 DEF IInv, RegistersTyped, LoadState, history
  <2>4. CASE UNCHANGED vars
    BY <2>4 DEF IInv, RegistersTyped, vars
  <2>5. QED
    BY <2>1, <2>2, <2>3, <2>4
<1>4. FlaggedIsActive'
  BY <1>1, LevelBits DEF IInv, FlaggedIsActive, Ticking, Reset, SaveState, LoadState, vars
<1>5. DspInv'
  BY <1>1 DEF IInv, DspInv, Reset, SaveState, LoadState, vars
<1>6. QED
  BY <1>1, <1>2, <1>3, <1>4, <1>5 DEF IInv, ServiceStep

LEMMA InitHolds == Init => IInv /\ Service!Init
<1> SUFFICES ASSUME Init PROVE IInv /\ Service!Init
  OBVIOUS
<1>1. Sound(Cleared, 0) /\ Cleared.status = DMA_FINISHED
  BY ClearedIsSound
<1>2. queue = [i \in Places |-> Cleared]
  BY DEF Init
<1>3. \A i \in Places : queue[i].status = DMA_FINISHED /\ Sound(queue[i], 0)
  BY <1>1, <1>2
<1>4. Live(queue) = {}
  BY <1>3 DEF Live
<1>5. queue = [i \in Places |-> queue[i]]
  BY <1>2
<1>6. Valid(queue, 0) /\ Served(queue)
  BY <1>3, <1>4, <1>5 DEF Valid, Served, Sorted, DMA_FINISHED, DMA_ACTIVE, Live
<1>7. RegistersTyped /\ FlaggedIsActive /\ DspInv
  <2>1. saved \in [DSTA : SUBSET Flags, T0 : BOOLEAN]
    BY DEF Init
  <2>2. RegistersTyped
    <3>1. DSTA \subseteq Flags /\ T0 \in BOOLEAN /\ torn \in BOOLEAN
      BY DEF Init
    <3>2. asked \in 0..MaxTransfers
      BY QueueAssumption DEF Init
    <3>3. QED
      BY <2>1, <3>1, <3>2 DEF RegistersTyped
  <2>3. FlaggedIsActive /\ DspInv
    BY LevelBits DEF Init, FlaggedIsActive, DspInv
  <2>4. QED
    BY <2>2, <2>3
<1>8. Waiting = {} /\ Serving = {}
  BY <1>4, IdleHasNoIds
<1>9. Service!Init
  BY <1>8, Zenon DEF Init, Service!Init, Waiting, Serving, Ids
<1>10. QED
  BY <1>6, <1>7, <1>9 DEF IInv, QueueInv, Init

LEMMA NextHolds == IInv /\ [Next]_vars => IInv' /\ ServiceStep
<1> SUFFICES ASSUME IInv, [Next]_vars PROVE IInv' /\ ServiceStep
  OBVIOUS
<1>1. CASE WriteEnable
  <2>1. asked \in Nat
    BY QueueAssumption DEF IInv, RegistersTyped
  <2>2. PICK r \in Requests : Insert(Enqueued(r)) /\ asked < MaxTransfers
    BY <1>1 DEF WriteEnable
  <2>3. QED
    BY <2>1, <2>2, RequestIsSound, InsertStep
<1>2. CASE DspDma
  BY <1>2, DspStep
<1>3. CASE Tick
  BY <1>3, MoveStep, EndStep
<1>4. CASE Reset \/ SaveState \/ LoadState \/ UNCHANGED vars
  BY <1>4, OtherSteps
<1>5. QED
  BY <1>1, <1>2, <1>3, <1>4 DEF Next

LEMMA Invariance == Spec => []IInv
<1>1. Init => IInv
  BY InitHolds
<1>2. IInv /\ [Next]_vars => IInv'
  BY NextHolds
<1>3. QED
  BY <1>1, <1>2, PTL DEF Spec

-----------------------------------------------------------------------------
(* The theorems.                                                           *)

(* The places of the queue hold transfers whose counts and table positions *)
(* are in range, and DSTA holds no bit that it does not have.              *)
THEOREM TypesHold == Spec => []TypeOK
<1>1. IInv => TypeOK
  <2> SUFFICES ASSUME IInv PROVE TypeOK
    OBVIOUS
  <2>1. \A i \in Places :
          /\ queue[i].status \in {DMA_FINISHED, DMA_QUEUED, DMA_ACTIVE}
          /\ queue[i].id \in 0..asked /\ queue[i].level \in 0..DspLevel
          /\ queue[i].bus \in Buses
          /\ queue[i].count \in 0..(U32 - 1) /\ queue[i].count_mod_4 \in 0..3
          /\ queue[i].indirect_address \in 0..Len(queue[i].table)
    BY DEF IInv, QueueInv, Valid, Sound, Transfers
  <2>2. asked \in 0..MaxTransfers /\ DSTA \subseteq Flags /\ T0 \in BOOLEAN
    BY DEF IInv, RegistersTyped
  <2>3. \A k \in 0..asked : k \in 0..MaxTransfers
    BY <2>2, QueueAssumption
  <2>4. QED
    BY <2>1, <2>2, <2>3 DEF TypeOK, Flags
<1>2. QED
  BY <1>1, Invariance, PTL

(* A program that polls the bit of a level polls for a transfer that is    *)
(* being served (scu_dma_sort_activate and dma_finish), until a state is   *)
(* loaded under the queue.                                                 *)
THEOREM FlagsAreHonest == Spec => []FlaggedIsActive
<1>1. IInv => FlaggedIsActive
  BY DEF IInv
<1>2. QED
  BY <1>1, Invariance, PTL

(* A DSP that waits for T0 has a transfer in the queue, until one found the*)
(* queue full or a state was loaded under it.                              *)
THEOREM DspIsServed == Spec => []DspWaitsForSomething
<1>1. IInv => DspWaitsForSomething
  BY DEF IInv, DspInv, HasLevel, DspWaitsForSomething
<1>2. QED
  BY <1>1, Invariance, PTL

(* The sorted array implements a set of waiting transfers of which one is  *)
(* served (scu_dma_sort_activate, scu_insert_dma, dma_finish).             *)
THEOREM QueueImplementsService == Spec => ImplementsService
<1>1. Init => Service!Init
  BY InitHolds
<1>2. IInv /\ [Next]_vars => [Service!Next]_(Service!vars)
  <2> SUFFICES ASSUME IInv, [Next]_vars PROVE [Service!Next]_(Service!vars)
    OBVIOUS
  <2>1. Service!Ask \/ Service!End \/ UNCHANGED <<asked, Waiting, Serving, answered, dropped>>
    BY NextHolds DEF ServiceStep
  <2>2. UNCHANGED <<asked, Waiting, Serving, answered, dropped>> => UNCHANGED Service!vars
    BY Zenon DEF Service!vars, Waiting, Serving, Ids
  <2>3. QED
    BY <2>1, <2>2 DEF Service!Next
<1>3. QED
  BY <1>1, <1>2, Invariance, PTL DEF Spec, ImplementsService, Service!Spec
=============================================================================
