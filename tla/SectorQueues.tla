---------------------------- MODULE SectorQueues ----------------------------
(***************************************************************************)
(* What the CD block's sector buffer promises its host: every partition is *)
(* a queue of sectors.  A sector is in at most one place of one queue, new *)
(* sectors join at the end, and sectors leave as a contiguous range, whole *)
(* queues at once, or all together.  A host that deletes what is not there *)
(* breaks the promise, until every queue is emptied.                       *)
(***************************************************************************)
EXTENDS Integers, Sequences

CONSTANTS Partitions, Blocks

VARIABLES queue, broken

Init == queue = [p \in Partitions |-> <<>>] /\ broken = FALSE

Distinct(q) ==
  \A p, r \in Partitions : \A i \in DOMAIN q[p], j \in DOMAIN q[r] :
    q[p][i] = q[r][j] => p = r /\ i = j

(* new is q with sectors joined to the end of the queue of p. *)
Stored(q, new, p) ==
  /\ Len(new[p]) > Len(q[p])
  /\ \A r \in Partitions \ {p} : new[r] = q[r]
  /\ \A i \in DOMAIN q[p] : new[p][i] = q[p][i]
  /\ \A i \in DOMAIN new[p] : new[p][i] \in Blocks
  /\ Distinct(new)

(* new is q without n sectors of p from position i on; the others close    *)
(* the gap.                                                                *)
Deleted(q, new, p, i, n) ==
  /\ Len(new[p]) = Len(q[p]) - n
  /\ new = [q EXCEPT ![p] = [k \in 1..(Len(@) - n) |-> IF k <= i THEN @[k] ELSE @[k + n]]]

Next ==
  LET q   == queue
      new == queue'
  IN  \/ /\ ~broken /\ ~broken'
         /\ \E p \in Partitions :
              \/ Stored(q, new, p)
              \/ \E n \in 1..Len(q[p]) : \E i \in 0..(Len(q[p]) - n) : Deleted(q, new, p, i, n)
      \/ new = [p \in Partitions |-> <<>>] /\ (broken' => broken)
      \/ broken'

Spec == Init /\ [][Next]_<<queue, broken>>
=============================================================================
