----------------------------- MODULE DmaService -----------------------------
(***************************************************************************)
(* What the DMA queue of the SCU promises: transfers wait, one is served   *)
(* at a time, in no particular order, and the next one begins when it      *)
(* ends.  A transfer that finds no room is dropped.                        *)
(***************************************************************************)
EXTENDS Integers, FiniteSets

CONSTANT capacity

VARIABLES asked, waiting, serving, answered, dropped

vars == <<asked, waiting, serving, answered, dropped>>

Init ==
  asked = 0 /\ waiting = {} /\ serving = {} /\ answered = {} /\ dropped = {}

HasRoom == Cardinality(waiting \cup serving) < capacity

Ask ==
  /\ asked' = asked + 1
  /\ IF ~HasRoom THEN dropped' = dropped \cup {asked'} /\ UNCHANGED <<waiting, serving>>
     ELSE IF serving = {} THEN serving' = {asked'} /\ UNCHANGED <<waiting, dropped>>
     ELSE waiting' = waiting \cup {asked'} /\ UNCHANGED <<serving, dropped>>
  /\ UNCHANGED answered

End ==
  /\ serving # {} /\ answered' = answered \cup serving
  /\ IF waiting = {} THEN serving' = {} /\ UNCHANGED waiting
     ELSE \E id \in waiting : serving' = {id} /\ waiting' = waiting \ {id}
  /\ UNCHANGED <<asked, dropped>>

Next == Ask \/ End

Spec == Init /\ [][Next]_vars
=============================================================================
