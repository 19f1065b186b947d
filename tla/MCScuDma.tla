------------------------------ MODULE MCScuDma ------------------------------
(* Bounds for ScuDma: transfers of both kinds and of every bus.  The first  *)
(* table changes the bus between its entries, the second has the odd end    *)
(* and the third the empty entry that scu.c does not foresee.               *)
EXTENDS ScuDma

Direct(level, bus, count) ==
  [level |-> level, bus |-> bus, count |-> count, table |-> <<>>]

Indirect(level, table) ==
  [level |-> level, bus |-> "none", count |-> 0, table |-> table]

MCEntry(count, bus) == [count |-> count, bus |-> bus]

MCRequests ==
  {Direct(0, "A_TO_B", 3), Direct(1, "none", 4),
   Indirect(0, <<MCEntry(2, "other"), MCEntry(4, "A_TO_B"), MCEntry(4, "none")>>),
   Indirect(1, <<MCEntry(2, "A_TO_B"), MCEntry(1, "other")>>),
   Indirect(1, <<MCEntry(4, "none"), MCEntry(0, "other")>>)}
=============================================================================
