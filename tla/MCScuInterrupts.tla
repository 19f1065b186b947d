-------------------------- MODULE MCScuInterrupts --------------------------
(* Bounds for ScuInterrupts: the line interrupt, timer 0 and the end of a  *)
(* DMA level that they start, and the NMI.                                 *)
EXTENDS ScuInterrupts

MCEvents == {HBlankIN}

MCCpuSources == {[vector |-> 11, level |-> 16]}

MCMasks == {{}, {3}, {2, 10}}
=============================================================================
