--------------------------- MODULE MCCs2Commands ---------------------------
(* A program for Cs2Commands: each command, plays that end,  *)
(* repeat, resume and go on for ever, and filters in a row and a circle.   *)
EXTENDS Cs2Commands

MCFilters == {0, 1}
MCDrives == {"disc", "NODISC"}
MCAudio == {2}
MCProgram ==
  {[op |-> o] : o \in {"ask", "toc", "init", "tray", "scan", "search", "stop", "abort"}}
  \cup {[op |-> "seek", fad |-> 1], [op |-> "empty", filter |-> 0],
        [op |-> "reset", flags |-> {"data"}],
        [op |-> "reset", flags |-> {"false", "true", "conditions"}],
        [op |-> "put", filter |-> 0, sectors |-> 1],
        [op |-> "info", filter |-> 0, sectors |-> 0],
        [op |-> "play", start |-> 0, move |-> TRUE, length |-> 2, repeat |-> 1],
        [op |-> "play", start |-> 1, move |-> FALSE, length |-> 1, repeat |-> Forever],
        [op |-> "play", start |-> Same, move |-> TRUE, length |-> 0, repeat |-> -1],
        [op |-> "play", start |-> Pickup, move |-> FALSE, length |-> -1, repeat |-> 1],
        [op |-> "file", fad |-> 0, length |-> 2, filter |-> 0],
        [op |-> "reconnect"],
        [op |-> "false", filter |-> 0, to |-> 0], [op |-> "false", filter |-> 0, to |-> 1],
        [op |-> "accept", filter |-> 0, sectors |-> {}]}
=============================================================================
