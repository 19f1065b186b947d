--------------------------- MODULE MCSmpcCommands ---------------------------
(* Bounds for SmpcCommands: data that fits one packet, that needs two for  *)
(* port 1, and that needs two for port 2.                                  *)
EXTENDS SmpcCommands

MCPorts == {<<1, 1>>, <<3, 2>>, <<1, 3>>}
=============================================================================
