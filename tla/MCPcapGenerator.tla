--------------------------- MODULE MCPcapGenerator ---------------------------
(* A small instance of PcapGenerator. *)
EXTENDS PcapGenerator

CONSTANTS r1, r2, r3

ThreeRuns == {r1, r2, r3}
=============================================================================
