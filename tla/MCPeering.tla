------------------------------ MODULE MCPeering ------------------------------
(* Instances of Peering for TLC: one peer that is added, removed and added *)
(* again, over two entries of the table.                                   *)
EXTENDS Peering, TLC
=============================================================================
