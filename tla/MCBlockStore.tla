---------------------------- MODULE MCBlockStore ----------------------------
(* BlockStore on a few short blocks.                                          *)
EXTENDS BlockStore

CONSTANTS none

MCRecordSizes == {2, 3}
MCPolicies == {"OLDEST", "NEWEST"}
=============================================================================
