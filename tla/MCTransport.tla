---------------------------- MODULE MCTransport ----------------------------
(* The instance of Transport: a record whose second code point has two     *)
(* bytes and one of a single code point of three, over paths that take     *)
(* less and more than they do; endpoint 1 is off the device's subnet.      *)
EXTENDS Transport

MCRecords == {<<"1", "2", "c">>, <<"3", "c", "c">>}
MCPaths == {[mtu |-> 1, stated |-> 1], [mtu |-> 3, stated |-> 2], [mtu |-> 4, stated |-> 4]}
MCOffSubnet == {1}
=============================================================================
