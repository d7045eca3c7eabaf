-------------------------- MODULE MCCircularBuffer --------------------------
(* CircularBuffer on a ring of a few bytes: messages that fill it exactly,    *)
(* that need the wrap marker, that are empty and that no ring could hold.     *)
EXTENDS CircularBuffer

CONSTANTS w1, w2, a, none, noTask

MCTasks == {w1, w2}
MCSizes == {0, 1, 5, 6}
MCPolicies == {"OLDEST", "NEWEST"}
MCReadSizes == {1, 6}
=============================================================================
