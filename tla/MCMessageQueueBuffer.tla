------------------------ MODULE MCMessageQueueBuffer ------------------------
(* The message queue buffer with two tasks that log and the Service task.   *)
EXTENDS MessageQueueBuffer, TLC

CONSTANTS w1, w2, service

LoggingTasks == Permutations({w1, w2})
=============================================================================
