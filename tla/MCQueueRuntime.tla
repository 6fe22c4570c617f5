--------------------------- MODULE MCQueueRuntime ---------------------------
(* TLC instances of QueueRuntime: the key of each message. *)
EXTENDS QueueRuntime, TLC

CONSTANTS m1, m2, m3, k1, k2, k3

\* Every message under a key of its own.
KeyPerMessage == [m \in Msgs |-> IF m = m1 THEN k1 ELSE IF m = m2 THEN k2 ELSE k3]
=============================================================================
