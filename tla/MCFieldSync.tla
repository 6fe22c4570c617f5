---------------------------- MODULE MCFieldSync ----------------------------
(* TLC instances of FieldSync. *)
EXTENDS FieldSync

CONSTANTS t1, t2
=============================================================================
