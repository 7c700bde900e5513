---------------------------- MODULE MCPmQueueCodec ---------------------------
(***************************************************************************)
(* Every message of Size words over words that look like a place in the    *)
(* message, past its end, negative or zero.                                *)
(***************************************************************************)
EXTENDS PmQueueCodec

MCValues == -1 .. Size + 1
=============================================================================
