-------------------------- MODULE MCPacketFoGProxy --------------------------
(***************************************************************************)
(* Model-checking instance of PacketFoGProxy: a 2-bit int (handles -2..1) *)
(* and one session, so the counter stays below INT_MAX and the unknown    *)
(* handles are -2, -1 and 1; MAX_ETH_PAYLOAD_SIZE scaled to 2, and Java   *)
(* arrays from empty to one byte too long.                                *)
(***************************************************************************)
EXTENDS PacketFoGProxy

\* arrays that fit the stack buffer, up to exactly its size
MCFittingLens == 0 .. 2
\* arrays from empty to one byte longer than the stack buffer
MCAllLens == 0 .. 3
\* sizes from negative to one byte beyond the longest array
MCSizeArgs == -1 .. 4
=============================================================================
