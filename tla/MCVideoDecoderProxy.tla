------------------------ MODULE MCVideoDecoderProxy ------------------------
(***************************************************************************)
(* Model-checking instance of VideoDecoderProxy.  The C int is scaled     *)
(* down to 3 bits (handles -4..3): three sessions reach INT_MAX without   *)
(* passing it (the counter-wrap run uses 2 bits instead); one queued      *)
(* fragment, and Java stats arrays shorter than, equal to and longer than *)
(* the slots the proxy copies.                                            *)
(***************************************************************************)
EXTENDS VideoDecoderProxy

MCIntBits == 3
MCStatsLens == {5, 6, 8}
=============================================================================
