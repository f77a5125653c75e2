----------------------- MODULE MCVideoTranscoderProxy -----------------------
(***************************************************************************)
(* Model-checking instance of VideoTranscoderProxy.  The C int is scaled  *)
(* to 3 bits (handles -4..3), so two sessions stay below INT_MAX; one     *)
(* queued fragment and one queued packet per session.                     *)
(***************************************************************************)
EXTENDS VideoTranscoderProxy

MCStatsLens == {5, 6}
=============================================================================
