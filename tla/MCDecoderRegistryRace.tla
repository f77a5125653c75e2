----------------------- MODULE MCDecoderRegistryRace -----------------------
EXTENDS DecoderRegistryRace

CONSTANTS c1, g1

\* one control thread, as spec.md section 5 describes the caller, and the
\* grabber thread the decoder's stop and close are written for
MCCallers == {c1}
MCGrabbers == {g1}
=============================================================================
