--------------------------- MODULE MCAudioStream ---------------------------
EXTENDS AudioStreamCallbacks
=============================================================================
