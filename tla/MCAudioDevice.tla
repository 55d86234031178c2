--------------------------- MODULE MCAudioDevice ---------------------------
EXTENDS AudioDevice
=============================================================================
