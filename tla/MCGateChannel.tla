--------------------------- MODULE MCGateChannel ---------------------------
EXTENDS GateChannel, TLC
=============================================================================
