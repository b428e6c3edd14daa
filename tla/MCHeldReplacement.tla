------------------------- MODULE MCHeldReplacement -------------------------
EXTENDS HeldReplacement, TLC
=============================================================================
