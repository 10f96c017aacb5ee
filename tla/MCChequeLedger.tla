--------------------------- MODULE MCChequeLedger ---------------------------
EXTENDS ChequeLedger, TLC
CONSTANTS p1, p2
=============================================================================
