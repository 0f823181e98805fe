------------------------------ MODULE MCClient ------------------------------
EXTENDS ClientProperties, TLC
=============================================================================
