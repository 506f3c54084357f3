-------------------------- MODULE MCSettlement --------------------------
EXTENDS Settlement
=============================================================================
