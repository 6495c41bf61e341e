------------------------- MODULE MCMediaTransaction -------------------------
EXTENDS MediaTransaction
=============================================================================
