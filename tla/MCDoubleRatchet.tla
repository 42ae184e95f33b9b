-------------------------- MODULE MCDoubleRatchet --------------------------
EXTENDS DoubleRatchet
=============================================================================
