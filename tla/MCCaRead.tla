------------------------------ MODULE MCCaRead ------------------------------
EXTENDS CaRead
=============================================================================
