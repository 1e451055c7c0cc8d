------------------------------ MODULE MCTs2dtl ------------------------------
EXTENDS Ts2dtl
=============================================================================
