-------------------------------- MODULE MCCa --------------------------------
EXTENDS Ca
=============================================================================
