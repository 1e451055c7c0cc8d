------------------------------- MODULE MCIrq -------------------------------
(***************************************************************************)
(* Irq for TLC: vectors 47 and 48 of the external adapters and a foreign   *)
(* bit of the same status word.                                            *)
(***************************************************************************)
EXTENDS Irq
=============================================================================
