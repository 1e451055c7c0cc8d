----------------------------- MODULE MCSections -----------------------------
(* Section reassembly for TLC. *)
EXTENDS Sections
=============================================================================
