------------------------------- MODULE MCRbuf -------------------------------
(* The ring buffer for TLC. *)
EXTENDS Rbuf

\* Behaviours in which the callback's flush keeps out of the reader's accesses.
Apart == ~raced
=============================================================================
