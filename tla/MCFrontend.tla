----------------------------- MODULE MCFrontend -----------------------------
EXTENDS Frontend
(* beyond these no property says anything *)
Sane == ~reinit /\ ~torn
=============================================================================
