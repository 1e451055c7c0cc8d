------------------------------ MODULE MCDmxdev ------------------------------
(***************************************************************************)
(* Dmxdev for TLC.  The .cfg files give the table sizes; Timeouts = {} or  *)
(* Decoders = {} leaves out section or PES filters.                        *)
(***************************************************************************)
EXTENDS Dmxdev, TLC

PidSymmetry == Permutations(Pids)

\* The properties speak of behaviours without a late timeout or a failed start
\* that leaves something behind.
StaysSound == Sound

\* What a filter that is not started holds in feed.sec and filter.sec is read by
\* no step until a start has set it, unless a late timeout marks it TIMEDOUT,
\* which StaysSound cuts: states that differ only there are one.
Live(r) == IF r.state < GO THEN [r EXCEPT !.sec = NULL, !.sf = NULL] ELSE r

LiveView == <<[sys EXCEPT !.flt = [f \in Filters |-> Live(sys.flt[f])]], open, late>>
=============================================================================
