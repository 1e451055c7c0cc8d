------------------------------ MODULE MCZigzag ------------------------------
EXTENDS Zigzag
Zigzags == {<<0, 0>>, <<2, 3>>}
InRange == 90..110
(* bound: each lock at a drift may move the frequency in the cache further *)
(* when the driver reports it                                              *)
Near == \E f \in Freqs \cup {0} : cache.frequency - f \in -2..2
=============================================================================
