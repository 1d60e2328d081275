------------------------------- MODULE MCNetRID -------------------------------
(* Two providers and two observers.  On the second pair of tracks the view *)
(* is above the limit for details while both flights are in it, and later  *)
(* above the limit for display.                                            *)
EXTENDS NetRID

MCProviders == <<"sp1", "sp2">>
MCObservers == <<"dp1", "dp2">>
Pair(a, b) == [p \in ProviderSet |-> IF p = "sp1" THEN a ELSE b]
MCTracks == {Pair(<<1, 2, 3, 3>>, <<3, 4, 4, 5>>), Pair(<<1, 2, 3, 3>>, <<3, 4, 6, 8>>)}
=============================================================================
