--------------------------- MODULE MCRoombaBrain ---------------------------
(* The whole program with two requests: two POSTs, or a POST and a GET.    *)
EXTENDS RoombaBrain

NoGets == {}
MCGets == {2}
=============================================================================
