--------------------------- MODULE MCWifiStation ---------------------------
(* Model checking WifiStation: the queue has room for one event more than  *)
(* the three the properties promise are enough.                            *)
EXTENDS WifiStation
=============================================================================
