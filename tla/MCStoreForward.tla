--------------------------- MODULE MCStoreForward ---------------------------
(* An instance of StoreForward for TLC: two readings, of which a batch      *)
(* holds one or both, and the capped buffer one.                            *)
EXTENDS StoreForward
CONSTANTS r1, r2
MCReading == {r1, r2}
MCStamp == {1, 2}
=============================================================================
