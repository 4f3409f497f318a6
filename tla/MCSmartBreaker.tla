--------------------------- MODULE MCSmartBreaker ---------------------------
(***************************************************************************)
(* One relay channel, in series with the load, and bindings that differ in  *)
(* the vendor, the channel and the fail-safe: one of them incomplete.       *)
(***************************************************************************)
EXTENDS SmartBreaker

Smart1(mode) == [vendor |-> "ableedge", bound |-> TRUE, ch |-> 1, mode |-> mode]

McBinding ==
    {Smart1(Off), Smart1(On),
     [vendor |-> "ableedge", bound |-> FALSE, ch |-> 0, mode |-> HoldLast],
     [vendor |-> "relay_only", bound |-> FALSE, ch |-> 1, mode |-> Off]}
=============================================================================
