--------------------------- MODULE MCConfiguration --------------------------
(* A hot key (the irrigation hold), a restart-required one (the RS485 flow    *)
(* meter), and the two that are set on the unit; a good document, one with a  *)
(* key the cloud may not set, one that names only the hot key.                *)
EXTENDS Configuration

MCRemote == {"hold", "flow"}
MCHot == {"hold"}
MCLocal == {"fit", "key"}
MCRange == {0, 1}
MCDocs == << [hold |-> 1, flow |-> 1],
             [hold |-> 0, key |-> 1],
             [hold |-> 1] >>
=============================================================================
