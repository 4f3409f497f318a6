--------------------------- MODULE MCDeviceCommands ---------------------------
(***************************************************************************)
(* Two commands: the halves of a calibration, a calibration and a change of *)
(* configuration, or two changes.  One undelivered result fits, so the      *)
(* second pushes the first out.                                             *)
(***************************************************************************)
EXTENDS DeviceCommands, TLC

CONSTANTS c1, c2

MCAsks == { (c1 :> "start") @@ (c2 :> "finish"), (c1 :> "start") @@ (c2 :> "config"),
            (c1 :> "config") @@ (c2 :> "config") }
=============================================================================
