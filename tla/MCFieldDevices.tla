--------------------------- MODULE MCFieldDevices ----------------------------
(***************************************************************************)
(* The parts that drive one device or one service each, for TLC: the MAC    *)
(* layer, the transceiver, the RS485 bus, the flow meters, the clock repair *)
(* and the setup page's server.  They share no variable, so a behaviour of  *)
(* the run is a behaviour of one of them: `part` says which, and the others *)
(* stay in one initial state.                                               *)
(***************************************************************************)
EXTENDS MacLayer, Transceiver, Rs485, FlowMeter, ClockRepair, Portal

CONSTANTS n1, n2
VARIABLE part

MCBlocks == {"b0", "b1"}
MCSubBand == "b1"
MCValues == {10}
MCDev == {"orp", "chlorine"}
MCWidth == [d \in MCDev |-> IF d = "orp" THEN 7 ELSE 9]
MCAddr == {1, 2}
MCSlots == {"t1", "t2"}
MCSsid == {n1, n2}

all == <<part, macLayerVars, chipVars, busVars, flowVars, repairVars, portalVars>>

Parts == {"mac", "chip", "bus", "flow", "repair", "portal"}

\* One initial state of each, for the parts that do not move.
AtRest(p) ==
    CASE p = "mac" -> size = Payload(10, FALSE)
      [] p = "bus" -> on = {} /\ lives["orp"] = 1 /\ \A d \in Dev : conf[d] = Unset
      [] p = "flow" -> unit = "m3"
      [] p = "repair" -> now = Today
      [] OTHER -> TRUE

DevicesInit ==
    /\ MacInit /\ ChipInit /\ BusInit /\ FlowInit /\ ClockInit /\ PortalInit
    /\ part \in Parts
    /\ \A p \in Parts \ {part} : AtRest(p)

\* Nothing moves but part p.
Only(p) ==
    /\ part = p /\ UNCHANGED part
    /\ IF p = "mac" THEN TRUE ELSE UNCHANGED macLayerVars
    /\ IF p = "chip" THEN TRUE ELSE UNCHANGED chipVars
    /\ IF p = "bus" THEN TRUE ELSE UNCHANGED busVars
    /\ IF p = "flow" THEN TRUE ELSE UNCHANGED flowVars
    /\ IF p = "repair" THEN TRUE ELSE UNCHANGED repairVars
    /\ IF p = "portal" THEN TRUE ELSE UNCHANGED portalVars

DevicesNext ==
    \/ Only("mac") /\ MacNext
    \/ Only("chip") /\ RadioNext
    \/ Only("bus") /\ BusNext
    \/ Only("flow") /\ FlowNext
    \/ Only("repair") /\ ClockNext
    \/ Only("portal") /\ PortalNext

DevicesSpec ==
    /\ DevicesInit
    /\ [][DevicesNext]_all
    /\ WF_all(Only("mac") /\ WorkerSteps)
    /\ WF_all(Only("mac") /\ Joins)
    /\ WF_all(Only("portal") /\ LoopTurns)

\* However the receive windows drifted apart, the link comes back (MacLayer,
\* LinkComesBack), in the behaviours of that part.
LinkReturns == part = "mac" => LinkComesBack
=============================================================================
