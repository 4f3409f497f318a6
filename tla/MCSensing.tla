------------------------------ MODULE MCSensing ------------------------------
(***************************************************************************)
(* The measuring side for TLC: the sampler with its probes and publishers,  *)
(* the analog board with its two calibration writers, and the GPS receiver  *)
(* with the clock.  The three share no variable, so a behaviour of the run  *)
(* is a behaviour of one of them: `part` says which, and the others stay    *)
(* in one initial state.                                                    *)
(***************************************************************************)
EXTENDS Sampling, Probes, Position

CONSTANTS a, b
VARIABLE part

MCConn == {a, b}
MCLevel == {"low", "high"}
MCNoValue == "none"
MCLate == {0, 1}
MCCoef == {"c1", "c2"}
MCFactory == "factory"

all == <<part, vars, probeVars, posVars>>

Parts == {"sampling", "probes", "position"}

\* One initial state of each, for the parts that do not move.
AtRest(p) ==
    CASE p = "sampling" -> mqtt = Off /\ ~homekit
      [] p = "probes" -> /\ board
                         /\ want = [ph |-> TRUE, orp |-> FALSE, digital |-> FALSE]
                         /\ file = [coef |-> Factory, stamp |-> FALSE]
      [] p = "position" -> ~sky /\ awake /\ right

SensingInit ==
    /\ Init /\ ProbeInit /\ PosInit
    /\ part \in Parts
    /\ \A p \in Parts \ {part} : AtRest(p)

\* Nothing moves but part p.
Only(p) ==
    /\ part = p /\ UNCHANGED part
    /\ IF p = "sampling" THEN TRUE ELSE UNCHANGED vars
    /\ IF p = "probes" THEN TRUE ELSE UNCHANGED probeVars
    /\ IF p = "position" THEN TRUE ELSE UNCHANGED posVars

SensingNext ==
    \/ Only("sampling") /\ Next
    \/ Only("probes") /\ ProbeNext
    \/ Only("position") /\ PosNext

SensingSpec ==
    /\ SensingInit
    /\ [][SensingNext]_all
    /\ WF_all(Only("probes") /\ Minute)
    /\ WF_all(Only("probes") /\ Retry)
=============================================================================
