------------------------------ MODULE MCLongRun ------------------------------
(***************************************************************************)
(* Three parts that run for years on small counters, for TLC: the           *)
(* supervisor with its worker threads, the LoRaWAN session, and the status   *)
(* file on the card.  They share no variable, so a behaviour of the run is a  *)
(* behaviour of one of them: `part` says which, and the others stay in one    *)
(* initial state.                                                          *)
(*                                                                         *)
(* Two workers, one unit of time 20 seconds: one whose interval is 20       *)
(* seconds or, after a reload, 80, and the register worker, whose due date   *)
(* is 20 or 60 seconds away.  A step takes up to a minute, which is as long  *)
(* as the shortest deadline and the last backoff.  A session has two joins, two frames    *)
(* each way, a link check with every uplink, and one DevNonce more than the *)
(* joins and the crash between them can use up, so that wrapping around is  *)
(* no repetition.  The status file has a writer of each user, one that says  *)
(* one line and one that says two, of which one is a history.               *)
(***************************************************************************)
EXTENDS Supervision, LoRaSession, BootStatus

CONSTANTS sampling, register, firmware, accessPoint
VARIABLE part

McCadence == [w \in Worker |-> IF w = register THEN {1, 3} ELSE {1, 4}]

\* The first and the last entry of _BACKOFF_S.
McBackoff == <<1, 3>>

McSays == [w \in Writer |-> IF w = firmware THEN {"adc"} ELSE {"hotspot", "joins"}]

\* One word for each line: what it was before is another.
McValue == [l \in Line |-> {"said"}]

ASSUME StepsAssumption == StepsAreShort

LongInit ==
    /\ part \in {"threads", "session", "card"}
    /\ StatusInit
    /\ SuperInit /\ (part = "threads" \/ cadence[sampling] = 1)
    /\ Init

LongNext ==
    \/ part = "threads" /\ SuperNext /\ UNCHANGED <<part, vars, statusVars>>
    \/ part = "session" /\ Next /\ UNCHANGED <<part, superVars, statusVars>>
    \/ part = "card" /\ StatusNext /\ UNCHANGED <<part, superVars, vars>>

LongSpec == LongInit /\ [][LongNext]_<<part, superVars, vars, statusVars>>
=============================================================================
