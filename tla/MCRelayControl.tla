--------------------------- MODULE MCRelayControl ---------------------------
(***************************************************************************)
(* Instances for TLC: two channels and the rules of one probe, in the         *)
(* interleavings of RelayControl; and the rules of one relay on the clock of  *)
(* RuleLimits.  The two models share no variable, and a behaviour of the run  *)
(* is one of either: `part` says which, and the other stays in one initial    *)
(* state.                                                                 *)
(*                                                                         *)
(* The clock has days of two hours, so that the same hour comes again; an     *)
(* hour of six units has room for a budget of two to be used up, the cooldown *)
(* to pass, and a rule to ask again in the same hour.                         *)
(***************************************************************************)
EXTENDS RelayControl, RuleLimits, TLC

CONSTANTS t1, t2
VARIABLE part

MCChannel == {1, 2}
MCCommanded == {1}
MCTimer == {t1, t2}
MCDuration == {3}
MCRules == << [sensor |-> "ph",  relay |-> 1, on |-> TRUE,  dur |-> 3],
             [sensor |-> "ph", relay |-> 1, on |-> FALSE, dur |-> 0] >>
Symmetry == Permutations(MCTimer)

\* A timed rule, one that holds until the condition clears, and its OFF rule.
MCPolicy == << [on |-> TRUE, dur |-> 2], [on |-> TRUE, dur |-> 0], [on |-> FALSE, dur |-> 0] >>
MCAsked == {0, 2}

RelayInit ==
    /\ part \in {"cycle", "clock"}
    /\ ControlInit /\ (part = "cycle" \/ relay = 0)
    /\ LimitsInit

RelayNext ==
    \/ part = "cycle" /\ ControlNext /\ UNCHANGED <<part, limitVars>>
    \/ part = "clock" /\ LimitsNext /\ UNCHANGED <<part, vars>>

RelaySpec == RelayInit /\ [][RelayNext]_<<part, vars, limitVars>>
=============================================================================
