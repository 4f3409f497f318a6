---------------------------- MODULE ReleaseTrial -----------------------------
(***************************************************************************)
(* What the update agent promises, without saying how: the unit runs from a *)
(* complete release.  Another one is taken into use on trial; it is         *)
(* accepted if its service can get active, or else the unit goes back to    *)
(* the very release it ran from before.  The promise survives the deaths of *)
(* the agent, and has two licences: while the note of the trial is not what *)
(* the agent meant it to be the unit runs from some complete release, and   *)
(* once an agent has gone by such a note all bets are off.                  *)
(***************************************************************************)
CONSTANT Version          \* releases

VARIABLES
    used,                 \* the release the unit runs from
    whole,                \* the complete releases on the unit
    fit,                  \* releases whose service can get active
    back,                 \* the release to go back to while another is on trial
    muddled,              \* TRUE while the note of the trial is not to be trusted
    astray                \* TRUE once an agent trusted it

trialVars == <<used, whole, fit, back, muddled, astray>>

Init ==
    /\ whole \subseteq Version /\ used \in whole /\ fit \subseteq Version
    /\ back = {} /\ ~muddled /\ ~astray

\* Releases come and go, but for the one in use and the one to go back to.
Stock ==
    /\ {used} \cup back \subseteq whole'
    /\ UNCHANGED <<used, fit, back, muddled, astray>>

\* A complete release is taken into use on trial.
Try(v) ==
    /\ back = {}
    /\ v \in whole \ {used}
    /\ used' = v /\ back' = {used}
    /\ UNCHANGED <<whole, fit, muddled, astray>>

\* The trial is over, and the release stays.
Accept ==
    /\ back # {}
    /\ used \in fit
    /\ back' = {}
    /\ UNCHANGED <<used, whole, fit, muddled, astray>>

\* The trial is over, and the unit is back where it was.
Undo ==
    /\ used' \in back
    /\ back' = {}
    /\ UNCHANGED <<whole, fit, muddled, astray>>

\* The note of the trial is spoilt, stays so, or is put right.
Muddle ==
    /\ muddled \/ muddled'
    /\ used' \in whole' /\ (back' \subseteq whole' \/ muddled')
    /\ UNCHANGED <<fit, astray>>

\* An agent goes by a note it should not trust; then anything goes.
Stray == (muddled \/ astray) /\ astray'

Next ==
    \/ ~muddled /\ (Stock \/ (\E v \in whole : Try(v)) \/ Accept \/ Undo)
    \/ Muddle
    \/ Stray

Spec == Init /\ [][Next]_trialVars
=============================================================================
