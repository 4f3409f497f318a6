--------------------------- MODULE WaterRegister ----------------------------
(***************************************************************************)
(* What a totalizer promises, without saying how: it never shows more water *)
(* than has flowed, and it never goes back.  The one licence: after a       *)
(* reading that could not be kept, the next may be anything that has flowed. *)
(***************************************************************************)
EXTENDS Naturals

VARIABLES
    flowed,               \* the water that has flowed
    reading,              \* the register as it was last reported
    unkept                \* TRUE while that reading is not kept

registerVars == <<flowed, reading, unkept>>

Init == flowed = 0 /\ reading = 0 /\ unkept = FALSE

Flow == flowed' = flowed + 1 /\ UNCHANGED <<reading, unkept>>

Show ==
    /\ reading' \in 0..flowed
    /\ unkept \/ reading <= reading'
    /\ unkept' \in BOOLEAN
    /\ UNCHANGED flowed

Next == Flow \/ Show

Spec == Init /\ [][Next]_registerVars
=============================================================================
