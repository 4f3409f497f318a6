---------------------------- MODULE UnitIdentity ----------------------------
(***************************************************************************)
(* What the identity of a unit promises, without saying how: the card gets  *)
(* one, once, and keeps it; a program is given that one or none; and the    *)
(* cloud binds that one, for good.  There is no licence: no kill and no     *)
(* power cut lets a card change its identity.                               *)
(***************************************************************************)
CONSTANT Id               \* identities a generator may draw

VARIABLES
    held,                 \* the identity on the card: none or one
    given,                \* the identities the running programs go by
    bound                 \* the identity of this unit's in the cloud: none or one

idVars == <<held, given, bound>>

Init == held = {} /\ given = {} /\ bound = {}

Draw(i) == held = {} /\ held' = {i} /\ UNCHANGED <<given, bound>>

\* Programs read the card, or stop.
Read == given' \subseteq held /\ UNCHANGED <<held, bound>>

\* The cloud binds what a program has shown it.
Bind(i) == bound = {} /\ i \in given /\ bound' = {i} /\ UNCHANGED <<held, given>>

Next == Read \/ \E i \in Id : Draw(i) \/ Bind(i)

Spec == Init /\ [][Next]_idVars
=============================================================================
