----------------------------- MODULE ReadingLog -----------------------------
(***************************************************************************)
(* What the store-and-forward path promises, without saying how: a reading *)
(* the sampler recorded is held by the unit until the cloud has given its  *)
(* verdict on it (stored it, or refused it for good).  The one licence to  *)
(* give up a held reading is `capped`, the mode of a unit that reports to  *)
(* nobody and must not fill its disk.                                      *)
(***************************************************************************)
CONSTANT Reading          \* the readings the unit may ever take

VARIABLES
    taken,                \* readings recorded so far
    held,                 \* recorded readings the unit still owes the cloud
    settled,              \* readings the cloud has stored or refused
    shed,                 \* held readings given up to cap the buffer
    capped                \* TRUE while the unit may give up held readings

logVars == <<taken, held, settled, shed, capped>>

Init ==
    /\ taken = {} /\ held = {} /\ settled = {} /\ shed = {}
    /\ capped \in BOOLEAN

\* The sampler records a new reading.
Record(r) ==
    /\ r \notin taken
    /\ taken' = taken \cup {r}
    /\ held' = held \cup {r}
    /\ UNCHANGED <<settled, shed, capped>>

\* The cloud gives its verdict on held readings; the unit may not know yet.
Settle(S) ==
    /\ settled' = settled \cup S
    /\ UNCHANGED <<taken, held, shed, capped>>

\* The unit stops owing readings that are settled.
Release(S) ==
    /\ S \subseteq settled
    /\ held' = held \ S
    /\ UNCHANGED <<taken, settled, shed, capped>>

\* A capped unit gives up held readings.
Shed(S) ==
    /\ capped
    /\ S \subseteq held
    /\ held' = held \ S
    /\ shed' = shed \cup S
    /\ UNCHANGED <<taken, settled, capped>>

\* The unit restarts and decides anew whether it is capped.
Recap ==
    /\ capped' \in BOOLEAN
    /\ UNCHANGED <<taken, held, settled, shed>>

Next ==
    \/ \E r \in Reading : Record(r)
    \/ \E S \in SUBSET taken : Settle(S) \/ Release(S) \/ Shed(S)
    \/ Recap

Spec == Init /\ [][Next]_logVars
=============================================================================
