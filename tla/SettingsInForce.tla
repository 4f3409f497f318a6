-------------------------- MODULE SettingsInForce ---------------------------
(***************************************************************************)
(* What remote settings promise, without saying how: the owner publishes    *)
(* versions; the unit keeps sound ones, later ones over earlier ones; it    *)
(* reads what it kept, every value of it and under that version, and beside  *)
(* it only what was saved on the unit; and it reports the version it reads.  *)
(* So neither the settings nor the reports ever go back to an earlier       *)
(* version.                                                                *)
(***************************************************************************)
EXTENDS Naturals

CONSTANTS
    Docs,                 \* the documents, by version: key -> value
    Sound                 \* the versions that may be kept

VARIABLES
    published,            \* the latest version of the owner's
    saved,                \* who has saved a setting of its own on the unit
    kept,                 \* the version on the unit
    inForce,              \* the version it reads
    values,               \* the values it reads
    own,                  \* whose saved settings are among them
    reported              \* the version it reported last

settingsVars == <<published, saved, kept, inForce, values, own, reported>>

Fits(v, read) == v # 0 => v \in Sound /\ \A k \in DOMAIN Docs[v] : read[k] = Docs[v][k]

Init ==
    /\ published = 0 /\ kept = 0 /\ inForce = 0 /\ reported = 0
    /\ saved = {} /\ own = {}

Publish ==
    /\ published' = published + 1
    /\ UNCHANGED <<saved, kept, inForce, values, own, reported>>

Save ==
    /\ saved \subseteq saved'
    /\ UNCHANGED <<published, kept, inForce, values, own, reported>>

Keep ==
    /\ kept' \in Sound /\ kept <= kept' /\ kept' <= published
    /\ UNCHANGED <<published, saved, inForce, values, own, reported>>

Read ==
    /\ inForce' = kept /\ Fits(kept, values')
    /\ own' \subseteq saved
    /\ UNCHANGED <<published, saved, kept, reported>>

Report == reported' = inForce /\ UNCHANGED <<published, saved, kept, inForce, values, own>>

Next == Publish \/ Save \/ Keep \/ Read \/ Report

Spec == Init /\ [][Next]_settingsVars
=============================================================================
