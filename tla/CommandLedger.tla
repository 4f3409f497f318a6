---------------------------- MODULE CommandLedger ----------------------------
(***************************************************************************)
(* What the path of a cloud command promises, without saying how: the unit  *)
(* acts on a command while it is asked for and in time, and only once; Cloud *)
(* puts one answer on record, the truth, and that is the end of the command. *)
(* The licences are named: the memory of an act may be lost, an act may be   *)
(* left half done, and a command that lapsed may be dropped unanswered.      *)
(***************************************************************************)
EXTENDS Naturals

CONSTANT Cmd              \* the commands Cloud may ever queue

VARIABLES
    record,               \* Cloud's record: "pending", "applied", "rejected" or "gone"
    acts,                 \* how often the unit acted on the command
    lapsed,               \* commands that are too late
    lost,                 \* commands the unit acted on, and may not remember
    half,                 \* commands the unit acted on in part
    dropped               \* lapsed commands dropped unanswered

ledgerVars == <<record, acts, lapsed, lost, half, dropped>>

Init ==
    /\ record = [c \in Cmd |-> "pending"] /\ acts = [c \in Cmd |-> 0]
    /\ lapsed = {} /\ lost = {} /\ half = {} /\ dropped = {}

Asked == {c \in Cmd : record[c] = "pending"}

\* Lapsed commands that are still asked for may be dropped.
Drops == \E S \in SUBSET {c \in lapsed : record[c] = "pending"} : dropped' = dropped \cup S

\* The unit acts on c, once, or again after it forgot.
Act(c) ==
    /\ c \in Asked \ lapsed
    /\ acts[c] = 0 \/ c \in lost
    /\ acts' = [acts EXCEPT ![c] = @ + 1]
    /\ half' \in {half, half \cup {c}}
    /\ Drops
    /\ UNCHANGED <<record, lapsed, lost>>

\* An answer that is the truth about c.
True(c, answer) ==
    \/ answer = "applied" /\ acts[c] > 0
    \/ answer = "rejected" /\ (acts[c] = 0 \/ c \in lost \cup half \cup dropped)
    \/ answer = "gone" /\ c \in lapsed

\* The answer goes on record.
Answer(c, answer) ==
    /\ c \in Asked
    /\ True(c, answer)
    /\ record' = [record EXCEPT ![c] = answer]
    /\ UNCHANGED <<acts, lapsed, lost, half, dropped>>

\* The unit forgets what it did.
Forget ==
    /\ \E S \in SUBSET {c \in Cmd : acts[c] > 0} : lost' = lost \cup S
    /\ UNCHANGED <<record, acts, lapsed, half, dropped>>

Drop == Drops /\ UNCHANGED <<record, acts, lapsed, lost, half>>

Lapse(c) ==
    /\ lapsed' = lapsed \cup {c}
    /\ UNCHANGED <<record, acts, lost, half, dropped>>

Next ==
    \/ \E c \in Cmd :
          \/ Act(c) \/ Lapse(c)
          \/ \E answer \in {"applied", "rejected", "gone"} : Answer(c, answer)
    \/ Forget \/ Drop

Spec == Init /\ [][Next]_ledgerVars
=============================================================================
