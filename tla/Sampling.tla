------------------------------ MODULE Sampling ------------------------------
(***************************************************************************)
(* The sampling worker: one cycle reads the probes, asks the sensor        *)
(* monitor which of them are dead, tells the rules, the irrigation hold    *)
(* and the publishers, picks the next interval and stores the reading.     *)
(*                                                                         *)
(* One probe stands for the channels.  It has two sources: an analog       *)
(* driver that answers with a status and the 5-in-1 probe on RS485, whose  *)
(* number wins.  Time is counted in ticks; a cycle is late by a member of  *)
(* Late, as the wait of a thread is.                                       *)
(***************************************************************************)
EXTENDS Publishing, SequencesExt

CONSTANTS
    Normal, Fast,   \* sensor_read_s and sensor_read_fast_s in ticks
    Late,           \* by how much a wait may run over
    Window,         \* flatline_window_min in ticks
    Hold            \* adaptive_hold_s in ticks

ASSUME SamplingAssumption ==
    /\ Normal \in Nat \ {0} /\ Fast \in 1..Normal
    /\ Late \subseteq Nat /\ Late # {}
    /\ Window \in Nat \ {0} /\ Hold \in Nat

VARIABLES
    window,     \* SensorMonitor._windows: the age and number of each sample
    stuck,      \* SensorMonitor._stuck: "no", "flat" or "no_data"
    last,       \* AdaptiveSampler._last: the last number
    calm,       \* ticks since the last trigger, Hold when not in fast mode
    row,        \* what the last cycle left in the database: nothing, a row
                \* without a remark, or one that says why the probe is silent
    quiet       \* ticks since the probe last gave a number (history)

sampVars == <<window, stuck, last, calm, row, quiet>>
vars == <<pubVars, sampVars>>

Rules == {"no", "flat", "no_data"}
Longest == Normal + FoldSet(LAMBDA a, b : IF a > b THEN a ELSE b, 0, Late)
QuietCap == Window + Longest + 1            \* the history counts no further

TypeOK ==
    /\ PubTypeOK
    /\ \A i \in DOMAIN window : window[i] \in [age : 0..Window, value : Reading]
    /\ stuck \in Rules
    /\ last \in Reading
    /\ calm \in 0..Hold
    /\ row \in {"none", "ok", "fault"}
    /\ quiet \in 0..QuietCap

Init ==
    /\ PubInit
    /\ window = <<>>
    /\ stuck = "no"
    /\ last = NoValue
    /\ calm = Hold
    /\ row = "none"
    /\ quiet = 0

(***************************************************************************)
(* SensorMonitor.observe for the probe.                                    *)
(***************************************************************************)
Numbers(w) == {w[i].value : i \in DOMAIN w} \ {NoValue}

\* The new sample is appended, then the old ones leave at the front.
Observed(gap, v) ==
    SelectSeq(Append([i \in DOMAIN window |-> [window[i] EXCEPT !.age = @ + gap]],
                     [age |-> 0, value |-> v]),
              LAMBDA s : s.age <= Window)

\* Any two numbers of the model differ by more than the noise floor.
Moves(w) == Cardinality(Numbers(w)) > 1

Recovered(w) ==
    IF stuck = "no_data" THEN Last(w).value # NoValue ELSE Moves(w)

\* The samples span the window only when the oldest one left has exactly its
\* age.
Judged(w) ==
    CASE stuck # "no" -> IF Recovered(w) THEN "no" ELSE stuck
      [] Head(w).age < Window -> "no"
      [] Numbers(w) = {} -> "no_data"
      [] Moves(w) -> "no"
      [] OTHER -> "flat"

\* suspended_sensors(): a flat probe is reported, only a dead one suspended.
\* The answer goes to the rules and the hold as well as to the publishers.
Suspended(kind) == kind = "no_data"

(***************************************************************************)
(* AdaptiveSampler.observe: a fast change tightens the cadence, which      *)
(* decays after Hold ticks without one.                                    *)
(***************************************************************************)
Changed(v) == v # NoValue /\ last # NoValue /\ v # last
Interval == IF calm < Hold THEN Fast ELSE Normal

(***************************************************************************)
(* The probe.  The 5-in-1 number supersedes the analog one; the analog     *)
(* driver is asked when there is none, and only it leaves a status.        *)
(***************************************************************************)
\* <<number, status>>: the 5-in-1 answers; read_detailed() answers, refuses
\* with a reason, or raises and is swallowed.
Outcome == {<<v, "ok">> : v \in Reading} \cup {<<NoValue, "fault">>}

\* A row with no number in any channel is not stored.
Worth(v, others) == v # NoValue \/ others

\* SamplingWorker.step after a wait of Interval: monitor before rules, hold
\* and publishers; the interval of the next wait; the row last.
Cycle(late, outcome, others, starts) ==
    LET gap == IF window = <<>> THEN 0 ELSE Interval + late
        v == outcome[1]
        w == Observed(gap, v)
    IN  /\ window' = w
        /\ stuck' = Judged(w)
        /\ last' = IF v = NoValue THEN last ELSE v
        /\ calm' = IF Changed(v) THEN 0
                   ELSE IF calm + gap < Hold THEN calm + gap ELSE Hold
        /\ row' = IF Worth(v, others) THEN outcome[2] ELSE "none"
        /\ quiet' = IF v # NoValue THEN 0
                    ELSE IF quiet + gap < QuietCap THEN quiet + gap ELSE QuietCap
        /\ Publish(starts, v, Suspended(stuck'))

\* The restart of the service forgets the window and both publishers.
Restart ==
    /\ window' = <<>>
    /\ stuck' = "no"
    /\ last' = NoValue
    /\ calm' = Hold
    /\ row' = "none"
    /\ quiet' = 0
    /\ PublishersEnd

Next ==
    \/ \E late \in Late, outcome \in Outcome, others \in BOOLEAN, starts \in Starts :
            Cycle(late, outcome, others, starts)
    \/ Restart
    \/ \E starts \in Starts : Reconfigure(starts) /\ UNCHANGED sampVars
    \/ \E m \in Conn \cup {Off}, k \in BOOLEAN : Save(m, k) /\ UNCHANGED sampVars
    \/ Connected /\ UNCHANGED sampVars
    \/ Disconnected /\ UNCHANGED sampVars

Spec == Init /\ [][Next]_vars

(***************************************************************************)
(* What the cycle promises.                                                *)
(***************************************************************************)

\* Nothing retained on the broker says online for a unit that is not
\* connected to it: switched off, moved, killed or cut off.
NoGhost == broker.avail = "online" => ha.up

(***************************************************************************)
(* What the documents say and the code does not do.                        *)
(***************************************************************************)
\* docs/sensor-calibration.md:134 "A flatlined or disconnected probe is
\* reported as a fault (not fake data) and its relay rules are suspended".
SilentProbeIsSuspended == quiet >= QuietCap => told.suspended

\* docs/home-assistant.md:79 "retained `online` on connect".
OnlineWhileItPublishes ==
    [][told' # told /\ ha.up /\ ha'.up => broker'.avail = "online"]_vars
=============================================================================
