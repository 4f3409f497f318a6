------------------------------ MODULE Position ------------------------------
(***************************************************************************)
(* The GPS worker, the power save of the receiver and the clock.           *)
(*                                                                         *)
(* EXTINT toggles the receiver's power save and nothing reads it back: the *)
(* driver keeps a belief.  A fix brings the coordinate and, with an RMC    *)
(* sentence, the date, from which the system clock is set when there is no *)
(* NTP.  Every reading carries the source that vouches for its timestamp.  *)
(* The sampling thread takes the timestamp and asks for the source at two  *)
(* moments; the GPS thread runs between them as it likes.                  *)
(***************************************************************************)
EXTENDS Naturals

VARIABLES
    sky,        \* the antenna sees satellites
    awake,      \* the receiver is out of power save
    asleep,     \* GPS._power_saving, what the driver believes
    known,      \* the state store holds a coordinate
    fixes,      \* what the last step of the worker found: a fix or not
    right,      \* the system clock is within MAX_GPS_SKEW_S of the truth
    ntp,        \* timesyncd has synchronised the clock
    cached,     \* ClockDiscipline._ntp_cached: nothing valid, or the verdict
    agreed,     \* _gps_agreed_mono is younger than GPS_TRUST_S
    reading         \* the reading being built, or the last one: its state, whether
                \* the clock was right at its timestamp, its clock_source

gpsVars == <<sky, awake, asleep, known, fixes>>
clockVars == <<right, ntp, cached, agreed>>
posVars == <<gpsVars, clockVars, reading>>

Sources == {"ntp", "gps", "unsynced"}
Unread == "unread"

PosTypeOK ==
    /\ sky \in BOOLEAN /\ awake \in BOOLEAN /\ asleep \in BOOLEAN
    /\ known \in BOOLEAN /\ fixes \in BOOLEAN
    /\ right \in BOOLEAN /\ ntp \in BOOLEAN /\ agreed \in BOOLEAN
    /\ cached \in {Unread, "yes", "no"}
    /\ reading \in [pc : {"none", "stamped", "labelled"}, right : BOOLEAN, source : Sources]

NoRow == [pc |-> "none", right |-> TRUE, source |-> "unsynced"]

\* The receiver keeps its state while the unit reboots; there is no RTC.
PosInit ==
    /\ sky \in BOOLEAN /\ awake \in BOOLEAN
    /\ asleep = FALSE /\ known = FALSE /\ fixes = FALSE
    /\ right \in BOOLEAN
    /\ ntp = FALSE /\ cached = Unread /\ agreed = FALSE
    /\ reading = NoRow

(***************************************************************************)
(* The receiver.                                                           *)
(***************************************************************************)

\* wake(), resync() and sleep(): each acts on the belief.
Woken(m) == IF m.asleep THEN [awake |-> ~m.awake, asleep |-> FALSE] ELSE m
Slept(m) == IF m.asleep THEN m ELSE [awake |-> ~m.awake, asleep |-> TRUE]

Resynced(m) == [awake |-> ~m.awake, asleep |-> ~m.asleep]

\* power_cycle(): the same pulse, and the belief is not told.
Cycled(m) == [m EXCEPT !.awake = ~@]

\* get_fix() under a sky that stays as it is for the attempt.
Found(m) == m.awake /\ sky

\* The one or two attempts of a step.
Attempted(m) ==
    LET first == Woken(m) IN IF Found(first) THEN first ELSE Resynced(first)

(***************************************************************************)
(* The clock.                                                              *)
(***************************************************************************)
\* ntp_synced(): the verdict of the last minute, or a new one.
NtpVerdict == IF cached = Unread THEN IF ntp THEN "yes" ELSE "no" ELSE cached

\* A correction that counts as agreement whether it could be made or not.
DisciplinedAnyway(dated, sudo) ==
    IF dated
    THEN /\ cached' = NtpVerdict
         /\ agreed' = (agreed \/ NtpVerdict = "no")
         /\ right' = (right \/ (NtpVerdict = "no" /\ sudo))
    ELSE UNCHANGED <<cached, agreed, right>>

\* observe_gps(): `dated` when the burst had a valid RMC, `sudo` when the
\* clock could be set.
Disciplined(dated, sudo) ==
    IF dated
    THEN /\ cached' = NtpVerdict
         /\ agreed' = (agreed \/ (NtpVerdict = "no" /\ (right \/ sudo)))
         /\ right' = (right \/ (NtpVerdict = "no" /\ sudo))
    ELSE UNCHANGED <<cached, agreed, right>>

(***************************************************************************)
(* The threads.                                                            *)
(***************************************************************************)
\* GpsWorker.step.
GpsStep(dated, sudo) ==
    LET m == Attempted([awake |-> awake, asleep |-> asleep])
        found == Found(m)
        end == IF found \/ known THEN Slept(m) ELSE Cycled(m)
    IN  /\ awake' = end.awake
        /\ asleep' = end.asleep
        /\ fixes' = found
        /\ known' = (known \/ found)
        /\ IF found THEN Disciplined(dated, sudo) ELSE UNCHANGED <<cached, agreed, right>>
        /\ UNCHANGED <<sky, ntp, reading>>

\* SamplingWorker.step: the timestamp first, clock_source with the rest.
StampRow ==
    /\ reading.pc # "stamped"
    /\ reading' = [pc |-> "stamped", right |-> right, source |-> "unsynced"]
    /\ UNCHANGED <<gpsVars, clockVars>>

\* source().
LabelRow ==
    /\ reading.pc = "stamped"
    /\ cached' = NtpVerdict
    /\ reading' = [reading EXCEPT !.pc = "labelled",
                          !.source = CASE NtpVerdict = "yes" -> "ntp"
                                       [] NtpVerdict = "no" /\ agreed -> "gps"
                                       [] OTHER -> "unsynced"]
    /\ UNCHANGED <<gpsVars, right, ntp, agreed>>

\* The verdict is a minute old, the agreement six hours.
Expire ==
    /\ \/ cached' = Unread /\ UNCHANGED agreed
       \/ agreed' = FALSE /\ UNCHANGED cached
    /\ UNCHANGED <<gpsVars, right, ntp, reading>>

(***************************************************************************)
(* What happens to the unit.                                               *)
(***************************************************************************)
SkyMoves == sky' = ~sky /\ UNCHANGED <<awake, asleep, known, fixes, clockVars, reading>>

\* The link returns, or is lost: the clock stays right, as it drifts by less
\* than MAX_GPS_SKEW_S.
NtpMoves ==
    /\ ntp' = ~ntp
    /\ right' = (right \/ ntp')
    /\ UNCHANGED <<gpsVars, cached, agreed, reading>>

\* The service restarts: beliefs, the coordinate and verdicts are forgotten.
Forget ==
    /\ asleep' = FALSE /\ known' = FALSE /\ fixes' = FALSE
    /\ cached' = Unread /\ agreed' = FALSE
    /\ reading' = NoRow

ServiceRestarts == Forget /\ UNCHANGED <<sky, awake, right, ntp>>

\* A power cut: the receiver starts awake, the clock at its last saved value.
PowerCut ==
    /\ Forget
    /\ awake' = TRUE
    /\ right' \in BOOLEAN
    /\ ntp' = FALSE
    /\ UNCHANGED sky

PosNext ==
    \/ \E dated, sudo \in BOOLEAN : GpsStep(dated, sudo)
    \/ StampRow
    \/ LabelRow
    \/ Expire
    \/ SkyMoves
    \/ NtpMoves
    \/ ServiceRestarts
    \/ PowerCut

PosSpec == PosInit /\ [][PosNext]_posVars

(***************************************************************************)
(* What the code promises.                                                 *)
(***************************************************************************)
\* A drifted toggle costs an attempt and never a fix: a step under open sky
\* finds one, whatever the driver believes (workers.py, GpsWorker.step).
EveryStepFindsTheSky ==
    [][sky => \A dated, sudo \in BOOLEAN : GpsStep(dated, sudo) => fixes']_posVars

\* The source names a clock only when the clock was right as it was asked
\* (clock.py: the reading "wears its true confidence").
LabelIsHonest ==
    [][(reading.pc = "stamped" /\ reading'.pc = "labelled" /\ reading'.source # "unsynced") => right]_posVars

(***************************************************************************)
(* What the documents say and the code does not do.                        *)
(***************************************************************************)
\* gps.py:259 "a desynchronised toggle self-corrects within one cycle".
AsleepBetweenFixes == [][fixes' /\ ~fixes => ~awake']_posVars

\* clock.py:11 "one answer per reading": of the clock that stamped it.
RowIsHonest == (reading.pc = "labelled" /\ reading.source # "unsynced") => reading.right
=============================================================================
