------------------------------- MODULE Probes -------------------------------
(***************************************************************************)
(* The analog board and its calibration.  The firmware starts without the  *)
(* ADS1115 when it does not answer, marks the analog channels faulted and  *)
(* tries again from the sampling cycle; a driver built late has to be      *)
(* calibrated and handed to a sampler that is already running.  The        *)
(* calibration file is written by two processes: the firmware when the     *)
(* cloud finishes a two-point pH calibration, the Service Window when an   *)
(* installer goes through a wizard.                                        *)
(*                                                                         *)
(* pH stands for the analog channels.  ORP may be analog or the digital    *)
(* probe on RS485, which the cloud enables and disables at run time.       *)
(* Drivers' constructors do not raise: none of them touches the hardware.  *)
(***************************************************************************)
EXTENDS Naturals

CONSTANTS
    Coef,           \* the coefficients a two-point calibration can find
    Factory         \* the placeholders in CalibrationData

ASSUME FactoryAssumption == Factory \notin Coef /\ "none" \notin Coef

VARIABLES
    board,      \* the converter answers on the I2C bus
    adc,        \* _adc: "up", or "down" with _adc_error set
    due,        \* ADC_RETRY_S have passed since the last attempt
    want,       \* the settings in force: ph_enabled, orp_enabled, rs485_orp_enabled
    asked,      \* ph_enabled when the drivers were last built (history)
    drivers,    \* WQM1App._ph and _orp
    faulted,    \* _faulted_channels
    held,       \* what the sampler's map holds: the pH driver, the kind of ORP
    file,       \* calibration.yaml: pH coefficients, whether pH has a stamp
    cal,        \* CalibrationManager._data
    command,    \* the coefficients a cloud calibration has stored but not yet
                \* given to the driver, None outside of that
    wizard      \* the pH wizard has written coefficients and not the stamp

probeVars == <<board, adc, due, want, asked, drivers, faulted, held, file, cal,
               command, wizard>>

None == "none"
Data == [coef : Coef \cup {Factory}, stamp : BOOLEAN]
PHSensor == [built : BOOLEAN, coef : Coef \cup {Factory}, calibrated : BOOLEAN]
NoDriver == [built |-> FALSE, coef |-> Factory, calibrated |-> FALSE]
Fitted == [ph : BOOLEAN, orp : BOOLEAN, digital : BOOLEAN]

ProbeTypeOK ==
    /\ board \in BOOLEAN /\ due \in BOOLEAN /\ asked \in BOOLEAN /\ wizard \in BOOLEAN
    /\ adc \in {"up", "down"}
    /\ want \in Fitted
    /\ drivers \in [ph : PHSensor, orp : {None, "analog", "digital"}]
    /\ faulted \subseteq {"ph", "orp"}
    /\ held \in [ph : BOOLEAN, orp : {None, "analog", "digital"}]
    /\ file \in Data /\ cal \in Data
    /\ command \in Coef \cup {None}

\* _ever_calibrated: a stamp, or coefficients other than the placeholders.
EverCalibrated(d) == d.stamp \/ d.coef # Factory

FreshDriver == [built |-> TRUE, coef |-> Factory, calibrated |-> TRUE]

(***************************************************************************)
(* Bringing the board up.                                                  *)
(***************************************************************************)
\* _mark_analog_faulted: a digital ORP probe is left alone.
Faulted(w) == {c \in {"ph", "orp"} : IF c = "ph" THEN w.ph ELSE w.orp /\ ~w.digital}
WithoutAdc(d, w) == [ph |-> NoDriver, orp |-> IF w.digital THEN d.orp ELSE None]

\* _init_direct_sensors without the calibration.
BuiltUncalibrated(d, w) ==
    [ph |-> IF w.ph THEN FreshDriver ELSE NoDriver,
     orp |-> IF w.digital THEN d.orp ELSE IF w.orp THEN "analog" ELSE None]

\* _apply_analog_calibration.
Calibrated(d, data) ==
    IF d.ph.built
    THEN [ph |-> [built |-> TRUE, coef |-> data.coef, calibrated |-> EverCalibrated(data)],
          orp |-> d.orp]
    ELSE d

\* _init_direct_sensors and _apply_analog_calibration, on a live converter.
Built(d, w, data) == Calibrated(BuiltUncalibrated(d, w), data)

\* _sync_sampler: the map holds what the application holds.
Synced(d) == [ph |-> d.ph.built, orp |-> d.orp]

\* start(): the RS485 probes are built between the analog ones and their
\* calibration, the sampler last.
AtBoot(answers, w, data) ==
    LET start == [ph |-> NoDriver, orp |-> IF w.digital THEN "digital" ELSE None]
    IN  IF answers THEN Built(start, w, data) ELSE WithoutAdc(start, w)

Boot(answers, w, data) ==
    /\ adc' = IF answers THEN "up" ELSE "down"
    /\ due' = FALSE
    /\ want' = w
    /\ asked' = w.ph
    /\ drivers' = AtBoot(answers, w, data)
    /\ faulted' = IF answers THEN {} ELSE Faulted(w)
    /\ held' = Synced(drivers')
    /\ cal' = data
    /\ command' = None

ProbeInit ==
    /\ board \in BOOLEAN
    /\ want \in Fitted
    /\ file \in {[coef |-> Factory, stamp |-> FALSE]}
                    \cup [coef : Coef, stamp : BOOLEAN]    \* FALSE: before 2.1
    /\ adc = IF board THEN "up" ELSE "down"
    /\ due = FALSE
    /\ asked = want.ph
    /\ drivers = AtBoot(board, want, file)
    /\ faulted = IF board THEN {} ELSE Faulted(want)
    /\ held = Synced(drivers)
    /\ cal = file
    /\ command = None /\ wizard = FALSE

\* The board is seated, or comes loose: a converter that is up stays up, its
\* reads fail from then on.
BoardMoves ==
    /\ board' = ~board
    /\ UNCHANGED <<adc, due, want, asked, drivers, faulted, held, file, cal, command, wizard>>

Minute ==
    /\ adc = "down" /\ ~due
    /\ due' = TRUE
    /\ UNCHANGED <<board, adc, want, asked, drivers, faulted, held, file, cal, command, wizard>>

\* A retry that forgets when to try next.
RetryOnce ==
    /\ adc = "down" /\ due
    /\ asked' = want.ph
    /\ IF board /\ faulted = Faulted(want)
       THEN /\ adc' = "up"
            /\ faulted' = {}
            /\ drivers' = Built(drivers, want, cal)
            /\ held' = Synced(drivers')
            /\ due' = FALSE
       ELSE UNCHANGED <<adc, faulted, drivers, held, due>>
    /\ UNCHANGED <<board, want, file, cal, command, wizard>>

\* _retry_deferred_sensors, at the head of a sampling cycle.  It returns
\* before the sampler is told when the board still does not answer.
Retry ==
    /\ adc = "down" /\ due
    /\ due' = FALSE
    /\ asked' = want.ph
    /\ IF board
       THEN /\ adc' = "up"
            /\ faulted' = {}
            /\ drivers' = Built(drivers, want, cal)
            /\ held' = Synced(drivers')
       ELSE /\ faulted' = Faulted(want)
            /\ drivers' = WithoutAdc(drivers, want)
            /\ UNCHANGED <<adc, held>>
    /\ UNCHANGED <<board, want, file, cal, command, wizard>>

(***************************************************************************)
(* The settings.                                                           *)
(***************************************************************************)
\* A reload puts saved settings in force; the drivers stay as they are until
\* a restart, or until a retry builds them.
Reload(w) ==
    /\ w # want
    /\ want' = w
    /\ UNCHANGED <<board, adc, due, asked, drivers, faulted, held, file, cal, command, wizard>>

\* rs485_add and rs485_set_enabled of the cloud, for the ORP probe.
DigitalOrp(enabled) ==
    /\ want' = [want EXCEPT !.digital = enabled]
    /\ drivers' = [drivers EXCEPT !.orp = IF enabled THEN "digital" ELSE None]
    /\ held' = Synced(drivers')
    /\ UNCHANGED <<board, adc, due, asked, faulted, file, cal, command, wizard>>

ProbesRestart ==
    /\ Boot(board, want, file)
    /\ UNCHANGED <<board, file, wizard>>

(***************************************************************************)
(* The calibration file.                                                   *)
(***************************************************************************)
\* _save, whose error is logged and swallowed.
Saves(data, keep) == file' = IF keep THEN data ELSE file

\* calibrate_ph for a cloud command whose two points are in: the new data is
\* in force in memory, saved or not.
CalibratePh(c, keep) ==
    /\ adc = "up"
    /\ command = None
    /\ cal' = [coef |-> c, stamp |-> TRUE]
    /\ Saves(cal', keep)
    /\ command' = c
    /\ UNCHANGED <<board, adc, due, want, asked, drivers, faulted, held, wizard>>

\* The file is written and the driver is left for the next start.
StoreOnly ==
    /\ command # None
    /\ command' = None
    /\ UNCHANGED <<board, adc, due, want, asked, drivers, faulted, held, file, cal, wizard>>

\* apply_analog_ph then gives them to the driver, if there is one.
ApplyPh ==
    /\ command # None
    /\ command' = None
    /\ drivers' = IF drivers.ph.built
                  THEN Calibrated(drivers, [coef |-> command, stamp |-> TRUE])
                  ELSE drivers
    /\ UNCHANGED <<board, adc, due, want, asked, faulted, held, file, cal, wizard>>

\* The pH wizard of the Service Window writes the coefficients and then, in a
\* second write, the stamp.  The firmware reads the file at its start only.
WizardSaves(c) ==
    /\ ~wizard
    /\ file' = [file EXCEPT !.coef = c]
    /\ wizard' = TRUE
    /\ UNCHANGED <<board, adc, due, want, asked, drivers, faulted, held, cal, command>>

WizardStamps ==
    /\ wizard
    /\ file' = [file EXCEPT !.stamp = TRUE]
    /\ wizard' = FALSE
    /\ UNCHANGED <<board, adc, due, want, asked, drivers, faulted, held, cal, command>>

\* A buffer point of the 5-in-1 probe stamps "ph" too.
MultiStamps ==
    /\ file' = [file EXCEPT !.stamp = TRUE]
    /\ UNCHANGED <<board, adc, due, want, asked, drivers, faulted, held, cal, command, wizard>>

ProbeNext ==
    \/ BoardMoves
    \/ Minute
    \/ Retry
    \/ \E w \in Fitted : Reload(w)
    \/ \E on \in BOOLEAN : DigitalOrp(on)
    \/ ProbesRestart
    \/ \E c \in Coef, keep \in BOOLEAN : CalibratePh(c, keep)
    \/ ApplyPh
    \/ \E c \in Coef : WizardSaves(c)
    \/ WizardStamps
    \/ MultiStamps

\* The sampling thread cycles and the clock moves.
ProbeFairness == WF_probeVars(Minute) /\ WF_probeVars(Retry)

ProbeSpec == ProbeInit /\ [][ProbeNext]_probeVars /\ ProbeFairness

(***************************************************************************)
(* What the code promises.                                                 *)
(***************************************************************************)

\* The driver the sampler reads works with the calibration the firmware holds,
\* however late it was built (main.py, _apply_analog_calibration).
HeldProbeIsCalibrated ==
    (held.ph /\ command = None) =>
        drivers = Calibrated(drivers, cal)

\* A fitted channel is sampled, or the unit says that it is faulted: it is
\* never just missing (main.py, the comment above _bring_up_adc's call).
SilentChannelSaysWhy ==
    asked => IF adc = "up" THEN held.ph /\ "ph" \notin faulted ELSE "ph" \in faulted

\* Every analog channel the unit was asked for is sampled with the calibration
\* in force or said to be faulted (main.py, _bring_up_adc and _retry_adc).
ChannelsAreAccountedFor == HeldProbeIsCalibrated /\ SilentChannelSaysWhy

\* Reseating the board shows up without a restart (main.py, ADC_RETRY_S).
BoardComesBack == <>[]board => <>[](adc = "up")

(***************************************************************************)
(* What the documents say and the code does not do.                        *)
(***************************************************************************)
\* main.py:783 "A never-calibrated electrode publishes nothing".
UncalibratedIsSilent ==
    (drivers.ph.built /\ drivers.ph.calibrated) => drivers.ph.coef # Factory

\* calibrate.py:5 "Calibration coefficients persist to a YAML file".
CalibrationPersists ==
    [][(command # None /\ command' = None /\ wizard = wizard' /\ cal' = cal) =>
            file'.coef = command]_probeVars
=============================================================================
