---------------------------- MODULE RelayControl ----------------------------
(***************************************************************************)
(* Who drives the coils of RelayBank, and how they share them:              *)
(*   - the sampling thread: the rules engine (control/rules.py), then the   *)
(*     irrigation hold (control/irrigation_hold.py), each cycle             *)
(*   - a command thread: Service Window, cloud and LoRa commands, and the   *)
(*     relays' fail-safe before a reboot (main.py)                          *)
(*   - the thread that reloads the settings, which may be another one       *)
(*   - the timer threads of RelayBank.                                      *)
(* The hold owns one channel while it is armed: the others ask first and    *)
(* act later, and the lock of the hold is not held in between.              *)
(*                                                                         *)
(* Abstracted: readings and clocks.  Any rule of a healthy probe may fire   *)
(* in a cycle; schedule, cooldown and hourly budget only keep a rule from   *)
(* firing; the hold may trip or clear in any cycle; an engine timer may be  *)
(* past its deadline whenever it is looked at.                              *)
(***************************************************************************)
EXTENDS RelayBank, Sequences

CONSTANTS
    Rules,          \* the rule list: a sequence of [sensor, relay, on, dur]
    Commanded,      \* bound: channels that commands are sent for
    MaxFaults       \* bound: relay writes that raise

Sensor == {Rules[i].sensor : i \in DOMAIN Rules}

ASSUME RulesAssumption ==
    /\ Rules \in Seq([sensor : STRING, relay : Channel, on : BOOLEAN, dur : Duration \cup {0}])
    /\ Sensor \cap {"none", "hold", "command", "rules"} = {}
    /\ Commanded \subseteq Channel
    /\ MaxFaults \in Nat

VARIABLES
    \* rules engine
    suspended,      \* _suspended_columns
    sweeps,         \* channels with an entry in the engine's own _timers
    drops,          \* OFF actions of the cycle still to be applied
    fired,          \* rules of the cycle still to be applied, after those
    durs,           \* their durations, per channel; 0 = none
    spc,            \* where the sampling thread is
    \* irrigation hold
    setting,        \* the hold's relay in the settings in force; 0 = not armed
    relay,          \* the hold's own snapshot of it
    holding,        \* what the conditions ask for
    driven,         \* what the coil was last driven to
    drivenCh,       \* the channel that was
    lock,           \* who is inside the hold
    hpc,            \* and where
    \* command thread, and the reload of the settings
    cpc,
    cmd,
    reloading,
    \* history
    driver,         \* who energised each coil last
    lost,           \* channels whose fail-safe OFF raised
    withheld,       \* channels whose fail-safe OFF the hold's ownership cancelled
    rulesSaw,       \* the owned channel as this cycle's evaluate read it
    late,           \* channels the hold owns, switched by somebody who asked
                    \* before it took over, or dropped before a reboot
    faults

rulesVars == <<suspended, sweeps, drops, fired, durs, rulesSaw>>
holdVars  == <<setting, relay, holding, driven, drivenCh, lock, hpc>>
cmdVars   == <<cpc, cmd, reloading>>
histVars  == <<lost, withheld>>
controlVars == <<rulesVars, spc, holdVars, cmdVars, driver, late, histVars, faults>>
vars == <<bankVars, controlVars>>

NoCmd == [ch |-> 0, on |-> FALSE, dur |-> 0, lora |-> FALSE, saw |-> 0]

ControlInit ==
    /\ BankInit
    /\ suspended = {} /\ sweeps = {}
    /\ drops = {} /\ fired = {} /\ durs = [c \in Channel |-> 0] /\ spc = "idle" /\ rulesSaw = 0
    /\ setting \in Channel \cup {0}
    /\ relay = setting /\ holding = FALSE /\ driven = FALSE /\ drivenCh = 0
    /\ lock = "none" /\ hpc = "out"
    /\ cpc = "idle" /\ cmd = NoCmd /\ reloading = FALSE
    /\ driver = [c \in Channel |-> "none"]
    /\ lost = {} /\ withheld = {} /\ late = {} /\ faults = 0
-----------------------------------------------------------------------------
(* A relay write by somebody, with the history it leaves                   *)

\* who: "hold", "command", or the sensor whose rule asked; saw: the channel the
\* hold owned when they looked.
Switch(c, on, who, saw) ==
    /\ IF on THEN SetOn(c, who = "hold") ELSE SetOff(c)
    /\ driver' = [driver EXCEPT ![c] = IF on THEN who ELSE "none"]
    /\ late' = IF c = relay /\ saw # relay THEN late \cup {c} ELSE late \ {c}
    /\ lost' = lost \ {c}
    /\ withheld' = withheld \ {c}
    /\ UNCHANGED faults

\* The coils are dropped behind everybody's back.
ForgetDropped ==
    /\ driver' = [c \in Channel |-> IF pin'[c] THEN driver[c] ELSE "none"]
    /\ lost' = {c \in lost : pin'[c]}
    /\ withheld' = {c \in withheld : pin'[c]}

WriteFails ==
    /\ faults < MaxFaults
    /\ faults' = faults + 1
    /\ UNCHANGED <<bankVars, driver, late>>
-----------------------------------------------------------------------------
(* Sampling thread: rules                                                  *)

\* The durations of the rules F that fire: a later rule of the list overwrites
\* the duration of an earlier one for the same channel.
DurationsAre(d, F) ==
    \A c \in Channel :
        LET timed == {i \in F : Rules[i].relay = c /\ Rules[i].on /\ Rules[i].dur > 0}
        IN  IF timed = {} THEN d[c] = 0
            ELSE \E i \in timed : (\A j \in timed : j <= i) /\ d[c] = Rules[i].dur

\* reserved_channels, owns
Reserved == IF relay = 0 THEN {} ELSE {relay}

\* Channels driven by a probe that S newly suspends (_pending_failsafe).
FailsafeWanted(S) ==
    {Rules[i].relay : i \in {j \in DOMAIN Rules : Rules[j].sensor \in S \ suspended}}

\* Fault: the drops sit below the guard of the schedule, which is closed.
FailsafeDueFault(S) == {}

\* _revert_suspended_to_failsafe
FailsafeDue(S) == FailsafeWanted(S) \ Reserved

\* set_suspended_sensors, and evaluate up to _apply.  S is the monitor's
\* verdict, `expired` the sweep of the engine's timers, F the rules that fire
\* unless schedule or override says no.  The owned channel is read once, here.
Evaluate ==
    /\ spc = "idle" /\ lock = "none"
    /\ \E S \in SUBSET Sensor :
       LET swept == sweeps \ (Reserved \cup FailsafeDue(S))
           able  == {i \in DOMAIN Rules :
                        Rules[i].relay \notin Reserved /\ Rules[i].sensor \notin S}
       IN  \E expired \in SUBSET swept, F \in SUBSET able :
              /\ suspended' = S
              /\ drops' = FailsafeDue(S) \cup expired
              /\ fired' = F
              /\ durs' \in [Channel -> Duration \cup {0}]
              /\ DurationsAre(durs', F)
              /\ sweeps' = (swept \ expired) \cup {c \in Channel : durs'[c] > 0}
              /\ withheld' = withheld \cup {c \in FailsafeWanted(S) : c = relay /\ pin[c]}
              /\ rulesSaw' = relay
    /\ spc' = "apply"
    /\ UNCHANGED <<bankVars, holdVars, cmdVars, driver, late, lost, faults>>

\* The next rule to apply: all drops come first, the rules in list order.
Turn(i) == spc = "apply" /\ drops = {} /\ i \in fired /\ \A j \in fired : i <= j

\* _apply, one action: set(), then the timer if the action has a duration.
ApplyDrop(c) ==
    /\ spc = "apply"
    /\ c \in drops
    /\ Switch(c, FALSE, "rules", rulesSaw)
    /\ drops' = drops \ {c}
    /\ UNCHANGED <<suspended, sweeps, fired, durs, rulesSaw, spc, holdVars, cmdVars>>

ApplyRule(i) ==
    /\ Turn(i)
    /\ Switch(Rules[i].relay, Rules[i].on, Rules[i].sensor, rulesSaw)
    /\ IF Rules[i].on /\ durs[Rules[i].relay] > 0
       THEN spc' = "arm" /\ UNCHANGED fired
       ELSE fired' = fired \ {i} /\ UNCHANGED spc
    /\ UNCHANGED <<suspended, sweeps, drops, durs, rulesSaw, holdVars, cmdVars>>

\* The write raises: logged, and the next action is tried.
ApplyFails ==
    /\ WriteFails
    /\ \/ /\ spc = "apply"
          /\ \E c \in drops :
                /\ drops' = drops \ {c}
                /\ lost' = lost \cup {d \in {c} : pin[d]}
          /\ UNCHANGED fired
       \/ /\ \E i \in fired : Turn(i) /\ fired' = fired \ {i}
          /\ UNCHANGED <<drops, lost>>
    /\ UNCHANGED <<suspended, sweeps, durs, rulesSaw, spc, holdVars, cmdVars, withheld>>

\* arm_auto_off by somebody who is not the hold.
ArmFor(c, d, saw) ==
    /\ IF bit[c] THEN ArmAutoOff(c, d) ELSE UNCHANGED bankVars
    /\ late' = IF bit[c] /\ c = relay /\ saw # relay THEN late \cup {c} ELSE late
    /\ UNCHANGED <<driver, histVars, faults>>

ApplyDuration ==
    /\ spc = "arm"
    /\ \E i \in fired :
          /\ \A j \in fired : i <= j
          /\ ArmFor(Rules[i].relay, durs[Rules[i].relay], rulesSaw)
          /\ fired' = fired \ {i}
    /\ spc' = "apply"
    /\ UNCHANGED <<suspended, sweeps, drops, durs, rulesSaw, holdVars, cmdVars>>

\* The actions are done: on to the hold.
RulesDone ==
    /\ spc = "apply" /\ drops = {} /\ fired = {}
    /\ spc' = "hold"
    /\ durs' = [c \in Channel |-> 0] /\ rulesSaw' = 0
    /\ UNCHANGED <<bankVars, suspended, sweeps, drops, fired, holdVars, cmdVars,
                   driver, late, histVars, faults>>
-----------------------------------------------------------------------------
(* Irrigation hold: configure and evaluate, under its lock                 *)

Unlock == lock' = "none" /\ hpc' = "out"
CommandDone == cpc' = "idle" /\ cmd' = NoCmd /\ UNCHANGED reloading
ReloadDone == reloading' = FALSE /\ UNCHANGED <<cpc, cmd>>

\* configure with settings that change nothing the hold has to act on.
ConfigureSame ==
    /\ lock = "none" /\ relay = setting
    /\ \/ spc = "hold" /\ spc' = "evaluate" /\ UNCHANGED cmdVars
       \/ reloading /\ ReloadDone /\ UNCHANGED spc
    /\ UNCHANGED <<bankVars, rulesVars, holdVars, driver, late, histVars, faults>>

\* configure: snapshot the relay, decide what to let go of and what to take.
Configure(who) ==
    /\ lock = "none" /\ relay # setting
    /\ \/ who = "sampler" /\ spc = "hold"
       \/ who = "reload" /\ reloading
    /\ relay' = setting
    /\ lock' = who
    /\ IF driven /\ setting # drivenCh
       THEN hpc' = "letgo" /\ holding' = holding
       ELSE hpc' = (IF setting # 0 THEN "takeover" ELSE "configured") /\ holding' = FALSE
    /\ late' = {}
    /\ UNCHANGED <<bankVars, rulesVars, spc, cmdVars, setting, driven, drivenCh,
                   driver, histVars, faults>>

\* Fault: a drive that raised counts as done.
DriveOffFault ==
    LET c == IF drivenCh # 0 THEN drivenCh ELSE relay IN
    IF c = 0
    THEN UNCHANGED <<bankVars, driver, late, histVars, faults, driven, drivenCh>>
    ELSE /\ \/ Switch(c, FALSE, "hold", relay)
            \/ WriteFails /\ UNCHANGED histVars
         /\ driven' = FALSE /\ drivenCh' = 0

\* _drive(False): the channel last driven, else the one configured.  A write
\* that raises leaves `driven`, for the next cycle to try again.
DriveOff ==
    LET c == IF drivenCh # 0 THEN drivenCh ELSE relay IN
    IF c = 0
    THEN UNCHANGED <<bankVars, driver, late, histVars, faults, driven, drivenCh>>
    ELSE \/ Switch(c, FALSE, "hold", relay) /\ driven' = FALSE /\ drivenCh' = 0
         \/ WriteFails /\ UNCHANGED <<histVars, driven, drivenCh>>

\* _drive(True)
DriveOn ==
    \/ Switch(relay, TRUE, "hold", relay) /\ driven' = TRUE /\ drivenCh' = relay
    \/ WriteFails /\ UNCHANGED <<histVars, driven, drivenCh>>

LetGo ==
    /\ hpc = "letgo"
    /\ DriveOff
    /\ holding' = FALSE
    /\ hpc' = IF relay # 0 THEN "takeover" ELSE "configured"
    /\ UNCHANGED <<rulesVars, spc, setting, relay, lock, cmdVars>>

TakeOver ==
    /\ hpc = "takeover"
    /\ DriveOff
    /\ hpc' = "configured"
    /\ UNCHANGED <<rulesVars, spc, setting, relay, holding, lock, cmdVars>>

Configured ==
    /\ hpc = "configured"
    /\ Unlock
    /\ IF lock = "sampler"
       THEN spc' = "evaluate" /\ UNCHANGED cmdVars
       ELSE ReloadDone /\ UNCHANGED spc
    /\ UNCHANGED <<bankVars, rulesVars, setting, relay, holding, driven, drivenCh,
                   driver, late, histVars, faults>>

\* evaluate() first retries a release that failed.
EvaluateHold ==
    /\ spc = "evaluate" /\ lock = "none"
    /\ IF driven /\ drivenCh # relay
       THEN DriveOff
       ELSE UNCHANGED <<bankVars, driver, late, histVars, faults, driven, drivenCh>>
    /\ lock' = "sampler" /\ hpc' = "judge"
    /\ UNCHANGED <<rulesVars, spc, setting, relay, holding, cmdVars>>

\* Then it judges the reading and drives the coil on a difference.
Judge ==
    /\ hpc = "judge"
    /\ IF relay = 0
       THEN UNCHANGED <<bankVars, driver, late, histVars, faults, holding, driven, drivenCh>>
       ELSE /\ holding' \in BOOLEAN
            /\ IF holding' = driven
               THEN UNCHANGED <<bankVars, driver, late, histVars, faults, driven, drivenCh>>
               ELSE IF holding' THEN DriveOn ELSE DriveOff
    /\ Unlock
    /\ spc' = "idle"
    /\ UNCHANGED <<rulesVars, cmdVars, setting, relay>>
-----------------------------------------------------------------------------
(* Command thread                                                          *)

\* relay_set, or a LoRa downlink, for a channel the hold does not own now.
CheckOwner ==
    /\ cpc = "idle" /\ lock = "none"
    /\ \E c \in Commanded \ Reserved, on \in BOOLEAN, d \in Duration \cup {0}, lora \in BOOLEAN :
          cmd' = [ch |-> c, on |-> on, dur |-> IF on THEN d ELSE 0,
                  lora |-> on /\ d > 0 /\ lora, saw |-> relay]
    /\ cpc' = "checked" /\ UNCHANGED reloading
    /\ UNCHANGED <<bankVars, rulesVars, spc, holdVars, driver, late, histVars, faults>>

\* A downlink with a duration also enters the rules engine's own timers.
CommandSet ==
    /\ cpc = "checked"
    /\ Switch(cmd.ch, cmd.on, "command", cmd.saw)
    /\ IF cmd.dur > 0 THEN cpc' = "arm" /\ UNCHANGED <<cmd, reloading>> ELSE CommandDone
    /\ UNCHANGED <<rulesVars, spc, holdVars>>

CommandSetFails ==
    /\ cpc = "checked"
    /\ WriteFails
    /\ CommandDone
    /\ UNCHANGED <<rulesVars, spc, holdVars, histVars>>

CommandArm ==
    /\ cpc = "arm"
    /\ ArmFor(cmd.ch, cmd.dur, cmd.saw)
    /\ sweeps' = IF cmd.lora THEN sweeps \cup {cmd.ch} ELSE sweeps
    /\ CommandDone
    /\ UNCHANGED <<suspended, drops, fired, durs, rulesSaw, spc, holdVars>>

\* A config reload puts new settings in force, then re-snapshots the hold.
ReloadSettings ==
    /\ ~reloading
    /\ setting' \in (Channel \cup {0}) \ {setting}
    /\ reloading' = TRUE
    /\ UNCHANGED <<bankVars, rulesVars, spc, relay, holding, driven, drivenCh, lock, hpc,
                   cpc, cmd, driver, late, histVars, faults>>

\* request_host_reboot drives the coils off first; whether that raised or not,
\* the process runs on until the host goes down.
RebootFailsafe ==
    /\ cpc = "idle"
    /\ \/ AllOff /\ UNCHANGED faults
       \/ /\ \E k \in Channel : AllOffFails(k)
          /\ faults < MaxFaults /\ faults' = faults + 1
    /\ ForgetDropped
    /\ late' = late \cup {c \in {relay} \ {0} : pin[c] # pin'[c]}
    /\ UNCHANGED <<rulesVars, spc, holdVars, cmdVars>>

RunTimer ==
    /\ \E t \in Timer : TimerFires(t) \/ AutoOff(t)
    /\ ForgetDropped
    /\ UNCHANGED <<rulesVars, spc, holdVars, cmdVars, late, faults>>

TimerWriteFails ==
    /\ \E t \in Timer : AutoOffFails(t)
    /\ faults < MaxFaults
    /\ faults' = faults + 1
    /\ UNCHANGED <<rulesVars, spc, holdVars, cmdVars, driver, late, histVars>>
-----------------------------------------------------------------------------
SamplerStep == \/ Evaluate \/ ApplyFails \/ ApplyDuration \/ RulesDone
               \/ \E c \in Channel : ApplyDrop(c)
               \/ \E i \in DOMAIN Rules : ApplyRule(i)
HoldStep == \/ \E who \in {"sampler", "reload"} : Configure(who)
            \/ ConfigureSame \/ LetGo \/ TakeOver \/ Configured \/ EvaluateHold \/ Judge
CommandStep == CheckOwner \/ CommandSet \/ CommandSetFails \/ CommandArm
                  \/ ReloadSettings \/ RebootFailsafe

ControlNext == SamplerStep \/ HoldStep \/ CommandStep \/ RunTimer \/ TimerWriteFails

ControlSpec == ControlInit /\ [][ControlNext]_vars
-----------------------------------------------------------------------------
Owner == Channel \cup {0}

RulesTypeOK ==
    /\ suspended \subseteq Sensor /\ sweeps \subseteq Channel
    /\ drops \subseteq Channel /\ fired \subseteq DOMAIN Rules
    /\ durs \in [Channel -> Duration \cup {0}] /\ rulesSaw \in Owner
    /\ spc \in {"idle", "apply", "arm", "hold", "evaluate"}

HoldTypeOK ==
    /\ setting \in Owner /\ relay \in Owner /\ drivenCh \in Owner
    /\ holding \in BOOLEAN /\ driven \in BOOLEAN
    /\ lock \in {"none", "sampler", "reload"}
    /\ hpc \in {"out", "letgo", "takeover", "configured", "judge"}

CommandTypeOK ==
    /\ cpc \in {"idle", "checked", "arm"} /\ reloading \in BOOLEAN
    /\ cmd \in [ch : Owner, on : BOOLEAN, dur : Duration \cup {0}, lora : BOOLEAN, saw : Owner]

HistoryTypeOK ==
    /\ driver \in [Channel -> {"none", "hold", "command", "rules"} \cup Sensor]
    /\ lost \subseteq Channel /\ withheld \subseteq Channel /\ late \subseteq Channel
    /\ faults \in 0..MaxFaults

ControlTypeOK == BankTypeOK /\ RulesTypeOK /\ HoldTypeOK /\ CommandTypeOK /\ HistoryTypeOK

\* "A flatlined probe must never keep (or start) actuating a relay on frozen
\* data" (control/rules.py): once the actions of a cycle are applied, no coil is
\* still on for a rule of a suspended probe, but where the fail-safe OFF raised
\* or the hold's ownership of the channel cancelled it.
FrozenProbeDrivesNothing ==
    spc \notin {"apply", "arm"} =>
        \A c \in Channel :
            pin[c] /\ driver[c] \in suspended => c \in lost \cup withheld

\* The contact the hold owns is open exactly when the hold believes so: rules,
\* sweeps, downlinks, commands and their timers do not touch it, unless they
\* asked before the take-over and acted after it.  One failed write can leave
\* the coil on; it takes two to leave it off.
OwnedCoilIsTheHolds ==
    lock = "none" /\ relay # 0 =>
        \/ relay \in late
        \/ /\ driven /\ drivenCh = relay /\ faults <= 1 => pin[relay]
           /\ pin[relay] /\ faults = 0 => driven

\* Nothing drives a coil beyond its mandate: not the rules for a probe that is
\* dead, and nobody but the hold the contact that the hold owns (rules.py
\* evaluate, irrigation_hold.py evaluate).
DriversKeepTheirMandate == FrozenProbeDrivesNothing /\ OwnedCoilIsTheHolds

\* The hold never loses track of a coil it energised: a release that failed, a
\* re-pointed or disabled hold, or a reload in the middle of a cycle leave it
\* knowing what it still has to drop (irrigation_hold.py configure, _drive).
HoldForgetsNoCoil ==
    \A c \in Channel : pin[c] /\ driver[c] = "hold" => driven /\ drivenCh = c

\* main.py refuses a manual command for an owned channel because "a manual ON
\* would leave a coil the hold then thinks it controls": nobody else's on-period
\* runs on the channel of the hold.
NobodyElseOnOwnedCoil ==
    lock = "none" /\ relay # 0 /\ pin[relay] => driver[relay] = "hold"
=============================================================================
