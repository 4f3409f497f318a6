---------------------------- MODULE ClockRepair -----------------------------
(***************************************************************************)
(* How a join proves that BlueSignal answers (utils/netctl.py,              *)
(* reach_gateway_or_dns and reach_bluesignal), and how it sets a clock that  *)
(* is so far behind that no certificate is valid: forward, by the Date of a  *)
(* plain-HTTP answer, at most two years and at most once a boot.            *)
(*                                                                         *)
(* Joins run one at a time (the radio lock), each in the Service Window's   *)
(* process or in one of its own.  What a LAN, a router and timesyncd do is   *)
(* the environment's.                                                       *)
(***************************************************************************)
EXTENDS Naturals

CONSTANTS
    Today,          \* the year it is
    StepYears,      \* CLOCK_STEP_MAX_YEARS
    CertYears,      \* a certificate is valid for this long before and after today
    MaxKills        \* bound: joins killed, boots, writes of the marker that fail

ASSUME ClockAssumption == Today \in Nat \ {0} /\ StepYears \in Nat /\ CertYears \in Nat /\ MaxKills \in Nat

VARIABLES
    now,            \* the year of the system clock
    synced,         \* timesyncd has synchronised it
    lan,            \* the gateway: answers or refuses TCP, answers DNS only, is silent
    internet,       \* BlueSignal can be reached through it
    date,           \* the year of the Date header, NoDate without one
    joinPc,         \* the join: idle, gateway, probe, repair, mark, again
    repaired,       \* clock_record of the running join is not None
    stepped,        \* _STEPPED_IN_PROCESS of the process the join runs in
    swStepped,      \* the same of the Service Window's process
    marker,         \* /run/bluesignal/clock-stepped
    inWindow,       \* the running join is the Service Window's
    kills,          \* joins killed, boots and failed writes so far
    proven,         \* the verdict of the last join
    steps,          \* times the header moved the clock in this boot (history)
    unmarked        \* steps whose marker was not written or is gone (history)

repairVars == <<now, synced, lan, internet, date, joinPc, repaired, stepped, swStepped, marker, inWindow,
               kills, proven, steps, unmarked>>

NoDate == 0
Years == 1..(Today + 1)

ClockTypeOK ==
    /\ now \in Years /\ synced \in BOOLEAN
    /\ lan \in {"tcp", "dns", "silent"} /\ internet \in BOOLEAN
    /\ date \in Years \cup {NoDate}
    /\ joinPc \in {"idle", "gateway", "probe", "repair", "mark", "again"}
    /\ repaired \in BOOLEAN /\ stepped \in BOOLEAN /\ swStepped \in BOOLEAN
    /\ marker \in BOOLEAN /\ inWindow \in BOOLEAN
    /\ kills \in 0..MaxKills /\ proven \in {"none", "yes", "no"}
    /\ steps \in Nat /\ unmarked \in Nat

ClockInit ==
    /\ now \in Years /\ synced = FALSE /\ lan = "silent" /\ internet = FALSE /\ date = NoDate
    /\ joinPc = "idle" /\ repaired = FALSE /\ stepped = FALSE /\ swStepped = FALSE /\ marker = FALSE
    /\ inWindow = FALSE /\ kills = 0 /\ proven = "none" /\ steps = 0 /\ unmarked = 0

WorldStays == UNCHANGED <<lan, internet, date>>
JoinStays == UNCHANGED <<joinPc, repaired, stepped, swStepped, inWindow, proven>>
StepsStay == UNCHANGED <<marker, kills, steps, unmarked>>

\* A certificate is good for the years around today.
CertValid == Today - CertYears <= now /\ now <= Today + CertYears

\* _https_status
Verdict == IF ~internet THEN "fail" ELSE IF CertValid THEN "ok" ELSE "time"

\* _http_date: the host, or whoever answers for it on port 80, sends a date.
Dated == date # NoDate

\* clock_step_allowed: ahead, by no more than the cap.
StepAllowed == now < date /\ date <= now + StepYears

\* _clock_stepped_this_boot
SteppedThisBoot == stepped \/ marker

(***************************************************************************)
(* A join.                                                                 *)
(***************************************************************************)
\* In the Service Window's process, or in a new one.
JoinStarts ==
    /\ joinPc = "idle" /\ joinPc' = "gateway" /\ repaired' = FALSE
    /\ inWindow' \in BOOLEAN
    /\ stepped' = (inWindow' /\ swStepped)
    /\ UNCHANGED <<now, synced, swStepped, proven>> /\ WorldStays /\ StepsStay

\* The join is over; what its process remembers stays in the Service Window.
Ended(v) ==
    /\ joinPc' = "idle" /\ proven' = v
    /\ swStepped' = IF inWindow THEN stepped' ELSE swStepped
    /\ UNCHANGED inWindow

\* reach_gateway_or_dns: an accepted or a refused connection, else a DNS answer.
ReachGateway ==
    /\ joinPc = "gateway"
    /\ \/ lan # "silent" /\ joinPc' = "probe" /\ UNCHANGED <<swStepped, inWindow, proven, stepped>>
       \/ lan = "silent" /\ UNCHANGED stepped /\ Ended("no")
    /\ UNCHANGED <<now, synced, repaired>> /\ WorldStays /\ StepsStay

\* The loop of reach_bluesignal: an answer proves the network; a clock the
\* certificate refuses is repaired once a join; the hold may run out.
Probe ==
    /\ joinPc = "probe"
    /\ \/ Verdict = "ok" /\ UNCHANGED stepped /\ Ended("yes")
       \/ Verdict = "time" /\ ~repaired /\ joinPc' = "repair"
          /\ UNCHANGED <<swStepped, inWindow, proven, stepped>>
       \/ Verdict # "ok" /\ (Verdict = "fail" \/ repaired) /\ UNCHANGED stepped /\ Ended("no")
    /\ UNCHANGED <<now, synced, repaired>> /\ WorldStays /\ StepsStay

\* _repair_clock up to set_time, which may fail.  timesyncd has the last word.
RepairClock ==
    /\ joinPc = "repair" /\ repaired' = TRUE
    /\ \/ /\ ~synced /\ ~SteppedThisBoot /\ Dated /\ StepAllowed
          /\ now' = date /\ steps' = steps + 1 /\ unmarked' = unmarked + 1
          /\ joinPc' = "mark" /\ UNCHANGED <<swStepped, inWindow, proven, stepped>>
       \/ joinPc' = "probe" /\ UNCHANGED <<now, swStepped, inWindow, proven, stepped, steps, unmarked>>
       \/ UNCHANGED <<now, stepped, steps, unmarked>> /\ Ended("no")
    /\ UNCHANGED <<synced, marker, kills>> /\ WorldStays

\* The process remembers, the disk does not.
MarkInMemory ==
    /\ joinPc = "mark" /\ joinPc' = "again"
    /\ stepped' = TRUE
    /\ unmarked' = unmarked - 1
    /\ UNCHANGED <<now, synced, repaired, swStepped, marker, inWindow, kills, proven, steps>> /\ WorldStays

\* _mark_clock_stepped: in the process, and on /run unless that write fails.
MarkStepped ==
    /\ joinPc = "mark" /\ joinPc' = "again"
    /\ stepped' = TRUE
    /\ \/ marker' = TRUE /\ unmarked' = unmarked - 1 /\ UNCHANGED kills
       \/ kills < MaxKills /\ kills' = kills + 1 /\ UNCHANGED <<marker, unmarked>>
    /\ UNCHANGED <<now, synced, repaired, swStepped, inWindow, proven, steps>> /\ WorldStays

\* The second probe, right after the step.
ProbeAgain ==
    /\ joinPc = "again"
    /\ \/ Verdict = "ok" /\ UNCHANGED stepped /\ Ended("yes")
       \/ Verdict # "ok" /\ joinPc' = "probe" /\ UNCHANGED <<swStepped, inWindow, proven, stepped>>
       \/ Verdict # "ok" /\ UNCHANGED stepped /\ Ended("no")
    /\ UNCHANGED <<now, synced, repaired>> /\ WorldStays /\ StepsStay

\* The process of the join is killed, or the unit boots: /run is emptied.
Killed ==
    /\ joinPc # "idle" /\ kills < MaxKills /\ kills' = kills + 1
    /\ joinPc' = "idle" /\ proven' = "no"
    /\ swStepped' = IF inWindow THEN FALSE ELSE swStepped
    /\ UNCHANGED <<now, synced, repaired, stepped, marker, inWindow, steps, unmarked>> /\ WorldStays

Reboots ==
    /\ kills < MaxKills /\ kills' = kills + 1
    /\ joinPc' = "idle" /\ swStepped' = FALSE /\ stepped' = FALSE /\ marker' = FALSE
    /\ synced' = FALSE /\ steps' = 0 /\ unmarked' = 0
    /\ UNCHANGED <<now, repaired, inWindow, proven>> /\ WorldStays

\* /run/bluesignal is removed when a unit that names it as its
\* RuntimeDirectory stops: the marker goes with it.
DirectoryGone ==
    /\ marker /\ kills < MaxKills /\ kills' = kills + 1
    /\ marker' = FALSE /\ unmarked' = unmarked + 1
    /\ UNCHANGED <<now, synced, steps>> /\ JoinStays /\ WorldStays

(***************************************************************************)
(* Around it.                                                              *)
(***************************************************************************)
Sync ==
    /\ internet /\ now' = Today /\ synced' = TRUE
    /\ UNCHANGED <<lan, internet, date>> /\ JoinStays /\ StepsStay

\* A router, a provider, and what is in the Date header.
World ==
    /\ joinPc \in {"idle", "probe"}
    /\ lan' \in {"tcp", "dns", "silent"} /\ internet' \in {lan' # "silent", FALSE}
    /\ date' \in Years \cup {NoDate}
    /\ UNCHANGED <<now, synced>> /\ JoinStays /\ StepsStay

ClockNext ==
    JoinStarts \/ ReachGateway \/ Probe \/ RepairClock \/ MarkStepped \/ ProbeAgain
    \/ Killed \/ Reboots \/ DirectoryGone \/ Sync \/ World

ClockSpec == ClockInit /\ [][ClockNext]_repairVars

(***************************************************************************)
(* What it promises.                                                       *)
(***************************************************************************)
\* A header moves the clock once in a boot, whatever process the joins run in,
\* but for steps the marker was not written after (_repair_clock, "At most once
\* per boot").
OneStepABoot == steps <= 1 + unmarked

(***************************************************************************)
(* What the documents say and the code does not do.                        *)
(***************************************************************************)
\* netctl.py, _repair_clock: "At most once per boot", by a marker of which
\* clock_step_marker says "/run is emptied by a reboot": /run/bluesignal is
\* also removed whenever one of the units that own it stops, and the next
\* process steps again.
OnceABoot == steps <= 1
=============================================================================
