----------------------------- MODULE Supervision -----------------------------
(***************************************************************************)
(* The worker threads (app/workers.py run_forever), the supervisor that     *)
(* watches their beats (app/supervisor.py) and systemd, which restarts the  *)
(* service when the supervisor stops petting it.                            *)
(*                                                                         *)
(* Time is discrete; one unit is the finest difference the properties tell  *)
(* apart.  The supervisor looks once per unit, before or after the threads  *)
(* that are due in it.                                                      *)
(***************************************************************************)
EXTENDS Integers, Sequences

CONSTANTS
    Worker,
    Cadence,        \* [Worker -> SUBSET Nat]: what interval_s() may be set to
    Countdown,      \* workers whose interval_s() is the time to a due date
    Hangable,       \* workers a blocking call may hang for good
    Reloads,        \* bound: settings changes
    MaxStep,        \* bound: the longest step that returns
    MaxAge,         \* bound: beats older than this count as this old
    Backoff,        \* _BACKOFF_S
    Factor, Floor,  \* LIVENESS_FACTOR, LIVENESS_MIN_S
    WatchdogSec     \* of the service unit

Larger(a, b) == IF a > b THEN a ELSE b

\* How long a worker of interval s may be silent.
Allowed(s) == Larger(Factor * s, Floor)

\* A worker that is still waiting or in a step, as it was told, can be overdue: a
\* backoff and the longest step outlast its deadline, or its first step does.
CanBeLate(w) ==
    \/ MaxStep > Floor
    \/ \E s \in Cadence[w], i \in DOMAIN Backoff : Larger(s, Backoff[i]) + MaxStep > Allowed(s)

ASSUME SupervisionAssumption ==
    /\ Cadence \in [Worker -> SUBSET Nat] /\ \A w \in Worker : Cadence[w] # {}
    /\ Countdown \subseteq Worker /\ Hangable \subseteq Worker
    /\ Backoff \in Seq(Nat) /\ Backoff # <<>>
    /\ Reloads \in Nat /\ MaxStep \in Nat /\ MaxAge \in Nat
    /\ \A w \in Worker : \A s \in Cadence[w] : s < MaxAge
    /\ \A w \in Worker : w \in Hangable \/ CanBeLate(w) =>
          \A s \in Cadence[w] : Allowed(s) + WatchdogSec < MaxAge
    /\ Factor \in Nat /\ Floor \in Nat \ {0} /\ WatchdogSec \in Nat \ {0, 1}

VARIABLES
    at,             \* "step", "wait", or "hung" inside a step
    streak,         \* consecutive_errors, up to the last backoff
    cadence,        \* the interval in the settings; of a Countdown worker, the
                    \* delay its last step asked for
    spent,          \* time in the step so far
    rest,           \* time left in the wait
    age,            \* time since the last beat
    hungry,         \* time since the supervisor last petted the watchdog
    looked,         \* the supervisor has looked in this unit of time
    killed,         \* systemd's watchdog ran out
    reloads,
    slept,          \* history: the interval each wait was computed from
    misjudged,      \* history: since the last pet, a worker was overdue by an
                    \* interval shorter than that
    tardy           \* history: who has been overdue at a look since the last pet

histVars == <<slept, misjudged, tardy>>
superVars == <<at, streak, cadence, spent, rest, age, hungry, looked, killed, reloads, histVars>>

Minus(a, b) == IF a > b THEN a - b ELSE 0

\* start(): the threads run, their beats are seeded.
Started ==
    /\ at' = [w \in Worker |-> "step"]
    /\ streak' = [w \in Worker |-> 0]
    /\ spent' = [w \in Worker |-> 0]
    /\ rest' = [w \in Worker |-> 0]
    /\ age' = [w \in Worker |-> 0]
    /\ hungry' = 0 /\ looked' = FALSE /\ killed' = FALSE
    /\ slept' = [w \in Worker |-> 0] /\ misjudged' = FALSE /\ tardy' = {}

SuperInit ==
    /\ cadence \in [Worker -> UNION {Cadence[w] : w \in Worker}]
    /\ \A w \in Worker : cadence[w] \in Cadence[w]
    /\ at = [w \in Worker |-> "step"] /\ streak = [w \in Worker |-> 0]
    /\ spent = [w \in Worker |-> 0] /\ rest = [w \in Worker |-> 0] /\ age = [w \in Worker |-> 0]
    /\ hungry = 0 /\ looked = FALSE /\ killed = FALSE /\ reloads = 0
    /\ slept = [w \in Worker |-> 0] /\ misjudged = FALSE /\ tardy = {}
-----------------------------------------------------------------------------
\* interval_s().  The register worker answers with what is left until the due
\* date its last attempt set, and with the whole delay once that is past.  A due
\* date from before a restart counts as past.
Interval(w) ==
    IF w \in Countdown /\ cadence[w] > age[w] THEN cadence[w] - age[w] ELSE cadence[w]

\* _deadline_for
Deadline(w) == Allowed(Interval(w))

\* Fault: an overdue worker is reported once.
OverdueFault(w) == age[w] = Deadline(w) + 1

Overdue(w) == age[w] > Deadline(w)

\* The wait after a step that took `took`.
WaitAfter(every, errors, took) ==
    IF errors = 0 THEN Minus(every, took) ELSE Larger(Minus(every, took), Backoff[errors])

\* A step returns or raises: the next wait is chosen.
NextWait(w, failed) ==
    \E delay \in IF w \in Countdown THEN Cadence[w] ELSE {cadence[w]} :
        LET errors == IF ~failed THEN 0
                      ELSE IF streak[w] < Len(Backoff) THEN streak[w] + 1 ELSE streak[w]
        IN  /\ streak' = [streak EXCEPT ![w] = errors]
            /\ cadence' = [cadence EXCEPT ![w] = delay]
            /\ rest' = [rest EXCEPT ![w] = WaitAfter(delay, errors, spent[w])]
            /\ slept' = [slept EXCEPT ![w] = delay]

\* Either way it beats, then waits.
StepEnds(w) ==
    /\ ~killed
    /\ at[w] = "step"
    /\ \E failed \in BOOLEAN : NextWait(w, failed)
    /\ age' = [age EXCEPT ![w] = 0]
    /\ spent' = [spent EXCEPT ![w] = 0]
    /\ at' = [at EXCEPT ![w] = "wait"]
    /\ UNCHANGED <<hungry, looked, killed, reloads, misjudged, tardy>>

WaitEnds(w) ==
    /\ ~killed
    /\ at[w] = "wait" /\ rest[w] = 0
    /\ at' = [at EXCEPT ![w] = "step"]
    /\ UNCHANGED <<streak, cadence, spent, rest, age, hungry, looked, killed, reloads, histVars>>

\* A blocking call that never returns.
Hang(w) ==
    /\ ~killed
    /\ w \in Hangable
    /\ at[w] = "step"
    /\ at' = [at EXCEPT ![w] = "hung"]
    /\ UNCHANGED <<streak, cadence, spent, rest, age, hungry, looked, killed, reloads, histVars>>

\* A hot settings change (remote config, config_reload).  It wakes nobody.
ReloadSettings(w) ==
    /\ ~killed
    /\ reloads < Reloads
    /\ w \notin Countdown
    /\ \E s \in Cadence[w] \ {cadence[w]} : cadence' = [cadence EXCEPT ![w] = s]
    /\ reloads' = reloads + 1
    /\ UNCHANGED <<at, streak, spent, rest, age, hungry, looked, killed, histVars>>

Pet == hungry' = 0 /\ misjudged' = FALSE /\ tardy' = {}
Starve ==
    /\ UNCHANGED hungry
    /\ misjudged' = (misjudged \/ \E w \in Worker : Overdue(w) /\ Interval(w) < slept[w])
    /\ tardy' = tardy \cup {w \in Worker : Overdue(w)}

\* tick(): pet if every worker is alive.
Tick ==
    /\ ~killed /\ ~looked
    /\ IF \E w \in Worker : Overdue(w) THEN Starve ELSE Pet
    /\ looked' = TRUE
    /\ UNCHANGED <<at, streak, cadence, spent, rest, age, killed, reloads, slept>>

\* A unit of time passes, for threads that have something to do with it.
TimePasses ==
    /\ ~killed /\ looked
    /\ \A w \in Worker : at[w] = "wait" => rest[w] > 0
    /\ \A w \in Worker : at[w] = "step" => spent[w] < MaxStep
    /\ age' = [w \in Worker |-> IF age[w] < MaxAge THEN age[w] + 1 ELSE age[w]]
    /\ spent' = [w \in Worker |-> IF at[w] = "step" THEN spent[w] + 1 ELSE spent[w]]
    /\ rest' = [w \in Worker |-> IF at[w] = "wait" THEN rest[w] - 1 ELSE rest[w]]
    /\ hungry' = hungry + 1
    /\ killed' = (hungry + 1 >= WatchdogSec)
    /\ looked' = FALSE
    /\ UNCHANGED <<at, streak, cadence, reloads, histVars>>

\* Restart=always.
ServiceRestarts ==
    /\ killed
    /\ Started
    /\ UNCHANGED <<cadence, reloads>>

SuperNext ==
    \/ \E w \in Worker : StepEnds(w) \/ WaitEnds(w) \/ Hang(w) \/ ReloadSettings(w)
    \/ Tick \/ TimePasses \/ ServiceRestarts

SuperSpec == SuperInit /\ [][SuperNext]_superVars
-----------------------------------------------------------------------------
SuperTypeOK ==
    /\ at \in [Worker -> {"step", "wait", "hung"}]
    /\ streak \in [Worker -> 0..Len(Backoff)]
    /\ cadence \in [Worker -> Nat] /\ \A w \in Worker : cadence[w] \in Cadence[w]
    /\ spent \in [Worker -> 0..MaxStep]
    /\ rest \in [Worker -> Nat] /\ age \in [Worker -> 0..MaxAge]
    /\ hungry \in 0..WatchdogSec
    /\ looked \in BOOLEAN /\ killed \in BOOLEAN
    /\ reloads \in 0..Reloads
    /\ slept \in [Worker -> Nat] /\ misjudged \in BOOLEAN /\ tardy \subseteq Worker

\* No wait and step outlasts the deadline and the watchdog together: a step that
\* does is as good as hung.
StepsAreShort ==
    \A w \in Worker : \A s \in Cadence[w] \cup {0}, i \in DOMAIN Backoff :
        Larger(s, Backoff[i]) + MaxStep + 1 < Allowed(s) + WatchdogSec

\* Some workers have been overdue by turns, none of them for long.
TakenTurns == \E v, w \in tardy : v # w

\* A thread that beats after each step, whether it raised or not, and waits as long
\* as it is judged by never costs the service its life alone, however slow its
\* steps, however often they fail and whatever the others do (LIVENESS_FACTOR,
\* LIVENESS_MIN_S, _BACKOFF_S against WatchdogSec): who is overdue waits or works
\* on, and its next beat and the look after it come before the watchdog.
NoneStarvesItAlone ==
    killed => misjudged \/ TakenTurns \/ \E w \in Worker : at[w] = "hung"

\* As it would have to be for "a worker is considered hung after this many multiples
\* of its interval without a beat (interval + one full step's worth of slack, then
\* some)" (supervisor.py): workers can take turns, the last backoff is
\* LIVENESS_MIN_S.
SteadyServiceLives ==
    killed => misjudged \/ \E w \in Worker : at[w] = "hung"

\* "A hung worker (blocking call that never returns) starves the pet and systemd
\* restarts the whole service" (supervisor.py tick): and only a hung worker does.
\* Threads that beat after each step and then wait as long as they were told
\* never cost the service its life.
OnlyAHungWorkerKills ==
    killed => \E w \in Worker : at[w] = "hung"

\* While the service lives, a hung worker has not been silent for longer than
\* its deadline and the watchdog together: no reload, backoff or busy
\* neighbour buys it more time (LIVENESS_FACTOR, WatchdogSec).
HangIsBounded ==
    \A w \in Worker :
        at[w] = "hung" /\ ~killed =>
            \E s \in Cadence[w] : age[w] <= Allowed(s) + WatchdogSec

\* The watchdog ends a service with a hung worker in bounded time, and none because
\* of one slow or failing worker (supervisor.py tick, _deadline_for).
WatchdogIsFair == NoneStarvesItAlone /\ HangIsBounded
=============================================================================
