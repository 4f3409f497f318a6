----------------------------- MODULE LongRunProofs ----------------------------
(***************************************************************************)
(* What holds of the supervisor, of the LoRaWAN session and of the status    *)
(* file for every number of workers, intervals, joins, frames, writers,      *)
(* crashes and failed writes.                                              *)
(***************************************************************************)
EXTENDS Supervision, LoRaSession, BootStatus, FiniteSetTheorems, TLAPS

(***************************************************************************)
(* The supervisor.                                                         *)
(***************************************************************************)
\* A worker is not silent for longer than one of its deadlines and the time since
\* the last pet: a pet finds every worker within its deadline.
Heard(w) == \E s \in Cadence[w] : age[w] <= Allowed(s) + hungry

HangInv ==
    /\ cadence \in [Worker -> Nat] /\ \A w \in Worker : cadence[w] \in Cadence[w]
    /\ age \in [Worker -> Nat]
    /\ hungry \in Nat /\ (~killed => hungry < WatchdogSec)
    /\ \A w \in Worker : Heard(w)

\* A product grows with a factor.
LEMMA ProductGrows ==
    ASSUME NEW f \in Nat, NEW x \in Nat, NEW y \in Nat, x <= y
    PROVE  f * x <= f * y
<1>1. PICK d \in Nat : y = x + d
    BY y - x \in Nat /\ y = x + (y - x)
<1>2. f * y = f * x + f * d
    BY <1>1
<1>3. f * d >= 0 /\ f * d \in Nat /\ f * x \in Nat
    OBVIOUS
<1>. QED  BY <1>2, <1>3

\* The intervals are numbers.
LEMMA CadencesAreNumbers == \A w \in Worker : Cadence[w] \subseteq Nat
BY SupervisionAssumption

\* A worker that has just beaten has been heard.
LEMMA BeatIsHeard ==
    ASSUME NEW w \in Worker, NEW h \in Nat
    PROVE  \E s \in Cadence[w] : 0 <= Allowed(s) + h
<1>1. PICK s \in Cadence[w] : s \in Nat
    BY CadencesAreNumbers, SupervisionAssumption
<1>2. Factor * s \in Nat /\ Floor \in Nat
    BY <1>1, SupervisionAssumption
<1>. QED  BY <1>1, <1>2 DEF Allowed, Larger

\* A worker that is within its deadline is within that of an interval it may have.
LEMMA InTimeIsHeard ==
    ASSUME HangInv, NEW w \in Worker, ~Overdue(w)
    PROVE  \E s \in Cadence[w] : age[w] <= Allowed(s) + 0
<1>1. cadence[w] \in Cadence[w] /\ cadence[w] \in Nat /\ age[w] \in Nat
    BY DEF HangInv
<1>2. Interval(w) \in Nat /\ Interval(w) <= cadence[w]
    BY <1>1 DEF Interval
<1>3. Factor * Interval(w) <= Factor * cadence[w] /\ Factor * Interval(w) \in Nat
      /\ Factor * cadence[w] \in Nat /\ Floor \in Nat
    BY <1>1, <1>2, ProductGrows, SupervisionAssumption
<1>4. age[w] <= Allowed(Interval(w))
    BY <1>1, <1>3 DEF Overdue, Deadline, Allowed, Larger
<1>5. age[w] <= Allowed(cadence[w])
    BY <1>1, <1>3, <1>4 DEF Allowed, Larger
<1>6. Allowed(cadence[w]) \in Nat
    BY <1>3 DEF Allowed, Larger
<1>7. age[w] <= Allowed(cadence[w]) + 0
    BY <1>1, <1>5, <1>6
<1>. QED  BY <1>1, <1>7

\* The threads start with a beat.
LEMMA HangStart == SuperInit => HangInv
<1>. SUFFICES ASSUME SuperInit PROVE HangInv
    OBVIOUS
<1>1. /\ age = [w \in Worker |-> 0] /\ hungry = 0 /\ \A w \in Worker : cadence[w] \in Cadence[w]
      /\ cadence \in [Worker -> UNION {Cadence[w] : w \in Worker}]
    BY DEF SuperInit
<1>2. cadence \in [Worker -> Nat]
    BY <1>1, CadencesAreNumbers
<1>3. \A w \in Worker : Heard(w)
    BY <1>1, BeatIsHeard DEF Heard
<1>. QED  BY <1>1, <1>2, <1>3, SupervisionAssumption DEF HangInv

\* A step that ends beats, and sets an interval the worker may have.
LEMMA HangStepEnds == ASSUME HangInv, NEW w \in Worker, StepEnds(w) PROVE HangInv'
<1>1. PICK delay \in (IF w \in Countdown THEN Cadence[w] ELSE {cadence[w]}) :
          cadence' = [cadence EXCEPT ![w] = delay]
    BY DEF StepEnds, NextWait
<1>2. delay \in Cadence[w] /\ delay \in Nat
    BY <1>1, CadencesAreNumbers DEF HangInv
<1>3. cadence' \in [Worker -> Nat] /\ \A v \in Worker : cadence'[v] \in Cadence[v]
    BY <1>1, <1>2 DEF HangInv
<1>4. age' = [age EXCEPT ![w] = 0] /\ hungry' = hungry /\ killed' = killed
    BY DEF StepEnds
<1>5. age' \in [Worker -> Nat] /\ age'[w] = 0 /\ \A v \in Worker : v # w => age'[v] = age[v]
    BY <1>4 DEF HangInv
<1>6. ASSUME NEW v \in Worker PROVE \E s \in Cadence[v] : age'[v] <= Allowed(s) + hungry
    <2>1. CASE v = w
        BY <1>5, <2>1, BeatIsHeard DEF HangInv
    <2>2. CASE v # w
        BY <1>5, <2>2 DEF HangInv, Heard
    <2>. QED  BY <2>1, <2>2
<1>. QED  BY <1>3, <1>4, <1>5, <1>6 DEF HangInv, Heard

\* A look pets the watchdog only if every worker is in time.
LEMMA HangTick == HangInv /\ Tick => HangInv'
<1>. SUFFICES ASSUME HangInv, Tick PROVE HangInv'
    OBVIOUS
<1>1. UNCHANGED <<cadence, age, killed>>
    BY DEF Tick
<1>2. CASE hungry' = hungry
    BY <1>1, <1>2 DEF HangInv, Heard
<1>3. CASE hungry' = 0 /\ \A w \in Worker : ~Overdue(w)
    <2>1. \A w \in Worker : \E s \in Cadence[w] : age'[w] <= Allowed(s) + hungry'
        BY <1>1, <1>3, InTimeIsHeard
    <2>. QED  BY <1>1, <1>3, <2>1, SupervisionAssumption DEF HangInv, Heard
<1>. QED  BY <1>2, <1>3 DEF Tick, Starve, Pet

\* Time passes for the workers and for the watchdog alike.
LEMMA HangTime == HangInv /\ TimePasses => HangInv'
<1>. SUFFICES ASSUME HangInv, TimePasses PROVE HangInv'
    OBVIOUS
<1>1. /\ age' = [w \in Worker |-> IF age[w] < MaxAge THEN age[w] + 1 ELSE age[w]]
      /\ hungry' = hungry + 1 /\ killed' = (hungry + 1 >= WatchdogSec) /\ cadence' = cadence
    BY DEF TimePasses
<1>2. age' \in [Worker -> Nat] /\ \A w \in Worker : age'[w] <= age[w] + 1
    BY <1>1, SupervisionAssumption DEF HangInv
<1>3. ASSUME NEW w \in Worker
      PROVE  \E s \in Cadence[w] : age'[w] <= Allowed(s) + (hungry + 1)
    <2>1. PICK s \in Cadence[w] : age[w] <= Allowed(s) + hungry
        BY DEF HangInv, Heard
    <2>2. Allowed(s) \in Nat
        BY CadencesAreNumbers, SupervisionAssumption DEF Allowed, Larger
    <2>3. age[w] \in Nat /\ age'[w] \in Nat /\ hungry \in Nat
        BY <1>2 DEF HangInv
    <2>4. age'[w] <= Allowed(s) + (hungry + 1)
        BY <1>2, <2>1, <2>2, <2>3
    <2>. QED  BY <2>4
<1>4. ~killed' => ~(hungry + 1 >= WatchdogSec)
    BY <1>1
<1>5. hungry' \in Nat /\ (~killed' => hungry' < WatchdogSec)
    BY <1>1, <1>4, SupervisionAssumption DEF HangInv
<1>6. \A w \in Worker : Heard(w)'
    BY <1>1, <1>3 DEF Heard
<1>. QED  BY <1>1, <1>2, <1>5, <1>6 DEF HangInv

\* After a restart every worker has just beaten.
LEMMA HangRestart == HangInv /\ ServiceRestarts => HangInv'
<1>. SUFFICES ASSUME HangInv, ServiceRestarts PROVE HangInv'
    OBVIOUS
<1>1. age' = [w \in Worker |-> 0] /\ hungry' = 0 /\ cadence' = cadence
    BY DEF ServiceRestarts, Started
<1>2. \A w \in Worker : \E s \in Cadence[w] : age'[w] <= Allowed(s) + hungry'
    BY <1>1, BeatIsHeard
<1>. QED  BY <1>1, <1>2, SupervisionAssumption DEF HangInv, Heard

\* While the service lives no hung worker has been silent for longer than its
\* deadline and the watchdog together: however many workers there are, however
\* their intervals are reloaded and whatever the others do (Supervisor.tick,
\* _deadline_for).
THEOREM HangsAreBounded == SuperSpec => []HangIsBounded
<1>1. HangInv /\ [SuperNext]_superVars => HangInv'
    <2>. SUFFICES ASSUME HangInv, [SuperNext]_superVars PROVE HangInv'
        OBVIOUS
    <2>1. ASSUME NEW w \in Worker, WaitEnds(w) \/ Hang(w) PROVE HangInv'
        BY <2>1 DEF WaitEnds, Hang, HangInv, Heard
    <2>2. ASSUME NEW w \in Worker, ReloadSettings(w) PROVE HangInv'
        <3>1. PICK s \in Cadence[w] : cadence' = [cadence EXCEPT ![w] = s]
            BY <2>2 DEF ReloadSettings
        <3>2. cadence' \in [Worker -> Nat] /\ \A v \in Worker : cadence'[v] \in Cadence[v]
            BY <3>1, CadencesAreNumbers DEF HangInv
        <3>. QED  BY <2>2, <3>2 DEF ReloadSettings, HangInv, Heard
    <2>3. CASE UNCHANGED superVars
        BY <2>3 DEF superVars, HangInv, Heard
    <2>. QED
        BY <2>1, <2>2, <2>3, HangStepEnds, HangTick, HangTime, HangRestart DEF SuperNext
<1>2. HangInv => HangIsBounded
    <2>. SUFFICES ASSUME HangInv, NEW w \in Worker, ~killed
                  PROVE  \E s \in Cadence[w] : age[w] <= Allowed(s) + WatchdogSec
        BY DEF HangIsBounded
    <2>1. PICK s \in Cadence[w] : age[w] <= Allowed(s) + hungry
        BY DEF HangInv, Heard
    <2>2. Allowed(s) \in Nat
        BY CadencesAreNumbers, SupervisionAssumption DEF Allowed, Larger
    <2>3. age[w] \in Nat /\ hungry \in Nat /\ hungry < WatchdogSec /\ WatchdogSec \in Nat
        BY SupervisionAssumption DEF HangInv
    <2>. QED  BY <2>1, <2>2, <2>3
<1>. QED  BY HangStart, <1>1, <1>2, PTL DEF SuperSpec

(***************************************************************************)
(* The service that nothing hangs in.                                      *)
(***************************************************************************)
\* Since its beat a worker has waited and worked as long as it was told to: its
\* interval or a backoff, and the step it is in.  Before its first beat it has
\* only worked.
Paced(w) ==
    \/ at[w] = "hung"
    \/ /\ \E i \in DOMAIN Backoff :
             age[w] + (IF at[w] = "wait" THEN rest[w] ELSE 0)
                 <= Larger(slept[w], Backoff[i]) + (IF at[w] = "step" THEN spent[w] ELSE 0)
       /\ \/ slept[w] \in Cadence[w]
          \/ slept[w] = 0 /\ at[w] = "step" /\ age[w] <= spent[w]

\* A worker can be late for h units of time.
InReach(w, h) ==
    \E s \in Cadence[w] \cup {0}, i \in DOMAIN Backoff :
        Allowed(s) + h <= Larger(s, Backoff[i]) + MaxStep

\* The watchdog starves because of w: w has been overdue since the last pet, or it
\* has beaten since the last look but one.
Starves(w) ==
    /\ CanBeLate(w) /\ w \in tardy
    /\ \/ looked /\ InReach(w, hungry) /\ (age[w] = 0 \/ age[w] >= Allowed(slept[w]) + hungry)
       \/ ~looked /\ (age[w] <= 1 \/ age[w] >= Allowed(slept[w]) + hungry)

Steady ==
    /\ ~killed
    /\ \/ hungry = 0
       \/ hungry = 1 /\ ~looked
       \/ \E w \in Worker : Starves(w)

PaceShape ==
    /\ at \in [Worker -> {"step", "wait", "hung"}] /\ streak \in [Worker -> 0..Len(Backoff)]
    /\ spent \in [Worker -> 0..MaxStep] /\ rest \in [Worker -> Nat] /\ slept \in [Worker -> Nat]
    /\ age \in [Worker -> Nat] /\ cadence \in [Worker -> Nat] /\ hungry \in Nat
    /\ looked \in BOOLEAN /\ killed \in BOOLEAN /\ misjudged \in BOOLEAN
    /\ tardy \subseteq Worker
    /\ \A w \in Worker : cadence[w] \in Cadence[w]

PaceInv ==
    /\ PaceShape
    /\ \A w \in Worker : Paced(w)
    /\ misjudged \/ TakenTurns \/ (\E w \in Worker : at[w] = "hung") \/ Steady

\* A longer interval allows no less.
LEMMA AllowedGrows ==
    ASSUME NEW x \in Nat, NEW y \in Nat, x <= y
    PROVE  Allowed(x) \in Nat /\ Allowed(y) \in Nat /\ Allowed(x) >= Floor /\ Allowed(x) <= Allowed(y)
<1>1. Factor * x \in Nat /\ Factor * y \in Nat /\ Factor * x <= Factor * y /\ Floor \in Nat
    BY ProductGrows, SupervisionAssumption
<1>. QED  BY <1>1 DEF Allowed, Larger

\* Before an interval is known only the floor counts.
LEMMA NothingAllowsTheFloor == Allowed(0) = Floor
<1>1. Factor * 0 = 0 /\ Floor \in Nat
    BY SupervisionAssumption
<1>. QED  BY <1>1 DEF Allowed, Larger

\* The backoffs are numbers, and there is one.
LEMMA BackoffsAreNumbers ==
    /\ 1 \in DOMAIN Backoff /\ DOMAIN Backoff = 1..Len(Backoff)
    /\ \A i \in DOMAIN Backoff : Backoff[i] \in Nat
BY SupervisionAssumption

\* What a paced worker's age is at most.
LEMMA PacedAge ==
    ASSUME PaceShape, NEW w \in Worker, Paced(w), at[w] # "hung"
    PROVE  \E i \in DOMAIN Backoff :
               /\ age[w] <= Larger(slept[w], Backoff[i]) + MaxStep
               /\ slept[w] \in Cadence[w] \/ (slept[w] = 0 /\ age[w] <= MaxStep)
<1>1. PICK i \in DOMAIN Backoff :
          age[w] + (IF at[w] = "wait" THEN rest[w] ELSE 0)
              <= Larger(slept[w], Backoff[i]) + (IF at[w] = "step" THEN spent[w] ELSE 0)
    BY DEF Paced
<1>2. /\ age[w] \in Nat /\ rest[w] \in Nat /\ spent[w] \in Nat /\ spent[w] <= MaxStep
      /\ slept[w] \in Nat /\ Backoff[i] \in Nat /\ MaxStep \in Nat
    BY BackoffsAreNumbers, SupervisionAssumption DEF PaceShape
<1>3. Larger(slept[w], Backoff[i]) \in Nat
    BY <1>2 DEF Larger
<1>4. age[w] <= Larger(slept[w], Backoff[i]) + MaxStep
    BY <1>1, <1>2, <1>3
<1>5. slept[w] \in Cadence[w] \/ (slept[w] = 0 /\ age[w] <= MaxStep)
    BY <1>2 DEF Paced
<1>. QED  BY <1>4, <1>5

\* A worker that is overdue by an interval no shorter than the one it slept by can
\* be late, and is as late as it can be at most.
LEMMA OverdueCanBeLate ==
    ASSUME PaceShape, NEW w \in Worker, Paced(w), at[w] # "hung",
           Overdue(w), ~(Interval(w) < slept[w])
    PROVE  CanBeLate(w) /\ age[w] >= Allowed(slept[w]) + 1 /\ age[w] > 1
<1>1. age[w] \in Nat /\ cadence[w] \in Nat /\ slept[w] \in Nat
    BY DEF PaceShape
<1>2. Interval(w) \in Nat /\ slept[w] <= Interval(w)
    BY <1>1 DEF Interval
<1>3. /\ Allowed(slept[w]) \in Nat /\ Allowed(slept[w]) >= Floor /\ Floor >= 1 /\ Floor \in Nat
      /\ Allowed(slept[w]) <= Allowed(Interval(w)) /\ Allowed(Interval(w)) \in Nat
    <2>1. Floor \in Nat /\ Floor >= 1
        BY SupervisionAssumption
    <2>. QED  BY <1>1, <1>2, <2>1, AllowedGrows
<1>4. age[w] > Allowed(Interval(w))
    BY DEF Overdue, Deadline
<1>5. age[w] >= Allowed(slept[w]) + 1 /\ age[w] > 1
    BY <1>1, <1>3, <1>4
<1>6. PICK i \in DOMAIN Backoff :
          /\ age[w] <= Larger(slept[w], Backoff[i]) + MaxStep
          /\ slept[w] \in Cadence[w] \/ (slept[w] = 0 /\ age[w] <= MaxStep)
    BY PacedAge
<1>7. Backoff[i] \in Nat /\ MaxStep \in Nat
    BY BackoffsAreNumbers, SupervisionAssumption
<1>8. Larger(slept[w], Backoff[i]) \in Nat
    BY <1>1, <1>7 DEF Larger
<1>9. CASE slept[w] \in Cadence[w]
    <2>1. Larger(slept[w], Backoff[i]) + MaxStep > Allowed(slept[w])
        BY <1>1, <1>3, <1>5, <1>6, <1>7, <1>8
    <2>. QED  BY <2>1, <1>5, <1>9 DEF CanBeLate
<1>10. CASE slept[w] = 0 /\ age[w] <= MaxStep
    <2>1. MaxStep > Floor
        BY <1>1, <1>3, <1>5, <1>7, <1>10
    <2>. QED  BY <2>1, <1>5 DEF CanBeLate
<1>. QED  BY <1>6, <1>9, <1>10

\* A late worker's beat is not yet so old that its age is no longer counted.
LEMMA LateIsCounted ==
    ASSUME StepsAreShort, PaceShape, NEW w \in Worker, Paced(w), at[w] # "hung", CanBeLate(w)
    PROVE  age[w] < MaxAge
<1>1. PICK i \in DOMAIN Backoff :
          /\ age[w] <= Larger(slept[w], Backoff[i]) + MaxStep
          /\ slept[w] \in Cadence[w] \/ (slept[w] = 0 /\ age[w] <= MaxStep)
    BY PacedAge
<1>2. Larger(slept[w], Backoff[i]) + MaxStep + 1 < Allowed(slept[w]) + WatchdogSec
    BY <1>1 DEF StepsAreShort
<1>3. PICK s \in Cadence[w] : s \in Nat /\ slept[w] <= s /\ Allowed(s) + WatchdogSec < MaxAge
    <2>1. CASE slept[w] \in Cadence[w]
        BY <2>1, CadencesAreNumbers, SupervisionAssumption DEF PaceShape
    <2>2. CASE slept[w] = 0
        <3>1. PICK s \in Cadence[w] : s \in Nat
            BY CadencesAreNumbers, SupervisionAssumption
        <3>. QED  BY <2>2, <3>1, SupervisionAssumption
    <2>. QED  BY <1>1, <2>1, <2>2
<1>4. Allowed(slept[w]) \in Nat /\ Allowed(s) \in Nat /\ Allowed(slept[w]) <= Allowed(s)
    BY <1>3, AllowedGrows DEF PaceShape
<1>5. /\ age[w] \in Nat /\ slept[w] \in Nat /\ Backoff[i] \in Nat /\ MaxStep \in Nat
      /\ WatchdogSec \in Nat /\ MaxAge \in Nat
    BY BackoffsAreNumbers, SupervisionAssumption DEF PaceShape
<1>6. Larger(slept[w], Backoff[i]) \in Nat
    BY <1>5 DEF Larger
<1>. QED  BY <1>1, <1>2, <1>3, <1>4, <1>5, <1>6

\* The beats start together and on time.
LEMMA PaceStart == SuperInit => PaceInv
<1>. SUFFICES ASSUME SuperInit PROVE PaceInv
    OBVIOUS
<1>1. /\ at = [w \in Worker |-> "step"] /\ streak = [w \in Worker |-> 0]
      /\ spent = [w \in Worker |-> 0] /\ rest = [w \in Worker |-> 0]
      /\ age = [w \in Worker |-> 0] /\ slept = [w \in Worker |-> 0]
      /\ hungry = 0 /\ looked = FALSE /\ killed = FALSE /\ misjudged = FALSE /\ tardy = {}
    BY DEF SuperInit
<1>2. cadence \in [Worker -> Nat] /\ \A w \in Worker : cadence[w] \in Cadence[w]
    BY HangStart DEF HangInv
<1>3. PaceShape
    <2>1. 0 \in 0..Len(Backoff) /\ 0 \in 0..MaxStep
        BY SupervisionAssumption
    <2>2. at \in [Worker -> {"step", "wait", "hung"}] /\ streak \in [Worker -> 0..Len(Backoff)]
        BY <1>1, <2>1
    <2>3. /\ spent \in [Worker -> 0..MaxStep] /\ rest \in [Worker -> Nat]
          /\ slept \in [Worker -> Nat] /\ age \in [Worker -> Nat]
        BY <1>1, <2>1
    <2>. QED  BY <1>1, <1>2, <2>2, <2>3 DEF PaceShape
<1>4. ASSUME NEW w \in Worker PROVE Paced(w)
    <2>1. 1 \in DOMAIN Backoff /\ Backoff[1] \in Nat
        BY BackoffsAreNumbers
    <2>2. Larger(slept[w], Backoff[1]) \in Nat
        BY <1>1, <2>1 DEF Larger
    <2>3. at[w] = "step" /\ spent[w] = 0 /\ age[w] = 0 /\ slept[w] = 0
        BY <1>1
    <2>4. age[w] + (IF at[w] = "wait" THEN rest[w] ELSE 0)
              <= Larger(slept[w], Backoff[1]) + (IF at[w] = "step" THEN spent[w] ELSE 0)
        BY <2>2, <2>3
    <2>. QED  BY <2>1, <2>3, <2>4 DEF Paced
<1>. QED  BY <1>1, <1>3, <1>4 DEF PaceInv, Steady

\* A wait is no longer than the interval or a backoff.
LEMMA WaitsAreShort ==
    ASSUME NEW every \in Nat, NEW errors \in 0..Len(Backoff), NEW took \in Nat
    PROVE  /\ WaitAfter(every, errors, took) \in Nat
           /\ \E i \in DOMAIN Backoff : WaitAfter(every, errors, took) <= Larger(every, Backoff[i])
<1>1. CASE errors = 0
    BY <1>1, BackoffsAreNumbers DEF WaitAfter, Minus, Larger
<1>2. CASE errors # 0
    <2>1. errors \in DOMAIN Backoff /\ Backoff[errors] \in Nat
        BY <1>2, BackoffsAreNumbers, SupervisionAssumption
    <2>2. WaitAfter(every, errors, took) = Larger(Minus(every, took), Backoff[errors])
        BY <1>2 DEF WaitAfter
    <2>3. WaitAfter(every, errors, took) \in Nat
          /\ WaitAfter(every, errors, took) <= Larger(every, Backoff[errors])
        BY <2>1, <2>2 DEF Minus, Larger
    <2>. QED  BY <2>1, <2>3
<1>. QED  BY <1>1, <1>2

\* A beat keeps a starved watchdog starved by the same worker.
LEMMA StarvesOn ==
    ASSUME PaceShape, NEW v \in Worker, Starves(v),
           UNCHANGED <<hungry, looked, tardy>>,
           age'[v] = 0 \/ (age'[v] = age[v] /\ slept'[v] = slept[v])
    PROVE  Starves(v)'
<1>1. InReach(v, hungry)' = InReach(v, hungry')
    BY DEF InReach
<1>. QED  BY <1>1 DEF Starves, PaceShape

\* A step that ends: the worker has beaten, and waits as long as it is told.
LEMMA PaceStepEnds == ASSUME PaceInv, NEW w \in Worker, StepEnds(w) PROVE PaceInv'
<1>. USE DEF PaceShape
<1>1. PICK delay \in (IF w \in Countdown THEN Cadence[w] ELSE {cadence[w]}), errors \in 0..Len(Backoff) :
          /\ streak' = [streak EXCEPT ![w] = errors]
          /\ cadence' = [cadence EXCEPT ![w] = delay]
          /\ rest' = [rest EXCEPT ![w] = WaitAfter(delay, errors, spent[w])]
          /\ slept' = [slept EXCEPT ![w] = delay]
    <2>1. PICK failed \in BOOLEAN : NextWait(w, failed)
        BY DEF StepEnds
    <2>2. PICK delay \in (IF w \in Countdown THEN Cadence[w] ELSE {cadence[w]}) :
              LET errors == IF ~failed THEN 0
                            ELSE IF streak[w] < Len(Backoff) THEN streak[w] + 1 ELSE streak[w]
              IN  /\ streak' = [streak EXCEPT ![w] = errors]
                  /\ cadence' = [cadence EXCEPT ![w] = delay]
                  /\ rest' = [rest EXCEPT ![w] = WaitAfter(delay, errors, spent[w])]
                  /\ slept' = [slept EXCEPT ![w] = delay]
        BY <2>1 DEF NextWait
    <2>3. (IF ~failed THEN 0
           ELSE IF streak[w] < Len(Backoff) THEN streak[w] + 1 ELSE streak[w]) \in 0..Len(Backoff)
        <3>1. streak[w] \in 0..Len(Backoff)
            BY DEF PaceInv
        <3>2. Len(Backoff) \in Nat
            BY SupervisionAssumption
        <3>. QED  BY <3>1, <3>2
    <2>. QED  BY <2>2, <2>3
<1>2. delay \in Cadence[w] /\ delay \in Nat
    BY <1>1, CadencesAreNumbers DEF PaceInv
<1>3. /\ age' = [age EXCEPT ![w] = 0] /\ spent' = [spent EXCEPT ![w] = 0]
      /\ at' = [at EXCEPT ![w] = "wait"] /\ at[w] = "step"
      /\ UNCHANGED <<hungry, looked, killed, misjudged, tardy>>
    BY DEF StepEnds
<1>4. /\ WaitAfter(delay, errors, spent[w]) \in Nat
      /\ \E i \in DOMAIN Backoff : WaitAfter(delay, errors, spent[w]) <= Larger(delay, Backoff[i])
    <2>1. spent[w] \in Nat
        BY SupervisionAssumption DEF PaceInv
    <2>. QED  BY <1>2, <2>1, WaitsAreShort
<1>5. PaceShape'
    <2>1. /\ at' \in [Worker -> {"step", "wait", "hung"}] /\ streak' \in [Worker -> 0..Len(Backoff)]
          /\ rest' \in [Worker -> Nat]
        BY <1>1, <1>3, <1>4 DEF PaceInv
    <2>2. spent' \in [Worker -> 0..MaxStep]
        <3>1. 0 \in 0..MaxStep
            BY SupervisionAssumption
        <3>2. spent \in [Worker -> 0..MaxStep]
            BY DEF PaceInv
        <3>. QED  BY <1>3, <3>1, <3>2
    <2>3. slept' \in [Worker -> Nat]
        <3>1. slept \in [Worker -> Nat]
            BY DEF PaceInv
        <3>. QED  BY <1>1, <1>2, <3>1
    <2>4. age' \in [Worker -> Nat]
        <3>1. age \in [Worker -> Nat]
            BY DEF PaceInv
        <3>. QED  BY <1>3, <3>1
    <2>5. cadence' \in [Worker -> Nat] /\ \A v \in Worker : cadence'[v] \in Cadence[v]
        BY <1>1, <1>2 DEF PaceInv
    <2>. QED  BY <1>3, <2>1, <2>2, <2>3, <2>4, <2>5 DEF PaceInv
<1>6. ASSUME NEW v \in Worker PROVE Paced(v)'
    <2>1. CASE v = w
        <3>1. PICK i \in DOMAIN Backoff :
                  WaitAfter(delay, errors, spent[w]) <= Larger(delay, Backoff[i])
            BY <1>4
        <3>2. /\ at'[w] = "wait" /\ age'[w] = 0 /\ slept'[w] = delay
              /\ rest'[w] = WaitAfter(delay, errors, spent[w])
            BY <1>1, <1>3 DEF PaceInv
        <3>3. Larger(delay, Backoff[i]) \in Nat
            BY <1>2, BackoffsAreNumbers DEF Larger
        <3>. QED  BY <1>2, <1>4, <2>1, <3>1, <3>2, <3>3 DEF Paced
    <2>2. CASE v # w
        <3>1. /\ at'[v] = at[v] /\ age'[v] = age[v] /\ slept'[v] = slept[v]
              /\ rest'[v] = rest[v] /\ spent'[v] = spent[v]
            BY <1>1, <1>3, <2>2 DEF PaceInv
        <3>. QED  BY <3>1 DEF PaceInv, Paced
    <2>. QED  BY <2>1, <2>2
<1>7. ASSUME Steady PROVE Steady'
    <2>1. CASE hungry = 0 \/ (hungry = 1 /\ ~looked)
        BY <1>3, <1>7, <2>1 DEF Steady
    <2>2. CASE \E v \in Worker : Starves(v)
        <3>1. PICK v \in Worker : Starves(v)
            BY <2>2
        <3>2. age'[v] = 0 \/ (age'[v] = age[v] /\ slept'[v] = slept[v])
            BY <1>1, <1>3 DEF PaceInv
        <3>3. Starves(v)'
            BY <1>3, <3>1, <3>2, StarvesOn DEF PaceInv
        <3>. QED  BY <1>3, <1>7, <3>3 DEF Steady
    <2>. QED  BY <1>7, <2>1, <2>2 DEF Steady
<1>8. ASSUME NEW v \in Worker, at[v] = "hung" PROVE at'[v] = "hung"
    BY <1>3, <1>8 DEF PaceInv
<1>. QED  BY <1>3, <1>5, <1>6, <1>7, <1>8 DEF PaceInv, TakenTurns

\* A worker found overdue at h units since the last pet is within its reach.
LEMMA LateIsInReach ==
    ASSUME PaceShape, NEW w \in Worker, Paced(w), at[w] # "hung", NEW h \in Nat,
           age[w] >= Allowed(slept[w]) + h
    PROVE  InReach(w, h)
<1>1. PICK i \in DOMAIN Backoff :
          /\ age[w] <= Larger(slept[w], Backoff[i]) + MaxStep
          /\ slept[w] \in Cadence[w] \/ (slept[w] = 0 /\ age[w] <= MaxStep)
    BY PacedAge
<1>2. age[w] \in Nat /\ slept[w] \in Nat /\ Backoff[i] \in Nat /\ MaxStep \in Nat
    BY BackoffsAreNumbers, SupervisionAssumption DEF PaceShape
<1>3. Larger(slept[w], Backoff[i]) \in Nat /\ Allowed(slept[w]) \in Nat
    <2>1. Larger(slept[w], Backoff[i]) \in Nat
        BY <1>2 DEF Larger
    <2>. QED  BY <1>2, <2>1, AllowedGrows
<1>4. Allowed(slept[w]) + h <= Larger(slept[w], Backoff[i]) + MaxStep
    BY <1>1, <1>2, <1>3
<1>. QED  BY <1>1, <1>4 DEF InReach

\* A look that finds a worker overdue finds the one that was overdue before.
LEMMA PaceTick == ASSUME StepsAreShort, PaceInv, Tick PROVE PaceInv'
<1>1. /\ UNCHANGED <<at, streak, cadence, spent, rest, age, killed, slept>>
      /\ ~killed /\ ~looked /\ looked' = TRUE
    BY DEF Tick
<1>2. CASE hungry' = 0 /\ misjudged' = FALSE /\ tardy' = {}
    BY <1>1, <1>2 DEF PaceInv, PaceShape, Paced, Steady
<1>3. CASE (\E w \in Worker : Overdue(w)) /\ Starve
    <2>1. /\ hungry' = hungry
          /\ misjudged' = (misjudged \/ \E w \in Worker : Overdue(w) /\ Interval(w) < slept[w])
          /\ tardy' = tardy \cup {w \in Worker : Overdue(w)}
        BY <1>3 DEF Starve
    <2>2. misjudged' \in BOOLEAN /\ tardy' \subseteq Worker
        BY <2>1 DEF PaceInv, PaceShape
    <2>3. PaceShape' /\ \A w \in Worker : Paced(w)'
        BY <1>1, <2>1, <2>2 DEF PaceInv, PaceShape, Paced
    <2>4. ASSUME ~misjudged', ~TakenTurns', ~(\E w \in Worker : at[w] = "hung") PROVE Steady'
        <3>4. ~TakenTurns /\ \A v, w \in tardy' : v = w
            BY <2>1, <2>4 DEF TakenTurns
        <3>1. Steady /\ \A w \in Worker : Overdue(w) => ~(Interval(w) < slept[w])
            BY <2>1, <2>4, <3>4 DEF PaceInv
        <3>2. CASE hungry = 0
            BY <1>1, <2>1, <3>2 DEF Steady
        <3>3. CASE hungry # 0
            <4>1. PICK v \in Worker : Overdue(v)
                BY <1>3
            <4>2. CanBeLate(v) /\ age[v] >= Allowed(slept[v]) + 1 /\ age[v] > 1
                BY <2>4, <3>1, <4>1, OverdueCanBeLate DEF PaceInv
            <4>3. age[v] >= Allowed(slept[v]) + hungry
                <5>1. CASE hungry = 1
                    BY <4>2, <5>1
                <5>2. CASE \E w \in Worker : Starves(w)
                    <6>1. PICK w \in Worker : Starves(w)
                        BY <5>2
                    <6>2. w = v
                        BY <2>1, <3>4, <4>1, <6>1 DEF Starves
                    <6>3. age[v] <= 1 \/ age[v] >= Allowed(slept[v]) + hungry
                        BY <1>1, <6>1, <6>2 DEF Starves
                    <6>4. age[v] \in Nat
                        BY DEF PaceInv, PaceShape
                    <6>. QED  BY <4>2, <6>3, <6>4
                <5>. QED  BY <3>1, <3>3, <5>1, <5>2 DEF Steady
            <4>4. InReach(v, hungry)
                BY <2>4, <4>3, LateIsInReach DEF PaceInv, PaceShape
            <4>5. InReach(v, hungry)' = InReach(v, hungry)
                BY <2>1 DEF InReach
            <4>6. Starves(v)'
                BY <1>1, <2>1, <4>1, <4>2, <4>3, <4>4, <4>5 DEF Starves
            <4>. QED  BY <1>1, <4>6 DEF Steady
        <3>. QED  BY <3>2, <3>3
    <2>. QED  BY <1>1, <2>3, <2>4 DEF PaceInv
<1>. QED  BY <1>2, <1>3 DEF Tick, Pet

\* Time goes by for a worker as its wait or its step does.
LEMMA PacedOn ==
    ASSUME PaceInv, TimePasses, NEW w \in Worker PROVE Paced(w)'
<1>1. /\ age' = [v \in Worker |-> IF age[v] < MaxAge THEN age[v] + 1 ELSE age[v]]
      /\ spent' = [v \in Worker |-> IF at[v] = "step" THEN spent[v] + 1 ELSE spent[v]]
      /\ rest' = [v \in Worker |-> IF at[v] = "wait" THEN rest[v] - 1 ELSE rest[v]]
      /\ (at[w] = "wait" => rest[w] > 0) /\ UNCHANGED <<at, slept>>
    BY DEF TimePasses, histVars
<1>2. age[w] \in Nat /\ spent[w] \in Nat /\ rest[w] \in Nat /\ slept[w] \in Nat
    BY SupervisionAssumption DEF PaceInv, PaceShape
<1>3. CASE at[w] = "hung"
    BY <1>1, <1>3 DEF Paced
<1>4. CASE at[w] # "hung"
    <2>1. PICK i \in DOMAIN Backoff :
              age[w] + (IF at[w] = "wait" THEN rest[w] ELSE 0)
                  <= Larger(slept[w], Backoff[i]) + (IF at[w] = "step" THEN spent[w] ELSE 0)
        BY <1>4 DEF PaceInv, Paced
    <2>2. Backoff[i] \in Nat
        BY BackoffsAreNumbers
    <2>3. Larger(slept[w], Backoff[i]) \in Nat
        BY <1>2, <2>2 DEF Larger
    <2>4. /\ age'[w] \in Nat /\ age'[w] <= age[w] + 1
          /\ spent'[w] = (IF at[w] = "step" THEN spent[w] + 1 ELSE spent[w])
          /\ rest'[w] = (IF at[w] = "wait" THEN rest[w] - 1 ELSE rest[w])
          /\ at'[w] = at[w] /\ slept'[w] = slept[w]
        BY <1>1, <1>2, SupervisionAssumption
    <2>5. CASE at[w] = "wait"
        <3>1. age'[w] + rest'[w] <= Larger(slept[w], Backoff[i]) + 0
            BY <1>1, <1>2, <2>1, <2>3, <2>4, <2>5
        <3>2. slept[w] \in Cadence[w]
            BY <2>5 DEF PaceInv, Paced
        <3>. QED  BY <2>4, <2>5, <3>1, <3>2 DEF Paced
    <2>6. CASE at[w] = "step"
        <3>1. age'[w] + 0 <= Larger(slept[w], Backoff[i]) + spent'[w]
            BY <1>1, <1>2, <2>1, <2>3, <2>4, <2>6
        <3>2. slept[w] \in Cadence[w] \/ (slept[w] = 0 /\ age'[w] <= spent'[w])
            <4>1. slept[w] \in Cadence[w] \/ (slept[w] = 0 /\ age[w] <= spent[w])
                BY <2>6 DEF PaceInv, Paced
            <4>. QED  BY <1>2, <2>4, <2>6, <4>1
        <3>. QED  BY <2>4, <2>6, <3>1, <3>2 DEF Paced
    <2>. QED  BY <1>4, <2>5, <2>6 DEF PaceInv, PaceShape
<1>. QED  BY <1>3, <1>4

\* The watchdog outlasts every worker that can be late.
LEMMA ReachIsShort ==
    ASSUME StepsAreShort, NEW w \in Worker, NEW h \in Nat, InReach(w, h)
    PROVE  h + 1 < WatchdogSec
<1>1. PICK s \in Cadence[w] \cup {0}, i \in DOMAIN Backoff :
          Allowed(s) + h <= Larger(s, Backoff[i]) + MaxStep
    BY DEF InReach
<1>2. s \in Nat /\ Backoff[i] \in Nat /\ MaxStep \in Nat /\ WatchdogSec \in Nat
    BY CadencesAreNumbers, BackoffsAreNumbers, SupervisionAssumption
<1>3. Larger(s, Backoff[i]) \in Nat /\ Allowed(s) \in Nat
    <2>1. Larger(s, Backoff[i]) \in Nat
        BY <1>2 DEF Larger
    <2>. QED  BY <1>2, <2>1, AllowedGrows
<1>4. Larger(s, Backoff[i]) + MaxStep + 1 < Allowed(s) + WatchdogSec
    BY <1>1 DEF StepsAreShort
<1>. QED  BY <1>1, <1>2, <1>3, <1>4

\* Time passes: a worker that is late stays so, and the watchdog has time left.
LEMMA PaceTime == ASSUME StepsAreShort, PaceInv, TimePasses PROVE PaceInv'
<1>1. /\ age' = [v \in Worker |-> IF age[v] < MaxAge THEN age[v] + 1 ELSE age[v]]
      /\ spent' = [v \in Worker |-> IF at[v] = "step" THEN spent[v] + 1 ELSE spent[v]]
      /\ rest' = [v \in Worker |-> IF at[v] = "wait" THEN rest[v] - 1 ELSE rest[v]]
      /\ (\A v \in Worker : at[v] = "wait" => rest[v] > 0)
      /\ (\A v \in Worker : at[v] = "step" => spent[v] < MaxStep)
      /\ UNCHANGED <<at, streak, cadence, slept, misjudged, tardy>>
      /\ hungry' = hungry + 1 /\ looked /\ looked' = FALSE
      /\ killed' = (hungry + 1 >= WatchdogSec)
    BY DEF TimePasses, histVars
<1>2. PaceShape'
    <2>1. age' \in [Worker -> Nat]
        <3>1. ASSUME NEW v \in Worker
              PROVE  (IF age[v] < MaxAge THEN age[v] + 1 ELSE age[v]) \in Nat
            <4>1. age[v] \in Nat
                BY DEF PaceInv, PaceShape
            <4>. QED  BY <4>1
        <3>. QED  BY <1>1, <3>1
    <2>2. spent' \in [Worker -> 0..MaxStep]
        <3>1. ASSUME NEW v \in Worker
              PROVE  (IF at[v] = "step" THEN spent[v] + 1 ELSE spent[v]) \in 0..MaxStep
            <4>1. spent[v] \in 0..MaxStep /\ MaxStep \in Nat
                BY SupervisionAssumption DEF PaceInv, PaceShape
            <4>2. at[v] = "step" => spent[v] < MaxStep
                BY <1>1
            <4>. QED  BY <4>1, <4>2
        <3>. QED  BY <1>1, <3>1
    <2>3. rest' \in [Worker -> Nat]
        <3>1. ASSUME NEW v \in Worker
              PROVE  (IF at[v] = "wait" THEN rest[v] - 1 ELSE rest[v]) \in Nat
            BY <1>1 DEF PaceInv, PaceShape
        <3>. QED  BY <1>1, <3>1
    <2>4. hungry' \in Nat /\ looked' \in BOOLEAN
        <3>1. hungry' = hungry + 1 /\ looked' = FALSE
            BY <1>1
        <3>2. hungry' \in Nat
            BY <3>1 DEF PaceInv, PaceShape
        <3>3. looked' \in BOOLEAN
            BY <3>1
        <3>. QED  BY <3>2, <3>3
    <2>5. killed' \in BOOLEAN
        BY <1>1
    <2>. QED  BY <1>1, <2>1, <2>2, <2>3, <2>4, <2>5 DEF PaceInv, PaceShape
<1>3. \A v \in Worker : Paced(v)'
    BY PacedOn
<1>4. ASSUME ~misjudged, ~TakenTurns, ~(\E w \in Worker : at[w] = "hung") PROVE Steady'
    <2>1. Steady /\ hungry \in Nat
        BY <1>4 DEF PaceInv, PaceShape
    <2>2. CASE hungry = 0
        <3>1. ~(hungry + 1 >= WatchdogSec)
            BY <2>2, SupervisionAssumption
        <3>2. ~killed' /\ hungry' = 1 /\ ~looked'
            <4>1. ~killed' /\ ~looked'
                BY <1>1, <3>1
            <4>2. hungry' = hungry + 1
                BY <1>1
            <4>. QED  BY <2>2, <4>1, <4>2
        <3>. QED  BY <3>2 DEF Steady
    <2>3. CASE \E w \in Worker : Starves(w)
        <3>1. PICK v \in Worker : Starves(v)
            BY <2>3
        <3>2. /\ CanBeLate(v) /\ v \in tardy /\ InReach(v, hungry)
              /\ age[v] = 0 \/ age[v] >= Allowed(slept[v]) + hungry
            BY <1>1, <3>1 DEF Starves
        <3>3. hungry + 1 < WatchdogSec
            BY <2>1, <3>2, ReachIsShort
        <3>4. ~killed'
            <4>1. ~(hungry + 1 >= WatchdogSec)
                BY <2>1, <3>3, SupervisionAssumption
            <4>. QED  BY <1>1, <4>1
        <3>5. age[v] < MaxAge
            BY <1>4, <3>2, LateIsCounted DEF PaceInv
        <3>6. age'[v] = age[v] + 1 /\ age[v] \in Nat /\ slept'[v] = slept[v]
            BY <1>1, <3>5 DEF PaceInv, PaceShape
        <3>7. Allowed(slept[v]) \in Nat
            BY AllowedGrows DEF PaceInv, PaceShape
        <3>8. age'[v] <= 1 \/ age'[v] >= Allowed(slept[v]) + hungry'
            BY <1>1, <2>1, <3>2, <3>6, <3>7
        <3>9. Starves(v)'
            BY <1>1, <3>2, <3>6, <3>8 DEF Starves
        <3>. QED  BY <3>4, <3>9 DEF Steady
    <2>. QED  BY <1>1, <2>1, <2>2, <2>3 DEF Steady
<1>. QED  BY <1>1, <1>2, <1>3, <1>4 DEF PaceInv, TakenTurns

\* After a restart the beats start together again.
LEMMA PaceRestart == ASSUME PaceInv, ServiceRestarts PROVE PaceInv'
<1>1. /\ at' = [w \in Worker |-> "step"] /\ streak' = [w \in Worker |-> 0]
      /\ spent' = [w \in Worker |-> 0] /\ rest' = [w \in Worker |-> 0]
      /\ age' = [w \in Worker |-> 0] /\ slept' = [w \in Worker |-> 0]
      /\ hungry' = 0 /\ looked' = FALSE /\ killed' = FALSE /\ misjudged' = FALSE
      /\ tardy' = {} /\ cadence' = cadence
    BY DEF ServiceRestarts, Started
<1>2. PaceShape'
    <2>1. 0 \in 0..Len(Backoff) /\ 0 \in 0..MaxStep
        BY SupervisionAssumption
    <2>2. /\ at' \in [Worker -> {"step", "wait", "hung"}] /\ streak' \in [Worker -> 0..Len(Backoff)]
          /\ spent' \in [Worker -> 0..MaxStep]
        BY <1>1, <2>1
    <2>3. rest' \in [Worker -> Nat] /\ slept' \in [Worker -> Nat] /\ age' \in [Worker -> Nat]
        BY <1>1
    <2>. QED  BY <1>1, <2>2, <2>3 DEF PaceInv, PaceShape
<1>3. ASSUME NEW w \in Worker PROVE Paced(w)'
    <2>1. 1 \in DOMAIN Backoff /\ Backoff[1] \in Nat
        BY BackoffsAreNumbers
    <2>2. at'[w] = "step" /\ spent'[w] = 0 /\ age'[w] = 0 /\ slept'[w] = 0
        BY <1>1
    <2>3. Larger(slept'[w], Backoff[1]) \in Nat
        BY <2>1, <2>2 DEF Larger
    <2>. QED  BY <2>1, <2>2, <2>3 DEF Paced
<1>. QED  BY <1>1, <1>2, <1>3 DEF PaceInv, Steady

\* A thread that starts its step, or hangs in it, is judged as before.
LEMMA PaceTurns ==
    ASSUME PaceInv, NEW w \in Worker, WaitEnds(w) \/ Hang(w) PROVE PaceInv'
<1>1. PICK s \in {"step", "hung"} :
          /\ at' = [at EXCEPT ![w] = s]
          /\ s = "step" => at[w] = "wait" /\ rest[w] = 0
          /\ s = "hung" => at[w] = "step"
          /\ UNCHANGED <<streak, cadence, spent, rest, age, hungry, looked, killed, slept, misjudged, tardy>>
    <2>1. CASE WaitEnds(w)
        BY <2>1 DEF WaitEnds, histVars
    <2>2. CASE Hang(w)
        BY <2>2 DEF Hang, histVars
    <2>. QED  BY <2>1, <2>2
<1>2. PaceShape'
    BY <1>1 DEF PaceInv, PaceShape
<1>3. ASSUME NEW v \in Worker PROVE Paced(v)'
    <2>1. CASE v # w
        BY <1>1, <2>1 DEF PaceInv, PaceShape, Paced
    <2>2. CASE v = w /\ s = "hung"
        BY <1>1, <2>2 DEF PaceInv, PaceShape, Paced
    <2>3. CASE v = w /\ s = "step"
        <3>1. at'[w] = "step" /\ at[w] = "wait" /\ rest[w] = 0 /\ slept[w] \in Cadence[w]
            BY <1>1, <2>3 DEF PaceInv, PaceShape, Paced
        <3>2. PICK i \in DOMAIN Backoff : age[w] + 0 <= Larger(slept[w], Backoff[i]) + 0
            BY <3>1 DEF PaceInv, Paced
        <3>3. /\ age[w] \in Nat /\ spent[w] \in Nat /\ slept[w] \in Nat /\ Backoff[i] \in Nat
            BY BackoffsAreNumbers, SupervisionAssumption DEF PaceInv, PaceShape
        <3>4. Larger(slept[w], Backoff[i]) \in Nat
            BY <3>3 DEF Larger
        <3>5. age[w] + 0 <= Larger(slept[w], Backoff[i]) + spent[w]
            BY <3>2, <3>3, <3>4
        <3>. QED  BY <1>1, <2>3, <3>1, <3>5 DEF Paced
    <2>. QED  BY <2>1, <2>2, <2>3
<1>4. ASSUME NEW v \in Worker, at[v] = "hung" PROVE at'[v] = "hung"
    BY <1>1, <1>4 DEF PaceInv, PaceShape
<1>5. ASSUME Steady PROVE Steady'
    <2>1. ASSUME NEW v \in Worker, Starves(v) PROVE Starves(v)'
        BY <1>1, <2>1, StarvesOn DEF PaceInv
    <2>. QED  BY <1>1, <1>5, <2>1 DEF Steady
<1>. QED  BY <1>1, <1>2, <1>3, <1>4, <1>5 DEF PaceInv, TakenTurns

\* Where no wait and step outlasts the deadline and the watchdog together, the
\* watchdog ends a service with a hung worker in bounded time, and one whose threads
\* only wait and work as they are told never because of one of them, however often
\* it fails, however slow its steps and whatever the others do: several have to be
\* overdue by turns, or a reload has to shorten an interval under a waiting worker
\* (Supervisor.tick, _deadline_for, run_forever).
THEOREM WatchdogHolds ==
    ASSUME StepsAreShort
    PROVE  SuperSpec => []WatchdogIsFair
<1>1. PaceInv /\ [SuperNext]_superVars => PaceInv'
    <2>. SUFFICES ASSUME PaceInv, [SuperNext]_superVars PROVE PaceInv'
        OBVIOUS
    <2>1. ASSUME NEW w \in Worker, ReloadSettings(w) PROVE PaceInv'
        <3>1. PICK s \in Cadence[w] : cadence' = [cadence EXCEPT ![w] = s]
            BY <2>1 DEF ReloadSettings
        <3>2. cadence' \in [Worker -> Nat] /\ \A v \in Worker : cadence'[v] \in Cadence[v]
            BY <3>1, CadencesAreNumbers DEF PaceInv, PaceShape
        <3>3. UNCHANGED <<at, streak, spent, rest, age, hungry, looked, killed, slept, misjudged, tardy>>
            BY <2>1 DEF ReloadSettings, histVars
        <3>. QED
            BY <3>2, <3>3 DEF PaceInv, PaceShape, Paced, Steady, Starves, InReach, TakenTurns
    <2>2. CASE UNCHANGED superVars
        BY <2>2 DEF superVars, histVars, PaceInv, PaceShape, Paced, Steady, Starves, InReach, TakenTurns
    <2>. QED
        BY <2>1, <2>2, PaceStepEnds, PaceTurns, PaceTick, PaceTime, PaceRestart DEF SuperNext
<1>2. PaceInv => NoneStarvesItAlone
    BY DEF PaceInv, Steady, NoneStarvesItAlone
<1>3. SuperSpec => []NoneStarvesItAlone
    BY PaceStart, <1>1, <1>2, PTL DEF SuperSpec
<1>. QED  BY <1>3, HangsAreBounded, PTL DEF WatchdogIsFair

(***************************************************************************)
(* Remainders.                                                             *)
(***************************************************************************)
\* A remainder is less than its modulus.
LEMMA ModRange == ASSUME NEW m \in Nat \ {0}, NEW a \in Int PROVE a % m \in 0..(m - 1)
  OBVIOUS

\* A number is its quotient and its remainder.
LEMMA Division == ASSUME NEW m \in Nat \ {0}, NEW a \in Int PROVE a = m * (a \div m) + (a % m) /\ a \div m \in Int
  OBVIOUS

\* The remainder is the only one.
LEMMA Unique == ASSUME NEW m \in Nat \ {0}, NEW q \in Int, NEW r \in 0..(m-1) 
  PROVE (m * q + r) % m = r
  <1> DEFINE d == (m * q + r) \div m
             s == (m * q + r) % m
  <1>1. m * q + r = m * d + s /\ d \in Int /\ s \in 0..(m-1)
     <2>1. m * q + r \in Int
        OBVIOUS
     <2>2. ASSUME NEW a \in Int
           PROVE  a = m * (a \div m) + (a % m) /\ a \div m \in Int /\ a % m \in 0..(m-1)
        BY Division, ModRange
     <2>. QED  BY <2>1, <2>2
  <1>2. m * (q - d) = s - r
     BY <1>1
  <1>3. q - d <= 0
     <2>1. SUFFICES ASSUME q - d >= 1 PROVE FALSE
        BY <1>1
     <2>2. m * (q - d) >= m
        BY <2>1, <1>1
     <2>. QED  BY <2>2, <1>2, <1>1
  <1>4. q - d >= 0
     <2>1. SUFFICES ASSUME q - d <= -1 PROVE FALSE
        BY <1>1
     <2>2. m * (q - d) <= -m
        BY <2>1, <1>1
     <2>. QED  BY <2>2, <1>2, <1>1
  <1>5. q = d
     BY <1>3, <1>4, <1>1
  <1>. QED  BY <1>5, <1>2, <1>1

\* Remainders may be taken early.
LEMMA Congruent == ASSUME NEW m \in Nat \ {0}, NEW a \in Int, NEW b \in Int
  PROVE ((a % m) + b) % m = (a + b) % m
  <1> DEFINE c == (a % m) + b
             q == (a \div m) + (c \div m)
             r == c % m
  <1>1. a = m * (a \div m) + (a % m) /\ a \div m \in Int /\ a % m \in Int
     BY Division, ModRange
  <1>2. c \in Int
     BY <1>1
  <1> HIDE DEF c
  <1>3. c = m * (c \div m) + (c % m) /\ c \div m \in Int /\ c % m \in 0..(m-1)
     BY Division, ModRange, <1>2
  <1>4. c + (a - (a % m)) = m * q + r /\ q \in Int /\ r \in 0..(m-1)
     BY <1>1, <1>2, <1>3
  <1>5. a + b = m * q + r
     BY <1>4, <1>1 DEF c
  <1> HIDE DEF q, r
  <1>6. (m * q + r) % m = r
     BY <1>4, Unique
  <1>. QED  BY <1>5, <1>6 DEF r, c

\* Less than a whole turn does not come back.
LEMMA NotBack == ASSUME NEW m \in Nat \ {0}, NEW n \in 0..(m - 1), NEW i \in 1..(m - 1)
  PROVE (n + i) % m # n
  <1>1. CASE n + i < m
     <2>1. n + i = m * 0 + (n + i) /\ n + i \in 0..(m-1)
       BY <1>1
     <2>. QED  BY <2>1, Unique
  <1>2. CASE n + i >= m
     <2>1. n + i = m * 1 + (n + i - m) /\ n + i - m \in 0..(m-1)
       BY <1>2
     <2>. QED  BY <2>1, Unique
  <1>. QED  BY <1>1, <1>2

(***************************************************************************)
(* The LoRaWAN session.  Its row is written in two steps, by two threads,    *)
(* with crashes between them: what a counter is past is stated of each copy. *)
(***************************************************************************)
\* The places of the radio worker; in Saving it is about to write its snapshot.
Saving == {"join_save", "up_save", "left_save", "keep_save"}
Places == {"idle", "join_send", "join_window", "keep", "send", "window", "act"} \cup Saving

\* The kinds of values.
KeyPairs == Int \X Int
Sessions == [keys : KeyPairs, up : Nat, down : Nat]
Rows == [session : Sessions, nonce : -1..(NonceMod - 1), recent : Seq(Int)]

\* Every value is of its kind, a thread whose snapshot is older than the row has
\* still to write it, and a request is prepared only within the bound on joins.
SessionShape ==
    /\ session \in Sessions /\ nonce \in -1..(NonceMod - 1) /\ recent \in Seq(Int)
    /\ silent \in Nat /\ unanswered \in Nat
    /\ row \in Rows /\ snap \in Rows /\ csnap \in Rows
    /\ pc \in Places /\ cpc \in {"idle", "forgot", "save"}
    /\ frame \in KeyPairs \X Nat /\ order \in KeyPairs \X Nat
    /\ known \in KeyPairs /\ down \in Nat /\ restarts \in 0..MaxRestarts
    /\ asked \subseteq 0..(NonceMod - 1) /\ IsFiniteSet(asked) /\ Cardinality(asked) <= MaxJoins
    /\ made \subseteq KeyPairs /\ IsFiniteSet(made)
    /\ pc \in {"join_save", "join_send"} => Cardinality(asked) < MaxJoins /\ nonce >= 0
    /\ taken \subseteq Int
    /\ sent \subseteq KeyPairs \X Nat /\ acted \subseteq KeyPairs \X Nat /\ left \subseteq KeyPairs
    /\ late \subseteq {"radio", "command"} /\ behind \in BOOLEAN /\ misled \in BOOLEAN
    /\ "radio" \in late => pc \in Saving
    /\ "command" \in late => cpc = "save"

\* The unanswered link checks are those that were due among the silent uplinks.
SilenceInv ==
    /\ unanswered <= RejoinAfter
    /\ LinkEvery * unanswered <= silent /\ silent < LinkEvery * unanswered + LinkEvery

\* Keys that the network derived too, or that come from a JoinAccept it had missed
\* or one whose AppNonce was forgotten.
Genuine(k) == k = NoKeys \/ k \in made \cup stray \/ k[2] \in unlearnt

\* Every copy of the session has such keys: an AppNonce that was taken is
\* remembered or known to be forgotten.
KeysInv ==
    /\ \A s \in {session, row.session, snap.session, csnap.session} : Genuine(s.keys)
    /\ taken \subseteq Range(recent) \cup unlearnt

\* The thread holds a snapshot that the row has not overtaken.
RadioHolds == pc \in Saving /\ "radio" \notin late
CommandHolds == cpc = "save" /\ "command" \notin late

\* DevNonces that may still be asked or, at a restart, lost.
Left == (MaxJoins - Cardinality(asked)) + (MaxRestarts - restarts)

\* The DevNonces from a to b after n have not been used; there is none before the
\* first.
Unasked(n, a, b) ==
    IF n < 0 THEN asked = {} ELSE \A i \in a..b : (n + i) % NonceMod \notin asked

Asking == {"join_save", "join_send"}

\* As many DevNonces as may be used are fresh after the one in memory; one less
\* after that of the row, and of a snapshot that will get there.
NonceInv ==
    /\ IF pc \in Asking THEN nonce >= 0 /\ Cardinality(asked) < MaxJoins /\ Unasked(nonce, 0, Left - 1)
       ELSE Unasked(nonce, 1, Left)
    /\ pc \in Saving => snap.nonce = nonce
    /\ pc \in Asking \cup {"join_window"} => session.keys = NoKeys
    /\ ~behind => Unasked(row.nonce, 1, Left - 1)
    /\ CommandHolds => Unasked(csnap.nonce, 1, Left - 1)
    /\ pc = "join_send" => ((~behind => row.nonce = nonce) /\ (CommandHolds => csnap.nonce = nonce))

\* Keys of a join that was asked for, but not the one under way.
Old(k) == k = NoKeys \/ (k[1] \in asked /\ (pc = "join_window" => k[1] # nonce))

\* The frames, the snapshots and the sessions given up are of such joins.
PastInv ==
    /\ NoKeys \notin left
    /\ \A f \in sent \cup acted : Old(f[1])
    /\ \A k \in left : Old(k)
    /\ Old(row.session.keys) /\ Old(snap.session.keys) /\ Old(csnap.session.keys)
    /\ Old(session.keys)
    /\ pc = "join_window" => nonce \in asked
    /\ Old(frame[1]) /\ Old(order[1])

\* The counters of a session are past the frames of its keys.
Covers(s, up, dn) ==
    /\ \A f \in up : f[1] = s.keys => f[2] < s.up
    /\ \A f \in dn : f[1] = s.keys => f[2] < s.down

\* The uplink that was counted but not sent, and the command that was accepted
\* but not executed; once written, they are safe from a restart.
Flying == IF pc \in {"up_save", "send"} THEN {frame} ELSE {}
Pending == IF order # NoFrame THEN {order} ELSE {}
Counted == IF pc = "send" THEN {frame} ELSE {}
Ordered == IF pc = "act" THEN {order} ELSE {}

Ups == sent \cup Flying
Downs == acted \cup Pending
SafeUps == sent \cup Counted
SafeDowns == acted \cup Ordered

\* What is under way was never counted before; the session and the snapshot of the
\* radio worker are past everything, the row past what is safe.
CountInv ==
    /\ \A f \in Ups \cup Downs : f[1] # NoKeys
    /\ Flying \cap sent = {} /\ Pending \cap acted = {}
    /\ order # NoFrame => pc \in {"keep", "keep_save", "act"}
    /\ pc = "act" => order # NoFrame
    /\ Covers(session, Ups, Downs)
    /\ pc \in Saving => Covers(snap.session, Ups, Downs)
    /\ ~behind => Covers(row.session, SafeUps, SafeDowns)
    /\ CommandHolds => Covers(csnap.session, SafeUps, SafeDowns)

\* The command thread has yet to write that the session was given up.
Parting == cpc = "forgot" \/ (cpc = "save" /\ csnap.session.keys \notin left)

\* A session that was given up is not in memory; if it is in the row, the thread
\* that gave it up has still to write, and no other will write it again.
LeftInv ==
    /\ session.keys \notin left
    /\ row.session.keys \in left => (behind \/ pc = "left_save" \/ Parting)
    /\ pc = "left_save" => snap.session = Fresh
    /\ RadioHolds /\ snap.session.keys \in left => Parting
    /\ CommandHolds /\ csnap.session.keys \in left => pc = "left_save"
\* What depends on the row having been current at every restart.
OnceInv == ~misled => NonceInv /\ PastInv /\ CountInv /\ LeftInv

\* The row is made of a session and the MAC parameters.
LEMMA RowType == ASSUME NEW s \in Sessions, NEW n \in -1..(NonceMod - 1), NEW r \in Seq(Int)
  PROVE Row(s, n, r) \in Rows
  BY DEF Row, Rows

\* A session that was never joined is a session.
LEMMA FreshType == Fresh \in Sessions /\ NoFrame \in KeyPairs \X Nat /\ NoKeys \in KeyPairs
  BY DEF Fresh, NoKeys, NoFrame, Sessions, KeyPairs

\* What is assumed of the constants, as plain facts.
LEMMA Bounds ==
    /\ LinkEvery \in Nat /\ LinkEvery > 0 /\ RejoinAfter \in Nat
    /\ NonceMod \in Nat /\ NonceMod > 0 /\ FCntMod \in Nat /\ FCntMod > 0
    /\ MaxJoins \in Nat /\ MaxRestarts \in Nat /\ MaxJoins + MaxRestarts <= NonceMod
    /\ \A s \in Seeds : s \in 0..(NonceMod - 1)
  BY LoRaAssumption

\* The process starts from a well-formed state,
LEMMA ShapeStart == Init => SessionShape
  <1> SUFFICES ASSUME Init PROVE SessionShape
     OBVIOUS
  <1> USE Bounds DEF Init
  <1>0. -1 \in -1..(NonceMod - 1) /\ <<>> \in Seq(Int)
     OBVIOUS
  <1>1. row \in Rows
     BY <1>0, RowType, FreshType
  <1>2. Cardinality({}) = 0 /\ IsFiniteSet({})
     BY FS_EmptySet
  <1>3. session \in Sessions /\ known \in KeyPairs /\ frame \in KeyPairs \X Nat /\ order \in KeyPairs \X Nat
     BY FreshType
  <1>4. snap \in Rows /\ csnap \in Rows
     BY <1>1
  <1>5. Cardinality(asked) = 0 /\ IsFiniteSet(asked) /\ IsFiniteSet(made) /\ made \subseteq KeyPairs
     BY <1>2
  <1>6. 0 \in 0..MaxRestarts
     OBVIOUS
  <1>7. pc \in Places /\ cpc \in {"idle", "forgot", "save"} /\ nonce = -1
     BY DEF Places
  <1>8. /\ nonce \in -1..(NonceMod - 1) /\ recent \in Seq(Int) /\ silent \in Nat /\ unanswered \in Nat
        /\ down \in Nat /\ restarts \in 0..MaxRestarts
     BY <1>0
  <1>9. /\ asked = {} /\ taken = {} /\ sent = {} /\ acted = {} /\ left = {} /\ late = {}
        /\ behind \in BOOLEAN /\ misled \in BOOLEAN /\ pc = "idle"
     OBVIOUS
  <1>10. SessionShape
     <2> USE DEF SessionShape
     <2> HIDE DEF Init
     <2>. QED  BY <1>1, <1>5, <1>3, <1>4, <1>7, <1>8, <1>9
  <1>. QED  BY <1>10

\* and every step leads to one.
LEMMA ShapeStep == ASSUME SessionShape, [Next]_vars PROVE SessionShape'
  <1> USE Bounds
  <1> USE DEF SessionShape
  <1>0. ASSUME NEW t \in {"radio", "command"} PROVE Overtaken(t) \subseteq {"radio", "command"} /\
        ("radio" \in Overtaken(t) => t = "command" /\ pc \in Saving) /\ ("command" \in Overtaken(t) => t = "radio" /\ cpc = "save")
     BY DEF Overtaken, Saving
  <1>1. CASE JoinBegins
     <2>1. nonce' \in 0..(NonceMod - 1)
        BY <1>1, ModRange DEF JoinBegins, NextNonces
     <2>2. snap' \in Rows
        BY <2>1, <1>1, RowType DEF JoinBegins
     <2>. QED  BY <1>1, <2>1, <2>2 DEF JoinBegins, rowVars, cmdVars, netVars, boundVars, airVars, Places, Saving
  <1>2. CASE JoinSaved
     BY <1>2, <1>0 DEF JoinSaved, macVars, cmdVars, netVars, airVars, Persist, Commit, CommitFails, Places, Saving
  <1>3. CASE JoinSend
     <2>1. nonce \in 0..(NonceMod - 1) /\ asked' = asked \cup {nonce}
        BY <1>3 DEF JoinSend
     <2>2. IsFiniteSet(asked') /\ Cardinality(asked') <= MaxJoins
        <3>1. Cardinality(asked) \in Nat /\ Cardinality(asked) < MaxJoins
           BY <1>3, FS_CardinalityType DEF JoinSend
        <3>2. IsFiniteSet(asked)
           OBVIOUS
        <3>3. IsFiniteSet(asked') /\ Cardinality(asked') = IF nonce \in asked THEN Cardinality(asked) ELSE Cardinality(asked) + 1
           BY <3>2, <2>1, FS_AddElement
        <3>. QED  BY <3>1, <3>3
     <2>3. IsFiniteSet(made') /\ made' \subseteq KeyPairs /\ known' \in KeyPairs /\ down' \in Nat
        <3>1. CASE UNCHANGED netVars
           BY <3>1 DEF netVars
        <3>2. CASE /\ known' = <<nonce, Cardinality(made) + 1>> /\ made' = made \cup {known'}
                   /\ down' = 0
           <4>1. Cardinality(made) \in Nat
              BY FS_CardinalityType
           <4>2. known' \in KeyPairs
              BY <4>1, <3>2, <2>1 DEF KeyPairs
           <4>3. IsFiniteSet(made')
              BY <3>2, FS_AddElement
           <4>. QED  BY <4>2, <4>3, <3>2
        <3>. QED  BY <1>3, <3>1, <3>2 DEF JoinSend
     <2>. QED  BY <1>3, <2>1, <2>2, <2>3 DEF JoinSend, macVars, rowVars, cmdVars, boundVars, Places, Saving
  <1>4. CASE JoinUnanswered
     BY <1>4 DEF JoinUnanswered, macVars, rowVars, cmdVars, netVars, boundVars, airVars, Places, Saving
  <1>5. CASE JoinAccepted
     <2>1. PICK an \in {k[2] : k \in made} :
             /\ recent' = IF Len(recent) < Kept THEN Append(recent, an) ELSE Append(Tail(recent), an)
             /\ session' = [keys |-> <<nonce, an>>, up |-> 0, down |-> 0]
             /\ taken' = taken \cup {an}
        BY <1>5 DEF JoinAccepted
     <2>2. an \in Int /\ nonce \in Int
        BY <2>1 DEF KeyPairs
     <2>3. session' \in Sessions
        BY <2>1, <2>2 DEF Sessions, KeyPairs
     <2>4. recent' \in Seq(Int)
        <3>1. CASE Len(recent) < Kept
           BY <2>1, <2>2, <3>1
        <3>2. CASE ~(Len(recent) < Kept)
           <4>1. Len(recent) > 0
              BY <3>2, LoRaAssumption
           <4>2. Tail(recent) \in Seq(Int)
              BY <4>1
           <4>. QED  BY <2>1, <2>2, <3>2, <4>2
        <3>. QED  BY <3>1, <3>2
     <2>5. taken' \subseteq Int
        BY <2>1, <2>2
     <2>6. pc' = "keep" /\ UNCHANGED <<nonce, silent, unanswered, rowVars, snap, frame, order, cmdVars, netVars,
                   boundVars, asked, sent, acted, left, misled>>
        BY <1>5 DEF JoinAccepted
     <2>. QED  BY <2>3, <2>4, <2>5, <2>6, <1>5 DEF JoinAccepted, rowVars, cmdVars, netVars, boundVars, Places, Saving
  <1>6. CASE Keep
     BY <1>6, RowType DEF Keep, macVars, rowVars, cmdVars, netVars, boundVars, airVars, Places, Saving
  <1>7. CASE KeepSaved
     BY <1>7, <1>0, FreshType DEF KeepSaved, macVars, cmdVars, netVars, airVars, Persist, Commit, CommitFails, Places, Saving
  <1>8. CASE GiveUp
     BY <1>8, RowType, FreshType DEF GiveUp, Forget, rowVars, cmdVars, netVars, boundVars, Places, Saving, Sessions
  <1>9. CASE GivenUp
     BY <1>9, <1>0 DEF GivenUp, macVars, cmdVars, netVars, airVars, Persist, Commit, CommitFails, Places, Saving
  <1>10. CASE UplinkTooLong
     BY <1>10 DEF UplinkTooLong, CountUplink, UplinkBegins, rowVars, cmdVars, netVars, boundVars, airVars, Places, Saving
  <1>11. CASE Uplink
     <2>0. session.keys \in KeyPairs /\ session.up \in Nat /\ session.up + 1 \in Nat
        BY DEF Sessions
     <2>a. session' \in Sessions
        BY <1>11, <2>0 DEF Uplink, Sessions
     <2>b. frame' \in KeyPairs \X Nat
        BY <1>11, <2>0 DEF Uplink
     <2>1. session' \in Sessions /\ frame' \in KeyPairs \X Nat
        BY <2>a, <2>b
     <2>2. snap' \in Rows
        BY <2>1, <1>11, RowType DEF Uplink
     <2>5. silent' = silent + 1 /\ unanswered' \in {unanswered, unanswered + 1}
        BY <1>11 DEF Uplink, CountUplink
     <2>3. silent' \in Nat /\ unanswered' \in Nat
        BY <2>5
     <2>4. pc' \in Places /\ pc' = "up_save" /\ pc' \in Saving
        BY <1>11 DEF Uplink, Places, Saving
     <2>. QED  BY <1>11, <2>1, <2>2, <2>3, <2>4 DEF Uplink, rowVars, cmdVars, netVars, boundVars, airVars
  <1>12. CASE UplinkSaved
     BY <1>12, <1>0 DEF UplinkSaved, macVars, cmdVars, netVars, airVars, Persist, Commit, CommitFails, Places, Saving
  <1>13. CASE Send
     BY <1>13 DEF Send, macVars, rowVars, cmdVars, boundVars, Places, Saving
  <1>14. CASE NothingHeard
     BY <1>14, FreshType DEF NothingHeard, macVars, rowVars, cmdVars, netVars, boundVars, airVars, Places, Saving
  <1>15. CASE Downlink
     <2>1. PICK n \in 0..(down - 1) : /\ session' = [session EXCEPT !.down = n + 1]
                                    /\ order' \in {NoFrame, <<known, n>>}
        BY <1>15 DEF Downlink
     <2>0. down \in Nat /\ known \in KeyPairs
        OBVIOUS
     <2>2. n \in Nat /\ n + 1 \in Nat
        BY <2>0
     <2>3. session' \in Sessions
        BY <2>1, <2>2 DEF Sessions
     <2>5. <<known, n>> \in KeyPairs \X Nat
        BY <2>0, <2>2
     <2>4. order' \in KeyPairs \X Nat
        BY <2>1, <2>5, FreshType
     <2>. QED  BY <1>15, <2>3, <2>4, FreshType DEF Downlink, rowVars, cmdVars, netVars, boundVars, airVars, Places, Saving
  <1>16. CASE Act
     BY <1>16, FreshType DEF Act, macVars, rowVars, cmdVars, netVars, boundVars, Places, Saving
  <1>17. CASE Rejoin
     BY <1>17, FreshType DEF Rejoin, Forget, rowVars, radioVars, netVars, Places, Saving, Sessions
  <1>18. CASE RejoinTakes
     BY <1>18, RowType DEF RejoinTakes, macVars, rowVars, radioVars, netVars, boundVars, airVars, Places, Saving
  <1>19. CASE RejoinSaved
     BY <1>19, <1>0 DEF RejoinSaved, macVars, radioVars, netVars, airVars, Commit, CommitFails, Places, Saving
  <1>20. CASE Restart
     <2>1. session' \in Sessions /\ nonce' \in -1..(NonceMod - 1) /\ recent' \in Seq(Int)
        BY <1>20 DEF Restart, Rows
     <2>2. left' \subseteq KeyPairs /\ restarts' \in 0..MaxRestarts
        BY <1>20 DEF Restart
     <2>3. frame' \in KeyPairs \X Nat /\ order' \in KeyPairs \X Nat /\ snap' \in Rows /\ csnap' \in Rows
        BY <1>20, FreshType DEF Restart
     <2>4. pc' \in Places /\ cpc' \in {"idle", "forgot", "save"} /\ late' = {} /\ pc' = "idle"
        BY <1>20 DEF Restart, Places
     <2>5. behind' \in BOOLEAN /\ misled' \in BOOLEAN
        BY <1>20 DEF Restart
     <2>. QED  BY <1>20, <2>1, <2>2, <2>3, <2>4, <2>5 DEF Restart, netVars
  <1>21. CASE NetworkForgets
     BY <1>21, FreshType DEF NetworkForgets, macVars, rowVars, radioVars, cmdVars, boundVars, airVars
  <1>22. CASE UNCHANGED vars
     BY <1>22 DEF vars, macVars, rowVars, radioVars, cmdVars, netVars, boundVars, airVars
  <1>. QED  BY <1>1, <1>2, <1>3, <1>4, <1>5, <1>6, <1>7, <1>8, <1>9, <1>10, <1>11, <1>12, <1>13, <1>14,
          <1>15, <1>16, <1>17, <1>18, <1>19, <1>20, <1>21, <1>22 DEF Next, RadioStep, CommandStep

-----------------------------------------------------------------------------
\* Genuine in the next state.
GenuineNext(k) == k = NoKeys \/ k \in made' \cup stray' \/ k[2] \in unlearnt'

\* There are no keys at first,
LEMMA KeysStart == Init => KeysInv
  BY DEF Init, KeysInv, Genuine, Row, Fresh

\* and every step keeps them genuine: a JoinAccept is the one for this request, a
\* missed one, or an old one whose AppNonce is no longer known.
LEMMA KeysStep == ASSUME SessionShape, KeysInv, [Next]_vars PROVE KeysInv'
  <1> USE DEF KeysInv
  <1>0. SUFFICES /\ made \subseteq made' /\ stray \subseteq stray' /\ unlearnt \subseteq unlearnt'
                 /\ GenuineNext(session'.keys) /\ GenuineNext(row'.session.keys)
                 /\ GenuineNext(snap'.session.keys) /\ GenuineNext(csnap'.session.keys)
                 /\ taken' \subseteq Range(recent') \cup unlearnt'
     BY DEF GenuineNext, Genuine
  <1> HIDE DEF KeysInv
  <1>k. /\ Genuine(session.keys) /\ Genuine(row.session.keys) /\ Genuine(snap.session.keys) /\ Genuine(csnap.session.keys)
        /\ taken \subseteq Range(recent) \cup unlearnt
     BY DEF KeysInv
  <1>m. ASSUME NEW k, Genuine(k), made \subseteq made', stray \subseteq stray', unlearnt \subseteq unlearnt' PROVE GenuineNext(k)
     BY <1>m DEF Genuine, GenuineNext
  <1>n. GenuineNext(NoKeys) /\ Fresh.keys = NoKeys
     BY DEF GenuineNext, Fresh
  <1>r. \A s, n, r : Row(s, n, r).session = s
     BY DEF Row
  <1> USE <1>k
  <1>1. CASE JoinBegins
     BY <1>1, <1>m, <1>r DEF JoinBegins, rowVars, cmdVars, netVars, airVars
  <1>2. CASE JoinSaved
     BY <1>2, <1>m DEF JoinSaved, macVars, cmdVars, netVars, airVars, Persist, Commit, CommitFails
  <1>3. CASE JoinSend
     <2>1. made \subseteq made'
        BY <1>3 DEF JoinSend, netVars
     <2>. QED  BY <1>3, <2>1, <1>m DEF JoinSend, macVars, rowVars, cmdVars, netVars
  <1>4. CASE JoinUnanswered
     BY <1>4, <1>m DEF JoinUnanswered, macVars, rowVars, cmdVars, netVars, airVars
  <1>5. CASE JoinAccepted
     <2>0. PICK k \in made :
             /\ ~Contains(recent, k[2])
             /\ recent' = IF Len(recent) < Kept THEN Append(recent, k[2])
                                                ELSE Append(Tail(recent), k[2])
             /\ session' = [keys |-> <<nonce, k[2]>>, up |-> 0, down |-> 0]
             /\ taken' = taken \cup {k[2]}
             /\ stray' = stray \cup (IF k[1] = nonce \/ k[2] \in taken THEN {} ELSE {<<nonce, k[2]>>})
             /\ unlearnt' = unlearnt \cup (Range(recent) \ Range(recent'))
        BY <1>5 DEF JoinAccepted
     <2> DEFINE an == k[2]
     <2>1. /\ ~Contains(recent, an)
           /\ recent' = IF Len(recent) < Kept THEN Append(recent, an) ELSE Append(Tail(recent), an)
           /\ session' = [keys |-> <<nonce, an>>, up |-> 0, down |-> 0]
           /\ taken' = taken \cup {an}
           /\ stray' = stray \cup (IF k[1] = nonce \/ an \in taken THEN {} ELSE {<<nonce, an>>})
           /\ unlearnt' = unlearnt \cup (Range(recent) \ Range(recent'))
        BY <2>0
     <2>p. k[1] = nonce => k = <<nonce, an>>
        BY DEF SessionShape, KeyPairs
     <2>q. an \in Int
        BY DEF SessionShape, KeyPairs
     <2> HIDE DEF an
     <2>2. an \in Int /\ recent \in Seq(Int)
        BY <2>q DEF SessionShape
     <2>3. an \notin Range(recent)
        BY <2>1, <2>2 DEF Contains, Range
     <2>4. an \in Range(recent')
        <3>1. Tail(recent) \in Seq(Int) \/ Len(recent) < Kept
           BY <2>2, LoRaAssumption
        <3>2. PICK q \in Seq(Int) : recent' = Append(q, an)
           BY <3>1, <2>1, <2>2
        <3>3. recent'[Len(q) + 1] = an /\ Len(q) + 1 \in DOMAIN recent'
           BY <3>2, <2>2
        <3>. QED  BY <3>3 DEF Range
     <2>5. GenuineNext(session'.keys)
        <3>1. session'.keys = <<nonce, an>>
           BY <2>1
        <3>2. CASE k[1] = nonce
           <4>1. <<nonce, an>> \in made /\ made' = made
              BY <3>2, <2>p, <1>5 DEF JoinAccepted, netVars
           <4>. QED  BY <4>1, <3>1 DEF GenuineNext
        <3>4. CASE k[1] # nonce /\ an \notin taken
           <4>1. <<nonce, an>> \in stray'
              BY <3>4, <2>1
           <4>. QED  BY <4>1, <3>1 DEF GenuineNext
        <3>3. CASE an \in taken
           <4>1. an \in unlearnt'
              BY <3>3, <2>3, <2>1
           <4>. QED  BY <4>1, <3>1 DEF GenuineNext
        <3>. QED  BY <3>2, <3>3, <3>4
     <2>6. taken' \subseteq Range(recent') \cup unlearnt'
        BY <2>1, <2>4
     <2>. QED  BY <1>5, <2>1, <2>5, <2>6, <1>m DEF JoinAccepted, rowVars, cmdVars, netVars
  <1>6. CASE Keep
     BY <1>6, <1>m, <1>r DEF Keep, macVars, rowVars, cmdVars, netVars, boundVars, airVars
  <1>7. CASE KeepSaved
     BY <1>7, <1>m DEF KeepSaved, macVars, cmdVars, netVars, airVars, Persist, Commit, CommitFails
  <1>8. CASE GiveUp
     <2>1. session'.keys = NoKeys /\ snap'.session.keys = NoKeys
        BY <1>8, <1>r, <1>n DEF GiveUp, Forget
     <2>2. /\ UNCHANGED <<row, csnap, made, stray, unlearnt, taken, recent, nonce>>
           /\ pc = "idle" /\ pc' = "left_save"
        BY <1>8 DEF GiveUp, Forget, UplinkBegins, rowVars, cmdVars, netVars
     <2>. QED  BY <2>2, <2>1, <1>m, <1>n
  <1>9. CASE GivenUp
     BY <1>9, <1>m DEF GivenUp, macVars, cmdVars, netVars, airVars, Persist, Commit, CommitFails
  <1>10. CASE UplinkTooLong
     BY <1>10, <1>m DEF UplinkTooLong, UplinkBegins, rowVars, cmdVars, netVars, boundVars, airVars
  <1>11. CASE Uplink
     <2>1. session'.keys = session.keys /\ snap'.session = session'
        BY <1>11, <1>r DEF Uplink, SessionShape, Sessions
     <2>. QED  BY <1>11, <2>1, <1>m DEF Uplink, UplinkBegins, rowVars, cmdVars, netVars, boundVars, airVars
  <1>12. CASE UplinkSaved
     BY <1>12, <1>m DEF UplinkSaved, macVars, cmdVars, netVars, airVars, Persist, Commit, CommitFails
  <1>13. CASE Send
     BY <1>13, <1>m DEF Send, macVars, rowVars, cmdVars
  <1>14. CASE NothingHeard
     BY <1>14, <1>m DEF NothingHeard, macVars, rowVars, cmdVars, netVars, airVars
  <1>15. CASE Downlink
     <2>1. session'.keys = session.keys
        BY <1>15 DEF Downlink, SessionShape, Sessions
     <2>. QED  BY <1>15, <2>1, <1>m DEF Downlink, rowVars, cmdVars, netVars, airVars
  <1>16. CASE Act
     BY <1>16, <1>m DEF Act, macVars, rowVars, cmdVars, netVars
  <1>17. CASE Rejoin
     BY <1>17, <1>m, <1>n DEF Rejoin, Forget, rowVars, radioVars, netVars
  <1>18. CASE RejoinTakes
     BY <1>18, <1>m, <1>r DEF RejoinTakes, macVars, rowVars, radioVars, netVars, airVars
  <1>19. CASE RejoinSaved
     BY <1>19, <1>m DEF RejoinSaved, macVars, radioVars, netVars, airVars, Commit, CommitFails
  <1>20. CASE Restart
     BY <1>20, <1>m DEF Restart, netVars
  <1>21. CASE NetworkForgets
     BY <1>21, <1>m DEF NetworkForgets, macVars, rowVars, radioVars, cmdVars, airVars
  <1>22. CASE UNCHANGED vars
     BY <1>22, <1>m DEF vars, macVars, rowVars, radioVars, cmdVars, netVars, airVars
  <1>. QED  BY <1>1, <1>2, <1>3, <1>4, <1>5, <1>6, <1>7, <1>8, <1>9, <1>10, <1>11, <1>12, <1>13, <1>14,
          <1>15, <1>16, <1>17, <1>18, <1>19, <1>20, <1>21, <1>22 DEF Next, RadioStep, CommandStep

\* The link has not been silent at first.
LEMMA SilenceStart == Init => SilenceInv
  BY Bounds DEF Init, SilenceInv

\* A check is due when another LinkEvery uplinks are full.
LEMMA CheckEndsARound == ASSUME SessionShape, SilenceInv
  PROVE CheckDue <=> silent + 1 = LinkEvery * unanswered + LinkEvery
  <1> DEFINE r == silent + 1 - LinkEvery * unanswered
  <1>0. LinkEvery \in Nat \ {0} /\ silent \in Nat /\ unanswered \in Nat /\ LinkEvery * unanswered \in Nat
     BY LoRaAssumption DEF SessionShape
  <1>1. r \in 1..LinkEvery /\ silent + 1 = LinkEvery * unanswered + r
     BY <1>0 DEF SilenceInv
  <1>2. CASE r = LinkEvery
     <2>1. silent + 1 = LinkEvery * (unanswered + 1) + 0
        BY <1>0, <1>2
     <2>3. ASSUME NEW q \in Int PROVE (LinkEvery * q + 0) % LinkEvery = 0
        BY <1>0, Unique
     <2>2. (silent + 1) % LinkEvery = 0
        BY <2>1, <2>3, <1>0
     <2>. QED  BY <2>2, <1>2, <1>1, <1>0 DEF CheckDue
  <1>3. CASE r # LinkEvery
     <2> HIDE DEF r
     <2>1. r \in 0..(LinkEvery - 1)
        BY <1>1, <1>0, <1>3
     <2>3. (LinkEvery * unanswered + r) % LinkEvery = r
        BY <2>1, <1>0, Unique
     <2>2. (silent + 1) % LinkEvery = r
        BY <2>3, <1>1
     <2>. QED  BY <2>2, <1>3, <1>1, <1>0 DEF CheckDue, r
  <1>. QED  BY <1>2, <1>3

\* Every step keeps the unanswered checks those that were due.
LEMMA SilenceStep == ASSUME SessionShape, SilenceInv, [Next]_vars PROVE SilenceInv'
  <1>0. LinkEvery \in Nat \ {0} /\ RejoinAfter \in Nat /\ silent \in Nat /\ unanswered \in Nat
     BY LoRaAssumption DEF SessionShape
  <1>1. CASE silent' = 0 /\ unanswered' = 0
     BY <1>0, <1>1 DEF SilenceInv
  <1>2. CASE UNCHANGED <<silent, unanswered>>
     BY <1>2 DEF SilenceInv
  <1>3. CASE CountUplink
     <2>1. CASE CheckDue
        <3>1. silent' = silent + 1 /\ unanswered' = unanswered + 1 /\ unanswered < RejoinAfter
           BY <1>0, <1>3, <2>1 DEF CountUplink, GiveUpDue
        <3>2. silent' = LinkEvery * unanswered + LinkEvery
           BY <2>1, <3>1, CheckEndsARound
        <3>3. LinkEvery * unanswered' = LinkEvery * unanswered + LinkEvery
           BY <1>0, <3>1
        <3>. QED  BY <3>1, <3>2, <3>3, <1>0 DEF SilenceInv
     <2>2. CASE ~CheckDue
        <3>1. silent' = silent + 1 /\ unanswered' = unanswered
           BY <1>3, <2>2 DEF CountUplink
        <3>2. silent + 1 # LinkEvery * unanswered + LinkEvery
           BY <2>2, CheckEndsARound
        <3>3. LinkEvery * unanswered \in Nat
           BY <1>0
        <3>. QED  BY <3>1, <3>2, <3>3, <1>0 DEF SilenceInv
     <2>. QED  BY <2>1, <2>2
  <1>4. CASE JoinBegins \/ JoinSaved \/ JoinSend \/ JoinUnanswered \/ JoinAccepted \/ Keep \/ KeepSaved \/ GivenUp
     BY <1>4, <1>2 DEF JoinBegins, JoinSaved, JoinSend, JoinUnanswered, JoinAccepted, Keep, KeepSaved, GivenUp, macVars
  <1>5. CASE UplinkSaved \/ Send \/ NothingHeard \/ Act \/ RejoinTakes \/ RejoinSaved \/ NetworkForgets \/ UNCHANGED vars
     BY <1>5, <1>2 DEF UplinkSaved, Send, NothingHeard, Act, RejoinTakes, RejoinSaved, NetworkForgets, vars, macVars
  <1>6. CASE GiveUp \/ Downlink \/ Rejoin \/ Restart
     BY <1>6, <1>1 DEF GiveUp, Downlink, Rejoin, Restart, Forget
  <1>7. CASE UplinkTooLong \/ Uplink
     BY <1>7, <1>3 DEF UplinkTooLong, Uplink
  <1>. QED  BY <1>4, <1>5, <1>6, <1>7 DEF Next, RadioStep, CommandStep

-----------------------------------------------------------------------------
\* Unasked in the next state.
NoncesNext(n, a, b) ==
    IF n < 0 THEN asked' = {} ELSE \A i \in a..b : (n + i) % NonceMod \notin asked'

\* No DevNonce was used at first.
LEMMA NonceStart == Init => NonceInv
  BY DEF Init, NonceInv, Unasked, Saving, Asking, Row, Fresh, CommandHolds

\* There are never more DevNonces to use than there are.
LEMMA LeftIsNat == ASSUME SessionShape PROVE Left \in 0..NonceMod
  <1>1. Cardinality(asked) \in 0..MaxJoins /\ restarts \in 0..MaxRestarts
     BY FS_CardinalityType, Bounds DEF SessionShape
  <1>. QED  BY <1>1, Bounds DEF Left

\* A part of a fresh stretch is fresh.
LEMMA UnaskedShrinks == ASSUME NEW n \in Int, NEW a \in Int, NEW b \in Int, NEW c \in Int, NEW d \in Int,
    Unasked(n, a, b), a <= c, d <= b
  PROVE Unasked(n, c, d)
  <1>1. CASE n < 0
     BY <1>1 DEF Unasked
  <1>2. CASE ~(n < 0)
     <2>1. ASSUME NEW i \in c..d PROVE (n + i) % NonceMod \notin asked
        <3>1. i \in a..b
           OBVIOUS
        <3>. QED  BY <3>1, <1>2 DEF Unasked
     <2>. QED  BY <2>1, <1>2 DEF Unasked
  <1>. QED  BY <1>1, <1>2

\* The request that is about to be sent carries a fresh DevNonce.
LEMMA NonceIsFresh == ASSUME SessionShape, NonceInv, pc = "join_send" PROVE nonce \notin asked
  <1>1. nonce >= 0 /\ Cardinality(asked) < MaxJoins /\ Unasked(nonce, 0, Left - 1)
     BY DEF NonceInv, Asking
  <1>2. /\ Cardinality(asked) \in Nat /\ restarts \in 0..MaxRestarts /\ Left \in Nat
        /\ nonce \in 0..(NonceMod - 1) /\ NonceMod \in Nat \ {0}
     BY FS_CardinalityType, LeftIsNat, <1>1, Bounds DEF SessionShape
  <1>3. Left >= 1
     BY <1>1, <1>2, Bounds DEF Left
  <1>4. (nonce + 0) % NonceMod \notin asked
     BY <1>1, <1>2, <1>3 DEF Unasked
  <1>5. (NonceMod * 0 + nonce) % NonceMod = nonce
     BY <1>2, Unique
  <1>6. NonceMod * 0 + nonce = nonce + 0
     BY <1>2
  <1>. QED  BY <1>4, <1>5, <1>6

\* Every step keeps enough fresh DevNonces ahead, unless it restarts from a row that
\* is behind.
LEMMA NonceStep == ASSUME SessionShape, NonceInv, [Next]_vars, ~misled' PROVE NonceInv'
  <1> DEFINE NonceGoal ==
        /\ IF pc' \in Asking THEN nonce' >= 0 /\ Cardinality(asked') < MaxJoins /\ NoncesNext(nonce', 0, Left' - 1)
           ELSE NoncesNext(nonce', 1, Left')
        /\ pc' \in Saving => snap'.nonce = nonce'
        /\ pc' \in Asking \cup {"join_window"} => session'.keys = NoKeys
        /\ ~behind' => NoncesNext(row'.nonce, 1, Left' - 1)
        /\ cpc' = "save" /\ "command" \notin late' => NoncesNext(csnap'.nonce, 1, Left' - 1)
        /\ pc' = "join_send" => (~behind' => row'.nonce = nonce')
              /\ (cpc' = "save" /\ "command" \notin late' => csnap'.nonce = nonce')
  <1>t. /\ "command" \in late => cpc = "save"
        /\ nonce \in Int /\ row.nonce \in Int /\ snap.nonce \in Int /\ csnap.nonce \in Int
        /\ Left \in 0..NonceMod /\ NonceMod \in Nat \ {0} /\ row \in Rows /\ row.session \in Sessions
     <2>1. row \in Rows /\ snap \in Rows /\ csnap \in Rows /\ nonce \in -1..(NonceMod - 1)
           /\ ("command" \in late => cpc = "save")
        BY DEF SessionShape
     <2>2. ASSUME NEW r \in Rows PROVE r.nonce \in Int /\ r.session \in Sessions
        BY Bounds DEF Rows
     <2>3. Left \in 0..NonceMod /\ NonceMod \in Nat \ {0} /\ nonce \in Int
        BY <2>1, LeftIsNat, Bounds
     <2>. QED  BY <2>1, <2>2, <2>3
  <1>o. ASSUME UNCHANGED <<asked, restarts>>
        PROVE  Left' = Left /\ \A n, a, b : NoncesNext(n, a, b) = Unasked(n, a, b)
     BY <1>o DEF Left, NoncesNext, Unasked
  <1>0. SUFFICES NonceGoal
     BY DEF NonceInv, NoncesNext, Unasked, CommandHolds
  <1>n. /\ IF pc \in Asking THEN nonce >= 0 /\ Cardinality(asked) < MaxJoins /\ Unasked(nonce, 0, Left - 1)
           ELSE Unasked(nonce, 1, Left)
        /\ pc \in Saving => snap.nonce = nonce
        /\ pc \in Asking \cup {"join_window"} => session.keys = NoKeys
        /\ ~behind => Unasked(row.nonce, 1, Left - 1)
        /\ cpc = "save" /\ "command" \notin late => Unasked(csnap.nonce, 1, Left - 1)
        /\ pc = "join_send" => (~behind => row.nonce = nonce)
              /\ (cpc = "save" /\ "command" \notin late => csnap.nonce = nonce)
     BY DEF NonceInv, CommandHolds
  <1>s. Unasked(nonce, 1, Left - 1)
     BY <1>n, <1>t, UnaskedShrinks
  <1>r. \A s, n, r : Row(s, n, r).nonce = n /\ Row(s, n, r).session = s
     BY DEF Row
  \* Each step of the radio worker and of the command thread that writes the row.
  <1>c. ASSUME NEW t \in {"radio", "command"}, NEW taking, Commit(t, taking) \/ CommitFails(t)
        PROVE  /\ behind' \/ (row' = taking /\ (t \notin late \/ (taking = row /\ ~behind)))
               /\ t = "radio" => ~(cpc = "save" /\ "command" \notin late')
     BY <1>c DEF Commit, CommitFails, Overtaken
  \* The steps that leave the counters of nonces alone,
  <1>a. ASSUME UNCHANGED <<nonce, row, csnap, cpc, late, behind, asked, restarts>>,
               pc \notin Asking, pc' \notin Asking \cup {"join_window"}, pc' \in Saving => snap'.nonce = nonce
        PROVE  NonceGoal
     <2>1. Left' = Left /\ \A n, a, b : NoncesNext(n, a, b) = Unasked(n, a, b)
        BY <1>a, <1>o
     <2>. QED  BY <2>1, <1>a, <1>n DEF Asking
  \* and those of the radio worker that write the row after the join.
  <1>b. ASSUME UNCHANGED <<nonce, csnap, cpc, asked, restarts>>, pc \in Saving, pc \notin Asking,
               pc' \notin Asking \cup Saving \cup {"join_window"},
               Commit("radio", snap) \/ CommitFails("radio")
        PROVE  NonceGoal
     <2>1. Left' = Left /\ \A n, a, b : NoncesNext(n, a, b) = Unasked(n, a, b)
        BY <1>b, <1>o
     <2>2. behind' \/ row' = snap
        BY <1>b, <1>c
     <2>3. ~(cpc' = "save" /\ "command" \notin late')
        BY <1>b, <1>c
     <2>4. ~behind' => Unasked(row'.nonce, 1, Left - 1)
        BY <2>2, <1>b, <1>n, <1>s
     <2>. QED  BY <2>1, <2>3, <2>4, <1>b, <1>n DEF Asking
  <1>1. CASE JoinBegins
     <2>1. /\ pc = "idle" /\ pc' = "join_save" /\ session'.keys = NoKeys /\ snap'.nonce = nonce'
           /\ UNCHANGED <<row, csnap, cpc, late, behind, asked, restarts>>
           /\ nonce' \in NextNonces /\ Cardinality(asked) < MaxJoins
        BY <1>1, <1>r DEF JoinBegins, Joined, rowVars, cmdVars, boundVars, airVars
     <2>2. Left' = Left /\ \A n, a, b : NoncesNext(n, a, b) = Unasked(n, a, b)
        BY <2>1, <1>o
     <2>3. Unasked(nonce, 1, Left)
        BY <2>1, <1>n DEF Asking
     <2>4. nonce' \in Int /\ nonce' >= 0 /\ Unasked(nonce', 0, Left - 1)
        <3>1. CASE nonce < 0
           <4>1. asked = {} /\ nonce' \in 0..(NonceMod - 1)
              BY <3>1, <2>1, <2>3, Bounds DEF Unasked, NextNonces
           <4>. QED  BY <4>1 DEF Unasked
        <3>2. CASE ~(nonce < 0)
           <4>1. nonce' = (nonce + 1) % NonceMod
              BY <3>2, <2>1 DEF NextNonces
           <4>2. nonce' \in 0..(NonceMod - 1)
              BY <4>1, ModRange, <1>t
           <4>3. ASSUME NEW i \in 0..(Left - 1) PROVE (nonce' + i) % NonceMod \notin asked
              <5>1. (((nonce + 1) % NonceMod) + i) % NonceMod = (nonce + 1 + i) % NonceMod
                 <6>1. ASSUME NEW a \in Int, NEW b \in Int PROVE ((a % NonceMod) + b) % NonceMod = (a + b) % NonceMod
                    BY Congruent, <1>t
                 <6>2. nonce + 1 \in Int /\ i \in Int
                    BY <1>t
                 <6>. QED  BY <6>1, <6>2
              <5>2. i + 1 \in 1..Left /\ nonce + 1 + i = nonce + (i + 1)
                 BY <1>t
              <5>3. (nonce + (i + 1)) % NonceMod \notin asked
                 BY <5>2, <2>3, <3>2 DEF Unasked
              <5>. QED  BY <5>1, <5>2, <5>3, <4>1
           <4>. QED  BY <4>2, <4>3 DEF Unasked
        <3>. QED  BY <3>1, <3>2
     <2>. QED  BY <2>1, <2>2, <2>4, <1>n DEF Asking
  <1>2. CASE JoinSaved
     <2>1. /\ pc = "join_save" /\ pc' = "join_send" /\ (Commit("radio", snap) \/ CommitFails("radio"))
           /\ UNCHANGED <<nonce, session, csnap, cpc, asked, restarts>>
        BY <1>2 DEF JoinSaved, Persist, macVars, cmdVars, airVars
     <2>2. Left' = Left /\ \A n, a, b : NoncesNext(n, a, b) = Unasked(n, a, b)
        BY <2>1, <1>o
     <2>3. (behind' \/ row' = snap) /\ ~(cpc' = "save" /\ "command" \notin late')
        BY <2>1, <1>c
     <2>4. snap.nonce = nonce /\ session.keys = NoKeys
        BY <2>1, <1>n DEF Saving, Asking
     <2>5. ~behind' => Unasked(row'.nonce, 1, Left - 1) /\ row'.nonce = nonce
        BY <2>3, <2>4, <1>s
     <2>. QED  BY <2>1, <2>2, <2>3, <2>4, <2>5, <1>n DEF Asking, Saving
  <1>3. CASE JoinSend
     <2>1. /\ pc = "join_send" /\ pc' = "join_window" /\ asked' = asked \cup {nonce}
           /\ UNCHANGED <<nonce, session, row, late, behind, csnap, cpc, restarts>>
        BY <1>3 DEF JoinSend, macVars, rowVars, cmdVars, boundVars
     <2>2. /\ nonce >= 0 /\ Cardinality(asked) < MaxJoins /\ Unasked(nonce, 0, Left - 1)
           /\ session.keys = NoKeys
        BY <2>1, <1>n DEF Asking
     <2>3. Cardinality(asked) \in Nat /\ restarts \in 0..MaxRestarts /\ IsFiniteSet(asked)
           /\ nonce \in 0..(NonceMod - 1)
        BY FS_CardinalityType, <2>2, <1>t DEF SessionShape
     <2>5. nonce \notin asked
        BY <2>1, NonceIsFresh
     <2>6. Left' = Left - 1
        <3>1. Cardinality(asked \cup {nonce}) = Cardinality(asked) + 1
           BY <2>3, <2>5, FS_AddElement
        <3>. QED  BY <3>1, <2>1, <2>3, Bounds DEF Left
     <2>7. ASSUME NEW i \in 1..(Left - 1) PROVE (nonce + i) % NonceMod \notin asked'
        <3>1. (nonce + i) % NonceMod \notin asked
           BY <2>2, <1>t DEF Unasked
        <3>2. i \in 1..(NonceMod - 1)
           BY <1>t
        <3>3. (nonce + i) % NonceMod # nonce
           BY <3>2, <2>3, <1>t, NotBack
        <3>. QED  BY <3>1, <3>3, <2>1
     <2>8. NoncesNext(nonce, 1, Left - 1) /\ NoncesNext(nonce, 1, Left - 2)
        <3>1. ASSUME NEW b \in Int, b <= Left - 1 PROVE NoncesNext(nonce, 1, b)
           <4>1. ASSUME NEW i \in 1..b PROVE (nonce + i) % NonceMod \notin asked'
              <5>1. i \in 1..(Left - 1)
                 BY <3>1, <1>t
              <5>. QED  BY <5>1, <2>7
           <4>. QED  BY <4>1, <2>3 DEF NoncesNext
        <3>. QED  BY <3>1, <1>t
     <2>9. /\ ~behind => row.nonce = nonce
           /\ cpc = "save" /\ "command" \notin late => csnap.nonce = nonce
        BY <2>1, <1>n
     <2>10. Left' - 1 = Left - 2
        BY <2>6, <1>t
     <2> HIDE DEF NonceGoal
     <2>11. ~behind' => NoncesNext(row'.nonce, 1, Left' - 1)
        BY <2>10, <2>1, <2>8, <2>9
     <2>12. cpc' = "save" /\ "command" \notin late' => NoncesNext(csnap'.nonce, 1, Left' - 1)
        BY <2>10, <2>1, <2>8, <2>9
     <2>13. NoncesNext(nonce', 1, Left')
        BY <2>6, <2>1, <2>8
     <2>. QED  BY <2>1, <2>2, <2>11, <2>12, <2>13 DEF Asking, Saving, NonceGoal
  <1>4. CASE JoinUnanswered
     BY <1>4, <1>a DEF JoinUnanswered, macVars, rowVars, cmdVars, boundVars, airVars, Asking, Saving
  <1>5. CASE JoinAccepted
     BY <1>5, <1>a DEF JoinAccepted, rowVars, cmdVars, boundVars, Asking, Saving
  <1>6. CASE Keep
     BY <1>6, <1>a, <1>r DEF Keep, macVars, rowVars, cmdVars, boundVars, airVars, Asking
  <1>7. CASE KeepSaved
     BY <1>7, <1>b DEF KeepSaved, macVars, cmdVars, airVars, Asking, Saving
  <1>8. CASE GiveUp
     BY <1>8, <1>a, <1>r DEF GiveUp, Forget, UplinkBegins, rowVars, cmdVars, boundVars, Asking
  <1>9. CASE GivenUp
     BY <1>9, <1>b DEF GivenUp, Persist, macVars, cmdVars, airVars, Asking, Saving
  <1>10. CASE UplinkTooLong
     BY <1>10, <1>a DEF UplinkTooLong, UplinkBegins, rowVars, cmdVars, boundVars, airVars, Asking, Saving
  <1>11. CASE Uplink
     BY <1>11, <1>a, <1>r DEF Uplink, UplinkBegins, rowVars, cmdVars, boundVars, airVars, Asking
  <1>12. CASE UplinkSaved
     BY <1>12, <1>b DEF UplinkSaved, Persist, macVars, cmdVars, airVars, Asking, Saving
  <1>13. CASE Send
     BY <1>13, <1>a DEF Send, macVars, rowVars, cmdVars, boundVars, Asking, Saving
  <1>14. CASE NothingHeard
     BY <1>14, <1>a DEF NothingHeard, macVars, rowVars, cmdVars, boundVars, airVars, Asking, Saving
  <1>15. CASE Downlink
     BY <1>15, <1>a DEF Downlink, rowVars, cmdVars, boundVars, airVars, Asking, Saving
  <1>16. CASE Act
     BY <1>16, <1>a DEF Act, macVars, rowVars, cmdVars, boundVars, Asking, Saving
  <1>17. CASE Rejoin
     <2>1. /\ cpc' = "forgot" /\ session'.keys = NoKeys
           /\ UNCHANGED <<nonce, row, late, behind, pc, snap, asked, restarts>>
        BY <1>17 DEF Rejoin, Forget, Fresh, rowVars, radioVars
     <2>2. Left' = Left /\ \A n, a, b : NoncesNext(n, a, b) = Unasked(n, a, b)
        BY <2>1, <1>o
     <2>. QED  BY <2>1, <2>2, <1>n
  <1>18. CASE RejoinTakes
     <2>1. /\ cpc' = "save" /\ csnap'.nonce = nonce
           /\ UNCHANGED <<session, nonce, row, late, behind, pc, snap, asked, restarts>>
        BY <1>18, <1>r DEF RejoinTakes, macVars, rowVars, radioVars, boundVars, airVars
     <2>2. Left' = Left /\ \A n, a, b : NoncesNext(n, a, b) = Unasked(n, a, b)
        BY <2>1, <1>o
     <2>. QED  BY <2>1, <2>2, <1>n, <1>s
  <1>19. CASE RejoinSaved
     <2>1. /\ cpc = "save" /\ cpc' = "idle" /\ (Commit("command", csnap) \/ CommitFails("command"))
           /\ UNCHANGED <<session, nonce, pc, snap, asked, restarts>>
        BY <1>19 DEF RejoinSaved, macVars, radioVars, airVars
     <2>2. Left' = Left /\ \A n, a, b : NoncesNext(n, a, b) = Unasked(n, a, b)
        BY <2>1, <1>o
     <2>3. behind' \/ (row' = csnap /\ ("command" \notin late \/ (csnap = row /\ ~behind)))
        BY <2>1, <1>c
     <2>4. ~behind' => Unasked(row'.nonce, 1, Left - 1) /\ (pc = "join_send" => row'.nonce = nonce)
        BY <2>1, <2>3, <1>n
     <2>. QED  BY <2>1, <2>2, <2>4, <1>n
  <1>20. CASE Restart
     <2>1. /\ cpc' = "idle" /\ pc' = "idle" /\ ~behind /\ restarts' = restarts + 1
           /\ nonce' = row.nonce /\ UNCHANGED <<row, asked>>
        BY <1>20 DEF Restart
     <2>2. Left' = Left - 1
        <3>1. Cardinality(asked) \in Nat /\ restarts \in 0..MaxRestarts
           BY FS_CardinalityType DEF SessionShape
        <3>. QED  BY <3>1, <2>1, Bounds DEF Left
     <2>3. \A n, a, b : NoncesNext(n, a, b) = Unasked(n, a, b)
        BY <2>1 DEF NoncesNext, Unasked
     <2>4. Unasked(row.nonce, 1, Left - 1)
        BY <2>1, <1>n
     <2>5. Unasked(row.nonce, 1, Left - 2)
        BY <2>4, <1>t, UnaskedShrinks
     <2>6. Left' - 1 = Left - 2
        BY <2>2, <1>t
     <2>7. NoncesNext(nonce', 1, Left') /\ NoncesNext(row'.nonce, 1, Left' - 1)
        BY <2>1, <2>2, <2>3, <2>4, <2>5, <2>6
     <2>. QED  BY <2>1, <2>7 DEF Asking, Saving
  <1>21. CASE NetworkForgets \/ UNCHANGED vars
     <2>1. UNCHANGED <<session, nonce, row, late, behind, csnap, cpc, pc, snap, asked, restarts>>
        BY <1>21 DEF NetworkForgets, vars, macVars, rowVars, radioVars, cmdVars, boundVars, airVars
     <2>2. Left' = Left /\ \A n, a, b : NoncesNext(n, a, b) = Unasked(n, a, b)
        BY <2>1, <1>o
     <2>. QED  BY <2>1, <2>2, <1>n
  <1>. QED  BY <1>1, <1>2, <1>3, <1>4, <1>5, <1>6, <1>7, <1>8, <1>9, <1>10, <1>11, <1>12, <1>13, <1>14,
          <1>15, <1>16, <1>17, <1>18, <1>19, <1>20, <1>21 DEF Next, RadioStep, CommandStep

-----------------------------------------------------------------------------
\* Old in the next state.
OldNext(k) == k = NoKeys \/ (k[1] \in asked' /\ (pc' = "join_window" => k[1] # nonce'))

\* Where keys come from.
Keyring == {NoKeys, session.keys, row.session.keys, snap.session.keys, csnap.session.keys}

\* Frames are what was under way, a session given up is the one in memory, and a
\* copy is a copy; new keys come from the join.
KeysFlow ==
    /\ sent' \subseteq sent \cup {frame} /\ acted' \subseteq acted \cup {order}
    /\ left' \subseteq left \cup ({session.keys} \ {NoKeys})
    /\ row'.session.keys \in Keyring /\ snap'.session.keys \in Keyring /\ csnap'.session.keys \in Keyring
    /\ frame'[1] \in Keyring \cup {frame[1]}
    /\ order'[1] \in Keyring \cup {order[1]}
    /\ session'.keys \in Keyring \/ (session'.keys[1] = nonce /\ pc = "join_window" /\ pc' = "keep" /\ asked' = asked)

\* Every step moves keys along these ways only.
LEMMA KeysDoFlow == ASSUME SessionShape, [Next]_vars PROVE KeysFlow
  <1> USE DEF KeysFlow, Keyring
  <1>n. Fresh.keys = NoKeys /\ NoFrame[1] = NoKeys
     BY DEF Fresh, NoFrame
  <1>r. \A s, n, r : Row(s, n, r).session = s
     BY DEF Row
  <1>t. session \in Sessions
     BY DEF SessionShape
  <1>1. CASE JoinBegins
     BY <1>1, <1>r DEF JoinBegins, rowVars, cmdVars, netVars, airVars
  <1>2. CASE JoinSaved
     BY <1>2 DEF JoinSaved, macVars, cmdVars, netVars, airVars, Persist, Commit, CommitFails
  <1>3. CASE JoinSend
     BY <1>3 DEF JoinSend, macVars, rowVars, cmdVars
  <1>4. CASE JoinUnanswered
     BY <1>4 DEF JoinUnanswered, macVars, rowVars, cmdVars, airVars
  <1>5. CASE JoinAccepted
     <2>1. session'.keys[1] = nonce
        BY <1>5 DEF JoinAccepted
     <2>. QED  BY <1>5, <2>1 DEF JoinAccepted, rowVars, cmdVars
  <1>6. CASE Keep
     BY <1>6, <1>r DEF Keep, macVars, rowVars, cmdVars, netVars, boundVars, airVars
  <1>7. CASE KeepSaved
     BY <1>7, <1>n DEF KeepSaved, macVars, cmdVars, netVars, airVars, Persist, Commit, CommitFails
  <1>8. CASE GiveUp
     <2>1. session'.keys = NoKeys /\ snap'.session.keys = NoKeys
        BY <1>8, <1>r, <1>n DEF GiveUp, Forget
     <2>2. /\ UNCHANGED <<row, csnap, frame, order, sent, acted>>
           /\ left' \subseteq left \cup ({session.keys} \ {NoKeys})
        BY <1>8 DEF GiveUp, Forget, rowVars, cmdVars
     <2>. QED  BY <2>2, <2>1
  <1>9. CASE GivenUp
     BY <1>9 DEF GivenUp, macVars, cmdVars, netVars, airVars, Persist, Commit, CommitFails
  <1>10. CASE UplinkTooLong
     BY <1>10 DEF UplinkTooLong, UplinkBegins, rowVars, cmdVars, netVars, boundVars, airVars
  <1>11. CASE Uplink
     <2>1. session'.keys = session.keys /\ snap'.session = session' /\ frame'[1] = session.keys
        BY <1>11, <1>r, <1>t DEF Uplink, Sessions
     <2>. QED  BY <1>11, <2>1 DEF Uplink, rowVars, cmdVars, netVars, boundVars, airVars
  <1>12. CASE UplinkSaved
     BY <1>12 DEF UplinkSaved, macVars, cmdVars, netVars, airVars, Persist, Commit, CommitFails
  <1>13. CASE Send
     BY <1>13 DEF Send, macVars, rowVars, cmdVars
  <1>14. CASE NothingHeard
     BY <1>14, <1>n DEF NothingHeard, macVars, rowVars, cmdVars, netVars, airVars
  <1>15. CASE Downlink
     <2>1. session'.keys = session.keys
        BY <1>15, <1>t DEF Downlink, Sessions
     <2>2. order'[1] \in {NoKeys, session.keys}
        BY <1>15, <1>n DEF Downlink
     <2>. QED  BY <1>15, <2>1, <2>2, <1>n DEF Downlink, rowVars, cmdVars, netVars, airVars
  <1>16. CASE Act
     BY <1>16, <1>n DEF Act, macVars, rowVars, cmdVars, netVars
  <1>17. CASE Rejoin
     BY <1>17, <1>n DEF Rejoin, Forget, rowVars, radioVars, netVars
  <1>18. CASE RejoinTakes
     BY <1>18, <1>r DEF RejoinTakes, macVars, rowVars, radioVars, netVars, airVars
  <1>19. CASE RejoinSaved
     BY <1>19 DEF RejoinSaved, macVars, radioVars, netVars, airVars, Commit, CommitFails
  <1>20. CASE Restart
     BY <1>20, <1>n DEF Restart
  <1>21. CASE NetworkForgets
     BY <1>21 DEF NetworkForgets, macVars, rowVars, radioVars, cmdVars, airVars
  <1>22. CASE UNCHANGED vars
     BY <1>22 DEF vars, macVars, rowVars, radioVars, cmdVars, netVars, airVars
  <1>. QED  BY <1>1, <1>2, <1>3, <1>4, <1>5, <1>6, <1>7, <1>8, <1>9, <1>10, <1>11, <1>12, <1>13, <1>14,
          <1>15, <1>16, <1>17, <1>18, <1>19, <1>20, <1>21, <1>22 DEF Next, RadioStep, CommandStep

\* There is no past at first.
LEMMA PastStart == Init => PastInv
  BY DEF Init, PastInv, Old, Row, Fresh, NoFrame

\* Every step keeps the past one of joins that were asked for.
LEMMA PastStep == ASSUME SessionShape, NonceInv, PastInv, [Next]_vars PROVE PastInv'
  <1>p. /\ NoKeys \notin left
        /\ \A f \in sent \cup acted : Old(f[1])
        /\ \A k \in left : Old(k)
        /\ \A k \in Keyring : Old(k)
        /\ pc = "join_window" => nonce \in asked
        /\ Old(frame[1]) /\ Old(order[1])
     BY DEF PastInv, Keyring, Old
  <1>1. /\ \/ asked' = asked /\ pc' # "join_window"
           \/ asked' = asked /\ UNCHANGED <<pc, nonce>>
           \/ pc = "join_send" /\ asked' = asked \cup {nonce} /\ nonce' = nonce
     <2>1. CASE RadioStep
        BY <2>1 DEF RadioStep, JoinBegins, JoinSaved, JoinSend, JoinUnanswered, JoinAccepted,
            Keep, KeepSaved, GiveUp, GivenUp, UplinkTooLong, Uplink, UplinkSaved,
            Send, NothingHeard, Downlink, Act, macVars, airVars
     <2>2. CASE CommandStep \/ Restart \/ NetworkForgets \/ UNCHANGED vars
        BY <2>2 DEF CommandStep, Rejoin, RejoinTakes, RejoinSaved, Restart, NetworkForgets, Forget, vars, macVars,
            radioVars, airVars
     <2>. QED  BY <2>1, <2>2 DEF Next
  <1>2. pc = "join_send" => nonce \notin asked
     BY NonceIsFresh
  <1>3. \A k : Old(k) => OldNext(k)
     BY <1>1, <1>2, <1>p DEF Old, OldNext
  <1>4. pc' = "join_window" => nonce' \in asked'
     BY <1>1, <1>p
  <1>5. KeysFlow
     BY KeysDoFlow
  <1>6. NoKeys \notin left'
     BY <1>5, <1>p DEF KeysFlow
  <1>7. ASSUME NEW f \in sent' \cup acted' PROVE OldNext(f[1])
     BY <1>7, <1>5, <1>p, <1>3 DEF KeysFlow
  <1>8. ASSUME NEW k \in left' PROVE OldNext(k)
     BY <1>8, <1>5, <1>p, <1>3 DEF KeysFlow, Keyring
  <1>9. /\ OldNext(row'.session.keys) /\ OldNext(snap'.session.keys) /\ OldNext(csnap'.session.keys)
        /\ OldNext(frame'[1]) /\ OldNext(order'[1])
     BY <1>5, <1>p, <1>3 DEF KeysFlow
  <1>10. OldNext(session'.keys)
     <2>1. CASE session'.keys \in Keyring
        BY <2>1, <1>p, <1>3
     <2>2. CASE session'.keys[1] = nonce /\ pc = "join_window" /\ pc' = "keep" /\ asked' = asked
        BY <2>2, <1>p DEF OldNext
     <2>. QED  BY <2>1, <2>2, <1>5 DEF KeysFlow
  <1>. QED  BY <1>4, <1>6, <1>7, <1>8, <1>9, <1>10 DEF PastInv, Old, OldNext

-----------------------------------------------------------------------------
\* Counters that are past some frames are past fewer,
LEMMA CoversLess == ASSUME NEW s, NEW U, NEW D, NEW V, NEW E, V \subseteq U, E \subseteq D, Covers(s, U, D)
  PROVE Covers(s, V, E)
  BY DEF Covers

\* and those of no session past all.
LEMMA CoversNone == ASSUME NEW s, NEW U, NEW D, s.keys = NoKeys, \A f \in U \cup D : f[1] # NoKeys
  PROVE Covers(s, U, D)
  BY DEF Covers

\* A counter is never reconstructed below the next one (_reconstruct_fcnt_down).
LEMMA ReconstructAdvances == ASSUME SessionShape, NEW n \in Nat, Reconstruct(n % FCntMod) = n
  PROVE n >= session.down
  <1> DEFINE f == n % FCntMod
             turn == FCntMod * (session.down \div FCntMod)
  <1>1. FCntMod \in Nat \ {0} /\ session.down \in Nat
     BY Bounds DEF SessionShape, Sessions
  <1>2. session.down = turn + (session.down % FCntMod) /\ session.down \div FCntMod \in Int
        /\ session.down % FCntMod \in 0..(FCntMod - 1) /\ f \in 0..(FCntMod - 1)
     <2>1. ASSUME NEW a \in Int
           PROVE  a % FCntMod \in 0..(FCntMod - 1) /\ a \div FCntMod \in Int
                  /\ a = FCntMod * (a \div FCntMod) + (a % FCntMod)
        BY <1>1, ModRange, Division
     <2>2. n \in Int /\ session.down \in Int
        BY <1>1
     <2>. QED  BY <2>1, <2>2
  <1>3. turn \in Int /\ (session.down \div FCntMod) * FCntMod = turn
     BY <1>1, <1>2
  <1> HIDE DEF f, turn
  <1>4. Reconstruct(f) = IF turn + f < session.down THEN turn + f + FCntMod ELSE turn + f
     BY <1>3 DEF Reconstruct
  <1>5. Reconstruct(f) >= session.down
     <2> DEFINE low == session.down % FCntMod
     <2>1. /\ low \in Nat /\ low < FCntMod /\ f \in Nat /\ FCntMod \in Nat /\ turn \in Int
           /\ session.down = turn + low
        BY <1>1, <1>2, <1>3
     <2> HIDE DEF low
     <2>. QED  BY <1>4, <2>1
  <1>. QED  BY <1>5 DEF f

\* Nothing is counted at first.
LEMMA CountStart == Init => CountInv
  <1> SUFFICES ASSUME Init PROVE CountInv
     OBVIOUS
  <1>1. Ups = {} /\ Downs = {} /\ SafeUps = {} /\ SafeDowns = {} /\ Flying = {} /\ Pending = {}
     BY DEF Init, Ups, Downs, SafeUps, SafeDowns, Flying, Pending, Counted, Ordered
  <1>. QED  BY <1>1 DEF Init, CountInv, Covers, CommandHolds, Saving

\* Every step keeps the counters ahead, unless it restarts from a row that is behind.
LEMMA CountStep == ASSUME SessionShape, PastInv, CountInv, [Next]_vars, ~misled' PROVE CountInv'
  <1>f. /\ \A f \in Ups \cup Downs : f[1] # NoKeys
        /\ Flying \cap sent = {} /\ Pending \cap acted = {}
        /\ order # NoFrame => pc \in {"keep", "keep_save", "act"}
        /\ pc = "act" => order # NoFrame
        /\ Covers(session, Ups, Downs)
        /\ pc \in Saving => Covers(snap.session, Ups, Downs)
        /\ ~behind => Covers(row.session, SafeUps, SafeDowns)
        /\ CommandHolds => Covers(csnap.session, SafeUps, SafeDowns)
     BY DEF CountInv
  <1>s. SafeUps \subseteq Ups /\ SafeDowns \subseteq Downs
     BY <1>f DEF SafeUps, SafeDowns, Ups, Downs, Counted, Ordered, Flying, Pending
  <1>h. session \in Sessions
     BY DEF SessionShape
  <1>n. Fresh.keys = NoKeys
     BY DEF Fresh
  <1>r. \A s, n, r : Row(s, n, r).session = s
     BY DEF Row
  <1> DEFINE Cleared == /\ Flying' \cap sent' = {} /\ Pending' \cap acted' = {}
                        /\ order' # NoFrame => pc' \in {"keep", "keep_save", "act"}
                        /\ pc' = "act" => order' # NoFrame
             FewerUps == Ups' \subseteq Ups /\ Downs' \subseteq Downs
             FewerSafe == SafeUps' \subseteq SafeUps /\ SafeDowns' \subseteq SafeDowns
  \* The steps that neither count nor write,
  <1>q. ASSUME Cleared, FewerUps, FewerSafe, UNCHANGED <<row, late, behind>>,
               session' = session \/ session'.keys = NoKeys,
               pc' \in Saving => (pc \in Saving /\ snap' = snap) \/ snap'.session = session',
               CommandHolds' => (CommandHolds /\ csnap' = csnap) \/ csnap'.session = session'
        PROVE  CountInv'
     <2>1. \A f \in Ups' \cup Downs' : f[1] # NoKeys
        BY <1>q, <1>f
     <2>2. Covers(session', Ups', Downs')
        BY <1>q, <2>1, <1>f, CoversLess, CoversNone
     <2>3. pc' \in Saving => Covers(snap'.session, Ups', Downs')
        BY <1>q, <2>2, <1>f, CoversLess
     <2>4. SafeUps' \subseteq Ups' /\ SafeDowns' \subseteq Downs'
        BY <1>q DEF SafeUps, SafeDowns, Ups, Downs, Counted, Ordered, Flying, Pending
     <2>5. Covers(session', SafeUps', SafeDowns')
        BY <2>2, <2>4, CoversLess
     <2>6. ~behind' => Covers(row'.session, SafeUps', SafeDowns')
        BY <1>q, <1>f, CoversLess
     <2>7. CommandHolds' => Covers(csnap'.session, SafeUps', SafeDowns')
        BY <1>q, <1>f, <2>5, CoversLess
     <2>. QED  BY <1>q, <2>1, <2>2, <2>3, <2>6, <2>7 DEF CountInv
  \* and those of the radio worker that write.
  <1>w. ASSUME Cleared, FewerUps, SafeUps' \subseteq Ups, SafeDowns' \subseteq Downs, session' = session,
               pc \in Saving, pc' \notin Saving, cpc' = cpc, Commit("radio", snap) \/ CommitFails("radio")
        PROVE  CountInv'
     <2>1. (behind' \/ row' = snap) /\ ~CommandHolds'
        BY <1>w DEF Commit, CommitFails, Overtaken, CommandHolds
     <2>2. \A f \in Ups' \cup Downs' : f[1] # NoKeys
        BY <1>w, <1>f
     <2>3. Covers(session', Ups', Downs')
        BY <1>w, <1>f, CoversLess
     <2>4. ~behind' => Covers(row'.session, SafeUps', SafeDowns')
        BY <1>w, <2>1, <1>f, CoversLess
     <2>. QED  BY <1>w, <2>1, <2>2, <2>3, <2>4 DEF CountInv
  \* Where nothing is in flight, the counts are what was sent and executed.
  <1>g. ASSUME UNCHANGED <<sent, acted, order>>, {pc, pc'} \cap {"up_save", "send", "act"} = {},
               order # NoFrame => pc' \in {"keep", "keep_save"}
        PROVE  Cleared /\ FewerUps /\ FewerSafe
     <2>1. Flying = {} /\ Flying' = {} /\ Counted = {} /\ Counted' = {} /\ Ordered = {} /\ Ordered' = {}
        BY <1>g DEF Flying, Counted, Ordered
     <2>2. Pending' = Pending
        BY <1>g DEF Pending
     <2>. QED  BY <2>1, <2>2, <1>g, <1>f DEF Ups, Downs, SafeUps, SafeDowns
  <1>c. ASSUME UNCHANGED <<cpc, csnap, late>> PROVE CommandHolds' = CommandHolds
     BY <1>c DEF CommandHolds
  \* Nor do they change when the radio worker stays where it is.
  <1>v. ASSUME UNCHANGED <<sent, acted, order, frame, pc>>
        PROVE  Cleared /\ FewerUps /\ FewerSafe
     <2>1. /\ Flying' = Flying /\ Counted' = Counted /\ Ordered' = Ordered /\ Pending' = Pending
           /\ Ups' = Ups /\ Downs' = Downs /\ SafeUps' = SafeUps /\ SafeDowns' = SafeDowns
        BY <1>v DEF Flying, Counted, Ordered, Pending, Ups, Downs, SafeUps, SafeDowns
     <2>. QED  BY <2>1, <1>v, <1>f
  <1>1. CASE JoinBegins
     <2>1. /\ UNCHANGED <<session, order, row, late, behind, cpc, csnap, sent, acted>>
           /\ pc = "idle" /\ pc' = "join_save" /\ snap'.session = session'
        BY <1>1, <1>r DEF JoinBegins, rowVars, cmdVars, airVars
     <2>2. Cleared /\ FewerUps /\ FewerSafe
        BY <2>1, <1>g, <1>f
     <2>. QED  BY <2>1, <2>2, <1>q, <1>c
  <1>2. CASE JoinSaved
     <2>1. /\ UNCHANGED <<session, order, cpc, sent, acted>>
           /\ pc = "join_save" /\ pc' = "join_send" /\ (Commit("radio", snap) \/ CommitFails("radio"))
        BY <1>2 DEF JoinSaved, Persist, macVars, cmdVars, airVars
     <2>2. Cleared /\ FewerUps /\ FewerSafe
        BY <2>1, <1>g, <1>f
     <2>. QED  BY <2>1, <2>2, <1>s, <1>w DEF Saving
  <1>3. CASE JoinSend
     <2>1. /\ UNCHANGED <<session, order, row, late, behind, cpc, csnap, sent, acted>>
           /\ pc = "join_send" /\ pc' = "join_window"
        BY <1>3 DEF JoinSend, macVars, rowVars, cmdVars
     <2>2. Cleared /\ FewerUps /\ FewerSafe
        BY <2>1, <1>g, <1>f
     <2>. QED  BY <2>1, <2>2, <1>q, <1>c DEF Saving
  <1>4. CASE JoinUnanswered
     <2>1. /\ UNCHANGED <<session, order, row, late, behind, cpc, csnap, sent, acted>>
           /\ pc = "join_window" /\ pc' = "idle"
        BY <1>4 DEF JoinUnanswered, macVars, rowVars, cmdVars, airVars
     <2>2. Cleared /\ FewerUps /\ FewerSafe
        BY <2>1, <1>g, <1>f
     <2>. QED  BY <2>1, <2>2, <1>q, <1>c DEF Saving
  <1>5. CASE JoinAccepted
     <2>1. /\ UNCHANGED <<order, row, late, behind, cpc, csnap, sent, acted>>
           /\ pc = "join_window" /\ pc' = "keep"
           /\ session'.keys[1] = nonce
        BY <1>5 DEF JoinAccepted, rowVars, cmdVars
     <2>2. Cleared /\ FewerUps /\ FewerSafe
        BY <2>1, <1>g, <1>f
     <2>3. Ups = sent /\ Downs = acted
        BY <2>1, <1>f DEF Ups, Downs, Flying, Pending
     <2>4. ASSUME NEW f \in Ups' \cup Downs' PROVE f[1] # NoKeys /\ f[1] # session'.keys
        <3>1. f \in sent \cup acted
           BY <2>2, <2>3
        <3>2. Old(f[1]) /\ f[1] # NoKeys
           BY <3>1, <2>3, <1>f DEF PastInv
        <3>. QED  BY <3>2, <2>1 DEF Old
     <2>5. Covers(session', Ups', Downs')
        BY <2>4 DEF Covers
     <2>6. ~behind' => Covers(row'.session, SafeUps', SafeDowns')
        BY <2>1, <2>2, <1>f, CoversLess
     <2>7. CommandHolds' => Covers(csnap'.session, SafeUps', SafeDowns')
        BY <2>1, <2>2, <1>c, <1>f, CoversLess
     <2>. QED  BY <2>1, <2>2, <2>4, <2>5, <2>6, <2>7 DEF CountInv, Saving
  <1>6. CASE Keep
     <2>1. /\ UNCHANGED <<session, order, row, late, behind, cpc, csnap, sent, acted>>
           /\ pc = "keep" /\ pc' = "keep_save" /\ snap'.session = session'
        BY <1>6, <1>r DEF Keep, macVars, rowVars, cmdVars, airVars
     <2>2. Cleared /\ FewerUps /\ FewerSafe
        BY <2>1, <1>g, <1>f
     <2>. QED  BY <2>1, <2>2, <1>q, <1>c
  <1>7. CASE KeepSaved
     <2>1. /\ UNCHANGED <<session, cpc, sent, acted>> /\ pc = "keep_save"
           /\ (Commit("radio", snap) \/ CommitFails("radio"))
           /\ \/ pc' = "idle" /\ order' = NoFrame
              \/ pc' = "act" /\ order' = order /\ order # NoFrame
        BY <1>7 DEF KeepSaved, macVars, cmdVars, airVars
     <2>2. Flying = {} /\ Flying' = {} /\ Counted' = {} /\ Ordered' \subseteq Pending /\ Pending' \subseteq Pending
        BY <2>1 DEF Flying, Counted, Ordered, Pending
     <2>3. Cleared /\ FewerUps /\ SafeUps' \subseteq Ups /\ SafeDowns' \subseteq Downs
        BY <2>1, <2>2, <1>f DEF Ups, Downs, SafeUps, SafeDowns
     <2>. QED  BY <2>1, <2>3, <1>w DEF Saving
  <1>8. CASE GiveUp
     <2>1. /\ UNCHANGED <<order, row, late, behind, cpc, csnap, sent, acted>>
           /\ pc = "idle" /\ pc' = "left_save" /\ snap'.session = session' /\ session'.keys = NoKeys
        BY <1>8, <1>r, <1>n DEF GiveUp, Forget, UplinkBegins, rowVars, cmdVars
     <2>2. Cleared /\ FewerUps /\ FewerSafe
        BY <2>1, <1>g, <1>f
     <2>. QED  BY <2>1, <2>2, <1>q, <1>c
  <1>9. CASE GivenUp
     <2>1. /\ UNCHANGED <<session, order, cpc, sent, acted>>
           /\ pc = "left_save" /\ pc' = "keep" /\ (Commit("radio", snap) \/ CommitFails("radio"))
        BY <1>9 DEF GivenUp, Persist, macVars, cmdVars, airVars
     <2>2. Cleared /\ FewerUps /\ FewerSafe
        BY <2>1, <1>g, <1>f
     <2>. QED  BY <2>1, <2>2, <1>s, <1>w DEF Saving
  <1>10. CASE UplinkTooLong
     <2>1. /\ UNCHANGED <<session, order, row, late, behind, cpc, csnap, sent, acted>>
           /\ pc = "idle" /\ pc' = "keep"
        BY <1>10 DEF UplinkTooLong, UplinkBegins, rowVars, cmdVars, airVars
     <2>2. Cleared /\ FewerUps /\ FewerSafe
        BY <2>1, <1>g, <1>f
     <2>. QED  BY <2>1, <2>2, <1>q, <1>c DEF Saving
  <1>11. CASE Uplink
     <2>1. /\ UNCHANGED <<order, row, late, behind, cpc, csnap, sent, acted>>
           /\ pc = "idle" /\ pc' = "up_save" /\ snap'.session = session'
           /\ frame' = <<session.keys, session.up>> /\ session.keys # NoKeys
        BY <1>11, <1>r DEF Uplink, UplinkBegins, Joined, rowVars, cmdVars, airVars
     <2>2. /\ session'.keys = session.keys /\ session'.up = session.up + 1 /\ session'.down = session.down
           /\ session.up \in Nat
        <3>1. session' = [session EXCEPT !.up = @ + 1]
           BY <1>11 DEF Uplink
        <3>. QED  BY <3>1, <1>h DEF Sessions
     <2>3. order = NoFrame
        BY <2>1, <1>f
     <2>4. Ups = sent /\ Downs = acted /\ SafeUps = sent /\ SafeDowns = acted
        BY <2>1, <2>3 DEF Ups, Downs, SafeUps, SafeDowns, Flying, Pending, Counted, Ordered
     <2>5. Ups' = sent \cup {frame'} /\ Downs' = acted /\ SafeUps' = sent /\ SafeDowns' = acted
           /\ Flying' = {frame'} /\ Pending' = {}
        BY <2>1, <2>3 DEF Ups, Downs, SafeUps, SafeDowns, Flying, Pending, Counted, Ordered
     <2>6. \A f \in sent : f[1] = session.keys => f[2] < session.up
        BY <1>f, <2>4 DEF Covers
     <2>7. frame'[1] = session.keys /\ frame'[2] = session.up
        BY <2>1
     <2>8. frame' \notin sent
        BY <2>6, <2>7, <2>2
     <2>9. sent \subseteq KeyPairs \X Nat
        BY DEF SessionShape
     <2>10. Covers(session', Ups', Downs')
        <3>1. ASSUME NEW f \in Ups', f[1] = session'.keys PROVE f[2] < session'.up
           <4>1. CASE f = frame'
              BY <4>1, <2>7, <2>2
           <4>2. CASE f \in sent
              <5>1. f[2] \in Nat
                 BY <4>2, <2>9
              <5>2. f[2] < session.up
                 BY <4>2, <3>1, <2>2, <2>6
              <5>. QED  BY <5>1, <5>2, <2>2
           <4>. QED  BY <4>1, <4>2, <2>5
        <3>2. ASSUME NEW f \in Downs', f[1] = session'.keys PROVE f[2] < session'.down
           BY <3>2, <2>2, <2>4, <2>5, <1>f DEF Covers
        <3>. QED  BY <3>1, <3>2 DEF Covers
     <2>11. \A f \in Ups' \cup Downs' : f[1] # NoKeys
        BY <2>5, <2>4, <2>7, <2>1, <1>f
     <2>12. CommandHolds' => Covers(csnap'.session, SafeUps', SafeDowns')
        BY <1>c, <2>1, <2>4, <2>5, <1>f
     <2>13. ~behind' => Covers(row'.session, SafeUps', SafeDowns')
        BY <2>1, <2>4, <2>5, <1>f
     <2>14. Flying' \cap sent' = {} /\ Pending' \cap acted' = {}
        BY <2>1, <2>5, <2>8
     <2>. QED  BY <2>1, <2>3, <2>10, <2>11, <2>12, <2>13, <2>14 DEF CountInv
  <1>12. CASE UplinkSaved
     <2>1. /\ UNCHANGED <<session, frame, order, cpc, sent, acted>>
           /\ pc = "up_save" /\ pc' = "send" /\ (Commit("radio", snap) \/ CommitFails("radio"))
        BY <1>12 DEF UplinkSaved, Persist, macVars, cmdVars, airVars
     <2>2. Flying' = Flying /\ Pending' = Pending /\ Counted' = Flying /\ Ordered' = {}
        BY <2>1 DEF Flying, Counted, Ordered, Pending
     <2>3. Cleared /\ FewerUps /\ SafeUps' \subseteq Ups /\ SafeDowns' \subseteq Downs
        BY <2>1, <2>2, <1>f DEF Ups, Downs, SafeUps, SafeDowns
     <2>. QED  BY <2>1, <2>3, <1>w DEF Saving
  <1>13. CASE Send
     <2>1. /\ UNCHANGED <<session, frame, order, row, late, behind, cpc, csnap, acted>>
           /\ pc = "send" /\ pc' = "window" /\ sent' = sent \cup {frame}
        BY <1>13 DEF Send, macVars, rowVars, cmdVars
     <2>2. order = NoFrame
        BY <2>1, <1>f
     <2>3. /\ Flying = {frame} /\ Counted = {frame} /\ Ordered = {} /\ Pending = {}
           /\ Flying' = {} /\ Counted' = {} /\ Ordered' = {} /\ Pending' = {}
        BY <2>1, <2>2 DEF Flying, Counted, Ordered, Pending
     <2>4. Cleared /\ FewerUps /\ FewerSafe
        BY <2>1, <2>2, <2>3 DEF Ups, Downs, SafeUps, SafeDowns
     <2>. QED  BY <2>1, <2>4, <1>q, <1>c DEF Saving
  <1>14. CASE NothingHeard
     <2>1. /\ UNCHANGED <<session, order, row, late, behind, cpc, csnap, sent, acted>>
           /\ pc = "window" /\ pc' = "keep"
        BY <1>14 DEF NothingHeard, macVars, rowVars, cmdVars, airVars
     <2>2. Cleared /\ FewerUps /\ FewerSafe
        BY <2>1, <1>g, <1>f
     <2>. QED  BY <2>1, <2>2, <1>q, <1>c DEF Saving
  <1>15. CASE Downlink
     <2>0. PICK n \in 0..(down - 1) : /\ session.keys = known /\ session.keys # NoKeys
                                      /\ Reconstruct(n % FCntMod) = n
                                      /\ session' = [session EXCEPT !.down = n + 1]
                                      /\ order' \in {NoFrame, <<known, n>>}
        BY <1>15 DEF Downlink, Joined
     <2>1. /\ UNCHANGED <<row, late, behind, cpc, csnap, sent, acted>>
           /\ pc = "window" /\ pc' = "keep"
        BY <1>15 DEF Downlink, rowVars, cmdVars, airVars
     <2>2. down \in Nat /\ acted \subseteq KeyPairs \X Nat /\ session.down \in Nat
        BY <1>h DEF SessionShape, Sessions
     <2>3. n \in Nat /\ n >= session.down
        BY <2>0, <2>2, ReconstructAdvances
     <2>4. session'.keys = session.keys /\ session'.up = session.up /\ session'.down = n + 1
        BY <2>0, <1>h DEF Sessions
     <2>5. order = NoFrame
        BY <2>1, <1>f
     <2>6. Ups = sent /\ Downs = acted /\ SafeUps = sent /\ SafeDowns = acted
        BY <2>1, <2>5 DEF Ups, Downs, SafeUps, SafeDowns, Flying, Pending, Counted, Ordered
     <2>7. Ups' = sent /\ Downs' = acted \cup Pending' /\ SafeUps' = sent /\ SafeDowns' = acted /\ Flying' = {}
        BY <2>1 DEF Ups, Downs, SafeUps, SafeDowns, Flying, Counted, Ordered
     <2>8. Pending' \subseteq {<<session.keys, n>>}
        BY <2>0 DEF Pending
     <2>9. \A f \in acted : f[1] = session.keys => f[2] < session.down
        BY <1>f, <2>6 DEF Covers
     <2>10. <<session.keys, n>> \notin acted
        BY <2>9, <2>3, <2>2
     <2>11. Covers(session', Ups', Downs')
        <3>1. ASSUME NEW f \in Ups', f[1] = session'.keys PROVE f[2] < session'.up
           BY <3>1, <2>4, <2>6, <2>7, <1>f DEF Covers
        <3>2. ASSUME NEW f \in Downs', f[1] = session'.keys PROVE f[2] < session'.down
           <4>1. CASE f = <<session.keys, n>>
              BY <4>1, <2>4, <2>3
           <4>2. CASE f \in acted
              <5>1. f[2] \in Nat
                 BY <4>2, <2>2
              <5>2. f[2] < session.down
                 BY <4>2, <3>2, <2>4, <2>9
              <5>. QED  BY <5>1, <5>2, <2>2, <2>3, <2>4
           <4>. QED  BY <4>1, <4>2, <2>7, <2>8
        <3>. QED  BY <3>1, <3>2 DEF Covers
     <2>12. \A f \in Ups' \cup Downs' : f[1] # NoKeys
        BY <2>6, <2>7, <2>8, <2>0, <1>f
     <2>13. CommandHolds' => Covers(csnap'.session, SafeUps', SafeDowns')
        BY <1>c, <2>1, <2>6, <2>7, <1>f
     <2>14. ~behind' => Covers(row'.session, SafeUps', SafeDowns')
        BY <2>1, <2>6, <2>7, <1>f
     <2>15. Flying' \cap sent' = {} /\ Pending' \cap acted' = {}
        BY <2>1, <2>7, <2>8, <2>10
     <2>. QED  BY <2>1, <2>11, <2>12, <2>13, <2>14, <2>15 DEF CountInv, Saving
  <1>16. CASE Act
     <2>1. /\ UNCHANGED <<session, frame, row, late, behind, cpc, csnap, sent>>
           /\ pc = "act" /\ pc' = "idle" /\ acted' = acted \cup {order} /\ order' = NoFrame
        BY <1>16 DEF Act, macVars, rowVars, cmdVars
     <2>2. order # NoFrame
        BY <2>1, <1>f
     <2>3. /\ Flying = {} /\ Counted = {} /\ Ordered = {order} /\ Pending = {order}
           /\ Flying' = {} /\ Counted' = {} /\ Ordered' = {} /\ Pending' = {}
        BY <2>1, <2>2 DEF Flying, Counted, Ordered, Pending
     <2>4. Cleared /\ FewerUps /\ FewerSafe
        BY <2>1, <2>3 DEF Ups, Downs, SafeUps, SafeDowns
     <2>. QED  BY <2>1, <2>4, <1>q, <1>c DEF Saving
  <1>17. CASE Rejoin
     <2>1. /\ UNCHANGED <<frame, order, pc, snap, row, late, behind, sent, acted>>
           /\ cpc' = "forgot" /\ session'.keys = NoKeys
        BY <1>17, <1>n DEF Rejoin, Forget, rowVars, radioVars
     <2>2. Cleared /\ FewerUps /\ FewerSafe
        BY <2>1, <1>v
     <2>. QED  BY <2>1, <2>2, <1>q DEF CommandHolds
  <1>18. CASE RejoinTakes
     <2>1. /\ UNCHANGED <<session, frame, order, pc, snap, row, late, behind, sent, acted>>
           /\ csnap'.session = session'
        BY <1>18, <1>r DEF RejoinTakes, macVars, rowVars, radioVars, airVars
     <2>2. Cleared /\ FewerUps /\ FewerSafe
        BY <2>1, <1>v
     <2>. QED  BY <2>1, <2>2, <1>q
  <1>19. CASE RejoinSaved
     <2>1. /\ UNCHANGED <<session, frame, order, pc, snap, sent, acted>>
           /\ cpc = "save" /\ cpc' = "idle" /\ (Commit("command", csnap) \/ CommitFails("command"))
        BY <1>19 DEF RejoinSaved, macVars, radioVars, airVars
     <2>2. Cleared /\ FewerUps /\ FewerSafe /\ Ups' = Ups /\ Downs' = Downs
        BY <2>1, <1>v DEF Ups, Downs, Flying, Pending
     <2>3. behind' \/ (row' = csnap /\ CommandHolds) \/ (row' = row /\ ~behind)
        BY <2>1 DEF Commit, CommitFails, CommandHolds
     <2>4. ~behind' => Covers(row'.session, SafeUps', SafeDowns')
        BY <2>2, <2>3, <1>f, CoversLess
     <2>5. ~CommandHolds'
        BY <2>1 DEF CommandHolds
     <2>. QED  BY <2>1, <2>2, <2>4, <2>5, <1>f DEF CountInv
  <1>20. CASE Restart
     <2>1. /\ session' = row.session /\ row' = row /\ order' = NoFrame /\ UNCHANGED <<sent, acted>>
           /\ pc' = "idle" /\ cpc' = "idle" /\ ~behind
        BY <1>20 DEF Restart
     <2>2. Ups' = sent /\ Downs' = acted /\ SafeUps' = sent /\ SafeDowns' = acted /\ Flying' = {} /\ Pending' = {}
        BY <2>1 DEF Ups, Downs, SafeUps, SafeDowns, Flying, Pending, Counted, Ordered
     <2>3. sent \subseteq SafeUps /\ acted \subseteq SafeDowns
        BY DEF SafeUps, SafeDowns
     <2>4. Covers(session', sent, acted) /\ Covers(row'.session, sent, acted)
        BY <2>1, <2>3, <1>f, CoversLess
     <2>5. \A f \in sent \cup acted : f[1] # NoKeys
        BY <1>f DEF Ups, Downs
     <2>. QED  BY <2>1, <2>2, <2>4, <2>5 DEF CountInv, CommandHolds, Saving
  <1>21. CASE NetworkForgets \/ UNCHANGED vars
     <2>1. UNCHANGED <<session, frame, order, pc, snap, row, late, behind, cpc, csnap, sent, acted>>
        BY <1>21 DEF NetworkForgets, vars, macVars, rowVars, radioVars, cmdVars, airVars
     <2>2. Cleared /\ FewerUps /\ FewerSafe
        BY <2>1, <1>v
     <2>. QED  BY <2>1, <2>2, <1>q, <1>c
  <1>. QED  BY <1>1, <1>2, <1>3, <1>4, <1>5, <1>6, <1>7, <1>8, <1>9, <1>10, <1>11, <1>12, <1>13, <1>14,
          <1>15, <1>16, <1>17, <1>18, <1>19, <1>20, <1>21 DEF Next, RadioStep, CommandStep

-----------------------------------------------------------------------------
\* No session is given up at first.
LEMMA LeftStart == Init => LeftInv
  BY DEF Init, LeftInv, RadioHolds, CommandHolds, Parting, Saving, Row, Fresh

\* Every step leaves a session that was given up behind, with the same exception.
LEMMA LeftStep == ASSUME SessionShape, PastInv, LeftInv, [Next]_vars, ~misled' PROVE LeftInv'
  <1>f. /\ session.keys \notin left
        /\ row.session.keys \in left => (behind \/ pc = "left_save" \/ Parting)
        /\ pc = "left_save" => snap.session = Fresh
        /\ RadioHolds /\ snap.session.keys \in left => Parting
        /\ CommandHolds /\ csnap.session.keys \in left => pc = "left_save"
     BY DEF LeftInv
  <1>h. /\ session \in Sessions
        /\ "command" \in late => cpc = "save"
     BY DEF SessionShape
  <1>n. Fresh.keys = NoKeys /\ NoKeys \notin left
     BY DEF Fresh, PastInv
  <1>r. \A s, n, r : Row(s, n, r).session = s
     BY DEF Row
  <1>p. ASSUME UNCHANGED <<cpc, csnap, left>> PROVE Parting' = Parting
     BY <1>p DEF Parting
  <1>c. ASSUME UNCHANGED <<cpc, csnap, late>> PROVE CommandHolds' = CommandHolds
     BY <1>c DEF CommandHolds
  \* The steps of the radio worker that give nothing up and write nothing,
  <1>q. ASSUME UNCHANGED <<row, late, behind, left, cpc, csnap>>, pc # "left_save", pc' # "left_save",
               session'.keys \notin left,
               pc' \in Saving => snap'.session = session'
        PROVE  LeftInv'
     <2>1. RadioHolds' => snap'.session.keys \notin left
        BY <1>q DEF RadioHolds
     <2>. QED  BY <2>1, <1>q, <1>f, <1>p, <1>c DEF LeftInv
  \* and those that write.
  <1>w. ASSUME UNCHANGED <<session, left, cpc, csnap>>, pc \in Saving, pc' \notin Saving,
               Commit("radio", snap) \/ CommitFails("radio")
        PROVE  LeftInv'
     <2>1. behind' \/ (row' = snap /\ (RadioHolds \/ (snap = row /\ ~behind)))
        BY <1>w DEF Commit, CommitFails, RadioHolds
     <2>2. ~CommandHolds' /\ ~RadioHolds'
        BY <1>w DEF Commit, CommitFails, Overtaken, CommandHolds, RadioHolds
     <2>3. row'.session.keys \in left' => behind' \/ Parting'
        <3>1. SUFFICES ASSUME row'.session.keys \in left, ~behind' PROVE Parting
           BY <1>w, <1>p
        <3>2. CASE pc = "left_save"
           BY <3>1, <3>2, <2>1, <1>f, <1>n
        <3>3. CASE pc # "left_save"
           BY <3>1, <3>3, <2>1, <1>f
        <3>. QED  BY <3>2, <3>3
     <2>4. pc' # "left_save"
        BY <1>w DEF Saving
     <2>. QED  BY <2>2, <2>3, <2>4, <1>w, <1>f DEF LeftInv
  <1>1. CASE JoinBegins
     BY <1>1, <1>q, <1>r, <1>f DEF JoinBegins, rowVars, cmdVars, airVars
  <1>2. CASE JoinSaved
     BY <1>2, <1>w DEF JoinSaved, Persist, macVars, cmdVars, airVars, Saving
  <1>3. CASE JoinSend
     BY <1>3, <1>q, <1>f DEF JoinSend, macVars, rowVars, cmdVars, Saving
  <1>4. CASE JoinUnanswered
     BY <1>4, <1>q, <1>f DEF JoinUnanswered, macVars, rowVars, cmdVars, airVars, Saving
  <1>5. CASE JoinAccepted
     <2>1. /\ UNCHANGED <<row, late, behind, left, cpc, csnap>>
           /\ pc = "join_window" /\ pc' = "keep" /\ session'.keys[1] = nonce
        BY <1>5 DEF JoinAccepted, rowVars, cmdVars
     <2>2. session'.keys \notin left
        <3>1. SUFFICES ASSUME session'.keys \in left PROVE FALSE
           OBVIOUS
        <3>2. Old(session'.keys) /\ session'.keys # NoKeys
           BY <3>1, <1>n DEF PastInv
        <3>. QED  BY <3>2, <2>1 DEF Old
     <2>. QED  BY <2>1, <2>2, <1>q DEF Saving
  <1>6. CASE Keep
     BY <1>6, <1>q, <1>r, <1>f DEF Keep, macVars, rowVars, cmdVars, airVars
  <1>7. CASE KeepSaved
     BY <1>7, <1>w DEF KeepSaved, macVars, cmdVars, airVars, Saving
  <1>8. CASE GiveUp
     <2>1. /\ UNCHANGED <<row, late, behind, cpc, csnap>> /\ pc' = "left_save"
           /\ session' = Fresh /\ snap'.session = Fresh /\ left' = left \cup ({session.keys} \ {NoKeys})
        BY <1>8, <1>r DEF GiveUp, Forget, rowVars, cmdVars
     <2>2. NoKeys \notin left'
        BY <2>1, <1>n
     <2>. QED  BY <2>1, <2>2, <1>n DEF LeftInv
  <1>9. CASE GivenUp
     BY <1>9, <1>w DEF GivenUp, Persist, macVars, cmdVars, airVars, Saving
  <1>10. CASE UplinkTooLong
     BY <1>10, <1>q, <1>f DEF UplinkTooLong, UplinkBegins, rowVars, cmdVars, airVars, Saving
  <1>11. CASE Uplink
     <2>1. session'.keys = session.keys
        BY <1>11, <1>h DEF Uplink, Sessions
     <2>. QED  BY <1>11, <2>1, <1>q, <1>r, <1>f DEF Uplink, UplinkBegins, rowVars, cmdVars, airVars
  <1>12. CASE UplinkSaved
     BY <1>12, <1>w DEF UplinkSaved, Persist, macVars, cmdVars, airVars, Saving
  <1>13. CASE Send
     BY <1>13, <1>q, <1>f DEF Send, macVars, rowVars, cmdVars, Saving
  <1>14. CASE NothingHeard
     BY <1>14, <1>q, <1>f DEF NothingHeard, macVars, rowVars, cmdVars, airVars, Saving
  <1>15. CASE Downlink
     <2>1. session'.keys = session.keys
        BY <1>15, <1>h DEF Downlink, Sessions
     <2>. QED  BY <1>15, <2>1, <1>q, <1>f DEF Downlink, rowVars, cmdVars, airVars, Saving
  <1>16. CASE Act
     BY <1>16, <1>q, <1>f DEF Act, macVars, rowVars, cmdVars, Saving
  <1>17. CASE Rejoin
     <2>1. /\ UNCHANGED <<pc, snap, row, late, behind>> /\ cpc = "idle" /\ cpc' = "forgot"
           /\ session' = Fresh /\ left' = left \cup ({session.keys} \ {NoKeys})
        BY <1>17 DEF Rejoin, Forget, rowVars, radioVars
     <2>2. NoKeys \notin left' /\ Parting' /\ ~CommandHolds'
        BY <2>1, <1>n DEF Parting, CommandHolds
     <2>. QED  BY <2>1, <2>2, <1>n, <1>f DEF LeftInv
  <1>18. CASE RejoinTakes
     <2>1. /\ UNCHANGED <<session, pc, snap, row, late, behind, left>> /\ cpc' = "save"
           /\ csnap'.session = session
        BY <1>18, <1>r DEF RejoinTakes, macVars, rowVars, radioVars, airVars
     <2>2. Parting'
        BY <2>1, <1>f DEF Parting
     <2>. QED  BY <2>1, <2>2, <1>f DEF LeftInv
  <1>19. CASE RejoinSaved
     <2>1. /\ UNCHANGED <<session, pc, snap, left>>
           /\ cpc = "save" /\ cpc' = "idle" /\ (Commit("command", csnap) \/ CommitFails("command"))
        BY <1>19 DEF RejoinSaved, macVars, radioVars, airVars
     <2>2. behind' \/ (row' = csnap /\ (CommandHolds \/ (csnap = row /\ ~behind)))
        BY <2>1 DEF Commit, CommitFails, CommandHolds
     <2>3. ~RadioHolds' /\ ~CommandHolds'
        BY <2>1 DEF Commit, CommitFails, Overtaken, RadioHolds, CommandHolds, Saving
     <2>4. row'.session.keys \in left' => (behind' \/ pc' = "left_save")
        <3>1. SUFFICES ASSUME row'.session.keys \in left, ~behind' PROVE pc = "left_save"
           BY <2>1
        <3>2. CASE CommandHolds
           BY <3>1, <3>2, <2>2, <1>f
        <3>3. CASE csnap = row /\ ~behind
           <4>1. ~Parting
              BY <3>1, <3>3, <2>1, <2>2 DEF Parting
           <4>. QED  BY <4>1, <3>1, <3>3, <2>2, <1>f
        <3>. QED  BY <3>1, <3>2, <3>3, <2>2
     <2>. QED  BY <2>1, <2>3, <2>4, <1>f DEF LeftInv
  <1>20. CASE Restart
     <2>1. /\ session' = row.session /\ row' = row /\ pc' = "idle" /\ cpc' = "idle" /\ ~behind
           /\ left' = IF cpc # "idle" \/ pc = "left_save" THEN left \ {row.session.keys} ELSE left
        BY <1>20 DEF Restart
     <2>2. row.session.keys \notin left'
        <3>1. CASE cpc # "idle" \/ pc = "left_save"
           BY <3>1, <2>1
        <3>2. CASE ~(cpc # "idle" \/ pc = "left_save")
           BY <3>2, <2>1, <1>f DEF Parting
        <3>. QED  BY <3>1, <3>2
     <2>. QED  BY <2>1, <2>2 DEF LeftInv, RadioHolds, CommandHolds, Saving
  <1>21. CASE NetworkForgets \/ UNCHANGED vars
     <2>1. UNCHANGED <<session, pc, snap, row, late, behind, left, cpc, csnap>>
        BY <1>21 DEF NetworkForgets, vars, macVars, rowVars, radioVars, cmdVars, airVars
     <2>. QED  BY <2>1, <1>f DEF LeftInv, RadioHolds, CommandHolds, Parting
  <1>. QED  BY <1>1, <1>2, <1>3, <1>4, <1>5, <1>6, <1>7, <1>8, <1>9, <1>10, <1>11, <1>12, <1>13, <1>14,
          <1>15, <1>16, <1>17, <1>18, <1>19, <1>20, <1>21 DEF Next, RadioStep, CommandStep

-----------------------------------------------------------------------------
\* The inductive invariant of the session.
SessionInv == SessionShape /\ SilenceInv /\ KeysInv /\ OnceInv

\* The invariant of the session.
LEMMA SessionInvHolds == Spec => []SessionInv
  <1>1. Init => SessionInv
     BY ShapeStart, SilenceStart, KeysStart, NonceStart, PastStart, CountStart, LeftStart
     DEF SessionInv, OnceInv
  <1>2. SessionInv /\ [Next]_vars => SessionInv'
     <2> SUFFICES ASSUME SessionInv, [Next]_vars PROVE SessionInv'
        OBVIOUS
     <2>1. SessionShape /\ SilenceInv /\ KeysInv /\ OnceInv
        BY DEF SessionInv
     <2>2. SessionShape' /\ SilenceInv' /\ KeysInv'
        BY <2>1, ShapeStep, SilenceStep, KeysStep
     <2>3. ~misled' => ~misled
        BY DEF Next, RadioStep, CommandStep, JoinBegins, JoinSaved, JoinSend, JoinUnanswered, JoinAccepted,
            Keep, KeepSaved, GiveUp, GivenUp, UplinkTooLong, Uplink, UplinkSaved, Send, NothingHeard, Downlink, Act,
            Rejoin, RejoinTakes, RejoinSaved, Restart, NetworkForgets, vars
     <2>4. ASSUME ~misled' PROVE NonceInv' /\ PastInv' /\ CountInv' /\ LeftInv'
        <3>1. NonceInv /\ PastInv /\ CountInv /\ LeftInv
           BY <2>1, <2>3, <2>4 DEF OnceInv
        <3>2. NonceInv'
           BY <2>1, <3>1, <2>4, NonceStep
        <3>3. PastInv'
           BY <2>1, <3>1, PastStep
        <3>4. CountInv'
           BY <2>1, <3>1, <2>4, CountStep
        <3>5. LeftInv'
           BY <2>1, <3>1, <2>4, LeftStep
        <3>. QED  BY <3>2, <3>3, <3>4, <3>5
     <2>. QED  BY <2>2, <2>4 DEF SessionInv, OnceInv
  <1>. QED  BY <1>1, <1>2, PTL DEF Spec

\* The device has keys the network has too, or a session on its way out: those of a
\* JoinAccept missed in its own window or forgotten since it was taken; one that
\* was given up does not come back; and silence is bounded (join, forget_session,
\* the link check of send_uplink), for every number of joins, frames, crashes,
\* failed writes and rejoins by command that cross an uplink.
THEOREM SessionsAreSound == Spec => []SessionIsSound
  <1>1. SessionInv => SessionIsSound
     <2> SUFFICES ASSUME SessionInv PROVE SessionIsSound
        OBVIOUS
     <2>1. KeysAreShared
        BY DEF SessionInv, KeysInv, KeysAreShared, Genuine, Joined
     <2>2. LeftForGood
        BY DEF SessionInv, OnceInv, LeftInv, LeftForGood
     <2>3. SilenceIsBounded
        <3>1. /\ unanswered \in 0..RejoinAfter /\ silent \in Nat /\ LinkEvery \in Nat /\ RejoinAfter \in Nat
              /\ silent < LinkEvery * unanswered + LinkEvery
           BY Bounds DEF SessionInv, SessionShape, SilenceInv
        <3>2. LinkEvery * unanswered + LinkEvery = LinkEvery * (unanswered + 1)
              /\ LinkEvery * (unanswered + 1) <= LinkEvery * (RejoinAfter + 1)
           <4>1. LinkEvery * (RejoinAfter - unanswered) >= 0
              BY <3>1
           <4>. QED  BY <4>1, <3>1
        <3>. QED  BY <3>1, <3>2 DEF SilenceIsBounded
     <2>. QED  BY <2>1, <2>2, <2>3 DEF SessionIsSound
  <1>. QED  BY <1>1, SessionInvHolds, PTL

\* No frame number is sent twice and no downlink command is executed twice
\* (send_uplink, _process_downlink, _persist_session), however crashes, rejoins
\* and failed writes fall between the steps.
THEOREM NoCounterTwice == Spec => FramesCountOnce
  <1>1. SessionInv /\ [Next]_vars => [NumberIsFresh /\ ActsOnce]_vars
     <2> SUFFICES ASSUME SessionInv, [Next]_vars PROVE [NumberIsFresh /\ ActsOnce]_vars
        OBVIOUS
     <2>1. CASE misled
        BY <2>1 DEF NumberIsFresh, ActsOnce
     <2>2. CASE ~misled
        <3>1. CountInv
           BY <2>2 DEF SessionInv, OnceInv
        <3>2. Send => frame \notin sent
           BY <3>1 DEF Send, CountInv, Flying
        <3>3. Act => order \notin acted
           BY <3>1 DEF Act, CountInv, Pending
        <3>. QED  BY <3>2, <3>3 DEF NumberIsFresh, ActsOnce
     <2>. QED  BY <2>1, <2>2, SessionInvHolds
  <1>. QED  BY <1>1, SessionInvHolds, PTL DEF Spec, FramesCountOnce

(***************************************************************************)
(* The status file.                                                        *)
(***************************************************************************)
\* What a text says is what was said last, except of the lines in S.
Agrees(t, s, S) == \A l \in Line \ S : t[l] = s[l]

\* A line of each kind.
IsText(t) == t = [l \in Line |-> t[l]]

\* Lines nobody can vouch for yet.
Unsure == doubt \cup {line[w] : w \in Busy}

\* The temporary file of f has somebody at work on it, or behind him.
Handled(f) == \E w \in Writer : doing[w].file = f /\ doing[w].do \in {"write", "rename"}

Open(i) == \E w \in Writer : fd[w] = i

\* A writer has something open exactly while it is to be flushed.
CardShape ==
    /\ named \in [File -> Inode \cup {NoInode}] /\ tmp \in [File -> Inode \cup {NoInode}]
    /\ inode = [i \in Inode |-> inode[i]] /\ owner = [i \in Inode |-> owner[i]]
    /\ \A i \in Inode : inode[i] = Blank \/ IsText(inode[i])
    /\ doing \in [Writer -> [do : {"idle", "open", "write", "rename"}, file : File]]
    /\ \A w \in Writer : doing[w].do = "idle" => doing[w] = Idle
    /\ line \in [Writer -> Line] /\ fd \in [Writer -> Inode \cup {NoInode}]
    /\ text = [w \in Writer |-> text[w]] /\ \A w \in Busy : IsText(text[w])
    /\ IsText(said)
    /\ doubt \subseteq Line /\ whole \in BOOLEAN /\ blurred \in BOOLEAN
    /\ \A w \in Writer : doing[w].do = "write" <=> fd[w] # NoInode

\* An inode that the copy f uses, or a writer at it.
Of(f, i) == i = named[f] \/ i = tmp[f] \/ \E w \in Writer : doing[w].file = f /\ fd[w] = i

\* The copies share no inode, nor do a name and its temporary one.
Separate ==
    /\ \A i \in Inode : ~(Of("state", i) /\ Of("fat", i))
    /\ \A f \in File : named[f] # NoInode => named[f] # tmp[f]

\* The unit's own copy is read, and the card only where there is none.
Relied(f) == f = "state" \/ named["state"] = NoInode

\* What is read, what will be, and what is composed say what was said.  The card
\* may be behind when a copy to it failed.
Truthful ==
    /\ \A f \in File : Relied(f) /\ named[f] # NoInode /\ inode[named[f]] # Blank => Agrees(inode[named[f]], said, Unsure)
    /\ \A f \in File : Relied(f) /\ Handled(f) /\ tmp[f] # NoInode /\ inode[tmp[f]] # Blank => Agrees(inode[tmp[f]], said, Unsure)
    /\ \A w \in Busy : Agrees(text[w], said, Unsure)
    /\ named["state"] = NoInode => Agrees(Unsaid, said, Unsure)

\* Blank under a name, or about to be, only while somebody is to flush it.
TornIsOpen ==
    /\ Torn => Open(named["state"]) \/ Line \subseteq Unsure
    /\ Handled("state") /\ tmp["state"] # NoInode /\ inode[tmp["state"]] = Blank
         => Open(tmp["state"]) \/ Line \subseteq Unsure

\* Who is not alone leaves a doubt behind.
Alone ==
    /\ ~whole => \A w \in Busy : line[w] \in doubt
    /\ whole => \A w, x \in Busy : w = x

\* A writer that is alone finds what it left.
Proceeds(w) ==
    LET f == doing[w].file
    IN  /\ Agrees(text[w], said, doubt)
        /\ doing[w].do = "write" => fd[w] = tmp[f] /\ ~ModeRefused(w)
        /\ doing[w].do = "rename" => tmp[f] # NoInode /\ inode[tmp[f]] = text[w]
        /\ f = "fat" => Content("state") = text[w] /\ tmp["state"] = NoInode

WholeProceeds == whole => \A w \in Busy : Proceeds(w)

\* The copies are the same and nothing is left over.
Sharp ==
    ~blurred =>
        /\ whole
        /\ Busy = {} => \A f \in File : tmp[f] = NoInode
        /\ \A w \in Busy : doing[w].file = "state" => tmp["fat"] = NoInode
        /\ \A w \in Busy : doing[w].do = "open" => tmp[doing[w].file] = NoInode
        /\ (\A w \in Busy : doing[w].file = "state") => Content("fat") = Content("state")

CardInv ==
    /\ CardShape /\ Separate /\ Truthful /\ TornIsOpen /\ Alone /\ WholeProceeds /\ Sharp

\* A text is not blank.
LEMMA TextIsNotBlank == ASSUME NEW t, IsText(t) PROVE t # Blank
<1>1. DOMAIN t = Line  BY DEF IsText
<1>2. DOMAIN Blank = {}  BY DEF Blank
<1>. QED  BY <1>1, <1>2 DEF Line

\* Who is busy has something left to do.
LEMMA BusyIs == ASSUME CardShape PROVE Busy = {w \in Writer : doing[w].do # "idle"}
BY DEF CardShape, Busy, Idle

\* While a copy has no temporary file there is an inode that nobody uses.
LEMMA FreshIsFree ==
    ASSUME CardShape, NEW g \in File, tmp[g] = NoInode
    PROVE  /\ FreshInode \in Inode /\ FreshInode # NoInode
           /\ \A f \in File : FreshInode # named[f] /\ FreshInode # tmp[f]
           /\ \A w \in Writer : FreshInode # fd[w]
<1> DEFINE N == {named["state"], named["fat"]}  T == {tmp["state"], tmp["fat"]}  O == {fd[w] : w \in Writer}
<1>1. IsFiniteSet(N) /\ Cardinality(N) \in Nat /\ Cardinality(N) <= 2
    <2>1. IsFiniteSet({named["state"]}) /\ Cardinality({named["state"]}) = 1
        BY FS_Singleton
    <2>2. IsFiniteSet({named["state"]} \cup {named["fat"]})
          /\ Cardinality({named["state"]} \cup {named["fat"]}) \in {1, 2}
        BY <2>1, FS_AddElement
    <2>3. N = {named["state"]} \cup {named["fat"]}
        OBVIOUS
    <2>. QED  BY <2>2, <2>3
<1>2. IsFiniteSet(T) /\ Cardinality(T) \in Nat /\ Cardinality(T) <= 2
    <2>1. IsFiniteSet({tmp["state"]}) /\ Cardinality({tmp["state"]}) = 1
        BY FS_Singleton
    <2>2. IsFiniteSet({tmp["state"]} \cup {tmp["fat"]})
          /\ Cardinality({tmp["state"]} \cup {tmp["fat"]}) \in {1, 2}
        BY <2>1, FS_AddElement
    <2>3. T = {tmp["state"]} \cup {tmp["fat"]}
        OBVIOUS
    <2>. QED  BY <2>2, <2>3
<1>3. IsFiniteSet(O) /\ Cardinality(O) <= Cardinality(Writer)
    <2>1. fd \in Surjection(Writer, O)
        BY DEF CardShape, Surjection
    <2>. QED  BY <2>1, FS_Surjection, StatusAssumption
<1>4. Cardinality(O) \in Nat /\ Cardinality(Writer) \in Nat
    BY <1>3, FS_CardinalityType, StatusAssumption
<1>5. Used = N \cup T \cup O
    BY DEF Used, File
<1> HIDE DEF N, T, O
<1>6. IsFiniteSet(N \cup T) /\ Cardinality(N \cup T) \in Nat /\ Cardinality(N \cup T) <= 4
    <2>1. IsFiniteSet(N \cap T) /\ Cardinality(N \cap T) \in Nat
        BY <1>1, FS_Intersection, FS_CardinalityType
    <2>2. IsFiniteSet(N \cup T) /\ Cardinality(N \cup T) = Cardinality(N) + Cardinality(T) - Cardinality(N \cap T)
        BY <1>1, <1>2, FS_Union
    <2>. QED  BY <1>1, <1>2, <2>1, <2>2, FS_CardinalityType
<1>7. IsFiniteSet(Used) /\ Cardinality(Used) <= 4 + Cardinality(Writer)
    <2>1. IsFiniteSet((N \cup T) \cap O) /\ Cardinality((N \cup T) \cap O) \in Nat
        BY <1>6, FS_Intersection, FS_CardinalityType
    <2>2. IsFiniteSet(Used) /\ Cardinality(Used) = Cardinality(N \cup T) + Cardinality(O) - Cardinality((N \cup T) \cap O)
        BY <1>3, <1>5, <1>6, FS_Union
    <2>. QED  BY <1>3, <1>4, <1>6, <2>1, <2>2
<1>8. Cardinality(File) = 2
    <2>1. IsFiniteSet({"state"}) /\ Cardinality({"state"}) = 1
        BY FS_Singleton
    <2>2. Cardinality({"state"} \cup {"fat"}) = 2
        BY <2>1, FS_AddElement
    <2>3. File = {"state"} \cup {"fat"}
        BY DEF File
    <2>. QED  BY <2>2, <2>3
<1>9. \E i \in Inode : i \notin Used
    <2>. SUFFICES ASSUME Inode \subseteq Used PROVE FALSE
        OBVIOUS
    <2>1. Inode = 1..(4 + Cardinality(Writer))
        BY <1>8 DEF Inode
    <2>2. IsFiniteSet(Inode) /\ Cardinality(Inode) = 4 + Cardinality(Writer)
        BY <1>4, <2>1, FS_Interval
    <2>3. Inode = Used
        <3>1. Cardinality(Inode) <= Cardinality(Used) /\ (Cardinality(Used) = Cardinality(Inode) => Used = Inode)
            BY <1>7, FS_Subset
        <3>2. Cardinality(Used) \in Nat
            BY <1>7, FS_CardinalityType
        <3>. QED  BY <1>4, <1>7, <2>2, <3>1, <3>2
    <2>4. NoInode \in Used /\ NoInode \notin Inode
        BY <1>4, <2>1 DEF Used, NoInode
    <2>. QED  BY <2>3, <2>4
<1>10. FreshInode \in Inode /\ FreshInode \notin Used
    BY <1>9 DEF FreshInode
<1>11. NoInode \notin Inode
    BY <1>4, <1>8 DEF Inode, NoInode
<1>. QED  BY <1>10, <1>11 DEF Used

\* NoInode is no inode.
LEMMA NoInodeIsNone == NoInode \notin Inode
<1>1. IsFiniteSet({"state"}) /\ Cardinality({"state"}) = 1
    BY FS_Singleton
<1>2. Cardinality({"state"} \cup {"fat"}) = 2
    BY <1>1, FS_AddElement
<1>3. File = {"state"} \cup {"fat"}
    BY DEF File
<1>4. Cardinality(Writer) \in Nat
    BY FS_CardinalityType, StatusAssumption
<1>5. Inode = 1..(4 + Cardinality(Writer))
    BY <1>2, <1>3 DEF Inode
<1>. QED  BY <1>4, <1>5 DEF NoInode

\* What a reader finds in a copy agrees with what was said, where that is not in
\* doubt (parse_status).
LEMMA ContentAgrees ==
    ASSUME CardInv, NEW f \in File, Content(f) # Blank
    PROVE  IsText(Content(f)) /\ (Relied(f) => Agrees(Content(f), said, Unsure)) /\ named[f] # NoInode
<1>1. named[f] \in Inode /\ Content(f) = inode[named[f]]
    BY DEF Content, CardInv, CardShape
<1>2. named[f] # NoInode
    BY <1>1, NoInodeIsNone
<1>3. IsText(Content(f))
    BY <1>1 DEF CardInv, CardShape
<1>4. Relied(f) => Agrees(Content(f), said, Unsure)
    BY <1>1, <1>2 DEF CardInv, Truthful
<1>. QED  BY <1>2, <1>3, <1>4

\* And so does what a writer starts from (_read_previous).
LEMMA PublishedAgrees ==
    ASSUME CardInv
    PROVE  /\ IsText(Published)
           /\ ~Torn => Agrees(Published, said, Unsure)
           /\ Busy = {} => Agrees(Published, said, doubt)
<1>1. IsText(Unsaid)
    BY DEF IsText, Unsaid
<1>2. IsText(Published)
    BY <1>1, ContentAgrees DEF Published, File
<1>3. ASSUME ~Torn PROVE Agrees(Published, said, Unsure)
    <2>1. CASE Content("state") # Blank
        BY <2>1, ContentAgrees DEF Published, File, Relied
    <2>2. CASE Content("state") = Blank
        <3>1. named["state"] = NoInode
            BY <1>3, <2>2 DEF Torn
        <3>2. Agrees(Unsaid, said, Unsure)
            BY <3>1 DEF CardInv, Truthful
        <3>. QED  BY <2>2, <3>1, <3>2, ContentAgrees DEF Published, File, Relied
    <2>. QED  BY <2>1, <2>2
<1>4. ASSUME Busy = {} PROVE Agrees(Published, said, doubt)
    <2>1. Unsure = doubt
        BY <1>4 DEF Unsure
    <2>2. CASE ~Torn
        BY <1>3, <2>1, <2>2
    <2>3. CASE Torn
        <3>1. ~Open(named["state"])
            <4>1. \A w \in Writer : doing[w].do = "idle"
                BY <1>4, BusyIs DEF CardInv
            <4>2. \A w \in Writer : fd[w] = NoInode
                BY <4>1 DEF CardInv, CardShape
            <4>. QED  BY <2>3, <4>2 DEF Open, Torn
        <3>2. Line \subseteq doubt
            BY <2>1, <2>3, <3>1 DEF CardInv, TornIsOpen
        <3>. QED  BY <3>2 DEF Agrees
    <2>. QED  BY <2>2, <2>3
<1>. QED  BY <1>2, <1>3, <1>4

\* The property, from the invariant.
LEMMA CardIsTold == CardInv => CardTellsTheTruth
<1>. SUFFICES ASSUME CardInv, Busy = {} PROVE CardTellsTheTruth
    BY DEF CardTellsTheTruth
<1>1. Agrees(Published, said, doubt)
    BY PublishedAgrees
<1>2. ~blurred => Content("fat") = Content("state")
    BY DEF CardInv, Sharp
<1>. QED  BY <1>1, <1>2 DEF CardTellsTheTruth, Agrees

\* Nothing is written yet.
LEMMA CardStarts == StatusInit => CardInv
<1>. SUFFICES ASSUME StatusInit PROVE CardInv
    OBVIOUS
<1>1. Busy = {} /\ Unsure = {}
    BY DEF StatusInit, Busy, Unsure
<1>2. CardShape
    BY <1>1 DEF StatusInit, CardShape, IsText, Unsaid, Idle, File, Line, Blank
<1>3. \A f \in File : ~Handled(f)
    BY DEF StatusInit, Handled, Idle
<1>4. Separate /\ TornIsOpen
    BY <1>3, NoInodeIsNone DEF StatusInit, Separate, Of, TornIsOpen, Torn, File
<1>5. Truthful
    BY <1>1, <1>3 DEF StatusInit, Truthful, Agrees
<1>6. Alone /\ WholeProceeds /\ Sharp
    BY <1>1 DEF StatusInit, Alone, WholeProceeds, Sharp, Content, File
<1>. QED  BY <1>2, <1>4, <1>5, <1>6 DEF CardInv

\* The temporary file is opened: what has the name is left alone (_write_atomic).
LEMMA OpenedKeepsCard ==
    ASSUME CardInv, NEW w \in Writer, OpenTmp(w),
           ~(tmp[doing[w].file] # NoInode /\ owner[tmp[doing[w].file]] = "root" /\ User(w) = "pi")
    PROVE  CardInv'
<1> DEFINE f == doing[w].file
           i == IF tmp[f] = NoInode THEN FreshInode ELSE tmp[f]
<1>. USE NoInodeIsNone
<1>1. /\ f \in File /\ doing[w].do = "open" /\ fd[w] = NoInode
      /\ w \in Busy
    <2>1. f \in File /\ doing[w].do = "open" /\ fd[w] = NoInode
        BY DEF CardInv, CardShape, OpenTmp
    <2>. QED  BY <2>1, BusyIs DEF CardInv
<1>2. /\ tmp' = [tmp EXCEPT ![f] = i] /\ inode' = [inode EXCEPT ![i] = Blank]
      /\ owner' = IF tmp[f] = NoInode THEN [owner EXCEPT ![i] = User(w)] ELSE owner
      /\ fd' = [fd EXCEPT ![w] = i] /\ doing' = [doing EXCEPT ![w] = To("write", f)]
      /\ UNCHANGED <<named, line, text, writes, troubles, said, doubt, whole, blurred>>
    BY DEF OpenTmp
<1>3. /\ i \in Inode
      /\ \A g \in File : i # named[g] /\ (g # f => i # tmp[g])
      /\ \A x \in Writer : doing[x].file # f => fd[x] # i
    <2>1. CASE tmp[f] = NoInode
        BY <1>1, <2>1, FreshIsFree DEF CardInv
    <2>2. CASE tmp[f] # NoInode
        <3>1. i \in Inode /\ i = tmp[f]
            BY <1>1, <2>2 DEF CardInv, CardShape
        <3>2. Of(f, i)
            BY <3>1 DEF Of
        <3>3. \A g \in File : g # f => ~Of(g, i)
            BY <1>1, <3>1, <3>2 DEF CardInv, Separate, File
        <3>4. i # named[f]
            BY <1>1, <3>1 DEF CardInv, Separate
        <3>. QED  BY <1>1, <3>1, <3>3, <3>4 DEF Of, CardInv, CardShape
    <2>. QED  BY <2>1, <2>2
<1> HIDE DEF f, i
<1>4. /\ doing'[w].do = "write" /\ doing'[w].file = f /\ fd'[w] = i
      /\ \A x \in Writer : x # w => doing'[x] = doing[x] /\ fd'[x] = fd[x]
      /\ tmp'[f] = i /\ \A g \in File : g # f => tmp'[g] = tmp[g]
      /\ inode'[i] = Blank /\ \A j \in Inode : j # i => inode'[j] = inode[j]
    BY <1>1, <1>2, <1>3 DEF CardInv, CardShape, To
<1>5. CardShape' /\ Busy' = Busy /\ Unsure' = Unsure
    <2>1. doing' \in [Writer -> [do : {"idle", "open", "write", "rename"}, file : File]]
        BY <1>1, <1>2 DEF CardInv, CardShape, To
    <2>2. \A x \in Writer : doing'[x].do = "idle" => doing'[x] = Idle
        BY <1>4 DEF CardInv, CardShape
    <2>3. Busy' = Busy
        <3>1. \A x \in Writer : doing'[x] = Idle <=> doing[x] = Idle
            BY <1>1, <1>4 DEF Busy, Idle
        <3>. QED  BY <3>1 DEF Busy
    <2>4. \A j \in Inode : inode'[j] = Blank \/ IsText(inode'[j])
        BY <1>4 DEF CardInv, CardShape
    <2>5. \A x \in Writer : doing'[x].do = "write" <=> fd'[x] # NoInode
        BY <1>3, <1>4 DEF CardInv, CardShape
    <2>6. tmp' \in [File -> Inode \cup {NoInode}] /\ fd' \in [Writer -> Inode \cup {NoInode}]
        BY <1>2, <1>3 DEF CardInv, CardShape
    <2>7. inode' = [j \in Inode |-> inode'[j]] /\ owner' = [j \in Inode |-> owner'[j]]
        BY <1>2 DEF CardInv, CardShape
    <2>8. \A x \in Busy' : IsText(text'[x])
        BY <1>2, <2>3 DEF CardInv, CardShape
    <2>9. IsText(said')
        BY <1>2 DEF CardInv, CardShape
    <2>10. Unsure' = Unsure
        BY <1>2, <2>3 DEF Unsure
    <2>. QED  BY <1>2, <2>1, <2>2, <2>3, <2>4, <2>5, <2>6, <2>7, <2>8, <2>9, <2>10 DEF CardInv, CardShape
<1>6. Content("state")' = Content("state") /\ Content("fat")' = Content("fat")
    <2>1. \A g \in File : named'[g] = named[g] /\ (named[g] # NoInode => inode'[named[g]] = inode[named[g]])
        <3>1. named' = named /\ \A g \in File : named[g] \in Inode \cup {NoInode}
            BY <1>2 DEF CardInv, CardShape
        <3>. QED  BY <1>3, <1>4, <3>1
    <2>. QED  BY <2>1 DEF Content, File
<1>7. Separate'
    <2>1. ASSUME NEW j \in Inode, NEW g \in File, Of(g, j)'
          PROVE  IF j = i THEN g = f ELSE Of(g, j)
        <3>1. CASE j = named'[g]
            BY <1>2, <1>3, <3>1 DEF Of
        <3>2. CASE j = tmp'[g]
            BY <1>3, <1>4, <3>2 DEF Of
        <3>3. CASE \E x \in Writer : doing'[x].file = g /\ fd'[x] = j
            <4>1. PICK x \in Writer : doing'[x].file = g /\ fd'[x] = j
                BY <3>3
            <4>. QED  BY <1>3, <1>4, <4>1 DEF Of
        <3>. QED  BY <2>1, <3>1, <3>2, <3>3 DEF Of
    <2>3. ASSUME NEW j \in Inode PROVE ~(Of("state", j)' /\ Of("fat", j)')
        <3>1. Of("state", j)' => IF j = i THEN "state" = f ELSE Of("state", j)
            BY <2>1 DEF File
        <3>2. Of("fat", j)' => IF j = i THEN "fat" = f ELSE Of("fat", j)
            BY <2>1 DEF File
        <3>. QED  BY <3>1, <3>2 DEF CardInv, Separate
    <2>4. \A g \in File : named'[g] # NoInode => named'[g] # tmp'[g]
        BY <1>2, <1>3, <1>4 DEF CardInv, Separate
    <2>. QED  BY <2>3, <2>4 DEF Separate
<1>8. Truthful'
    <2>1. \A g \in File : Handled(g)' /\ g # f => Handled(g)
        BY <1>4 DEF Handled
    <2>2. ASSUME NEW g \in File, Relied(g)', Handled(g)', tmp'[g] # NoInode, inode'[tmp'[g]] # Blank
          PROVE  Agrees(inode'[tmp'[g]], said, Unsure)
        <3>1. g # f
            BY <1>4, <2>2
        <3>2. tmp'[g] = tmp[g] /\ tmp[g] # i /\ tmp[g] \in Inode
            BY <1>3, <1>4, <2>2, <3>1 DEF CardInv, CardShape
        <3>. QED  BY <1>2, <1>4, <2>1, <2>2, <3>1, <3>2 DEF CardInv, Truthful, Relied
    <2>3. ASSUME NEW g \in File, Relied(g)', named'[g] # NoInode, inode'[named'[g]] # Blank
          PROVE  Agrees(inode'[named'[g]], said, Unsure)
        <3>1. named'[g] = named[g] /\ named[g] # i /\ named[g] \in Inode
            BY <1>2, <1>3, <2>3 DEF CardInv, CardShape
        <3>. QED  BY <1>2, <1>4, <2>3, <3>1 DEF CardInv, Truthful, Relied
    <2>4. said' = said /\ Unsure' = Unsure /\ Busy' = Busy /\ text' = text /\ named' = named
        BY <1>2, <1>5
    <2>. QED  BY <2>2, <2>3, <2>4 DEF CardInv, Truthful, Agrees
<1>9. TornIsOpen'
    <2>2. Torn' => Open(named["state"])' \/ Line \subseteq Unsure
        BY <1>1, <1>2, <1>4, <1>6 DEF Open, Torn, CardInv, TornIsOpen
    <2>3. \E x \in Writer : fd'[x] = i
        BY <1>4
    <2>4. ASSUME Handled("state")', tmp'["state"] # NoInode, inode'[tmp'["state"]] = Blank
          PROVE  Open(tmp["state"])' \/ Line \subseteq Unsure
        <3>1. CASE f = "state"
            BY <1>4, <2>3, <3>1 DEF Open
        <3>2. CASE f # "state"
            <4>1. tmp'["state"] = tmp["state"] /\ Handled("state") /\ inode'[tmp["state"]] = inode[tmp["state"]]
                BY <1>3, <1>4, <2>4, <3>2 DEF Handled, File, CardInv, CardShape
            <4>2. Open(tmp["state"]) \/ Line \subseteq Unsure
                BY <2>4, <4>1 DEF CardInv, TornIsOpen
            <4>3. Open(tmp["state"]) => Open(tmp["state"])'
                BY <1>1, <1>4, <2>4, <4>1 DEF Open
            <4>. QED  BY <4>2, <4>3
        <3>. QED  BY <3>1, <3>2
    <2>. QED  BY <1>2, <1>5, <2>2, <2>4 DEF TornIsOpen
<1>10. Alone'
    BY <1>2, <1>5 DEF CardInv, Alone
<1>11. WholeProceeds'
    <2>. SUFFICES ASSUME whole, NEW x \in Busy PROVE Proceeds(x)'
        BY <1>2, <1>5 DEF WholeProceeds
    <2>1. x = w /\ Proceeds(w)
        BY <1>1, <1>5 DEF CardInv, Alone, WholeProceeds
    <2>2. ~ModeRefused(w)'
        <3>1. tmp'[doing'[w].file] = i /\ i # NoInode /\ User(w)' = User(w)
            BY <1>3, <1>4 DEF User, f
        <3>2. ~(owner'[i] = "root" /\ User(w) = "pi")
            <4>1. CASE tmp[f] = NoInode
                <5>1. owner'[i] = User(w)
                    BY <1>2, <1>3, <4>1 DEF CardInv, CardShape
                <5>. QED  BY <5>1
            <4>2. CASE tmp[f] # NoInode
                <5>1. owner' = owner /\ i = tmp[f]
                    BY <1>2, <4>2 DEF i
                <5>. QED  BY <4>2, <5>1 DEF f
            <4>. QED  BY <4>1, <4>2
        <3>. QED  BY <3>1, <3>2 DEF ModeRefused
    <2>3. f = "fat" => Content("state")' = text'[w] /\ tmp'["state"] = NoInode
        BY <1>1, <1>2, <1>4, <1>6, <2>1 DEF Proceeds, f, File
    <2>4. Agrees(text'[w], said', doubt')
        BY <1>2, <2>1 DEF Proceeds
    <2>. QED  BY <1>4, <2>1, <2>2, <2>3, <2>4 DEF Proceeds, Agrees
<1>12. Sharp'
    <2>. SUFFICES ASSUME ~blurred PROVE Sharp'
        BY <1>2 DEF Sharp
    <2>1. whole /\ \A x \in Busy : x = w
        BY <1>1 DEF CardInv, Sharp, Alone
    <2>2. f = "state" => tmp'["fat"] = NoInode
        BY <1>1, <1>4 DEF CardInv, Sharp, f, File
    <2>3. (\A x \in Busy : doing'[x].file = "state") => \A x \in Busy : doing[x].file = "state"
        BY <1>4 DEF f, Busy
    <2>. QED  BY <1>1, <1>2, <1>4, <1>5, <1>6, <2>1, <2>2, <2>3 DEF CardInv, Sharp
<1>. QED  BY <1>5, <1>7, <1>8, <1>9, <1>10, <1>11, <1>12 DEF CardInv

\* What a writer flushes agrees with what was said, and the first copy gets a
\* text (wqm1-publish-status.sh).
LEMMA FlushedAgrees ==
    ASSUME CardInv, NEW w \in Busy
    PROVE  /\ Flushed(w) = Blank \/ (IsText(Flushed(w)) /\ Agrees(Flushed(w), said, Unsure))
           /\ doing[w].file = "state" => Flushed(w) # Blank
<1>1. CASE Copying(w)
    <2>1. Flushed(w) = Content("state") /\ doing[w].file # "state"
        BY <1>1 DEF Flushed, Copying
    <2>. QED  BY <2>1, ContentAgrees DEF File, Relied
<1>2. CASE ~Copying(w)
    <2>1. Flushed(w) = text[w] /\ IsText(text[w]) /\ Agrees(text[w], said, Unsure)
        BY <1>2 DEF Flushed, CardInv, CardShape, Truthful
    <2>. QED  BY <2>1, TextIsNotBlank
<1>. QED  BY <1>1, <1>2

\* What a writer has open belongs to the copy it is at.
LEMMA OpenIsApart ==
    ASSUME CardInv, NEW w \in Writer, doing[w].do = "write"
    PROVE  /\ fd[w] \in Inode /\ fd[w] # NoInode
           /\ \A g \in File : g # doing[w].file => fd[w] # named[g] /\ fd[w] # tmp[g]
           /\ \A x \in Writer : doing[x].file # doing[w].file => fd[x] # fd[w]
<1>1. fd[w] \in Inode /\ doing[w].file \in File
    BY DEF CardInv, CardShape
<1>2. Of(doing[w].file, fd[w])
    BY DEF Of
<1>3. \A g \in File : g # doing[w].file => ~Of(g, fd[w])
    BY <1>1, <1>2 DEF CardInv, Separate, File
<1>4. \A x \in Writer : doing[x].file \in File
    BY DEF CardInv, CardShape
<1>. QED  BY <1>1, <1>3, <1>4, NoInodeIsNone DEF Of

\* A writer that gives a copy up leaves no temporary name behind, and doubt.
LEMMA GivingUpKeepsCard ==
    ASSUME CardInv, NEW w \in Busy, blurred, Fails(w),
           tmp' = [tmp EXCEPT ![doing[w].file] = NoInode],
           UNCHANGED <<named, owner, line, text, said, blurred>>,
           IF doing[w].do = "write" THEN inode' = [inode EXCEPT ![fd[w]] = Flushed(w)] ELSE inode' = inode
    PROVE  CardInv'
<1> DEFINE f == doing[w].file
           i == fd[w]
<1>. USE NoInodeIsNone
<1>1. w \in Writer /\ f \in File /\ doing[w].do # "idle"
    <2>1. w \in Writer /\ f \in File
        BY DEF CardInv, CardShape, Busy
    <2>. QED  BY <2>1, BusyIs DEF CardInv
<1>2. /\ fd' = [fd EXCEPT ![w] = NoInode]
      /\ doubt' = doubt \cup {line[w]} /\ whole' = FALSE
      /\ doing' = [doing EXCEPT ![w] = doing'[w]]
      /\ (doing'[w] = To("open", "fat") /\ f = "state") \/ doing'[w] = Idle
    BY <1>1 DEF Fails, GivesUp, CardInv, CardShape
<1>3. /\ \A x \in Writer : x # w => doing'[x] = doing[x] /\ fd'[x] = fd[x]
      /\ fd'[w] = NoInode /\ doing'[w].do \in {"idle", "open"}
      /\ tmp'[f] = NoInode /\ \A g \in File : g # f => tmp'[g] = tmp[g]
    BY <1>1, <1>2 DEF CardInv, CardShape, To, Idle
<1>4. \A x \in Writer : fd'[x] # NoInode => x # w /\ fd[x] = fd'[x] /\ doing'[x] = doing[x]
    BY <1>3
<1>5. /\ \A j \in Inode : j # i => inode'[j] = inode[j]
      /\ doing[w].do = "write" => inode'[i] = Flushed(w) /\ i \in Inode
      /\ doing[w].do # "write" => inode' = inode /\ i = NoInode
      /\ inode' = [j \in Inode |-> inode'[j]]
    <2>1. CASE doing[w].do = "write"
        BY <1>1, <2>1, OpenIsApart DEF CardInv, CardShape
    <2>2. CASE doing[w].do # "write"
        BY <1>1, <2>2 DEF CardInv, CardShape
    <2>. QED  BY <2>1, <2>2
<1>6. /\ Flushed(w) = Blank \/ (IsText(Flushed(w)) /\ Agrees(Flushed(w), said, Unsure))
      /\ f = "state" => Flushed(w) # Blank
    BY FlushedAgrees
<1>7. i # NoInode => \A g \in File : g # f => i # named[g] /\ i # tmp[g]
    BY <1>1, <1>5, OpenIsApart
<1> HIDE DEF f, i
<1>8. Busy' \subseteq Busy /\ Busy \subseteq Busy' \cup {w} /\ Unsure' = Unsure
    <2>1. Busy' \subseteq Busy /\ Busy \subseteq Busy' \cup {w}
        BY <1>1, <1>3 DEF Busy
    <2>. QED  BY <1>2, <2>1 DEF Unsure
<1>9. CardShape'
    <2>1. doing' \in [Writer -> [do : {"idle", "open", "write", "rename"}, file : File]]
        <3>1. To("open", "fat") \in [do : {"idle", "open", "write", "rename"}, file : File]
            BY DEF To, File
        <3>2. Idle \in [do : {"idle", "open", "write", "rename"}, file : File]
            BY DEF Idle, File
        <3>. QED  BY <1>2, <3>1, <3>2 DEF CardInv, CardShape
    <2>2. \A x \in Writer : doing'[x].do = "idle" => doing'[x] = Idle
        BY <1>2, <1>3 DEF CardInv, CardShape, To
    <2>3. \A j \in Inode : inode'[j] = Blank \/ IsText(inode'[j])
        BY <1>5, <1>6 DEF CardInv, CardShape
    <2>4. \A x \in Writer : doing'[x].do = "write" <=> fd'[x] # NoInode
        BY <1>3 DEF CardInv, CardShape
    <2>5. tmp' \in [File -> Inode \cup {NoInode}] /\ fd' \in [Writer -> Inode \cup {NoInode}]
        BY <1>2 DEF CardInv, CardShape
    <2>6. doubt' \subseteq Line
        BY <1>1, <1>2 DEF CardInv, CardShape
    <2>7. \A x \in Busy' : IsText(text'[x])
        BY <1>8 DEF CardInv, CardShape
    <2>8. IsText(said')
        BY DEF CardInv, CardShape
    <2>. QED  BY <1>2, <1>5, <2>1, <2>2, <2>3, <2>4, <2>5, <2>6, <2>7, <2>8 DEF CardInv, CardShape
<1>10. Separate'
    <2>1. ASSUME NEW j \in Inode, NEW g \in File, Of(g, j)' PROVE Of(g, j)
        <3>1. CASE j = named'[g]
            BY <3>1 DEF Of
        <3>2. CASE j = tmp'[g]
            BY <1>3, <3>2 DEF Of
        <3>3. CASE \E x \in Writer : doing'[x].file = g /\ fd'[x] = j
            BY <1>4, <3>3 DEF Of
        <3>. QED  BY <2>1, <3>1, <3>2, <3>3 DEF Of
    <2>2. ASSUME NEW j \in Inode PROVE ~(Of("state", j)' /\ Of("fat", j)')
        <3>1. Of("state", j)' => Of("state", j)
            BY <2>1 DEF File
        <3>2. Of("fat", j)' => Of("fat", j)
            BY <2>1 DEF File
        <3>. QED  BY <3>1, <3>2 DEF CardInv, Separate
    <2>3. \A g \in File : named'[g] # NoInode => named'[g] # tmp'[g]
        BY <1>3 DEF CardInv, Separate
    <2>. QED  BY <2>2, <2>3 DEF Separate
<1>11. Truthful'
    <2>1. ASSUME NEW g \in File, Handled(g)' PROVE Handled(g)
        <3>1. PICK x \in Writer : doing'[x].file = g /\ doing'[x].do \in {"write", "rename"}
            BY <2>1 DEF Handled
        <3>. QED  BY <1>3, <3>1 DEF Handled
    <2>2. ASSUME NEW g \in File, Relied(g)', Handled(g)', tmp'[g] # NoInode, inode'[tmp'[g]] # Blank
          PROVE  Agrees(inode'[tmp'[g]], said, Unsure)
        <3>1. g # f
            BY <1>3, <2>2
        <3>2. tmp'[g] = tmp[g] /\ tmp[g] # i /\ tmp[g] \in Inode
            BY <1>3, <1>7, <2>2, <3>1 DEF CardInv, CardShape
        <3>. QED  BY <1>5, <2>1, <2>2, <3>2 DEF CardInv, Truthful, Relied
    <2>3. ASSUME NEW g \in File, Relied(g)', named'[g] # NoInode, inode'[named'[g]] # Blank
          PROVE  Agrees(inode'[named'[g]], said, Unsure)
        <3>1. named'[g] = named[g] /\ named[g] \in Inode
            BY <2>3 DEF CardInv, CardShape
        <3>2. CASE named[g] = i
            BY <1>5, <1>6, <2>3, <3>1, <3>2
        <3>3. CASE named[g] # i
            BY <1>5, <2>3, <3>1, <3>3 DEF CardInv, Truthful, Relied
        <3>. QED  BY <3>2, <3>3
    <2>. QED  BY <1>8, <2>2, <2>3 DEF CardInv, Truthful, Agrees
<1>12. TornIsOpen'
    <2>1. \A j \in Inode : Open(j) /\ (j = i => doing[w].do # "write") => \E x \in Writer : fd'[x] = j
        BY <1>3, <1>5 DEF Open, i
    <2>2. ASSUME Torn' PROVE Open(named["state"])' \/ Line \subseteq Unsure
        <3>1. named["state"] \in Inode /\ inode'[named["state"]] = Blank /\ named' = named
            BY <2>2 DEF Torn, Content, CardInv, CardShape, File
        <3>2. named["state"] = i => doing[w].do # "write"
            BY <1>1, <1>5, <1>6, <1>7, <3>1 DEF File
        <3>3. Torn
            BY <1>5, <3>1, <3>2 DEF Torn, Content
        <3>. QED  BY <2>1, <3>1, <3>2, <3>3 DEF CardInv, TornIsOpen, Open
    <2>3. ASSUME Handled("state")', tmp'["state"] # NoInode, inode'[tmp'["state"]] = Blank
          PROVE  Open(tmp["state"])' \/ Line \subseteq Unsure
        <3>1. f # "state" /\ tmp'["state"] = tmp["state"]
            BY <1>3, <2>3 DEF File
        <3>2. tmp["state"] # i /\ tmp["state"] \in Inode
            BY <1>7, <2>3, <3>1 DEF File, CardInv, CardShape
        <3>3. PICK x \in Writer : doing'[x].file = "state" /\ doing'[x].do \in {"write", "rename"}
            BY <2>3 DEF Handled
        <3>4. Handled("state")
            BY <1>3, <3>3 DEF Handled
        <3>5. inode[tmp["state"]] = Blank
            BY <1>5, <2>3, <3>1, <3>2
        <3>. QED  BY <2>1, <2>3, <3>1, <3>2, <3>4, <3>5 DEF CardInv, TornIsOpen, Open
    <2>. QED  BY <1>8, <2>2, <2>3 DEF TornIsOpen
<1>13. Alone'
    <2>1. \A x \in Busy : line[x] \in doubt \/ x = w
        BY DEF CardInv, Alone
    <2>. QED  BY <1>2, <1>8, <2>1 DEF Alone
<1>14. WholeProceeds' /\ Sharp'
    BY <1>2 DEF WholeProceeds, Sharp
<1>. QED  BY <1>9, <1>10, <1>11, <1>12, <1>13, <1>14 DEF CardInv

\* A writer that has nothing to disturb it gives no copy up.
LEMMA GivesUpOnlyWhenBlurred ==
    ASSUME CardInv, NEW w \in Busy,
           \/ doing[w].do = "open" /\ tmp[doing[w].file] # NoInode
           \/ doing[w].do = "write" /\ ModeRefused(w)
           \/ doing[w].do = "rename" /\ tmp[doing[w].file] = NoInode
    PROVE  blurred
<1>. SUFFICES ASSUME ~blurred PROVE FALSE
    BY DEF CardInv, CardShape
<1>1. whole
    BY DEF CardInv, Sharp
<1>2. Proceeds(w)
    BY <1>1 DEF CardInv, WholeProceeds
<1>. QED  BY <1>2 DEF Proceeds, CardInv, Sharp

\* The three ways to give up: what root left cannot be opened, the mode is
\* refused, the temporary name is gone (_write_atomic).
LEMMA RefusalsKeepCard ==
    ASSUME CardInv, NEW w \in Writer,
           \/ OpenTmp(w) /\ tmp[doing[w].file] # NoInode /\ owner[tmp[doing[w].file]] = "root" /\ User(w) = "pi"
           \/ WriteTmp(w) /\ ModeRefused(w)
           \/ RenameTmp(w) /\ tmp[doing[w].file] = NoInode
    PROVE  CardInv'
<1>1. w \in Busy
    BY BusyIs DEF CardInv, OpenTmp, WriteTmp, RenameTmp
<1>2. CASE OpenTmp(w) /\ tmp[doing[w].file] # NoInode /\ owner[tmp[doing[w].file]] = "root" /\ User(w) = "pi"
    BY <1>1, <1>2, GivesUpOnlyWhenBlurred, GivingUpKeepsCard DEF OpenTmp
<1>3. CASE WriteTmp(w) /\ ModeRefused(w)
    BY <1>1, <1>3, GivesUpOnlyWhenBlurred, GivingUpKeepsCard DEF WriteTmp
<1>4. CASE RenameTmp(w) /\ tmp[doing[w].file] = NoInode
    <2>1. tmp' = [tmp EXCEPT ![doing[w].file] = NoInode]
        BY <1>4 DEF RenameTmp, CardInv, CardShape
    <2>. QED  BY <1>1, <1>4, <2>1, GivesUpOnlyWhenBlurred, GivingUpKeepsCard DEF RenameTmp
<1>. QED  BY <1>2, <1>3, <1>4

\* The text is flushed into what is open, wherever its names are by now
\* (_write_atomic).
LEMMA WrittenKeepsCard ==
    ASSUME CardInv, NEW w \in Writer, WriteTmp(w), ~ModeRefused(w)
    PROVE  CardInv'
<1> DEFINE f == doing[w].file
           i == fd[w]
<1>. USE NoInodeIsNone
<1>1. w \in Busy /\ f \in File /\ doing[w].do = "write"
    <2>1. f \in File /\ doing[w].do = "write"
        BY DEF CardInv, CardShape, WriteTmp
    <2>. QED  BY <2>1, BusyIs DEF CardInv
<1>2. /\ inode' = [inode EXCEPT ![i] = Flushed(w)]
      /\ doing' = [doing EXCEPT ![w] = To("rename", f)] /\ fd' = [fd EXCEPT ![w] = NoInode]
      /\ UNCHANGED <<named, tmp, owner, line, text, writes, troubles, said, doubt, whole, blurred>>
    BY DEF WriteTmp
<1>3. /\ i \in Inode /\ i # NoInode
      /\ \A g \in File : g # f => i # named[g] /\ i # tmp[g]
    BY <1>1, OpenIsApart
<1>4. /\ Flushed(w) = Blank \/ (IsText(Flushed(w)) /\ Agrees(Flushed(w), said, Unsure))
      /\ f = "state" => Flushed(w) # Blank
    BY <1>1, FlushedAgrees
<1> HIDE DEF f, i
<1>5. /\ doing'[w].do = "rename" /\ doing'[w].file = f /\ fd'[w] = NoInode
      /\ \A x \in Writer : x # w => doing'[x] = doing[x] /\ fd'[x] = fd[x]
      /\ inode'[i] = Flushed(w) /\ \A j \in Inode : j # i => inode'[j] = inode[j]
    BY <1>1, <1>2, <1>3 DEF CardInv, CardShape, To
<1>6. \A x \in Writer : fd'[x] # NoInode => x # w /\ fd[x] = fd'[x] /\ doing'[x] = doing[x]
    BY <1>5
<1>7. Busy' = Busy /\ Unsure' = Unsure
    <2>1. \A x \in Writer : doing'[x] = Idle <=> doing[x] = Idle
        BY <1>1, <1>5 DEF Busy, Idle
    <2>2. Busy' = Busy
        BY <2>1 DEF Busy
    <2>. QED  BY <1>2, <2>2 DEF Unsure
<1>8. CardShape'
    <2>1. doing' \in [Writer -> [do : {"idle", "open", "write", "rename"}, file : File]]
        BY <1>1, <1>2 DEF CardInv, CardShape, To
    <2>2. \A x \in Writer : doing'[x].do = "idle" => doing'[x] = Idle
        BY <1>5 DEF CardInv, CardShape
    <2>3. \A j \in Inode : inode'[j] = Blank \/ IsText(inode'[j])
        BY <1>4, <1>5 DEF CardInv, CardShape
    <2>4. \A x \in Writer : doing'[x].do = "write" <=> fd'[x] # NoInode
        BY <1>5 DEF CardInv, CardShape
    <2>5. tmp' \in [File -> Inode \cup {NoInode}] /\ fd' \in [Writer -> Inode \cup {NoInode}]
        BY <1>2 DEF CardInv, CardShape
    <2>6. inode' = [j \in Inode |-> inode'[j]]
        BY <1>2 DEF CardInv, CardShape
    <2>7. (\A x \in Busy' : IsText(text'[x])) /\ IsText(said')
        BY <1>2, <1>7 DEF CardInv, CardShape
    <2>. QED  BY <1>2, <2>1, <2>2, <2>3, <2>4, <2>5, <2>6, <2>7 DEF CardInv, CardShape
<1>9. Separate'
    <2>1. ASSUME NEW j \in Inode, NEW g \in File, Of(g, j)' PROVE Of(g, j)
        BY <1>2, <1>6, <2>1 DEF Of
    <2>2. ASSUME NEW j \in Inode PROVE ~(Of("state", j)' /\ Of("fat", j)')
        <3>1. Of("state", j)' => Of("state", j)
            BY <2>1 DEF File
        <3>2. Of("fat", j)' => Of("fat", j)
            BY <2>1 DEF File
        <3>. QED  BY <3>1, <3>2 DEF CardInv, Separate
    <2>. QED  BY <1>2, <2>2 DEF CardInv, Separate
<1>10. \A g \in File : Handled(g)' => Handled(g)
    <2>1. ASSUME NEW g \in File, Handled(g)' PROVE Handled(g)
        <3>1. PICK x \in Writer : doing'[x].file = g /\ doing'[x].do \in {"write", "rename"}
            BY <2>1 DEF Handled
        <3>. QED  BY <1>1, <1>5, <3>1 DEF Handled, f
    <2>. QED  BY <2>1
<1>11. Truthful'
    <2>1. ASSUME NEW g \in File, Relied(g)', Handled(g)', tmp'[g] # NoInode, inode'[tmp'[g]] # Blank
          PROVE  Agrees(inode'[tmp'[g]], said, Unsure)
        <3>1. tmp'[g] = tmp[g] /\ tmp[g] \in Inode
            BY <1>2, <2>1 DEF CardInv, CardShape
        <3>. QED  BY <1>2, <1>4, <1>5, <1>10, <2>1, <3>1 DEF CardInv, Truthful, Relied
    <2>2. ASSUME NEW g \in File, Relied(g)', named'[g] # NoInode, inode'[named'[g]] # Blank
          PROVE  Agrees(inode'[named'[g]], said, Unsure)
        <3>1. named'[g] = named[g] /\ named[g] \in Inode
            BY <1>2, <2>2 DEF CardInv, CardShape
        <3>. QED  BY <1>2, <1>4, <1>5, <2>2, <3>1 DEF CardInv, Truthful, Relied
    <2>. QED  BY <1>2, <1>7, <2>1, <2>2 DEF CardInv, Truthful, Agrees
<1>12. TornIsOpen'
    <2>1. \A j \in Inode : Open(j) /\ j # i => \E x \in Writer : fd'[x] = j
        BY <1>5 DEF Open, i
    <2>2. ASSUME Torn' PROVE Open(named["state"])' \/ Line \subseteq Unsure
        <3>1. named["state"] \in Inode /\ inode'[named["state"]] = Blank /\ named' = named
            BY <1>2, <2>2 DEF Torn, Content, CardInv, CardShape, File
        <3>2. named["state"] # i
            BY <1>1, <1>3, <1>4, <1>5, <3>1 DEF File
        <3>3. Torn
            BY <1>5, <3>1, <3>2 DEF Torn, Content
        <3>. QED  BY <2>1, <3>1, <3>2, <3>3 DEF CardInv, TornIsOpen, Open
    <2>3. ASSUME Handled("state")', tmp'["state"] # NoInode, inode'[tmp'["state"]] = Blank
          PROVE  Open(tmp["state"])' \/ Line \subseteq Unsure
        <3>1. tmp' = tmp /\ tmp["state"] \in Inode
            BY <1>2, <2>3 DEF File, CardInv, CardShape
        <3>2. tmp["state"] # i
            BY <1>1, <1>3, <1>4, <1>5, <2>3, <3>1 DEF File
        <3>3. Handled("state") /\ inode[tmp["state"]] = Blank
            BY <1>5, <1>10, <2>3, <3>1, <3>2 DEF File
        <3>. QED  BY <2>1, <2>3, <3>1, <3>2, <3>3 DEF CardInv, TornIsOpen, Open
    <2>. QED  BY <1>2, <1>7, <2>2, <2>3 DEF TornIsOpen
<1>13. Alone'
    BY <1>2, <1>7 DEF CardInv, Alone
<1>14. WholeProceeds'
    <2>. SUFFICES ASSUME whole, NEW x \in Busy PROVE Proceeds(x)'
        BY <1>2, <1>7 DEF WholeProceeds
    <2>1. x = w /\ Proceeds(w)
        BY <1>1 DEF CardInv, Alone, WholeProceeds
    <2>2. i = tmp[f]
        BY <1>1, <2>1 DEF Proceeds, f, i
    <2>3. Flushed(w) = text[w]
        BY <2>1 DEF Flushed, Copying, Proceeds
    <2>4. f = "fat" => Content("state")' = text'[w] /\ tmp'["state"] = NoInode
        <3>1. f = "fat" => named["state"] # i /\ (named["state"] # NoInode => named["state"] \in Inode)
            BY <1>3 DEF File, CardInv, CardShape
        <3>2. f = "fat" => Content("state") = text[w] /\ tmp["state"] = NoInode
            BY <2>1 DEF Proceeds, f
        <3>. QED  BY <1>2, <1>5, <3>1, <3>2 DEF Content
    <2>5. Agrees(text'[w], said', doubt')
        BY <1>2, <2>1 DEF Proceeds
    <2>6. tmp'[f] # NoInode /\ inode'[tmp'[f]] = text'[w]
        BY <1>2, <1>3, <1>5, <2>2, <2>3
    <2>. QED  BY <1>5, <2>1, <2>4, <2>5, <2>6 DEF Proceeds, Agrees
<1>15. Sharp'
    <2>. SUFFICES ASSUME ~blurred PROVE Sharp'
        BY <1>2 DEF Sharp
    <2>1. whole /\ \A x \in Busy : x = w
        BY <1>1 DEF CardInv, Sharp, Alone
    <2>2. f = "state" => tmp["fat"] = NoInode /\ Content("fat") = Content("state")
        BY <1>1, <2>1 DEF CardInv, Sharp, f
    <2>3. f = "state" => i = tmp["state"] /\ i # named["state"] /\ i # named["fat"]
        BY <1>1, <1>3, <2>1 DEF CardInv, WholeProceeds, Proceeds, Separate, f, i, File
    <2>4. f = "state" => Content("fat")' = Content("state")'
        <3>1. named \in [File -> Inode \cup {NoInode}] /\ named' = named
            BY <1>2 DEF CardInv, CardShape
        <3>2. f = "state" => \A g \in File : named[g] # NoInode => inode'[named[g]] = inode[named[g]]
            BY <1>5, <2>3, <3>1 DEF File
        <3>. QED  BY <2>2, <3>1, <3>2 DEF Content, File
    <2>. QED  BY <1>1, <1>2, <1>5, <1>7, <2>1, <2>2, <2>4 DEF Sharp
<1>. QED  BY <1>8, <1>9, <1>11, <1>12, <1>13, <1>14, <1>15 DEF CardInv

\* The name goes to whatever has the temporary one (_write_atomic, mv).
LEMMA RenamedKeepsCard ==
    ASSUME CardInv, NEW w \in Writer, RenameTmp(w), tmp[doing[w].file] # NoInode
    PROVE  CardInv'
<1> DEFINE f == doing[w].file
<1>. USE NoInodeIsNone
<1>1. w \in Busy /\ f \in File /\ doing[w].do = "rename" /\ fd[w] = NoInode
    <2>1. f \in File /\ doing[w].do = "rename" /\ fd[w] = NoInode
        BY DEF CardInv, CardShape, RenameTmp
    <2>. QED  BY <2>1, BusyIs DEF CardInv
<1>2. /\ named' = [named EXCEPT ![f] = tmp[f]] /\ tmp' = [tmp EXCEPT ![f] = NoInode]
      /\ doing' = [doing EXCEPT ![w] = IF f = "state" THEN To("open", "fat") ELSE Idle]
      /\ blurred' = (blurred /\ ~(f = "fat" /\ whole))
      /\ UNCHANGED <<inode, owner, line, text, fd, writes, troubles, said, doubt, whole>>
    BY DEF RenameTmp
<1>3. tmp[f] \in Inode
    BY <1>1 DEF CardInv, CardShape
<1>4. /\ f = "state" => doing'[w] = To("open", "fat")
      /\ f = "fat" => doing'[w] = Idle
      /\ \A x \in Writer : x # w => doing'[x] = doing[x]
      /\ named'[f] = tmp[f] /\ tmp'[f] = NoInode
      /\ \A g \in File : g # f => named'[g] = named[g] /\ tmp'[g] = tmp[g]
    BY <1>1, <1>2 DEF CardInv, CardShape
<1>5. whole => Proceeds(w) /\ Busy = {w}
    BY <1>1 DEF CardInv, Alone, WholeProceeds
<1>6. f = "state" \/ (f = "fat" /\ ~whole) \/ (f = "fat" /\ whole)
    BY <1>1 DEF File, CardInv, CardShape
<1>7. /\ f = "state" => Busy' = Busy
      /\ f = "fat" => Busy' = Busy \ {w}
    BY <1>1, <1>4 DEF Busy, To, Idle
<1>8. IF f = "fat" /\ whole THEN Busy' = {} /\ Unsure' = doubt ELSE Unsure' = Unsure
    <2>1. CASE f = "state"
        BY <1>2, <1>7, <2>1 DEF Unsure
    <2>2. CASE f = "fat" /\ ~whole
        <3>1. line[w] \in doubt
            BY <1>1, <2>2 DEF CardInv, Alone
        <3>. QED  BY <1>2, <1>7, <2>2, <3>1 DEF Unsure
    <2>3. CASE f = "fat" /\ whole
        BY <1>2, <1>5, <1>7, <2>3 DEF Unsure
    <2>. QED  BY <1>6, <2>1, <2>2, <2>3
<1>9. f = "fat" /\ whole =>
          /\ Agrees(text[w], said, doubt) /\ inode[tmp[f]] = text[w]
          /\ named["state"] # NoInode /\ inode[named["state"]] = text[w] /\ text[w] # Blank
          /\ tmp["state"] = NoInode
    <2>. SUFFICES ASSUME f = "fat", whole PROVE
          /\ Agrees(text[w], said, doubt) /\ inode[tmp[f]] = text[w]
          /\ named["state"] # NoInode /\ inode[named["state"]] = text[w] /\ text[w] # Blank
          /\ tmp["state"] = NoInode
        OBVIOUS
    <2>1. text[w] # Blank
        BY <1>1, TextIsNotBlank DEF CardInv, CardShape
    <2>2. Agrees(text[w], said, doubt) /\ inode[tmp[f]] = text[w] /\ Content("state") = text[w] /\ tmp["state"] = NoInode
        BY <1>1, <1>5 DEF Proceeds
    <2>. QED  BY <2>1, <2>2 DEF Content
<1> HIDE DEF f
<1>10. CardShape'
    <2>1. doing' \in [Writer -> [do : {"idle", "open", "write", "rename"}, file : File]]
        <3>1. To("open", "fat") \in [do : {"idle", "open", "write", "rename"}, file : File]
            BY DEF To, File
        <3>2. Idle \in [do : {"idle", "open", "write", "rename"}, file : File]
            BY DEF Idle, File
        <3>. QED  BY <1>2, <3>1, <3>2 DEF CardInv, CardShape
    <2>2. ASSUME NEW x \in Writer, doing'[x].do = "idle" PROVE doing'[x] = Idle
        <3>1. CASE x = w
            <4>1. To("open", "fat").do # "idle"
                BY DEF To
            <4>. QED  BY <1>4, <1>6, <2>2, <3>1, <4>1
        <3>2. CASE x # w
            <4>1. doing'[x] = doing[x]
                BY <1>4, <3>2
            <4>. QED  BY <2>2, <4>1 DEF CardInv, CardShape
        <3>. QED  BY <3>1, <3>2
    <2>3. \A x \in Writer : doing'[x].do = "write" <=> fd'[x] # NoInode
        <3>1. doing'[w].do # "write"
            BY <1>4, <1>6 DEF To, Idle
        <3>. QED  BY <1>1, <1>2, <1>4, <3>1 DEF CardInv, CardShape
    <2>4. named' \in [File -> Inode \cup {NoInode}] /\ tmp' \in [File -> Inode \cup {NoInode}]
        BY <1>2, <1>3 DEF CardInv, CardShape
    <2>5. (\A x \in Busy' : IsText(text'[x])) /\ IsText(said')
        BY <1>2, <1>6, <1>7 DEF CardInv, CardShape
    <2>6. blurred' \in BOOLEAN
        BY <1>2
    <2>. QED  BY <1>2, <2>1, <2>2, <2>3, <2>4, <2>5, <2>6 DEF CardInv, CardShape
<1>11. Separate'
    <2>1. ASSUME NEW j \in Inode, NEW g \in File, Of(g, j)' PROVE Of(g, j)
        <3>1. CASE j = named'[g] \/ j = tmp'[g]
            BY <1>4, <3>1 DEF Of
        <3>2. CASE \E x \in Writer : doing'[x].file = g /\ fd'[x] = j
            <4>1. PICK x \in Writer : doing'[x].file = g /\ fd'[x] = j
                BY <3>2
            <4>. QED  BY <1>1, <1>2, <1>4, <4>1 DEF Of
        <3>. QED  BY <2>1, <3>1, <3>2 DEF Of
    <2>2. ASSUME NEW j \in Inode PROVE ~(Of("state", j)' /\ Of("fat", j)')
        <3>1. Of("state", j)' => Of("state", j)
            BY <2>1 DEF File
        <3>2. Of("fat", j)' => Of("fat", j)
            BY <2>1 DEF File
        <3>. QED  BY <3>1, <3>2 DEF CardInv, Separate
    <2>3. \A g \in File : named'[g] # NoInode => named'[g] # tmp'[g]
        BY <1>4 DEF CardInv, Separate
    <2>. QED  BY <2>2, <2>3 DEF Separate
<1>12. \A g \in File : Handled(g)' => Handled(g)
    <2>1. ASSUME NEW g \in File, Handled(g)' PROVE Handled(g)
        <3>1. PICK x \in Writer : doing'[x].file = g /\ doing'[x].do \in {"write", "rename"}
            BY <2>1 DEF Handled
        <3>2. x # w
            BY <1>4, <1>6, <3>1 DEF To, Idle
        <3>. QED  BY <1>4, <3>1, <3>2 DEF Handled
    <2>. QED  BY <2>1
<1>13. Handled(f)
    BY <1>1 DEF Handled, f
<1>14. f = "fat" /\ whole => \A g \in File : ~Handled(g)'
    <2>1. f = "fat" /\ whole => \A x \in Writer : doing'[x] = Idle
        BY <1>8 DEF Busy
    <2>. QED  BY <2>1 DEF Handled, Idle
<1>15. Truthful'
    <2>1. CASE ~(f = "fat" /\ whole)
        <3>1. ASSUME NEW g \in File, Relied(g)', Handled(g)', tmp'[g] # NoInode, inode'[tmp'[g]] # Blank
              PROVE  Agrees(inode'[tmp'[g]], said, Unsure)
            BY <1>2, <1>3, <1>4, <1>12, <3>1 DEF CardInv, Truthful, Relied, File
        <3>2. ASSUME NEW g \in File, Relied(g)', named'[g] # NoInode, inode'[named'[g]] # Blank
              PROVE  Agrees(inode'[named'[g]], said, Unsure)
            BY <1>2, <1>3, <1>4, <1>13, <3>2 DEF CardInv, Truthful, Relied, File
        <3>3. ASSUME NEW x \in Busy' PROVE Agrees(text'[x], said, Unsure)
            BY <1>2, <1>6, <1>7 DEF CardInv, Truthful
        <3>4. named'["state"] = NoInode => Agrees(Unsaid, said, Unsure)
            BY <1>3, <1>4 DEF CardInv, Truthful, File
        <3>. QED  BY <1>2, <1>8, <2>1, <3>1, <3>2, <3>3, <3>4 DEF Truthful, Agrees
    <2>2. CASE f = "fat" /\ whole
        <3>1. \A g \in File : inode'[named'[g]] = text[w]
            BY <1>2, <1>4, <1>9, <2>2 DEF File
        <3>2. named'["state"] # NoInode
            BY <1>4, <1>9, <2>2 DEF File
        <3>. QED  BY <1>2, <1>8, <1>9, <1>14, <2>2, <3>1, <3>2 DEF Truthful, Agrees
    <2>. QED  BY <2>1, <2>2
<1>16. TornIsOpen'
    <2>1. \A j : Open(j) => \E x \in Writer : fd'[x] = j
        BY <1>2 DEF Open
    <2>2. CASE f = "state"
        <3>1. Torn' => Open(tmp["state"]) \/ Line \subseteq Unsure
            BY <1>2, <1>3, <1>4, <1>13, <2>2 DEF Torn, Content, CardInv, TornIsOpen
        <3>2. Torn' => Open(named["state"])' \/ Line \subseteq Unsure
            BY <1>4, <2>1, <2>2, <3>1 DEF Open
        <3>. QED  BY <1>4, <1>8, <2>2, <3>2 DEF TornIsOpen
    <2>3. CASE f = "fat" /\ ~whole
        <3>1. named'["state"] = named["state"] /\ tmp'["state"] = tmp["state"]
            BY <1>4, <2>3 DEF File
        <3>2. Torn' => Torn
            BY <1>2, <3>1 DEF Torn, Content
        <3>3. Torn' => Open(named["state"])' \/ Line \subseteq Unsure
            BY <2>1, <3>1, <3>2 DEF CardInv, TornIsOpen, Open
        <3>4. ASSUME Handled("state")', tmp'["state"] # NoInode, inode'[tmp'["state"]] = Blank
              PROVE  Open(tmp["state"])' \/ Line \subseteq Unsure
            BY <1>2, <1>12, <2>1, <3>1, <3>4 DEF CardInv, TornIsOpen, Open, File
        <3>. QED  BY <1>8, <2>3, <3>3, <3>4 DEF TornIsOpen
    <2>4. CASE f = "fat" /\ whole
        <3>1. ~Torn'
            BY <1>2, <1>4, <1>9, <2>4 DEF Torn, Content, File
        <3>. QED  BY <1>14, <2>4, <3>1 DEF TornIsOpen, File
    <2>. QED  BY <1>6, <2>2, <2>3, <2>4
<1>17. Alone'
    BY <1>2, <1>6, <1>7 DEF CardInv, Alone
<1>18. WholeProceeds'
    <2>. SUFFICES ASSUME whole, NEW x \in Busy' PROVE Proceeds(x)'
        BY <1>2 DEF WholeProceeds
    <2>1. f = "state" /\ x = w
        BY <1>5, <1>6, <1>7, <1>8
    <2>2. Agrees(text[w], said, doubt) /\ inode[tmp["state"]] = text[w]
        BY <1>1, <1>5, <2>1 DEF Proceeds, f
    <2>3. Content("state")' = text'[w] /\ tmp'["state"] = NoInode
        BY <1>2, <1>3, <1>4, <2>1, <2>2 DEF Content
    <2>4. doing'[w].do = "open" /\ Agrees(text'[w], said', doubt')
        BY <1>2, <1>4, <2>1, <2>2 DEF To
    <2>. QED  BY <2>1, <2>3, <2>4 DEF Proceeds
<1>19. Sharp'
    <2>. SUFFICES ASSUME ~blurred' PROVE Sharp'
        BY DEF Sharp
    <2>1. whole
        BY <1>2 DEF CardInv, CardShape, Sharp
    <2>2. CASE f = "state"
        <3>1. ~blurred /\ tmp["fat"] = NoInode
            BY <1>1, <1>2, <2>2 DEF CardInv, CardShape, Sharp, f
        <3>2. Busy' = {w} /\ doing'[w].do = "open" /\ doing'[w].file = "fat"
            BY <1>4, <1>5, <1>7, <2>1, <2>2 DEF To
        <3>3. tmp'["fat"] = NoInode
            BY <1>4, <2>2, <3>1 DEF File
        <3>. QED  BY <1>2, <2>1, <3>2, <3>3 DEF Sharp
    <2>3. CASE f = "fat"
        <3>1. tmp'["fat"] = NoInode /\ tmp'["state"] = NoInode
            BY <1>4, <1>9, <2>1, <2>3 DEF File
        <3>2. Content("fat")' = Content("state")'
            BY <1>2, <1>3, <1>4, <1>9, <2>1, <2>3 DEF Content, File
        <3>. QED  BY <1>2, <1>8, <2>1, <2>3, <3>1, <3>2 DEF Sharp, File
    <2>. QED  BY <1>6, <2>2, <2>3
<1>. QED  BY <1>10, <1>11, <1>15, <1>16, <1>17, <1>18, <1>19 DEF CardInv

\* A write begins, alone or among others (write_boot_status).
LEMMA BeginKeepsCard ==
    ASSUME CardInv, NEW w \in Writer, NEW l \in Says[w], NEW v, Begin(w, l, v)
    PROVE  CardInv'
<1> DEFINE composed == [Published EXCEPT ![l] = IF l = "joins" THEN WithAttempt(Published["joins"], v) ELSE v]
<1>. USE NoInodeIsNone
<1>1. /\ l \in Line /\ w \notin Busy
      /\ doing' = [doing EXCEPT ![w] = To("open", "state")]
      /\ line' = [line EXCEPT ![w] = l] /\ text' = [text EXCEPT ![w] = composed]
      /\ said' = [said EXCEPT ![l] = IF l = "joins" THEN WithAttempt(said["joins"], v) ELSE v]
      /\ whole' = (Busy = {})
      /\ UNCHANGED <<named, tmp, inode, owner, fd>>
    <2>1. l \in Line /\ w \notin Busy
        BY StatusAssumption DEF Begin, Busy
    <2>2. said' = [said EXCEPT ![l] = IF l = "joins" THEN WithAttempt(said["joins"], v) ELSE v]
        <3>1. l = "joins" => said[l] = said["joins"]
            OBVIOUS
        <3>. QED  BY <2>1, <3>1 DEF Begin, CardInv, CardShape, IsText
    <2>3. text' = [text EXCEPT ![w] = composed]
        BY DEF Begin, Composed
    <2>. QED  BY <2>1, <2>2, <2>3 DEF Begin
<1>2. /\ Busy = {} => (doubt' = IF l = "joins" THEN doubt ELSE doubt \ {l}) /\ blurred' = blurred
      /\ Busy # {} => (doubt' = IF Torn THEN Line ELSE doubt \cup {l} \cup {line[x] : x \in Busy}) /\ blurred' = TRUE
    BY DEF Begin
<1>3. IsText(composed)
    BY <1>1, PublishedAgrees DEF IsText
<1>4. /\ composed[l] = IF l = "joins" THEN WithAttempt(Published["joins"], v) ELSE v
      /\ \A k \in Line : k # l => composed[k] = Published[k]
    BY <1>1, PublishedAgrees DEF IsText
<1>5. /\ said'[l] = IF l = "joins" THEN WithAttempt(said["joins"], v) ELSE v
      /\ \A k \in Line : k # l => said'[k] = said[k]
      /\ IsText(said')
    BY <1>1 DEF CardInv, CardShape, IsText
<1> HIDE DEF composed
<1>6. /\ doing'[w] = To("open", "state") /\ line'[w] = l /\ text'[w] = composed
      /\ \A x \in Writer : x # w => doing'[x] = doing[x] /\ line'[x] = line[x] /\ text'[x] = text[x]
    BY <1>1 DEF CardInv, CardShape
<1>7. Busy' = Busy \cup {w}
    BY <1>6 DEF Busy, To, Idle
<1>8. Unsure' = doubt' \cup {l} \cup {line[x] : x \in Busy}
    <2>1. \A x \in Busy : line'[x] = line[x]
        BY <1>1, <1>6 DEF Busy
    <2>. QED  BY <1>6, <1>7, <2>1 DEF Unsure
<1>9. Unsure \subseteq Unsure' /\ l \in Unsure'
    <2>1. CASE Busy = {}
        BY <1>2, <1>8, <2>1 DEF Unsure
    <2>2. CASE Busy # {} /\ ~Torn
        BY <1>2, <1>8, <2>2 DEF Unsure
    <2>3. CASE Busy # {} /\ Torn
        BY <1>2, <1>8, <2>3 DEF Unsure, CardInv, CardShape
    <2>. QED  BY <2>1, <2>2, <2>3
<1>10. ASSUME NEW t, Agrees(t, said, Unsure) PROVE Agrees(t, said', Unsure')
    BY <1>5, <1>9, <1>10 DEF Agrees
<1>11. Agrees(composed, said', Unsure')
    <2>1. CASE ~Torn
        BY <1>4, <1>5, <1>9, <2>1, PublishedAgrees DEF Agrees
    <2>2. CASE Busy = {}
        <3>1. Unsure = doubt
            BY <2>2 DEF Unsure
        <3>. QED  BY <1>4, <1>5, <1>9, <2>2, <3>1, PublishedAgrees DEF Agrees
    <2>3. CASE Torn /\ Busy # {}
        BY <1>2, <1>8, <2>3 DEF Agrees
    <2>. QED  BY <2>1, <2>2, <2>3
<1>12. Busy = {} => Agrees(composed, said', doubt')
    <2>. SUFFICES ASSUME Busy = {}, NEW k \in Line \ doubt' PROVE composed[k] = said'[k]
        BY DEF Agrees
    <2>1. \A m \in Line \ doubt : Published[m] = said[m]
        BY PublishedAgrees DEF Agrees
    <2>2. CASE k # l
        BY <1>2, <1>4, <1>5, <2>1, <2>2
    <2>3. CASE k = l /\ l = "joins"
        <3>1. Published["joins"] = said["joins"]
            BY <1>2, <2>1, <2>3
        <3>. QED  BY <1>4, <1>5, <2>3, <3>1
    <2>4. CASE k = l /\ l # "joins"
        BY <1>4, <1>5, <2>4
    <2>. QED  BY <2>2, <2>3, <2>4
<1>13. CardShape'
    <2>1. doing' \in [Writer -> [do : {"idle", "open", "write", "rename"}, file : File]]
        <3>1. To("open", "state") \in [do : {"idle", "open", "write", "rename"}, file : File]
            BY DEF To, File
        <3>. QED  BY <1>1, <3>1 DEF CardInv, CardShape
    <2>2. \A x \in Writer : doing'[x].do = "idle" => doing'[x] = Idle
        BY <1>6 DEF CardInv, CardShape, To
    <2>3. \A x \in Writer : doing'[x].do = "write" <=> fd'[x] # NoInode
        <3>1. doing[w].do # "write" /\ doing'[w].do # "write"
            BY <1>1, <1>6 DEF Busy, Idle, To
        <3>. QED  BY <1>1, <1>6, <3>1 DEF CardInv, CardShape
    <2>4. \A x \in Busy' : IsText(text'[x])
        BY <1>3, <1>6, <1>7 DEF CardInv, CardShape, Busy
    <2>5. doubt' \subseteq Line /\ blurred' \in BOOLEAN /\ whole' \in BOOLEAN
        <3>1. \A x \in Busy : line[x] \in Line
            BY DEF Busy, CardInv, CardShape
        <3>2. doubt' \subseteq Line
            BY <1>1, <1>2, <3>1 DEF CardInv, CardShape
        <3>3. blurred' \in BOOLEAN
            BY <1>2 DEF CardInv, CardShape
        <3>. QED  BY <1>1, <3>2, <3>3
    <2>6. line' \in [Writer -> Line] /\ text' = [x \in Writer |-> text'[x]]
        BY <1>1 DEF CardInv, CardShape
    <2>. QED  BY <1>1, <1>5, <2>1, <2>2, <2>3, <2>4, <2>5, <2>6 DEF CardInv, CardShape
<1>14. \A x \in Writer : fd'[x] # NoInode => x # w /\ fd[x] = fd'[x] /\ doing'[x] = doing[x]
    <2>1. doing[w].do # "write"
        BY <1>1 DEF Busy, Idle
    <2>. QED  BY <1>1, <1>6, <2>1 DEF CardInv, CardShape
<1>15. Separate'
    <2>1. ASSUME NEW j \in Inode, NEW g \in File, Of(g, j)' PROVE Of(g, j)
        BY <1>1, <1>14, <2>1 DEF Of
    <2>2. ASSUME NEW j \in Inode PROVE ~(Of("state", j)' /\ Of("fat", j)')
        <3>1. Of("state", j)' => Of("state", j)
            BY <2>1 DEF File
        <3>2. Of("fat", j)' => Of("fat", j)
            BY <2>1 DEF File
        <3>. QED  BY <3>1, <3>2 DEF CardInv, Separate
    <2>. QED  BY <1>1, <2>2 DEF CardInv, Separate
<1>16. \A g \in File : Handled(g)' => Handled(g)
    <2>1. ASSUME NEW g \in File, Handled(g)' PROVE Handled(g)
        <3>1. PICK x \in Writer : doing'[x].file = g /\ doing'[x].do \in {"write", "rename"}
            BY <2>1 DEF Handled
        <3>2. x # w
            BY <1>6, <3>1 DEF To
        <3>. QED  BY <1>6, <3>1, <3>2 DEF Handled
    <2>. QED  BY <2>1
<1>17. Truthful'
    <2>1. ASSUME NEW g \in File, Relied(g)', Handled(g)', tmp'[g] # NoInode, inode'[tmp'[g]] # Blank
          PROVE  Agrees(inode'[tmp'[g]], said', Unsure')
        BY <1>1, <1>10, <1>16, <2>1 DEF CardInv, Truthful, Relied
    <2>2. ASSUME NEW g \in File, Relied(g)', named'[g] # NoInode, inode'[named'[g]] # Blank
          PROVE  Agrees(inode'[named'[g]], said', Unsure')
        BY <1>1, <1>10, <2>2 DEF CardInv, Truthful, Relied
    <2>3. ASSUME NEW x \in Busy' PROVE Agrees(text'[x], said', Unsure')
        <3>1. CASE x = w
            BY <1>6, <1>11, <3>1
        <3>2. CASE x # w
            <4>1. x \in Busy /\ text'[x] = text[x]
                BY <1>6, <1>7, <3>2 DEF Busy
            <4>2. Agrees(text[x], said, Unsure)
                BY <4>1 DEF CardInv, Truthful
            <4>3. Agrees(text[x], said', Unsure')
                BY <1>10, <4>2
            <4>. QED  BY <4>1, <4>3
        <3>. QED  BY <3>1, <3>2
    <2>4. named'["state"] = NoInode => Agrees(Unsaid, said', Unsure')
        BY <1>1, <1>10 DEF CardInv, Truthful
    <2>. QED  BY <2>1, <2>2, <2>3, <2>4 DEF Truthful, Agrees, Unsaid
<1>18. TornIsOpen'
    <2>1. Torn' => Open(named["state"])' \/ Line \subseteq Unsure'
        BY <1>1, <1>9 DEF Torn, Content, CardInv, TornIsOpen, Open
    <2>2. ASSUME Handled("state")', tmp'["state"] # NoInode, inode'[tmp'["state"]] = Blank
          PROVE  Open(tmp["state"])' \/ Line \subseteq Unsure'
        <3>1. Handled("state")
            BY <1>16, <2>2 DEF File
        <3>. QED  BY <1>1, <1>9, <2>2, <3>1 DEF CardInv, TornIsOpen, Open
    <2>. QED  BY <2>1, <2>2 DEF TornIsOpen
<1>19. Alone'
    <2>1. CASE Busy = {}
        BY <1>1, <1>7, <2>1 DEF Alone
    <2>2. CASE Busy # {}
        <3>1. \A x \in Busy' : line'[x] \in doubt'
            <4>1. \A x \in Busy' : line'[x] \in Unsure' /\ line'[x] \in Line
                BY <1>13, <1>7 DEF Unsure, CardShape, Busy
            <4>2. Unsure' \cap Line \subseteq doubt'
                BY <1>2, <1>8, <2>2
            <4>. QED  BY <4>1, <4>2
        <3>. QED  BY <1>1, <2>2, <3>1 DEF Alone
    <2>. QED  BY <2>1, <2>2
<1>20. WholeProceeds'
    <2>. SUFFICES ASSUME Busy = {}, NEW x \in Busy' PROVE Proceeds(x)'
        BY <1>1 DEF WholeProceeds
    <2>1. x = w
        BY <1>7
    <2>2. doing'[w].do = "open" /\ doing'[w].file = "state"
        BY <1>6 DEF To
    <2>3. Agrees(text'[w], said', doubt')
        BY <1>6, <1>12
    <2>. QED  BY <2>1, <2>2, <2>3 DEF Proceeds
<1>21. Sharp'
    <2>. SUFFICES ASSUME ~blurred' PROVE Sharp'
        BY DEF Sharp
    <2>1. Busy = {} /\ ~blurred
        BY <1>2
    <2>2. tmp["fat"] = NoInode /\ tmp["state"] = NoInode /\ Content("fat") = Content("state")
        BY <2>1 DEF CardInv, Sharp, File
    <2>3. Busy' = {w} /\ doing'[w].file = "state"
        BY <1>6, <1>7, <2>1 DEF To
    <2>4. Content("fat")' = Content("state")'
        BY <1>1, <2>2 DEF Content
    <2>. QED  BY <1>1, <2>1, <2>2, <2>3, <2>4 DEF Sharp
<1>. QED  BY <1>13, <1>15, <1>17, <1>18, <1>19, <1>20, <1>21 DEF CardInv

\* A call that fails on its own costs this copy and leaves its line in doubt, or
\* with others at work every line; where only the card refused, the unit's own copy
\* says it (_write_atomic, _sudo_publish).
LEMMA OperationFailsKeepsCard ==
    ASSUME CardInv, NEW w \in Writer, OperationFails(w)
    PROVE  CardInv'
<1> DEFINE f == doing[w].file
           i == fd[w]
<1>. USE NoInodeIsNone
<1>1. w \in Busy /\ f \in File /\ doing[w].do # "idle"
    <2>1. f \in File /\ doing[w].do # "idle"
        BY DEF CardInv, CardShape, OperationFails
    <2>. QED  BY <2>1, BusyIs DEF CardInv
<1>2. /\ fd' = [fd EXCEPT ![w] = NoInode]
      /\ doing' = [doing EXCEPT ![w] = doing'[w]]
      /\ (doing'[w] = To("open", "fat") /\ f = "state") \/ doing'[w] = Idle
      /\ whole' = FALSE /\ blurred' = TRUE
      /\ UNCHANGED <<named, owner, line, text, said>>
    BY <1>1 DEF OperationFails, GivesUp, CardInv, CardShape
<1>3. /\ \A x \in Writer : x # w => doing'[x] = doing[x] /\ fd'[x] = fd[x]
      /\ fd'[w] = NoInode /\ doing'[w].do \in {"idle", "open"}
    BY <1>1, <1>2 DEF CardInv, CardShape, To, Idle
<1>4. \A x \in Writer : fd'[x] # NoInode => x # w /\ fd[x] = fd'[x] /\ doing'[x] = doing[x]
    BY <1>3
<1>5. /\ tmp' \in [File -> Inode \cup {NoInode}]
      /\ \A g \in File : tmp'[g] = tmp[g] \/ tmp'[g] = NoInode
    BY <1>1 DEF OperationFails, CardInv, CardShape
<1>6. /\ Flushed(w) = Blank \/ (IsText(Flushed(w)) /\ Agrees(Flushed(w), said, Unsure))
      /\ f = "state" => Flushed(w) # Blank
    BY <1>1, FlushedAgrees
<1>7. /\ inode' = [j \in Inode |-> inode'[j]]
      /\ \A j \in Inode : inode'[j] = inode[j] \/ (j = i /\ doing[w].do = "write" /\ inode'[j] = Flushed(w))
    <2>1. CASE inode' = inode
        BY <2>1 DEF CardInv, CardShape
    <2>2. CASE doing[w].do = "write" /\ inode' = [inode EXCEPT ![i] = Flushed(w)]
        BY <2>2 DEF CardInv, CardShape
    <2>. QED  BY <2>1, <2>2 DEF OperationFails
<1>8. doing[w].do = "write" => \A g \in File : g # f => i # named[g]
    BY <1>1, OpenIsApart
<1>9. \/ doubt' = Line
      \/ /\ ~Torn /\ Busy = {w}
         /\ doubt' = IF f = "state" THEN doubt \cup {line[w]} ELSE doubt
    BY DEF OperationFails
<1>10. whole => Proceeds(w)
    BY <1>1 DEF CardInv, WholeProceeds
<1> DEFINE Behind == f = "fat" /\ whole
<1>11. Behind => /\ Agrees(text[w], said, doubt)
                 /\ named["state"] # NoInode /\ inode[named["state"]] = text[w]
    <2>. SUFFICES ASSUME Behind
                  PROVE  /\ Agrees(text[w], said, doubt)
                         /\ named["state"] # NoInode /\ inode[named["state"]] = text[w]
        OBVIOUS
    <2>1. text[w] # Blank
        BY <1>1, TextIsNotBlank DEF CardInv, CardShape
    <2>2. Agrees(text[w], said, doubt) /\ Content("state") = text[w]
        BY <1>10 DEF Proceeds
    <2>. QED  BY <2>1, <2>2 DEF Content
<1>12. ~Behind => f = "state" \/ line[w] \in doubt
    BY <1>1 DEF CardInv, CardShape, Alone, File
<1> HIDE DEF f, i, Behind
<1>13. Busy' \subseteq Busy /\ (f # "state" => w \notin Busy')
    BY <1>1, <1>2, <1>3 DEF Busy
<1>14. CardShape'
    <2>1. doing' \in [Writer -> [do : {"idle", "open", "write", "rename"}, file : File]]
        <3>1. To("open", "fat") \in [do : {"idle", "open", "write", "rename"}, file : File]
            BY DEF To, File
        <3>2. Idle \in [do : {"idle", "open", "write", "rename"}, file : File]
            BY DEF Idle, File
        <3>. QED  BY <1>2, <3>1, <3>2 DEF CardInv, CardShape
    <2>2. \A x \in Writer : doing'[x].do = "idle" => doing'[x] = Idle
        BY <1>2, <1>3 DEF CardInv, CardShape, To
    <2>3. \A j \in Inode : inode'[j] = Blank \/ IsText(inode'[j])
        BY <1>6, <1>7 DEF CardInv, CardShape
    <2>4. \A x \in Writer : doing'[x].do = "write" <=> fd'[x] # NoInode
        BY <1>3 DEF CardInv, CardShape
    <2>5. fd' \in [Writer -> Inode \cup {NoInode}]
        BY <1>2 DEF CardInv, CardShape
    <2>6. doubt' \subseteq Line
        BY <1>1, <1>9 DEF CardInv, CardShape
    <2>7. (\A x \in Busy' : IsText(text'[x])) /\ IsText(said')
        BY <1>2, <1>13 DEF CardInv, CardShape
    <2>. QED  BY <1>2, <1>5, <1>7, <2>1, <2>2, <2>3, <2>4, <2>5, <2>6, <2>7 DEF CardInv, CardShape
<1>15. Separate'
    <2>1. ASSUME NEW j \in Inode, NEW g \in File, Of(g, j)' PROVE Of(g, j)
        <3>1. CASE j = named'[g]
            BY <1>2, <3>1 DEF Of
        <3>2. CASE j = tmp'[g]
            BY <1>5, <3>2 DEF Of
        <3>3. CASE \E x \in Writer : doing'[x].file = g /\ fd'[x] = j
            BY <1>4, <3>3 DEF Of
        <3>. QED  BY <2>1, <3>1, <3>2, <3>3 DEF Of
    <2>2. ASSUME NEW j \in Inode PROVE ~(Of("state", j)' /\ Of("fat", j)')
        <3>1. Of("state", j)' => Of("state", j)
            BY <2>1 DEF File
        <3>2. Of("fat", j)' => Of("fat", j)
            BY <2>1 DEF File
        <3>. QED  BY <3>1, <3>2 DEF CardInv, Separate
    <2>3. \A g \in File : named'[g] # NoInode => named'[g] # tmp'[g]
        BY <1>2, <1>5 DEF CardInv, Separate
    <2>. QED  BY <2>2, <2>3 DEF Separate
<1>16. CASE doubt' = Line
    <2>1. Line \subseteq Unsure'
        BY <1>16 DEF Unsure
    <2>2. Line \ Unsure' = {}
        BY <2>1
    <2>3. Truthful' /\ TornIsOpen'
        BY <2>1, <2>2 DEF Truthful, Agrees, TornIsOpen
    <2>4. Alone'
        <3>1. \A x \in Busy' : line'[x] \in Line
            BY <1>14 DEF Busy, CardShape
        <3>. QED  BY <1>2, <1>16, <3>1 DEF Alone
    <2>. QED  BY <1>2, <1>14, <1>15, <2>3, <2>4 DEF CardInv, WholeProceeds, Sharp
<1>17. CASE /\ ~Torn /\ Busy = {w}
            /\ doubt' = IF f = "state" THEN doubt \cup {line[w]} ELSE doubt
    <2>1. Busy' \subseteq {w} /\ \A x \in Writer : x # w => doing'[x] = Idle
        BY <1>3, <1>13, <1>17 DEF Busy
    <2>2. \A g \in File : ~Handled(g)'
        BY <1>3, <2>1 DEF Handled, Idle
    <2>3. Unsure' = IF Behind THEN doubt ELSE Unsure
        <3>1. Unsure = doubt \cup {line[w]}
            BY <1>17 DEF Unsure
        <3>2. CASE f = "state"
            <4>1. Unsure' = doubt \cup {line[w]}
                BY <1>2, <1>17, <2>1, <3>2 DEF Unsure
            <4>. QED  BY <3>1, <3>2, <4>1 DEF Behind
        <3>3. CASE f # "state"
            <4>1. Busy' = {} /\ Unsure' = doubt
                BY <1>13, <1>17, <2>1, <3>3 DEF Unsure
            <4>. QED  BY <1>12, <3>1, <3>3, <4>1
        <3>. QED  BY <3>2, <3>3
    <2>4. \A g \in File : named[g] # NoInode => named[g] \in Inode
        BY DEF CardInv, CardShape
    <2>5. Truthful'
        <3>1. ASSUME NEW g \in File, Relied(g)', named'[g] # NoInode, inode'[named'[g]] # Blank
              PROVE  Agrees(inode'[named'[g]], said, Unsure')
            <4>1. CASE Behind
                <5>1. g = "state"
                    BY <1>2, <1>11, <3>1, <4>1 DEF Relied
                <5>2. inode'[named["state"]] = inode[named["state"]]
                    BY <1>7, <1>8, <1>11, <2>4, <4>1 DEF Behind, File
                <5>. QED  BY <1>2, <1>11, <2>3, <4>1, <5>1, <5>2
            <4>2. CASE ~Behind
                <5>1. CASE inode'[named[g]] = inode[named[g]]
                    BY <1>2, <2>3, <3>1, <4>2, <5>1 DEF CardInv, Truthful, Relied
                <5>2. CASE inode'[named[g]] = Flushed(w)
                    BY <1>2, <1>6, <2>3, <3>1, <4>2, <5>2
                <5>. QED  BY <1>2, <1>7, <2>4, <3>1, <5>1, <5>2
            <4>. QED  BY <4>1, <4>2
        <3>2. ASSUME NEW x \in Busy' PROVE Agrees(text'[x], said, Unsure')
            <4>1. x = w /\ ~Behind
                BY <1>13, <2>1, <3>2 DEF Behind
            <4>. QED  BY <1>1, <1>2, <2>3, <4>1 DEF CardInv, Truthful
        <3>3. named'["state"] = NoInode => Agrees(Unsaid, said, Unsure')
            BY <1>2, <1>11, <2>3 DEF CardInv, Truthful
        <3>. QED  BY <1>2, <2>2, <3>1, <3>2, <3>3 DEF Truthful, Agrees
    <2>6. TornIsOpen'
        <3>1. ~Torn'
            <4>. SUFFICES ASSUME named["state"] # NoInode, inode'[named["state"]] = Blank PROVE Torn
                BY <1>2, <1>17 DEF Torn, Content
            <4>1. inode'[named["state"]] # Flushed(w) \/ f = "fat"
                BY <1>1, <1>6 DEF File
            <4>2. inode'[named["state"]] = inode[named["state"]]
                BY <1>7, <1>8, <2>4, <4>1 DEF File
            <4>. QED  BY <4>2 DEF Torn, Content
        <3>. QED  BY <2>2, <3>1 DEF TornIsOpen, File
    <2>7. Alone'
        BY <1>2, <1>13, <1>17, <2>1 DEF Alone
    <2>. QED  BY <1>2, <1>14, <1>15, <2>5, <2>6, <2>7 DEF CardInv, WholeProceeds, Sharp
<1>. QED  BY <1>9, <1>16, <1>17

\* Writers are killed, or the power is cut.
LEMMA KilledKeepsCard ==
    ASSUME CardInv, NEW W \in SUBSET Writer, Killed(W)
    PROVE  CardInv'
<1>. USE NoInodeIsNone
<1>1. /\ W # {} /\ W \subseteq Busy
      /\ doing' = [w \in Writer |-> IF w \in W THEN Idle ELSE doing[w]]
      /\ fd' = [w \in Writer |-> IF w \in W THEN NoInode ELSE fd[w]]
      /\ doubt' = (IF whole THEN doubt \cup {line[w] : w \in W} ELSE Line)
      /\ whole' = FALSE /\ blurred' = TRUE
      /\ UNCHANGED <<named, tmp, inode, owner, line, text, said>>
    BY DEF Killed
<1>2. \A x \in Writer : fd'[x] # NoInode => fd[x] = fd'[x] /\ doing'[x] = doing[x]
    BY <1>1
<1>3. Busy' = Busy \ W
    BY <1>1 DEF Busy
<1>4. whole => Busy = W
    BY <1>1 DEF CardInv, Alone
<1>5. whole => Busy' = {} /\ Unsure' = Unsure
    BY <1>1, <1>3, <1>4 DEF Unsure
<1>6. ~whole => Line \subseteq Unsure'
    BY <1>1 DEF Unsure
<1>7. CardShape'
    <2>1. doing' \in [Writer -> [do : {"idle", "open", "write", "rename"}, file : File]]
        <3>1. Idle \in [do : {"idle", "open", "write", "rename"}, file : File]
            BY DEF Idle, File
        <3>. QED  BY <1>1, <3>1 DEF CardInv, CardShape
    <2>2. \A x \in Writer : doing'[x].do = "idle" => doing'[x] = Idle
        BY <1>1 DEF CardInv, CardShape
    <2>3. \A x \in Writer : doing'[x].do = "write" <=> fd'[x] # NoInode
        BY <1>1 DEF CardInv, CardShape, Idle
    <2>4. fd' \in [Writer -> Inode \cup {NoInode}]
        BY <1>1 DEF CardInv, CardShape
    <2>5. doubt' \subseteq Line
        BY <1>1 DEF CardInv, CardShape
    <2>6. (\A x \in Busy' : IsText(text'[x])) /\ IsText(said')
        BY <1>1, <1>3 DEF CardInv, CardShape
    <2>. QED  BY <1>1, <2>1, <2>2, <2>3, <2>4, <2>5, <2>6 DEF CardInv, CardShape
<1>8. Separate'
    <2>1. ASSUME NEW j \in Inode, NEW g \in File, Of(g, j)' PROVE Of(g, j)
        BY <1>1, <1>2, <2>1 DEF Of
    <2>2. ASSUME NEW j \in Inode PROVE ~(Of("state", j)' /\ Of("fat", j)')
        <3>1. Of("state", j)' => Of("state", j)
            BY <2>1 DEF File
        <3>2. Of("fat", j)' => Of("fat", j)
            BY <2>1 DEF File
        <3>. QED  BY <3>1, <3>2 DEF CardInv, Separate
    <2>. QED  BY <1>1, <2>2 DEF CardInv, Separate
<1>9. whole => \A g \in File : ~Handled(g)'
    <2>1. whole => \A x \in Writer : doing'[x] = Idle
        BY <1>5 DEF Busy
    <2>. QED  BY <2>1 DEF Handled, Idle
<1>10. Truthful'
    <2>1. CASE whole
        BY <1>1, <1>5, <1>9, <2>1 DEF CardInv, Truthful, Relied, Agrees
    <2>2. CASE ~whole
        <3>1. Line \ Unsure' = {}
            BY <1>6, <2>2
        <3>. QED  BY <3>1 DEF Truthful, Agrees
    <2>. QED  BY <2>1, <2>2
<1>11. TornIsOpen'
    <2>1. CASE whole
        <3>1. ASSUME Torn PROVE Line \subseteq Unsure
            <4>. SUFFICES ASSUME Open(named["state"]) PROVE FALSE
                BY <3>1 DEF CardInv, TornIsOpen
            <4>1. PICK w \in Writer : fd[w] = named["state"]
                BY DEF Open
            <4>2. fd[w] # NoInode /\ doing[w].do = "write"
                BY <3>1, <4>1 DEF Torn, CardInv, CardShape
            <4>3. w \in Busy
                BY <4>2, BusyIs DEF CardInv
            <4>4. Proceeds(w)
                BY <2>1, <4>3 DEF CardInv, WholeProceeds
            <4>5. doing[w].file = "state"
                BY <3>1, <4>3, <4>4, TextIsNotBlank DEF Proceeds, Torn, CardInv, CardShape, File
            <4>6. fd[w] = tmp["state"]
                BY <4>2, <4>4, <4>5 DEF Proceeds
            <4>. QED  BY <3>1, <4>1, <4>6 DEF CardInv, Separate, Torn, File
        <3>2. Torn' => Torn
            BY <1>1 DEF Torn, Content
        <3>. QED  BY <1>5, <1>9, <2>1, <3>1, <3>2 DEF TornIsOpen, File
    <2>2. CASE ~whole
        BY <1>6, <2>2 DEF TornIsOpen
    <2>. QED  BY <2>1, <2>2
<1>12. Alone'
    <2>1. \A x \in Busy : line[x] \in Line
        BY DEF Busy, CardInv, CardShape
    <2>. QED  BY <1>1, <1>3, <1>5, <2>1 DEF Alone
<1>13. WholeProceeds' /\ Sharp'
    BY <1>1 DEF WholeProceeds, Sharp
<1>. QED  BY <1>7, <1>8, <1>10, <1>11, <1>12, <1>13 DEF CardInv

\* What the status file says of a line is the last thing said of it, where no
\* write that overlapped, was cut or could not be written has put it in doubt; a
\* write that only the card refuses puts none in doubt; and after a write that was
\* alone and did not fail the card has what the unit has: for every number of
\* writers, of either user, of writes, failed calls, kills and power cuts
\* (write_boot_status, _write_atomic, _sudo_publish).
THEOREM CardIsTruthful == StatusSpec => []CardTellsTheTruth
<1>1. CardInv /\ [StatusNext]_statusVars => CardInv'
    <2>. SUFFICES ASSUME CardInv, [StatusNext]_statusVars PROVE CardInv'
        OBVIOUS
    <2>1. ASSUME NEW w \in Writer, OpenTmp(w) \/ WriteTmp(w) \/ RenameTmp(w) \/ OperationFails(w)
          PROVE  CardInv'
        BY <2>1, OpenedKeepsCard, RefusalsKeepCard, WrittenKeepsCard, RenamedKeepsCard, OperationFailsKeepsCard
    <2>2. ASSUME NEW w \in Writer, NEW l \in Says[w], NEW v \in Value[l], Begin(w, l, v) PROVE CardInv'
        BY <2>2, BeginKeepsCard
    <2>3. ASSUME NEW W \in SUBSET Writer, Killed(W) PROVE CardInv'
        BY <2>3, KilledKeepsCard
    <2>4. ASSUME UNCHANGED statusVars PROVE CardInv'
        <3>1. Busy' = Busy /\ Unsure' = Unsure
            BY <2>4 DEF statusVars, Busy, Unsure
        <3>2. CardShape' /\ Separate' /\ Alone'
            BY <2>4, <3>1 DEF statusVars, CardInv, CardShape, Separate, Of, Alone
        <3>3. Truthful' /\ TornIsOpen'
            BY <2>4, <3>1 DEF statusVars, CardInv, Truthful, Relied, Agrees, Handled, TornIsOpen, Torn, Content, Open
        <3>4. WholeProceeds' /\ Sharp'
            BY <2>4, <3>1 DEF statusVars, CardInv, WholeProceeds, Proceeds, Agrees, ModeRefused, Copying, User, Content, Sharp
        <3>. QED  BY <3>2, <3>3, <3>4 DEF CardInv
    <2>. QED  BY <2>1, <2>2, <2>3, <2>4 DEF StatusNext
<1>. QED  BY <1>1, CardStarts, CardIsTold, PTL DEF StatusSpec
=============================================================================
