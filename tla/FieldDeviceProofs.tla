------------------------- MODULE FieldDeviceProofs --------------------------
(***************************************************************************)
(* What holds of the flow meter, the clock repair, the transceiver, the     *)
(* setup page's server, the RS485 bus and the MAC layer for every number of *)
(* edges, power cuts, kills, threads, networks, probes, requests and faults;*)
(* and of the sampler and its publishers, the analog board and the clock     *)
(* for every set of broker settings, numbers, coefficients and times.       *)
(***************************************************************************)
EXTENDS FlowMeter, ClockRepair, Transceiver, Portal, Rs485, MacLayer, Sampling, Probes, Position,
        FiniteSetTheorems, TLAPS

(***************************************************************************)
(* The flow meter.  The register of a row is compared with that of a row     *)
(* many power cuts ago: what links them is the count in the database.        *)
(***************************************************************************)
\* The numbers among the types; a history flag or a string needs none.
FlowNumbers ==
    /\ edges \in Nat /\ count \in Nat /\ kept \in Nat /\ register \in Nat
    /\ sample.total \in Nat
    /\ meterPc \in {"off", "run", "persist", "report"}

\* The running count is never behind the database, nor ahead of the turbine.
CountInBounds ==
    /\ count <= edges /\ kept <= edges
    /\ meterPc # "off" => kept <= count

\* A sample in hand lies between the database and the count.
SampleInBounds ==
    /\ meterPc \in {"persist", "report"} => kept <= sample.total /\ sample.total <= count
    /\ meterPc = "persist" => sample.kept = FALSE
    /\ meterPc = "report" => sample.kept = FALSE \/ kept = sample.total

\* The database has the register of the latest row, unless it refused it.
RowIsKept == lost \/ register <= kept

SampleIsRecord == sample = [total |-> sample.total, rate |-> sample.rate, kept |-> sample.kept]

FlowInv == FlowNumbers /\ CountInBounds /\ SampleInBounds /\ RowIsKept /\ SampleIsRecord

\* The register starts at what the disk has.
LEMMA FlowInitInv == FlowInit => FlowInv
BY DEF FlowInit, FlowInv, FlowNumbers, CountInBounds, SampleInBounds, RowIsKept, SampleIsRecord

\* One sample of the meter, step by step, with edges in between.
LEMMA FlowStepInv == FlowInv /\ [FlowNext]_flowVars => FlowInv'
<1>. SUFFICES ASSUME FlowInv, [FlowNext]_flowVars PROVE FlowInv'
    OBVIOUS
<1>. USE DEF FlowInv, FlowNumbers, CountInBounds, SampleInBounds, RowIsKept, SampleIsRecord, ClampStays
<1>1. CASE MeterStarts  BY <1>1 DEF MeterStarts, CountsFrom
<1>2. CASE Edge  BY <1>2 DEF Edge
<1>3. CASE ReadMeter  BY <1>3 DEF ReadMeter
<1>4. CASE Persist
    <2>1. CASE kept' = sample.total /\ sample' = [sample EXCEPT !.kept = TRUE]
        <3>1. sample'.total = sample.total /\ SampleIsRecord'  BY <2>1
        <3>. QED  BY <1>4, <2>1, <3>1 DEF Persist
    <2>2. CASE UNCHANGED <<kept, sample>>
        <3>1. sample'.total = sample.total /\ SampleIsRecord'  BY <2>2
        <3>2. sample'.kept = FALSE \/ kept' = sample'.total  BY <1>4, <2>2 DEF Persist
        <3>. QED  BY <1>4, <2>2, <3>1, <3>2 DEF Persist
    <2>. QED  BY <1>4, <2>1, <2>2 DEF Persist
<1>5. CASE Report  BY <1>5 DEF Report
<1>6. CASE Stop  BY <1>6 DEF Stop
<1>7. CASE ReadClamp  BY <1>7 DEF ReadClamp
<1>8. CASE SetUnit  BY <1>8 DEF SetUnit
<1>9. CASE UNCHANGED flowVars  BY <1>9 DEF flowVars
<1>. QED  BY <1>1, <1>2, <1>3, <1>4, <1>5, <1>6, <1>7, <1>8, <1>9 DEF FlowNext

\* Where the numbers of the flow meter lie, for any number of edges and cuts.
THEOREM FlowInvariance == FlowSpec => []FlowInv
BY FlowInitInv, FlowStepInv, PTL DEF FlowSpec

\* The register of a row is never below that of an earlier one, however often
\* and at whatever step the power was cut (PulseFlowMeter, _persist).
THEOREM RegisterIsMonotone == FlowSpec => RegisterNeverGoesBack
<1>1. FlowInv /\ [FlowNext]_flowVars => [register' >= register \/ lost]_flowVars
    <2>. SUFFICES ASSUME FlowInv, FlowNext PROVE register' >= register \/ lost
        OBVIOUS
    <2>. USE DEF FlowInv, FlowNumbers, ClampStays
    <2>1. CASE Report  BY <2>1 DEF Report, SampleInBounds, RowIsKept
    <2>2. CASE ~Report
        <3>1. register' = register
            BY <2>2 DEF FlowNext, MeterStarts, CountsFrom, Edge, ReadMeter, Persist, Stop, ReadClamp, SetUnit
        <3>. QED  BY <3>1
    <2>. QED  BY <2>1, <2>2
<1>. QED  BY <1>1, FlowInvariance, PTL DEF FlowSpec, RegisterNeverGoesBack

\* A row is the register shown anew, an edge is water that flows, and nothing
\* else of a sample or a restart can be seen in the rows.
LEMMA FlowIsRegisterStep ==
    ASSUME FlowInv, [FlowNext]_flowVars
    PROVE  [Totalizer!Next]_<<edges, register, lost>>
<1>. USE DEF FlowInv, FlowNumbers
<1>1. CASE Report
    <2>1. register' = sample.total /\ lost' = ~sample.kept /\ edges' = edges /\ meterPc = "report"
        BY <1>1 DEF Report
    <2>2. sample.total <= count /\ kept <= sample.total
        BY <2>1 DEF SampleInBounds
    <2>3. register' \in 0..edges
        BY <2>1, <2>2 DEF CountInBounds
    <2>4. lost \/ register <= register'
        BY <2>1, <2>2 DEF RowIsKept
    <2>5. lost' \in BOOLEAN
        BY <2>1
    <2>. QED  BY <2>1, <2>3, <2>4, <2>5 DEF Totalizer!Next, Totalizer!Show
<1>2. CASE Edge
    BY <1>2 DEF Edge, Totalizer!Next, Totalizer!Flow
<1>3. CASE MeterStarts \/ ReadMeter \/ Persist \/ Stop \/ ReadClamp \/ SetUnit
    BY <1>3 DEF MeterStarts, CountsFrom, ReadMeter, Persist, Stop, ReadClamp, SetUnit
<1>4. CASE UNCHANGED flowVars
    BY <1>4 DEF flowVars
<1>. QED  BY <1>1, <1>2, <1>3, <1>4 DEF FlowNext

\* The meter keeps the promise of a totalizer: no row shows more water than has
\* flowed, or less than an earlier row whose count was kept (PulseFlowMeter,
\* _persist).
THEOREM KeepsTheRegister == FlowSpec => ImplementsRegister
<1>1. FlowInit => Totalizer!Init
    BY DEF FlowInit, Totalizer!Init
<1>2. FlowInv /\ [FlowNext]_flowVars => [Totalizer!Next]_<<edges, register, lost>>
    BY FlowIsRegisterStep
<1>. QED
    BY <1>1, <1>2, FlowInvariance, PTL
    DEF FlowSpec, ImplementsRegister, Totalizer!Spec, Totalizer!registerVars

\* The promise is worth it: who keeps it never shows more than has flowed, and
\* never less than before, whatever became of the count in between.
THEOREM RegisterIsWorthIt == ImplementsRegister => [](register <= edges) /\ RegisterNeverGoesBack
<1>. DEFINE Shows == edges \in Nat /\ register \in Nat /\ register <= edges
<1>1. Totalizer!Init => Shows
    BY DEF Totalizer!Init
<1>2. Shows /\ [Totalizer!Next]_<<edges, register, lost>> =>
        Shows' /\ [register' >= register \/ lost]_flowVars
    <2>. SUFFICES ASSUME Shows, [Totalizer!Next]_<<edges, register, lost>>
                  PROVE  Shows' /\ (register' >= register \/ lost)
        OBVIOUS
    <2>1. CASE Totalizer!Show
        BY <2>1 DEF Totalizer!Show
    <2>2. CASE Totalizer!Flow \/ UNCHANGED <<edges, register, lost>>
        BY <2>2 DEF Totalizer!Flow
    <2>. QED  BY <2>1, <2>2 DEF Totalizer!Next
<1>3. Shows => register <= edges
    OBVIOUS
<1>. HIDE DEF Shows
<1>. QED
    BY <1>1, <1>2, <1>3, PTL
    DEF ImplementsRegister, Totalizer!Spec, Totalizer!registerVars, RegisterNeverGoesBack

(***************************************************************************)
(* The clock repair.  Which process remembers what does not matter: the      *)
(* marker accounts for every step but those of the history variable.         *)
(***************************************************************************)
MarkerAccounts ==
    /\ steps \in Nat /\ unmarked \in Nat
    /\ marker => steps = unmarked + 1
    /\ ~marker => steps = unmarked
    /\ joinPc = "mark" => ~marker /\ unmarked > 0

\* No step has been made yet.
LEMMA ClockInitInv == ClockInit => MarkerAccounts
BY DEF ClockInit, MarkerAccounts

\* A join, its process, the directory and the environment.
LEMMA ClockStepInv == MarkerAccounts /\ [ClockNext]_repairVars => MarkerAccounts'
<1>. SUFFICES ASSUME MarkerAccounts, [ClockNext]_repairVars PROVE MarkerAccounts'
    OBVIOUS
<1>. USE DEF MarkerAccounts, WorldStays, JoinStays, StepsStay, Ended
<1>1. CASE JoinStarts  BY <1>1 DEF JoinStarts
<1>2. CASE ReachGateway  BY <1>2 DEF ReachGateway
<1>3. CASE Probe  BY <1>3 DEF Probe
<1>4. CASE RepairClock  BY <1>4 DEF RepairClock, SteppedThisBoot
<1>5. CASE MarkStepped  BY <1>5 DEF MarkStepped
<1>6. CASE ProbeAgain  BY <1>6 DEF ProbeAgain
<1>7. CASE Killed  BY <1>7 DEF Killed
<1>8. CASE Reboots  BY <1>8 DEF Reboots
<1>9. CASE DirectoryGone  BY <1>9 DEF DirectoryGone
<1>10. CASE Sync  BY <1>10 DEF Sync
<1>11. CASE World  BY <1>11 DEF World
<1>12. CASE UNCHANGED repairVars  BY <1>12 DEF repairVars
<1>. QED
    BY <1>1, <1>2, <1>3, <1>4, <1>5, <1>6, <1>7, <1>8, <1>9, <1>10, <1>11, <1>12 DEF ClockNext

\* A Date header moves the clock once in a boot, but for the steps no marker
\* stands for (_repair_clock, _mark_clock_stepped).
THEOREM OneStepHolds == ClockSpec => []OneStepABoot
<1>1. MarkerAccounts => OneStepABoot
    BY DEF MarkerAccounts, OneStepABoot
<1>. QED  BY <1>1, ClockInitInv, ClockStepInv, PTL DEF ClockSpec

(***************************************************************************)
(* The transceiver.  What a call finds on the chip and on the interrupt      *)
(* line was left there by calls before it; the invariant says what that can  *)
(* be at each step of the driver.                                            *)
(***************************************************************************)
Started == at.do \in {"wait", "late"}

DriverShape ==
    /\ at \in Steps
    /\ at.do = "idle" => at.with = "up"
    /\ chip = [mode |-> chip.mode, tune |-> chip.tune, iq |-> chip.iq, pol |-> chip.pol,
               dio |-> chip.dio, irq |-> chip.irq]

\* The set-up is that of the step's call.
SetUp ==
    /\ at.with = "up" /\ at.do # "idle" =>
          chip.tune = "up" /\ chip.iq = "std" /\ chip.pol = "std" /\ chip.dio = "tx"
    /\ at.with # "up" => chip.tune = at.with /\ chip.iq = "inv" /\ chip.pol = "inv"

\* What the chip may be doing: nothing between uplinks; a window starts on a
\* chip that may still be sending only after an edge of an earlier call.
Doing ==
    /\ chip.mode \in {"standby", "tx", "rx"}
    /\ at.with = "up" => chip.mode # "rx"
    /\ at.with = "up" /\ ~Started => chip.mode = "standby"
    /\ at.with # "up" /\ Started => chip.mode # "tx"
    /\ at.with # "up" /\ ~Started => chip.mode = "standby" \/ (stale /\ chip.mode = "tx")

\* The flags are those of this call, and what they stand for has happened.
FlagsOfCall ==
    /\ at.with = "up" /\ at.do = "ready" => chip.irq = {} /\ ~aired
    /\ at.with = "up" /\ Started => ("tx_done" \in chip.irq => aired)
    /\ at.with = "up" /\ Started /\ aired => chip.mode = "standby"
    /\ at.with # "up" /\ "rx_done" \in chip.irq => came /\ chip.mode = "standby" /\ Started

\* While a send waits, the event and the edge stand for its frame.
EventOfCall ==
    at = Step("wait", "up") =>
        /\ aired => edge \/ event
        /\ edge \/ event => aired \/ stale

ChipInv == DriverShape /\ SetUp /\ Doing /\ FlagsOfCall /\ EventOfCall

\* The driver starts idle.
LEMMA ChipInitInv == ChipInit => ChipInv
BY DEF ChipInit, Opened, ChipInv, DriverShape, SetUp, Doing, FlagsOfCall, EventOfCall, Started, Idle, Step,
       Steps, Tunes

\* Where a call that ends leaves the driver: at rest with a quiet chip, or with
\* the next window set up.
LEMMA AfterCall ==
    ASSUME ChipInv, NEW w \in Tunes, NEW r \in {"sent", "heard", "nothing"},
           NEW c, c \in {chip, InStandby}, Ends(w, r, c), Started, at.with = w,
           c.mode = "standby" \/ (stale /\ c.mode = "tx" /\ r = "sent"), r = "sent" => w = "up"
    PROVE  ChipInv'
<1>. USE DEF ChipInv, DriverShape, SetUp, Doing, FlagsOfCall, EventOfCall, Started, Idle, Step,
             Steps, Tunes, Ends, InStandby
<1>1. CASE NextWindow(w, r) = "up"
    <2>1. at' = [do |-> "idle", with |-> "up"] /\ chip' = c  BY <1>1
    <2>2. c.mode = "standby"  BY <1>1 DEF NextWindow
    <2>3. chip' = [mode |-> "standby", tune |-> chip.tune, iq |-> chip.iq, pol |-> chip.pol,
                   dio |-> chip.dio, irq |-> chip.irq]
        BY <2>1, <2>2
    <2>. QED  BY <2>1, <2>3
<1>2. CASE NextWindow(w, r) # "up"
    <2>1. NextWindow(w, r) \in {"rx1", "rx2"}  BY <1>2 DEF NextWindow
    <2>2. at' = [do |-> "ready", with |-> NextWindow(w, r)]  BY <1>2
    <2>3. chip' = [mode |-> c.mode, tune |-> NextWindow(w, r), iq |-> "inv", pol |-> "inv",
                   dio |-> "rx", irq |-> {}]
        <3>1. chip' = ReceiveSetup(c, NextWindow(w, r))  BY <1>2
        <3>2. CASE c = chip  BY <3>1, <3>2 DEF ReceiveSetup
        <3>3. CASE c = InStandby  BY <3>1, <3>3 DEF ReceiveSetup
        <3>. QED  BY <3>2, <3>3
    <2>4. stale' = stale  OBVIOUS
    <2>. QED  BY <2>1, <2>2, <2>3, <2>4
<1>. QED  BY <1>1, <1>2

\* The driver's steps, the chip's, the alert thread's, and a restart.
LEMMA ChipStepInv == ChipInv /\ [RadioNext]_chipVars => ChipInv'
<1>. SUFFICES ASSUME ChipInv, [RadioNext]_chipVars PROVE ChipInv'
    OBVIOUS
<1>. USE DEF ChipInv, DriverShape, SetUp, Doing, FlagsOfCall, EventOfCall, Started, Idle, Step,
             Steps, Tunes
<1>1. CASE SendBegins
    <2>1. chip' = [mode |-> "standby", tune |-> "up", iq |-> "std", pol |-> "std",
                   dio |-> "tx", irq |-> {}]
        BY <1>1 DEF SendBegins, SendSetup
    <2>2. at' = [do |-> "ready", with |-> "up"] /\ ~aired'  BY <1>1 DEF SendBegins
    <2>. QED  BY <2>1, <2>2
<1>2. ASSUME NEW w \in Tunes, Start(w) PROVE ChipInv'
    <2>1. chip' = [mode |-> IF w = "up" THEN "tx" ELSE "rx", tune |-> chip.tune, iq |-> chip.iq,
                   pol |-> chip.pol, dio |-> chip.dio, irq |-> chip.irq]
        BY <1>2 DEF Start
    <2>2. at = [do |-> "ready", with |-> w] /\ at' = [do |-> "wait", with |-> w]  BY <1>2 DEF Start
    <2>3. ~event' /\ edge' = edge /\ aired' = aired /\ came' = came /\ (edge => stale')
        BY <1>2 DEF Start
    <2>. QED  BY <2>1, <2>2, <2>3
<1>3. CASE Sent
    <2>1. chip.mode = "standby" \/ (stale /\ chip.mode = "tx")  BY <1>3 DEF Sent
    <2>2. Started /\ at.with = "up" /\ Ends("up", "sent", chip)  BY <1>3 DEF Sent
    <2>. QED  BY <2>1, <2>2, AfterCall
<1>4. ASSUME NEW w \in Tunes, Read(w) PROVE ChipInv'
    <2>1. PICK r \in {"heard", "nothing"} :
              Ends(w, r, IF r = "heard" THEN InStandby ELSE chip)
        BY <1>4 DEF Read
    <2>2. Started /\ at.with = w /\ chip.mode = "standby"  BY <1>4 DEF Read
    <2>3. InStandby.mode = "standby"  BY DEF InStandby
    <2>. QED  BY <2>1, <2>2, <2>3, AfterCall
<1>5. ASSUME NEW w \in Tunes, WaitEnds(w) PROVE ChipInv'
    BY <1>5 DEF WaitEnds
<1>6. ASSUME NEW w \in Tunes, ToStandby(w) PROVE ChipInv'
    <2>1. Started /\ at.with = w /\ Ends(w, "nothing", InStandby)  BY <1>6 DEF ToStandby
    <2>2. InStandby.mode = "standby"  BY DEF InStandby
    <2>. QED  BY <2>1, <2>2, AfterCall
<1>7. ASSUME NEW flag \in Flags, Raise(flag), UNCHANGED <<event, at, stale>>,
             flag = "tx_done" => chip.mode = "tx" /\ aired' /\ came' = came,
             flag # "tx_done" => chip.mode = "rx" /\ aired' = aired /\ (came \/ flag = "rx_done" => came')
      PROVE  ChipInv'
    <2>1. chip' = [mode |-> "standby", tune |-> chip.tune, iq |-> chip.iq, pol |-> chip.pol,
                   dio |-> chip.dio, irq |-> chip.irq \cup {flag}]
        BY <1>7 DEF Raise
    <2>2. edge => edge'  BY <1>7 DEF Raise
    <2>3. CASE flag = "tx_done"
        <3>1. at = [do |-> "wait", with |-> "up"] => edge'
            <4>1. SUFFICES ASSUME at = [do |-> "wait", with |-> "up"] PROVE edge'
                OBVIOUS
            <4>2. ~aired  BY <1>7, <2>3, <4>1
            <4>3. chip.dio = "tx" /\ "tx_done" \notin chip.irq  BY <4>1, <4>2
            <4>4. Watched(chip) = {"tx_done"}  BY <4>3 DEF Watched
            <4>. QED  BY <1>7, <2>3, <4>3, <4>4 DEF Raise
        <3>2. aired' /\ came' = came /\ at' = at /\ event' = event /\ stale' = stale /\ chip.mode = "tx"
            BY <1>7, <2>3
        <3>. QED  BY <2>1, <2>3, <3>1, <3>2
    <2>4. CASE flag # "tx_done"
        <3>1. /\ aired' = aired /\ at' = at /\ event' = event /\ stale' = stale /\ chip.mode = "rx"
              /\ came => came'
              /\ flag = "rx_done" => came'
            BY <1>7, <2>4
        <3>2. at.with # "up" /\ Started  BY <3>1
        <3>. QED  BY <2>1, <2>4, <3>1, <3>2
    <2>. QED  BY <2>3, <2>4
<1>8. CASE TxDone  BY <1>7, <1>8 DEF TxDone, Flags
<1>9. CASE RxDone  BY <1>7, <1>9 DEF RxDone, Flags
<1>10. CASE RxTimeout  BY <1>7, <1>10 DEF RxTimeout, Flags
<1>11. CASE Alert  BY <1>11 DEF Alert
<1>12. CASE RadioRestarts
    BY <1>12 DEF RadioRestarts
<1>13. CASE UNCHANGED chipVars  BY <1>13 DEF chipVars
<1>. QED
    BY <1>1, <1>2, <1>3, <1>4, <1>5, <1>6, <1>8, <1>9, <1>10, <1>11, <1>12, <1>13 DEF RadioNext

\* What each step of the driver can find on the chip and on DIO1.
THEOREM ChipInvariance == RadioSpec => []ChipInv
BY ChipInitInv, ChipStepInv, PTL DEF RadioSpec

\* A call works with its own set-up, hears of its own frame and reports its own
\* outcome (sx1262.py, send, receive and _on_dio1).
THEOREM CallsHold == RadioSpec => CallsAreWhole
<1>1. ChipInv' => RightSetup' /\ TxDoneArrives'
    BY DEF ChipInv, DriverShape, SetUp, Doing, FlagsOfCall, EventOfCall, Started, RightSetup,
           TxDoneArrives, Step
<1>2. ChipInv /\ RadioNext => TellsTheTruth
    <2>. SUFFICES ASSUME ChipInv, RadioNext PROVE TellsTheTruth
        OBVIOUS
    <2>1. CASE Sent
        BY <2>1 DEF Sent, Ends, ChipInv, EventOfCall, TellsTheTruth
    <2>2. ASSUME NEW w \in Tunes, Read(w) PROVE TellsTheTruth
        <3>1. came  BY <2>2 DEF Read, ChipInv, FlagsOfCall, Step
        <3>2. result' # "sent"  BY <2>2 DEF Read, Ends
        <3>. QED  BY <3>1, <3>2 DEF TellsTheTruth
    <2>3. ASSUME NEW w \in Tunes, ToStandby(w) PROVE TellsTheTruth
        BY <2>3 DEF ToStandby, Ends, TellsTheTruth
    <2>4. CASE result' \in {result, "none"}  BY <2>4 DEF TellsTheTruth
    <2>. QED
        BY <2>1, <2>2, <2>3, <2>4 DEF RadioNext, SendBegins, Start, WaitEnds, TxDone, RxDone,
               RxTimeout, Alert, RadioRestarts
<1>3. ChipInv /\ ChipInv' /\ [RadioNext]_chipVars => [RightSetup' /\ TxDoneArrives' /\ TellsTheTruth]_chipVars
    BY <1>1, <1>2
<1>. QED  BY <1>3, ChipInvariance, PTL DEF RadioSpec, CallsAreWhole

(***************************************************************************)
(* The setup page's server.  A permit is taken by the loop and returned by   *)
(* another thread, to the semaphore of the server it was taken from.         *)
(***************************************************************************)
Phones == [kind : Kinds, ssid : Ssid \cup {Silent}, ours : BOOLEAN]

PermitInv ==
    /\ client \in [Slots -> Phones]
    /\ taken \in Nat /\ unreturned \in Nat
    /\ PermitsAreThreads

\* The threads of this server can be counted.
LEMMA OursFinite == IsFiniteSet(Ours) /\ Cardinality(Ours) \in Nat
BY PortalAssumption, FS_Subset, FS_CardinalityType DEF Ours

\* A client that comes is one thread more.
LEMMA OneMore ==
    ASSUME NEW s \in Slots, NEW phone, phone.ours, client \in [Slots -> Phones],
           ~client[s].ours, client' = [client EXCEPT ![s] = phone]
    PROVE  Cardinality(Ours') = Cardinality(Ours) + 1
<1>1. Ours' = Ours \cup {s} /\ s \notin Ours  BY DEF Ours
<1>. QED  BY <1>1, OursFinite, FS_AddElement

\* A client that goes is one thread less.
LEMMA OneLess ==
    ASSUME NEW s \in Slots, client \in [Slots -> Phones],
           client[s].ours, client' = [client EXCEPT ![s] = NoPhone]
    PROVE  Cardinality(Ours') = Cardinality(Ours) - 1 /\ Cardinality(Ours) >= 1
<1>1. Ours' = Ours \ {s} /\ s \in Ours  BY DEF Ours, NoPhone
<1>2. Cardinality(Ours') = Cardinality(Ours) - 1
    BY <1>1, OursFinite, FS_RemoveElement
<1>3. Cardinality(Ours) # 0  BY <1>1, OursFinite, FS_EmptySet
<1>. QED  BY <1>2, <1>3, OursFinite

\* No permit is out at the start.
LEMMA PermitInit == PortalInit => PermitInv
<1>. SUFFICES ASSUME PortalInit PROVE PermitInv
    OBVIOUS
<1>1. client = [s \in Slots |-> NoPhone] /\ taken = 0 /\ unreturned = 0  BY DEF PortalInit
<1>2. Ours = {}  BY <1>1 DEF Ours, NoPhone
<1>3. Cardinality(Ours) = 0  BY <1>2, FS_EmptySet
<1>4. client \in [Slots -> Phones]  BY <1>1 DEF Phones, NoPhone, Kinds
<1>. QED  BY <1>1, <1>3, <1>4, PortalAssumption DEF PermitInv, PermitsAreThreads

\* The loop, the clients' threads, netctl and systemd.
LEMMA PermitStep == PermitInv /\ [PortalNext]_portalVars => PermitInv'
<1>. SUFFICES ASSUME PermitInv, [PortalNext]_portalVars PROVE PermitInv'
    OBVIOUS
<1>. USE PortalAssumption, OursFinite DEF PermitInv, PermitsAreThreads
<1>1. ASSUME UNCHANGED slotVars PROVE PermitInv'
    <2>1. Ours' = Ours  BY <1>1 DEF Ours, slotVars
    <2>. QED  BY <1>1, <2>1 DEF slotVars
<1>2. NoPhone \in Phones  BY DEF NoPhone, Phones, Kinds
<1>3. ASSUME NEW s \in Slots, Leaves(s), UNCHANGED unreturned PROVE PermitInv'
    <2>1. client' \in [Slots -> Phones]  BY <1>2, <1>3 DEF Leaves
    <2>2. CASE client[s].ours
        <3>1. Cardinality(Ours') = Cardinality(Ours) - 1 /\ Cardinality(Ours) >= 1
            BY <1>3, <2>2, OneLess DEF Leaves
        <3>. QED  BY <1>3, <2>1, <2>2, <3>1 DEF Leaves
    <2>3. CASE ~client[s].ours
        <3>1. Ours' = Ours  BY <1>3, <2>3 DEF Ours, Leaves, NoPhone
        <3>. QED  BY <1>3, <2>1, <2>3, <3>1 DEF Leaves
    <2>. QED  BY <2>2, <2>3
<1>4. ASSUME Closes PROVE PermitInv'
    <2>1. client' \in [Slots -> Phones]  BY <1>4 DEF Closes, Phones
    <2>2. Ours' = {}  BY <1>4 DEF Closes, Ours, Phones
    <2>3. Cardinality(Ours') = 0  BY <2>2, FS_EmptySet
    <2>. QED  BY <1>4, <2>1, <2>3 DEF Closes
<1>5. CASE Serves
    <2>1. CASE UNCHANGED slotVars  BY <1>1, <2>1
    <2>2. CASE Closes  BY <1>4, <2>2
    <2>3. CASE taken < MaxClients /\ taken' = taken + 1 /\ unreturned' = unreturned + 1 /\ UNCHANGED client
        <3>1. Ours' = Ours  BY <2>3 DEF Ours
        <3>. QED  BY <2>3, <3>1
    <2>4. ASSUME NEW s \in Slots, NEW n \in Ssid, NEW k \in PageRequests,
                 client[s] = NoPhone, taken < MaxClients, taken' = taken + 1, UNCHANGED unreturned,
                 client' = [client EXCEPT ![s] =
                       [kind |-> k, ssid |-> IF k = "join" THEN n ELSE Silent, ours |-> TRUE]]
          PROVE  PermitInv'
        <3> DEFINE phone == [kind |-> k, ssid |-> IF k = "join" THEN n ELSE Silent, ours |-> TRUE]
        <3>1. k \in {"page", "join"}  BY DEF PageRequests, Work
        <3>2. phone \in Phones /\ phone.ours  BY <3>1 DEF Phones, Kinds
        <3>3. ~client[s].ours  BY <2>4 DEF NoPhone
        <3> HIDE DEF phone
        <3>4. client' = [client EXCEPT ![s] = phone]  BY <2>4 DEF phone
        <3>5. Cardinality(Ours') = Cardinality(Ours) + 1  BY <3>2, <3>3, <3>4, OneMore
        <3>6. client' \in [Slots -> Phones]  BY <3>2, <3>4
        <3>. QED  BY <2>4, <3>5, <3>6
    <2>. QED  BY <1>5, <2>1, <2>2, <2>3, <2>4 DEF Serves
<1>6. ASSUME NEW s \in Slots, Answer80(s) PROVE PermitInv'
    BY <1>3, <1>6 DEF Answer80
<1>7. ASSUME NEW s \in Slots, AsksJoin(s) PROVE PermitInv'
    <2>1. UNCHANGED unreturned  BY <1>7 DEF AsksJoin
    <2>2. CASE Leaves(s)  BY <1>3, <2>1, <2>2
    <2>3. CASE client' = [client EXCEPT ![s].kind = "asked"] /\ UNCHANGED taken
        <3>1. client' = [client EXCEPT ![s] = [client[s] EXCEPT !.kind = "asked"]]  BY <2>3
        <3>2. [client[s] EXCEPT !.kind = "asked"] \in Phones
            BY DEF Phones, Kinds
        <3>3. client' \in [Slots -> Phones]  BY <3>1, <3>2
        <3>4. \A t \in Slots : client'[t].ours = client[t].ours  BY <3>1 DEF Phones
        <3>5. Ours' = Ours  BY <3>4 DEF Ours
        <3>. QED  BY <2>1, <2>3, <3>3, <3>5
    <2>. QED  BY <1>7, <2>2, <2>3 DEF AsksJoin
<1>8. ASSUME NEW s \in Slots, Watches(s) PROVE PermitInv'
    BY <1>3, <1>8 DEF Watches
<1>9. CASE ReadsJoin \/ ClearsWatch
    BY <1>1, <1>9 DEF ReadsJoin, ClearsWatch
<1>10. CASE OpensOrCloses
    BY <1>1, <1>4, <1>10 DEF OpensOrCloses, slotVars
<1>11. CASE RaisesAp \/ LowersAp \/ JoinDone \/ DirectoryRemoved
    BY <1>1, <1>11 DEF RaisesAp, LowersAp, JoinDone, DirectoryRemoved
<1>12. CASE UNCHANGED portalVars  BY <1>1, <1>12 DEF portalVars, slotVars
<1>. QED
    BY <1>5, <1>6, <1>7, <1>8, <1>9, <1>10, <1>11, <1>12 DEF PortalNext, LoopTurns

\* However clients come and go and however often the server is opened again, the
\* permits of its semaphore that are out are exactly those of its own threads and
\* of the ones that could not be started, and never more than MAX_CLIENTS: what a
\* thread of an earlier server returns is not its own (captive_portal.py,
\* process_request and process_request_thread).
THEOREM PermitsHold == PortalSpec => []PermitsAreThreads
<1>1. PermitInv => PermitsAreThreads  BY DEF PermitInv
<1>. QED  BY <1>1, PermitInit, PermitStep, PTL DEF PortalSpec

(***************************************************************************)
(* The RS485 bus.  Two processes and the probes share one line: an answer    *)
(* counts for a move only if every frame on the line is of the exchange      *)
(* that waits for it.                                                        *)
(***************************************************************************)
MoveKinds == {"move", "query", "probe"}
Asks485 == [kind : MoveKinds \cup {"none", "read"}, dev : Dev \cup {NoDev}, to : Nat, new : Nat]
Jobs485 == [pc : {"idle", "ready", "wait"}, ask : Asks485, left : Nat]

\* A process without an exchange asks nothing, and an exchange is about a device.
BusShape ==
    /\ on \subseteq Dev /\ lives \in [Dev -> Addr]
    /\ conf \in [Dev -> Addr \cup {Unset}] /\ drv \in [Dev -> Addr \cup {Unset}]
    /\ wire \subseteq Frame /\ tty \in Seq(Frame)
    /\ job \in [Masters -> Jobs485]
    /\ \A p \in Masters :
          /\ job[p].pc = "idle" <=> job[p].ask.kind = "none"
          /\ job[p].ask.kind # "none" => job[p].ask.dev \in Dev /\ job[p].left > 0
          /\ job[p].ask.kind \in MoveKinds => job[p].ask.new \in Addr

\* One process at a time re-addresses; the page does it with one probe wired,
\* and asks it at its new address once it has moved.
OneMover ==
    /\ \A p, q \in Masters : job[p].ask.kind \in MoveKinds /\ job[q].ask.kind \in MoveKinds => p = q
    /\ job["firmware"].ask.kind \notin {"query", "probe"}
    /\ job["window"].ask.kind \in MoveKinds => on = {job["window"].ask.dev}
    /\ job["window"].ask.kind = "probe" => lives[job["window"].ask.dev] = job["window"].ask.new

\* A frame for p that comes from the probe p is moving says that it has moved;
\* the page hears its probe or noise.
Tells(p, f) ==
    LET a == job[p].ask
    IN  /\ a.kind = "move" /\ f.from = a.dev => lives[a.dev] = a.new
        /\ p = "window" /\ a.kind \in MoveKinds => f.from \in {a.dev, "noise"}

\* What is on its way to a process, or was read since it asked, answers what it
\* asks now.
FramesAreCurrent ==
    \A p \in Masters :
        /\ \A f \in wire : f.for = p => job[p].pc # "idle" /\ Tells(p, f)
        /\ job[p].pc = "wait" => \A i \in DOMAIN tty : tty[i].for = p => Tells(p, tty[i])

\* MovedOrTold, with an exchange under way: its probe is the exception.
Moved(d) == \E p \in Masters : job[p].ask.kind \in {"move", "probe"} /\ job[p].ask.dev = d
AtHomeOrTold ==
    \A d \in Dev : conf[d] = Unset \/ conf[d] = lives[d] \/ d \in warned \/ Moved(d)

RsInv == BusShape /\ OneMover /\ FramesAreCurrent /\ AtHomeOrTold
BusInv == Claimed => RsInv

\* The exchange under way needs no exception once nobody asks.
LEMMA BusInvSays == BusInv => MovedOrTold
BY DEF BusInv, RsInv, BusShape, AtHomeOrTold, Moved, MovedOrTold, Rest485, Idle485

\* Nobody has asked anything yet.
LEMMA BusStarts == BusInit => BusInv
<1>. SUFFICES ASSUME BusInit PROVE RsInv
    BY DEF BusInv
<1>. USE BusAssumption
<1>1. job = [p \in Masters |-> IdleJob] /\ IdleJob \in Jobs485
    BY DEF BusInit, IdleJob, Jobs485, Asks485, NoAsk, Ask, Unset
<1>2. \A p \in Masters : job[p].pc = "idle" /\ job[p].ask.kind = "none"
    BY <1>1 DEF IdleJob, NoAsk, Ask
<1>3. BusShape
    BY <1>1, <1>2 DEF BusInit, BusShape, MoveKinds
<1>4. OneMover /\ FramesAreCurrent
    BY <1>2 DEF BusInit, OneMover, FramesAreCurrent, MoveKinds, Masters
<1>5. AtHomeOrTold
    BY DEF BusInit, AtHomeOrTold
<1>. QED  BY <1>3, <1>4, <1>5 DEF RsInv

\* An exchange that ends, or goes on to ask something else, leaves no frame on
\* its way that answers it; the other process' frames are as they were.
LEMMA GivenKeepsFrames ==
    ASSUME RsInv, NEW p \in Masters, Given(p), lives' = lives,
           job' \in [Masters -> Jobs485], job'[p].pc # "wait",
           job'[p].pc = "idle" <=> job'[p].ask.kind = "none",
           \A q \in Masters \ {p} : job'[q] = job[q],
           \A i \in DOMAIN tty' : \E j \in DOMAIN tty : tty'[i] = tty[j]
    PROVE  FramesAreCurrent' /\ wire' \subseteq Frame
<1>. DEFINE Given1(f) == [f EXCEPT !.for = IF @ = p THEN Nobody ELSE @]
<1>0. ASSUME NEW f \in Frame
      PROVE  /\ Given1(f) \in Frame
             /\ Given1(f) = f \/ Given1(f).for = Nobody
             /\ Given1(f).for # p
    <2>1. f = [from |-> f.from, len |-> f.len, for |-> f.for]
        BY DEF Frame
    <2>2. Given1(f) = [from |-> f.from, len |-> f.len, for |-> IF f.for = p THEN Nobody ELSE f.for]
        BY DEF Frame
    <2>. QED  BY <2>1, <2>2 DEF Frame, Masters, Nobody
<1>6. wire \subseteq Frame
    BY DEF RsInv, BusShape
<1>7. \/ wire' = wire /\ job'[p].ask = job[p].ask
      \/ wire' = {Given1(f) : f \in wire}
    BY DEF Given
<1>. HIDE DEF Given1
<1>1. wire' \subseteq Frame
    BY <1>0, <1>6, <1>7
<1>2. \A f \in wire' : f \in wire \/ f.for = Nobody
    BY <1>0, <1>6, <1>7
<1>3. ASSUME NEW f \in wire', f.for = p
      PROVE  job'[p].pc # "idle" /\ Tells(p, f)'
    <2>1. job'[p].ask = job[p].ask /\ f \in wire
        <3>1. wire' # {Given1(g) : g \in wire}
            BY <1>0, <1>3, <1>6
        <3>. QED  BY <1>3, <3>1, <1>7
    <2>. QED  BY <2>1, <1>3 DEF RsInv, BusShape, FramesAreCurrent, Tells
<1>4. ASSUME NEW q \in Masters \ {p}, NEW f \in wire', f.for = q
      PROVE  job'[q].pc # "idle" /\ Tells(q, f)'
    BY <1>2, <1>4 DEF RsInv, FramesAreCurrent, Tells, Nobody, Masters
<1>5. ASSUME NEW q \in Masters, job'[q].pc = "wait", NEW i \in DOMAIN tty', tty'[i].for = q
      PROVE  Tells(q, tty[i])'
    BY <1>5 DEF RsInv, FramesAreCurrent, Tells
<1>. QED  BY <1>1, <1>3, <1>4, <1>5 DEF FramesAreCurrent

\* The frame that answers a request.
LEMMA AnswerShape ==
    ASSUME RsInv, NEW p \in Masters, job[p].ask.kind # "none", Asked(job[p].ask) # {}
    PROVE  /\ Answer(p, Asked(job[p].ask)) \in Frame
           /\ Answer(p, Asked(job[p].ask)).for = p
           /\ Answer(p, Asked(job[p].ask)).from \in Asked(job[p].ask) \cup {"noise"}
<1>. DEFINE a == job[p].ask
            ds == Asked(a)
<1>1. (CHOOSE d \in ds : TRUE) \in ds
    OBVIOUS
<1>2. a.dev \in Dev /\ Bytes485(a) \in Nat
    BY BusAssumption DEF RsInv, BusShape, Bytes485
<1>3. ds \subseteq Dev
    BY DEF Asked, RsInv, BusShape
<1>4. (IF Cardinality(ds) = 1 THEN CHOOSE d \in ds : TRUE ELSE "noise") \in ds \cup {"noise"}
    BY <1>1
<1>. HIDE DEF ds
<1>5. Answer(p, ds) \in Frame /\ Answer(p, ds).for = p /\ Answer(p, ds).from \in ds \cup {"noise"}
    <2>. DEFINE from == IF Cardinality(ds) = 1 THEN CHOOSE d \in ds : TRUE ELSE "noise"
    <2>1. from \in ds \cup {"noise"}
        BY <1>4
    <2>2. Answer(p, ds) = [from |-> from, len |-> Bytes485(a), for |-> p]
        BY DEF Answer
    <2>. HIDE DEF from
    <2>. QED  BY <1>2, <1>3, <2>1, <2>2 DEF Frame
<1>. QED  BY <1>5 DEF ds

\* A request goes out: what it may move is the probe it is about.
LEMMA AttemptStep ==
    ASSUME RsInv, NEW p \in Masters, Attempt(p), Claimed'
    PROVE  RsInv'
<1>. DEFINE a == job[p].ask
<1>1. /\ job[p].pc = "ready" /\ job' = [job EXCEPT ![p].pc = "wait"]
      /\ tty' = <<>>
      /\ UNCHANGED <<on, conf, drv, warned>>
      /\ a.kind = "move" => Asked(a) \subseteq {a.dev}
    BY DEF Attempt, WriteOut, Claimed
<1>2. /\ job' \in [Masters -> Jobs485]
      /\ \A q \in Masters : job'[q].ask = job[q].ask
      /\ job'[p].pc = "wait" /\ \A q \in Masters \ {p} : job'[q] = job[q]
    BY <1>1 DEF RsInv, BusShape, Jobs485
<1>3. /\ a.kind # "none" /\ a.dev \in Dev
      /\ a.kind \in MoveKinds => a.new \in Addr
      /\ lives \in [Dev -> Addr]
    BY <1>1 DEF RsInv, BusShape
<1>4. /\ lives' \in [Dev -> Addr]
      /\ \A d \in Dev : lives'[d] = lives[d] \/ (a.kind = "move" /\ d = a.dev /\ lives'[d] = a.new)
      /\ wire' = wire \/ (Asked(a) # {} /\ wire' = wire \cup {Answer(p, Asked(a))}
                            /\ (a.kind = "move" => lives'[a.dev] = a.new))
    <2>1. CASE lives' = lives /\ wire' = wire
        BY <2>1, <1>3
    <2>2. CASE /\ lives' = [d \in Dev |-> IF a.kind = "move" /\ d \in Asked(a) THEN a.new ELSE lives[d]]
               /\ wire' = IF Asked(a) = {} THEN wire ELSE wire \cup {Answer(p, Asked(a))}
        BY <2>2, <1>1, <1>3 DEF MoveKinds
    <2>. QED  BY <2>1, <2>2 DEF Attempt, WriteOut
<1>5. wire' \subseteq Frame
    <2>1. Asked(a) # {} => Answer(p, Asked(a)) \in Frame
        BY <1>3, AnswerShape
    <2>2. wire \subseteq Frame
        BY DEF RsInv, BusShape
    <2>. QED  BY <1>4, <2>1, <2>2
<1>6. BusShape'
    BY <1>1, <1>2, <1>3, <1>4, <1>5 DEF RsInv, BusShape
<1>7. OneMover'
    <2>1. \A q, r \in Masters :
             job'[q].ask.kind \in MoveKinds /\ job'[r].ask.kind \in MoveKinds => q = r
        BY <1>2 DEF RsInv, OneMover
    <2>2. job'["firmware"].ask.kind \notin {"query", "probe"}
        BY <1>2 DEF RsInv, OneMover, Masters
    <2>3. job'["window"].ask.kind \in MoveKinds => on' = {job'["window"].ask.dev}
        BY <1>1, <1>2 DEF RsInv, OneMover, Masters
    <2>4. job'["window"].ask.kind = "probe" => lives'[job'["window"].ask.dev] = job'["window"].ask.new
        <3>1. "window" \in Masters
            BY DEF Masters
        <3>2. HAVE job'["window"].ask.kind = "probe"
        <3>3. job["window"].ask.kind = "probe" /\ job'["window"].ask = job["window"].ask
            BY <1>2, <3>1, <3>2
        <3>4. a.kind # "move"
            BY <3>1, <3>3 DEF RsInv, OneMover, MoveKinds
        <3>5. job["window"].ask.dev \in Dev
            BY <3>1, <3>3 DEF RsInv, BusShape
        <3>6. lives'[job["window"].ask.dev] = lives[job["window"].ask.dev]
            BY <1>4, <3>4, <3>5
        <3>. QED  BY <3>3, <3>6 DEF RsInv, OneMover
    <2>. QED  BY <2>1, <2>2, <2>3, <2>4 DEF OneMover
<1>8. ASSUME NEW q \in Masters, NEW f \in wire, f.for = q
      PROVE  Tells(q, f)'
    <2>1. job[q].ask.kind = "move" /\ f.from = job[q].ask.dev => lives[job[q].ask.dev] = job[q].ask.new
        BY <1>8 DEF RsInv, FramesAreCurrent, Tells
    <2>2. job[q].ask.kind = "move" => job[q].ask.dev \in Dev
        BY DEF RsInv, BusShape
    <2>3. job[q].ask.kind = "move" /\ a.kind = "move" => q = p
        BY DEF RsInv, OneMover, MoveKinds
    <2>4. q = "window" /\ job[q].ask.kind \in MoveKinds => f.from \in {job[q].ask.dev, "noise"}
        BY <1>8 DEF RsInv, FramesAreCurrent, Tells
    <2>. QED  BY <1>2, <1>4, <2>1, <2>2, <2>3, <2>4 DEF Tells
<1>9. ASSUME NEW f, f = Answer(p, Asked(a)), Asked(a) # {},
             a.kind = "move" => lives'[a.dev] = a.new
      PROVE  f.for = p /\ Tells(p, f)'
    <2>1. f.for = p /\ f.from \in Asked(a) \cup {"noise"}
        BY <1>3, <1>9, AnswerShape
    <2>2. p = "window" /\ a.kind \in MoveKinds => Asked(a) \subseteq {a.dev}
        BY DEF RsInv, OneMover, Asked
    <2>. QED  BY <1>2, <1>9, <2>1, <2>2 DEF Tells
<1>10. FramesAreCurrent'
    <2>1. ASSUME NEW q \in Masters, NEW f \in wire', f.for = q
          PROVE  job'[q].pc # "idle" /\ Tells(q, f)'
        <3>1. CASE f \in wire
            BY <1>2, <1>8, <2>1, <3>1 DEF RsInv, FramesAreCurrent
        <3>2. CASE f \notin wire
            BY <1>2, <1>4, <1>9, <2>1, <3>2
        <3>. QED  BY <3>1, <3>2
    <2>. QED  BY <1>1, <2>1 DEF FramesAreCurrent
<1>11. AtHomeOrTold'
    BY <1>1, <1>2, <1>3, <1>4 DEF RsInv, AtHomeOrTold, Moved
<1>. QED  BY <1>6, <1>7, <1>10, <1>11 DEF RsInv

\* An answer arrives, or is lost.
LEMMA ArrivesStep == ASSUME RsInv, Arrives PROVE RsInv'
<1>1. PICK f \in wire : /\ wire' = wire \ {f} /\ tty' \in {Append(tty, f), tty}
                        /\ UNCHANGED <<on, lives, conf, drv, job, warned>>
    BY DEF Arrives
<1>2. /\ tty' \in Seq(Frame)
      /\ \A i \in DOMAIN tty' : tty'[i] = f \/ (i \in DOMAIN tty /\ tty'[i] = tty[i])
    <2>1. tty \in Seq(Frame) /\ f \in Frame
        BY DEF RsInv, BusShape
    <2>. QED  BY <1>1, <2>1
<1>3. BusShape' /\ OneMover' /\ AtHomeOrTold'
    BY <1>1, <1>2 DEF RsInv, BusShape, OneMover, AtHomeOrTold, Moved
<1>4. FramesAreCurrent'
    BY <1>1, <1>2 DEF RsInv, FramesAreCurrent, Tells
<1>. QED  BY <1>3, <1>4 DEF RsInv

\* An attempt brings nothing: the next one follows, or the caller is told.
LEMMA FailsStep ==
    ASSUME RsInv, NEW p \in Masters, Fails(p), Given(p), job[p].pc = "wait",
           UNCHANGED <<on, lives>>, tty' \in Seq(Frame),
           \A i \in DOMAIN tty' : \E j \in DOMAIN tty : tty'[i] = tty[j]
    PROVE  RsInv'
<1>. DEFINE a == job[p].ask
<1>1. /\ job' \in [Masters -> Jobs485]
      /\ job'[p].pc # "wait" /\ (job'[p].pc = "idle" <=> job'[p].ask.kind = "none")
      /\ job'[p].ask.kind # "none" => job'[p].left > 0
      /\ \A q \in Masters \ {p} : job'[q] = job[q]
      /\ \/ job'[p].ask = a /\ warned' = warned
         \/ /\ job'[p].ask = NoAsk
            /\ warned' = IF a.kind \in {"move", "probe"} THEN warned \cup {a.dev} ELSE warned
      /\ UNCHANGED <<conf, drv>>
    <2>1. job \in [Masters -> Jobs485] /\ (job[p].ask.kind # "none")
        BY DEF RsInv, BusShape
    <2>2. CASE job[p].left > 1
        <3>. DEFINE next == Retried(job[p])
        <3>1. next = [pc |-> "ready", ask |-> a, left |-> job[p].left - 1] /\ next \in Jobs485
            BY <2>1, <2>2 DEF Jobs485, Retried
        <3>4. job[p].left \in Nat
            BY <2>1 DEF Jobs485
        <3>5. job' = [job EXCEPT ![p] = IF job[p].left > 1 THEN next ELSE IdleJob]
            BY DEF Fails
        <3>6. warned' = warned /\ UNCHANGED <<conf, drv>>
            BY <2>2, <3>4 DEF Fails
        <3>2. job' = [job EXCEPT ![p] = next]
            BY <2>2, <3>5
        <3>. HIDE DEF next
        <3>3. job'[p] = next /\ job' \in [Masters -> Jobs485] /\ \A q \in Masters \ {p} : job'[q] = job[q]
            BY <2>1, <3>1, <3>2
        <3>. QED  BY <2>1, <2>2, <3>1, <3>3, <3>4, <3>6
    <2>3. CASE job[p].left = 1
        <3>1. job' = [job EXCEPT ![p] = IdleJob] /\ UNCHANGED <<conf, drv>>
              /\ warned' = IF a.kind \in {"move", "probe"} THEN warned \cup {a.dev} ELSE warned
            BY <2>3 DEF Fails
        <3>2. IdleJob \in Jobs485 /\ IdleJob.pc = "idle" /\ IdleJob.ask = NoAsk /\ NoAsk.kind = "none"
            BY DEF IdleJob, Jobs485, Asks485, NoAsk, Ask, Unset
        <3>3. job'[p] = IdleJob /\ job' \in [Masters -> Jobs485] /\ \A q \in Masters \ {p} : job'[q] = job[q]
            BY <2>1, <3>1, <3>2
        <3>. QED  BY <2>1, <3>1, <3>2, <3>3
    <2>4. job[p].left > 0 /\ job[p].left \in Nat
        BY <2>1 DEF RsInv, BusShape, Jobs485
    <2>. QED  BY <2>2, <2>3, <2>4
<1>2. FramesAreCurrent' /\ wire' \subseteq Frame
    BY <1>1, GivenKeepsFrames
<1>3. BusShape'
    BY <1>1, <1>2 DEF RsInv, BusShape, NoAsk, Ask, MoveKinds
<1>4. OneMover'
    BY <1>1 DEF RsInv, OneMover, NoAsk, Ask, MoveKinds, Masters
<1>5. AtHomeOrTold'
    BY <1>1 DEF RsInv, AtHomeOrTold, Moved, NoAsk, Ask
<1>. QED  BY <1>2, <1>3, <1>4, <1>5 DEF RsInv

\* What an exchange may become when it has its answer: over, or, for the page,
\* the next one about the same probe.
Onward(p, j) ==
    LET a == job[p].ask
    IN  \/ j = IdleJob
        \/ /\ p = "window" /\ a.kind \in MoveKinds
           /\ \/ \E from \in Addr : j = Job(Ask("move", a.dev, from, a.new))
              \/ j = Job(Ask("probe", a.dev, a.new, a.new)) /\ lives[a.dev] = a.new

\* The asking goes on, or stops, in good order.
LEMMA OnwardStep ==
    ASSUME RsInv, NEW p \in Masters, NEW j, Onward(p, j), job' = [job EXCEPT ![p] = j],
           Given(p), job[p].pc = "wait", UNCHANGED <<on, lives>>, tty' \in Seq(Frame),
           \A i \in DOMAIN tty' : \E k \in DOMAIN tty : tty'[i] = tty[k],
           conf' \in [Dev -> Addr \cup {Unset}], drv' \in [Dev -> Addr \cup {Unset}]
    PROVE  BusShape' /\ OneMover' /\ FramesAreCurrent'
<1>. DEFINE a == job[p].ask
<1>1. /\ job \in [Masters -> Jobs485] /\ a.kind # "none" /\ a.dev \in Dev
      /\ a.kind \in MoveKinds => a.new \in Addr
    BY DEF RsInv, BusShape
<1>2. /\ j \in Jobs485 /\ j.pc # "wait" /\ (j.pc = "idle" <=> j.ask.kind = "none")
      /\ j.ask.kind # "none" => j.ask.dev \in Dev /\ j.left > 0
      /\ j.ask.kind \in MoveKinds =>
            /\ p = "window" /\ a.kind \in MoveKinds
            /\ j.ask.dev = a.dev /\ j.ask.new = a.new
            /\ j.ask.kind = "probe" => lives[a.dev] = a.new
    <2>1. CASE j = IdleJob
        BY <2>1 DEF IdleJob, Jobs485, Asks485, NoAsk, Ask, Unset, MoveKinds
    <2>2. ASSUME NEW from \in Addr, NEW kind \in {"move", "probe"},
                 p = "window", a.kind \in MoveKinds,
                 j = Job(Ask(kind, a.dev, from, a.new)),
                 kind = "probe" => lives[a.dev] = a.new
          PROVE  <1>2
        BY <1>1, <2>2, BusAssumption DEF Job, Jobs485, Asks485, Ask, MoveKinds, Attempts
    <2>. QED  BY <1>1, <2>1, <2>2 DEF Onward
<1>3. /\ job' \in [Masters -> Jobs485] /\ job'[p] = j
      /\ \A q \in Masters \ {p} : job'[q] = job[q]
    BY <1>1, <1>2
<1>4. FramesAreCurrent' /\ wire' \subseteq Frame
    BY <1>2, <1>3, GivenKeepsFrames
<1>5. BusShape'
    BY <1>1, <1>2, <1>3, <1>4 DEF RsInv, BusShape
<1>6. OneMover'
    BY <1>1, <1>2, <1>3 DEF RsInv, OneMover, Masters, MoveKinds
<1>. QED  BY <1>4, <1>5, <1>6

\* An answer is taken.  One that is the asker's own comes from the probe that
\* was asked, and what it says has been done.
LEMMA SucceedsStep ==
    ASSUME RsInv, NEW p \in Masters, NEW f \in Frame, Succeeds(p, f), Given(p),
           job[p].pc = "wait", UNCHANGED <<on, lives>>, tty' \in Seq(Frame),
           \A i \in DOMAIN tty' : \E k \in DOMAIN tty : tty'[i] = tty[k],
           f.from \in Dev, f.from # "noise", Tells(p, f),
           job[p].ask.dev = f.from \/ job[p].ask.kind = "query"
    PROVE  RsInv'
<1>. DEFINE a == job[p].ask
<1>1. /\ job \in [Masters -> Jobs485] /\ a.kind # "none" /\ a.dev \in Dev
      /\ a.kind \in MoveKinds => a.new \in Addr
      /\ lives \in [Dev -> Addr]
      /\ conf \in [Dev -> Addr \cup {Unset}] /\ drv \in [Dev -> Addr \cup {Unset}]
    BY DEF RsInv, BusShape
<1>2. \A d \in Dev : Moved(d)' => \E q \in Masters : job'[q].ask.kind \in {"move", "probe"} /\ job'[q].ask.dev = d
    BY DEF Moved
<1>3. \A j : job' = [job EXCEPT ![p] = j] => job'[p] = j /\ \A q \in Masters \ {p} : job'[q] = job[q]
    BY <1>1
<1>4. CASE a.kind = "read" /\ job' = [job EXCEPT ![p] = IdleJob] /\ NotSaved /\ UNCHANGED drv
    <2>1. BusShape' /\ OneMover' /\ FramesAreCurrent'
        BY <1>1, <1>4, OnwardStep DEF Onward, NotSaved
    <2>2. AtHomeOrTold'
        BY <1>1, <1>3, <1>4 DEF RsInv, AtHomeOrTold, Moved, NotSaved
    <2>. QED  BY <2>1, <2>2 DEF RsInv
<1>5. ASSUME job' = [job EXCEPT ![p] = IdleJob], Saved(a.dev, a.new), lives[a.dev] = a.new,
             a.kind \in MoveKinds, drv' \in [Dev -> Addr \cup {Unset}]
      PROVE  RsInv'
    <2>1. /\ \/ conf' = [conf EXCEPT ![a.dev] = a.new] /\ warned' = warned \ {a.dev}
             \/ conf' = conf /\ warned' = warned \cup {a.dev}
          /\ conf' \in [Dev -> Addr \cup {Unset}]
        BY <1>1, <1>5 DEF Saved
    <2>2. BusShape' /\ OneMover' /\ FramesAreCurrent'
        BY <1>5, <2>1, OnwardStep DEF Onward
    <2>3. AtHomeOrTold'
        BY <1>1, <1>3, <1>5, <2>1 DEF RsInv, AtHomeOrTold, Moved
    <2>. QED  BY <2>2, <2>3 DEF RsInv
<1>6. CASE /\ p = "firmware" /\ a.kind = "move"
           /\ job' = [job EXCEPT ![p] = IdleJob]
           /\ drv' = [drv EXCEPT ![a.dev] = a.new] /\ Saved(a.dev, a.new)
    <2>1. lives[a.dev] = a.new
        BY <1>6 DEF Tells
    <2>. QED  BY <1>1, <1>5, <1>6, <2>1 DEF MoveKinds
<1>7. ASSUME NEW j, Onward(p, j), job' = [job EXCEPT ![p] = j], NotSaved, UNCHANGED drv,
             a.kind \in {"query", "move"}, j.ask.kind \in {"move", "probe"}, j.ask.dev = a.dev
      PROVE  RsInv'
    <2>1. BusShape' /\ OneMover' /\ FramesAreCurrent'
        BY <1>1, <1>7, OnwardStep DEF NotSaved
    <2>2. AtHomeOrTold'
        BY <1>1, <1>3, <1>7 DEF RsInv, AtHomeOrTold, Moved, NotSaved
    <2>. QED  BY <2>1, <2>2 DEF RsInv
<1>8. CASE /\ a.kind = "query" /\ lives[f.from] # a.new
           /\ job' = [job EXCEPT ![p] = Job(Ask("move", a.dev, lives[f.from], a.new))]
           /\ NotSaved /\ UNCHANGED drv
    <2>1. p = "window" /\ lives[f.from] \in Addr
        BY <1>1, <1>8 DEF RsInv, OneMover, Masters
    <2>2. Onward(p, Job(Ask("move", a.dev, lives[f.from], a.new)))
        BY <1>8, <2>1 DEF Onward, MoveKinds
    <2>. QED  BY <1>7, <1>8, <2>2 DEF Job, Ask
<1>9. CASE /\ p = "window" /\ a.kind = "move"
           /\ job' = [job EXCEPT ![p] = Job(Ask("probe", a.dev, a.new, a.new))]
           /\ NotSaved /\ UNCHANGED drv
    <2>1. Onward(p, Job(Ask("probe", a.dev, a.new, a.new)))
        BY <1>9 DEF Onward, MoveKinds, Tells
    <2>. QED  BY <1>7, <1>9, <2>1 DEF Job, Ask
<1>10. CASE /\ a.kind = "probe" \/ (a.kind = "query" /\ lives[f.from] = a.new)
            /\ job' = [job EXCEPT ![p] = IdleJob]
            /\ Saved(a.dev, a.new) /\ UNCHANGED drv
    <2>1. p = "window"
        BY <1>10 DEF RsInv, OneMover, Masters
    <2>2. lives[a.dev] = a.new
        BY <1>10, <2>1 DEF RsInv, OneMover, Tells, MoveKinds
    <2>. QED  BY <1>1, <1>5, <1>10, <2>2 DEF MoveKinds
<1>. QED  BY <1>4, <1>6, <1>8, <1>9, <1>10 DEF Succeeds

\* A frame is read: it is the answer, or it is not, or it is taken for it and
\* nothing is claimed any more.
LEMMA ReadsStep ==
    ASSUME RsInv, NEW p \in Masters, Reads(p), Claimed'
    PROVE  RsInv'
<1>. DEFINE f == Head(tty)
            a == job[p].ask
<1>1. /\ job[p].pc = "wait" /\ tty # <<>> /\ tty' = Tail(tty) /\ Given(p)
      /\ UNCHANGED <<on, lives>>
    BY DEF Reads
<1>2. /\ tty \in Seq(Frame) /\ f \in Frame /\ f = tty[1] /\ 1 \in DOMAIN tty
      /\ tty' \in Seq(Frame)
      /\ \A i \in DOMAIN tty' : i + 1 \in DOMAIN tty /\ tty'[i] = tty[i + 1]
    <2>1. tty \in Seq(Frame)
        BY DEF RsInv, BusShape
    <2>. QED  BY <1>1, <2>1
<1>. HIDE DEF f
<1>3. CASE Fails(p)
    BY <1>1, <1>2, <1>3, FailsStep
<1>4. CASE /\ f.from # "noise" /\ Succeeds(p, f)
           /\ crossed' = (crossed \/ f.for # p \/ (a.dev # f.from /\ a.kind # "query"))
    <2>1. f.for = p /\ (a.dev = f.from \/ a.kind = "query")
        BY <1>4 DEF Claimed
    <2>2. Tells(p, f)
        BY <1>1, <1>2, <2>1 DEF RsInv, FramesAreCurrent
    <2>3. f.from \in Dev
        BY <1>2, <1>4 DEF Frame
    <2>. QED  BY <1>1, <1>2, <1>4, <2>1, <2>2, <2>3, SucceedsStep
<1>. QED  BY <1>3, <1>4 DEF Reads, f

\* An exchange begins; a change of address only when nobody is about one.
LEMMA Start485Step ==
    ASSUME RsInv, NEW p \in Masters, NEW kind \in MoveKinds \cup {"read"}, NEW d \in Dev,
           NEW to \in Addr \cup {Unset}, NEW new \in Addr \cup {Unset},
           kind \in MoveKinds => new \in Addr /\ ~ReAddressing,
           p = "firmware" => kind \in {"read", "move"},
           p = "window" => kind = "read" \/ (kind = "query" /\ on = {d}),
           Start485(p, Ask(kind, d, to, new))
    PROVE  RsInv'
<1>. DEFINE j == Job(Ask(kind, d, to, new))
<1>1. /\ job[p].pc = "idle" /\ job' = [job EXCEPT ![p] = j]
      /\ UNCHANGED <<on, lives, conf, drv, wire, tty, warned>>
    BY DEF Start485, Idle485
<1>2. /\ j \in Jobs485 /\ j.pc = "ready" /\ j.left > 0
      /\ j.ask.kind = kind /\ j.ask.dev = d /\ j.ask.new = new
    BY BusAssumption DEF Job, Jobs485, Asks485, Ask, Attempts, Unset, MoveKinds
<1>. HIDE DEF j
<1>3. /\ job \in [Masters -> Jobs485] /\ job' \in [Masters -> Jobs485] /\ job'[p] = j
      /\ \A q \in Masters \ {p} : job'[q] = job[q]
      /\ job[p].ask.kind = "none"
    BY <1>1, <1>2 DEF RsInv, BusShape
<1>4. BusShape'
    BY <1>1, <1>2, <1>3 DEF RsInv, BusShape, MoveKinds
<1>5. OneMover'
    BY <1>1, <1>2, <1>3 DEF RsInv, OneMover, Masters, MoveKinds, ReAddressing
<1>6. FramesAreCurrent'
    BY <1>1, <1>2, <1>3 DEF RsInv, FramesAreCurrent, Tells
<1>7. AtHomeOrTold'
    BY <1>1, <1>2, <1>3 DEF RsInv, AtHomeOrTold, Moved
<1>. QED  BY <1>4, <1>5, <1>6, <1>7 DEF RsInv

\* The firmware restarts and forgets what it was asking.
LEMMA FirmwareStartsStep == ASSUME RsInv, FirmwareStarts PROVE RsInv'
<1>. DEFINE a == job["firmware"].ask
<1>1. /\ job' = [job EXCEPT !["firmware"] = IdleJob] /\ drv' = conf
      /\ warned' = IF a.kind = "move" THEN warned \cup {a.dev} ELSE warned
      /\ Given("firmware") /\ UNCHANGED <<on, lives, conf, tty>>
    BY DEF FirmwareStarts
<1>2. IdleJob \in Jobs485 /\ IdleJob.pc = "idle" /\ IdleJob.ask = NoAsk /\ NoAsk.kind = "none"
    BY DEF IdleJob, Jobs485, Asks485, NoAsk, Ask, Unset
<1>3. /\ job' \in [Masters -> Jobs485] /\ job'["firmware"] = IdleJob
      /\ \A q \in Masters \ {"firmware"} : job'[q] = job[q]
    BY <1>1, <1>2 DEF RsInv, BusShape, Masters
<1>4. FramesAreCurrent' /\ wire' \subseteq Frame
    BY <1>1, <1>2, <1>3, GivenKeepsFrames DEF Masters
<1>5. BusShape'
    BY <1>1, <1>2, <1>3, <1>4 DEF RsInv, BusShape, MoveKinds
<1>6. OneMover'
    BY <1>1, <1>2, <1>3 DEF RsInv, OneMover, Masters, MoveKinds
<1>7. AtHomeOrTold'
    BY <1>1, <1>2, <1>3 DEF RsInv, AtHomeOrTold, Moved, OneMover, Masters
<1>. QED  BY <1>4, <1>5, <1>6, <1>7 DEF RsInv

\* The invariant is inductive.
LEMMA BusStep == BusInv /\ [BusNext]_busVars => BusInv'
<1>. SUFFICES ASSUME BusInv, [BusNext]_busVars, Claimed' PROVE RsInv'
    BY DEF BusInv
<1>1. CASE UNCHANGED busVars
    BY <1>1 DEF busVars, BusInv, RsInv, Claimed, BusShape, OneMover, FramesAreCurrent, Tells,
                AtHomeOrTold, Moved
<1>2. CASE BusNext
    <2>1. RsInv
        BY <1>2 DEF BusNext, BusInv
    <2>2. BusShape
        BY <2>1 DEF RsInv
    <2>3. ASSUME NEW p \in Masters, Attempt(p) PROVE RsInv'
        BY <2>1, <2>3, AttemptStep
    <2>4. ASSUME NEW p \in Masters, TimesOut(p) PROVE RsInv'
        <3>1. tty' = tty /\ tty \in Seq(Frame)
            BY <2>2, <2>4 DEF TimesOut, BusShape
        <3>. QED  BY <2>1, <2>4, <3>1, FailsStep DEF TimesOut
    <2>5. ASSUME NEW p \in Masters, Reads(p) PROVE RsInv'
        BY <2>1, <2>5, ReadsStep
    <2>6. CASE Arrives
        BY <2>1, <2>6, ArrivesStep
    <2>7. ASSUME NEW d \in Dev, Sample(d) PROVE RsInv'
        BY <2>1, <2>2, <2>7, Start485Step DEF Sample, Masters, MoveKinds, BusShape
    <2>8. ASSUME NEW d \in Dev, PageReads(d) PROVE RsInv'
        BY <2>1, <2>2, <2>8, Start485Step DEF PageReads, Masters, MoveKinds, BusShape
    <2>9. ASSUME NEW d \in Dev, NEW new \in Addr, SetAddress(d, new) PROVE RsInv'
        BY <2>1, <2>2, <2>9, Start485Step DEF SetAddress, Masters, MoveKinds, BusShape
    <2>10. ASSUME NEW d \in Dev, NEW new \in Addr, Assign(d, new) PROVE RsInv'
        BY <2>1, <2>10, Start485Step DEF Assign, Masters, MoveKinds
    <2>11. ASSUME NEW d \in Dev, Add(d) PROVE RsInv'
        <3>1. /\ \/ conf' = [conf EXCEPT ![d] = lives[d]] /\ warned' = warned \ {d}
                 \/ conf' = conf /\ warned' = warned \cup {d}
              /\ drv' \in {drv, [drv EXCEPT ![d] = lives[d]]}
              /\ UNCHANGED <<on, lives, wire, tty, job>>
            BY <2>11 DEF Add, Saved
        <3>2. BusShape'
            BY <2>2, <3>1 DEF BusShape
        <3>3. OneMover'
            BY <2>1, <3>1 DEF RsInv, OneMover
        <3>4. FramesAreCurrent'
            BY <2>1, <3>1 DEF RsInv, FramesAreCurrent, Tells
        <3>5. AtHomeOrTold'
            BY <2>1, <2>2, <3>1 DEF RsInv, AtHomeOrTold, Moved, BusShape
        <3>. QED  BY <3>2, <3>3, <3>4, <3>5 DEF RsInv
    <2>12. CASE Wire
        <3>1. /\ \A p \in Masters : job[p].ask.kind = "none"
              /\ on' \subseteq Dev
              /\ UNCHANGED <<lives, conf, drv, wire, tty, job, warned>>
            BY <2>2, <2>12 DEF Wire, BusShape, Rest485, Idle485
        <3>. QED  BY <2>1, <3>1 DEF RsInv, BusShape, OneMover, FramesAreCurrent, Tells, AtHomeOrTold,
                                    Moved, MoveKinds, Masters
    <2>13. CASE FirmwareStarts
        BY <2>1, <2>13, FirmwareStartsStep
    <2>. QED
        BY <1>2, <2>3, <2>4, <2>5, <2>6, <2>7, <2>8, <2>9, <2>10, <2>11, <2>12, <2>13 DEF BusNext, BusMoves
<1>. QED  BY <1>1, <1>2

\* When nobody asks, a probe the unit reads is where the configuration has it, or
\* the last to change its address was told that something failed, whatever was
\* lost or late on the wire, for every number of probes and of calls
\* (rs485_set_address, assign, ModbusBus._transact).
THEOREM ProbesAreFoundOrMissed == BusSpec => []MovedOrTold
<1>. QED  BY BusStarts, BusStep, BusInvSays, PTL DEF BusSpec

(***************************************************************************)
(* The MAC layer.  What ties a step of the server to a step of the device    *)
(* is the answer on its way: Promised says what it will bring about.  A      *)
(* request has one command or two, so its folds are unfolded by hand.        *)
(***************************************************************************)
\* The largest index of a short sequence.
LEMMA SmallMaxima == Max({1}) = 1 /\ Max({2}) = 2 /\ Max({1, 2}) = 2
<1>1. \A x \in {1} : (\A y \in {1} : x >= y) <=> x = 1
    OBVIOUS
<1>2. \A x \in {1, 2} : (\A y \in {1, 2} : x >= y) <=> x = 2
    OBVIOUS
<1>3. \A x \in {2} : (\A y \in {2} : x >= y) <=> x = 2
    OBVIOUS
<1>4. Max({1}) = 1
    BY <1>1 DEF Max
<1>5. Max({2}) = 2
    BY <1>3 DEF Max
<1>6. Max({1, 2}) = 2
    BY <1>2 DEF Max
<1>. QED  BY <1>4, <1>5, <1>6

\* A request of one command is granted by setting it.
LEMMA GrantedOne == ASSUME NEW d, NEW x PROVE Granted(d, <<x>>) = Set(d, x)
<1>. DEFINE Body(g) == [t \in SUBSET {1} |-> IF t = {} THEN d ELSE Set(g[t \ {Max(t)}], <<x>>[Max(t)])]
            w == [t \in SUBSET {1} |-> IF t = {} THEN d ELSE Set(d, x)]
            iter == CHOOSE g : g = Body(g)
<1>1. \A t \in SUBSET {1} : t = {} \/ t = {1}
    OBVIOUS
<1>2. \A g : Body(g)[{}] = d /\ Body(g)[{1}] = Set(g[{}], x)
    <2>1. ASSUME NEW g PROVE Body(g)[{1}] = Set(g[{1} \ {Max({1})}], <<x>>[Max({1})])
        OBVIOUS
    <2>2. {1} \ {1} = {}
        OBVIOUS
    <2>. QED  BY <2>1, <2>2, SmallMaxima
<1>3. w = Body(w)
    <2>1. w[{}] = d /\ w[{1}] = Set(d, x)
        OBVIOUS
    <2>2. Body(w)[{}] = w[{}] /\ Body(w)[{1}] = w[{1}]
        BY <1>2, <2>1
    <2>3. \A t \in SUBSET {1} : Body(w)[t] = w[t]
        BY <1>1, <2>2
    <2>. QED  BY <2>3
<1>. HIDE DEF Body, w
<1>4. iter = Body(iter)
    BY <1>3
<1>5. iter[{1}] = Set(d, x)
    <2>. HIDE DEF iter
    <2>. QED  BY <1>2, <1>4
<1>6. Granted(d, <<x>>) = iter[{1}]
    <2>1. DOMAIN <<x>> = {1}
        OBVIOUS
    <2>. QED  BY <2>1 DEF Granted, FoldLeft, MapThenFoldSet, Body
<1>. QED  BY <1>5, <1>6

\* A block of two commands is granted by setting the first and then the second.
LEMMA GrantedTwo == ASSUME NEW d, NEW x, NEW y PROVE Granted(d, <<x, y>>) = Set(Set(d, x), y)
<1>. DEFINE Body(g) == [t \in SUBSET {1, 2} |->
                           IF t = {} THEN d ELSE Set(g[t \ {Max(t)}], <<x, y>>[Max(t)])]
            w == [t \in SUBSET {1, 2} |-> IF t = {} THEN d
                                          ELSE IF t = {1} THEN Set(d, x)
                                          ELSE IF t = {2} THEN Set(d, y)
                                          ELSE Set(Set(d, x), y)]
            iter == CHOOSE g : g = Body(g)
<1>1. \A t \in SUBSET {1, 2} : t = {} \/ t = {1} \/ t = {2} \/ t = {1, 2}
    OBVIOUS
<1>2. \A g : /\ Body(g)[{}] = d /\ Body(g)[{1}] = Set(g[{}], x)
             /\ Body(g)[{2}] = Set(g[{}], y) /\ Body(g)[{1, 2}] = Set(g[{1}], y)
    <2>1. ASSUME NEW g, NEW t \in SUBSET {1, 2}, t # {}
          PROVE  Body(g)[t] = Set(g[t \ {Max(t)}], <<x, y>>[Max(t)])
        BY <2>1
    <2>2. {1} \ {1} = {} /\ {2} \ {2} = {} /\ {1, 2} \ {2} = {1}
        OBVIOUS
    <2>3. \A g : Body(g)[{}] = d
        OBVIOUS
    <2>. HIDE DEF Body
    <2>4. ASSUME NEW g PROVE Body(g)[{1}] = Set(g[{}], x)
        BY <2>1, <2>2, SmallMaxima
    <2>5. ASSUME NEW g PROVE Body(g)[{2}] = Set(g[{}], y)
        BY <2>1, <2>2, SmallMaxima
    <2>6. ASSUME NEW g PROVE Body(g)[{1, 2}] = Set(g[{1}], y)
        <3>1. Body(g)[{1, 2}] = Set(g[{1, 2} \ {Max({1, 2})}], <<x, y>>[Max({1, 2})])
            BY <2>1
        <3>2. <<x, y>>[2] = y
            OBVIOUS
        <3>. QED  BY <2>2, <3>1, <3>2, SmallMaxima
    <2>. QED  BY <2>3, <2>4, <2>5, <2>6
<1>3. w = Body(w)
    <2>1. w[{}] = d /\ w[{1}] = Set(d, x) /\ w[{2}] = Set(d, y) /\ w[{1, 2}] = Set(Set(d, x), y)
        <3>1. {1} # {} /\ {2} # {} /\ {2} # {1} /\ {1, 2} # {} /\ {1, 2} # {1} /\ {1, 2} # {2}
            OBVIOUS
        <3>. QED  BY <3>1
    <2>2. \A t \in SUBSET {1, 2} : Body(w)[t] = w[t]
        <3>1. /\ Body(w)[{}] = w[{}] /\ Body(w)[{1}] = w[{1}]
              /\ Body(w)[{2}] = w[{2}] /\ Body(w)[{1, 2}] = w[{1, 2}]
            BY <1>2, <2>1
        <3>. HIDE DEF Body, w
        <3>. QED  BY <1>1, <3>1
    <2>. QED  BY <2>2
<1>. HIDE DEF Body, w
<1>4. iter = Body(iter)
    BY <1>3
<1>5. iter[{1, 2}] = Set(Set(d, x), y)
    <2>. HIDE DEF iter
    <2>. QED  BY <1>2, <1>4
<1>6. Granted(d, <<x, y>>) = iter[{1, 2}]
    <2>1. DOMAIN <<x, y>> = {1, 2}
        OBVIOUS
    <2>. QED  BY <2>1 DEF Granted, FoldLeft, MapThenFoldSet, Body
<1>. QED  BY <1>5, <1>6

\* A request of one command is handled by answering it.
LEMMA HandledOne ==
    ASSUME NEW e, NEW d, NEW x
    PROVE  d = [dev |-> e, fopts |-> <<>>] => Handled(e, <<x>>) = Replied(d, x)
<1>. DEFINE Body(g) == [t \in SUBSET {1} |-> IF t = {} THEN d ELSE Replied(g[t \ {Max(t)}], <<x>>[Max(t)])]
            w == [t \in SUBSET {1} |-> IF t = {} THEN d ELSE Replied(d, x)]
            iter == CHOOSE g : g = Body(g)
<1>1. \A t \in SUBSET {1} : t = {} \/ t = {1}
    OBVIOUS
<1>2. \A g : Body(g)[{}] = d /\ Body(g)[{1}] = Replied(g[{}], x)
    <2>1. ASSUME NEW g PROVE Body(g)[{1}] = Replied(g[{1} \ {Max({1})}], <<x>>[Max({1})])
        OBVIOUS
    <2>2. {1} \ {1} = {}
        OBVIOUS
    <2>. QED  BY <2>1, <2>2, SmallMaxima
<1>3. w = Body(w)
    <2>1. w[{}] = d /\ w[{1}] = Replied(d, x)
        OBVIOUS
    <2>2. Body(w)[{}] = w[{}] /\ Body(w)[{1}] = w[{1}]
        BY <1>2, <2>1
    <2>3. \A t \in SUBSET {1} : Body(w)[t] = w[t]
        BY <1>1, <2>2
    <2>. QED  BY <2>3
<1>. HIDE DEF Body, w
<1>4. iter = Body(iter)
    BY <1>3
<1>5. iter[{1}] = Replied(d, x)
    <2>. HIDE DEF iter
    <2>. QED  BY <1>2, <1>4
<1>6. ASSUME d = [dev |-> e, fopts |-> <<>>]
      PROVE  Handled(e, <<x>>) = iter[{1}]
    <2>1. DOMAIN <<x>> = {1}
        OBVIOUS
    <2>. QED  BY <1>6, <2>1 DEF Handled, FoldLeft, MapThenFoldSet, Body
<1>. QED  BY <1>5, <1>6

\* A block of two commands is answered one command after the other.
LEMMA HandledTwo ==
    ASSUME NEW e, NEW d, NEW x, NEW y
    PROVE  d = [dev |-> e, fopts |-> <<>>] => Handled(e, <<x, y>>) = Replied(Replied(d, x), y)
<1>. DEFINE Body(g) == [t \in SUBSET {1, 2} |->
                           IF t = {} THEN d ELSE Replied(g[t \ {Max(t)}], <<x, y>>[Max(t)])]
            w == [t \in SUBSET {1, 2} |-> IF t = {} THEN d
                                          ELSE IF t = {1} THEN Replied(d, x)
                                          ELSE IF t = {2} THEN Replied(d, y)
                                          ELSE Replied(Replied(d, x), y)]
            iter == CHOOSE g : g = Body(g)
<1>1. \A t \in SUBSET {1, 2} : t = {} \/ t = {1} \/ t = {2} \/ t = {1, 2}
    OBVIOUS
<1>2. \A g : /\ Body(g)[{}] = d /\ Body(g)[{1}] = Replied(g[{}], x)
             /\ Body(g)[{2}] = Replied(g[{}], y) /\ Body(g)[{1, 2}] = Replied(g[{1}], y)
    <2>1. ASSUME NEW g, NEW t \in SUBSET {1, 2}, t # {}
          PROVE  Body(g)[t] = Replied(g[t \ {Max(t)}], <<x, y>>[Max(t)])
        BY <2>1
    <2>2. {1} \ {1} = {} /\ {2} \ {2} = {} /\ {1, 2} \ {2} = {1}
        OBVIOUS
    <2>3. \A g : Body(g)[{}] = d
        OBVIOUS
    <2>. HIDE DEF Body
    <2>4. ASSUME NEW g PROVE Body(g)[{1}] = Replied(g[{}], x)
        BY <2>1, <2>2, SmallMaxima
    <2>5. ASSUME NEW g PROVE Body(g)[{2}] = Replied(g[{}], y)
        BY <2>1, <2>2, SmallMaxima
    <2>6. ASSUME NEW g PROVE Body(g)[{1, 2}] = Replied(g[{1}], y)
        <3>1. Body(g)[{1, 2}] = Replied(g[{1, 2} \ {Max({1, 2})}], <<x, y>>[Max({1, 2})])
            BY <2>1
        <3>2. <<x, y>>[2] = y
            OBVIOUS
        <3>. QED  BY <2>2, <3>1, <3>2, SmallMaxima
    <2>. QED  BY <2>3, <2>4, <2>5, <2>6
<1>3. w = Body(w)
    <2>1. w[{}] = d /\ w[{1}] = Replied(d, x) /\ w[{2}] = Replied(d, y) /\ w[{1, 2}] = Replied(Replied(d, x), y)
        <3>1. {1} # {} /\ {2} # {} /\ {2} # {1} /\ {1, 2} # {} /\ {1, 2} # {1} /\ {1, 2} # {2}
            OBVIOUS
        <3>. QED  BY <3>1
    <2>2. \A t \in SUBSET {1, 2} : Body(w)[t] = w[t]
        <3>1. /\ Body(w)[{}] = w[{}] /\ Body(w)[{1}] = w[{1}]
              /\ Body(w)[{2}] = w[{2}] /\ Body(w)[{1, 2}] = w[{1, 2}]
            BY <1>2, <2>1
        <3>. HIDE DEF Body, w
        <3>. QED  BY <1>1, <3>1
    <2>. QED  BY <2>2
<1>. HIDE DEF Body, w
<1>4. iter = Body(iter)
    BY <1>3
<1>5. iter[{1, 2}] = Replied(Replied(d, x), y)
    <2>. HIDE DEF iter
    <2>. QED  BY <1>2, <1>4
<1>6. ASSUME d = [dev |-> e, fopts |-> <<>>]
      PROVE  Handled(e, <<x, y>>) = iter[{1, 2}]
    <2>1. DOMAIN <<x, y>> = {1, 2}
        OBVIOUS
    <2>. QED  BY <1>6, <2>1 DEF Handled, FoldLeft, MapThenFoldSet, Body
<1>. QED  BY <1>5, <1>6

Windows == [delay : Nat, win : {"default", "moved", Odd}]
Layers == [joined : BOOLEAN, rx : Windows, plan : SUBSET Blocks, dr : Nat]
Commands ==
    {Timing(d) : d \in {1, 5}} \cup {Setup(w) : w \in {"default", "moved", Odd}}
        \cup {Adr(b, r) : b \in Blocks, r \in {0, 3, 15}} \cup {Adr("none", 15)}
Answers == [cmd : Commands \cup {Check}, ok : BOOLEAN]

MacShape ==
    /\ dev \in Layers /\ saved = dev
    /\ server \in [set : Layers, open : Requests \cup {<<>>}]
    /\ fopts \in Seq(Answers)

\* The positive answer to c, which moves the windows, is the only one to c among
\* the answers f, and once c is granted the server has the windows rx.
Promised(f, s, rx) ==
    \E c \in Commands :
        /\ c.cid \in {"timing", "setup"} /\ s.open = <<c>>
        /\ \E i \in DOMAIN f : f[i].cmd = c
        /\ \A i \in DOMAIN f : f[i].cmd = c => f[i].ok
        /\ rx = Set(s.set, c).rx

\* InStep, with what the answer that is still to be sent will bring about.
Together(f, s, rx) == IF Moving(f) THEN Promised(f, s, rx) ELSE rx = s.set.rx

MacInv == MacShape /\ (dev.joined /\ ~mislaid => Together(fopts, server, dev.rx))

\* A command sets what it names and leaves the rest of the layer.
LEMMA SetKeepsShape ==
    ASSUME NEW d \in Layers, NEW c \in Commands
    PROVE  /\ Set(d, c) \in Layers
           /\ c.cid = "timing" => Set(d, c).rx = [delay |-> c.arg, win |-> d.rx.win]
           /\ c.cid = "setup" => Set(d, c).rx = [delay |-> d.rx.delay, win |-> c.arg]
           /\ c.cid \notin {"timing", "setup"} => Set(d, c).rx = d.rx
<1>1. /\ d = [joined |-> d.joined, rx |-> d.rx, plan |-> d.plan, dr |-> d.dr]
      /\ d.rx = [delay |-> d.rx.delay, win |-> d.rx.win]
    BY DEF Layers, Windows
<1>2. ASSUME NEW v, c = Timing(v), v \in {1, 5}
      PROVE  Set(d, c) = [joined |-> d.joined, rx |-> [delay |-> v, win |-> d.rx.win],
                          plan |-> d.plan, dr |-> d.dr] /\ c.cid = "timing" /\ c.arg = v
    BY <1>1, <1>2 DEF Set, Timing
<1>3. ASSUME NEW w, c = Setup(w), w \in {"default", "moved", Odd}
      PROVE  Set(d, c) = [joined |-> d.joined, rx |-> [delay |-> d.rx.delay, win |-> w],
                          plan |-> d.plan, dr |-> d.dr] /\ c.cid = "setup" /\ c.arg = w
    BY <1>1, <1>3 DEF Set, Setup
<1>4. ASSUME NEW b, NEW r \in {0, 3, 15}, c = Adr(b, r), b \in Blocks \cup {"none"}
      PROVE  Set(d, c) = [joined |-> d.joined, rx |-> d.rx,
                          plan |-> NewPlan(d, c), dr |-> IF r = 15 THEN d.dr ELSE r] /\ c.cid = "adr"
    BY <1>1, <1>4 DEF Set, Adr
<1>5. c.arg \in Blocks \/ c.arg = "none" => NewPlan(d, c) \subseteq Blocks
    BY DEF NewPlan, Layers
<1>6. CASE \E v \in {1, 5} : c = Timing(v)
    BY <1>2, <1>6 DEF Layers, Windows
<1>7. CASE \E w \in {"default", "moved", Odd} : c = Setup(w)
    BY <1>3, <1>7 DEF Layers, Windows
<1>8. ASSUME NEW b \in Blocks \cup {"none"}, NEW r \in {0, 3, 15}, c = Adr(b, r)
      PROVE  Set(d, c) \in Layers /\ Set(d, c).rx = d.rx /\ c.cid = "adr"
    <2>1. NewPlan(d, c) \subseteq Blocks
        BY <1>5, <1>8 DEF Adr
    <2>. QED  BY <1>4, <1>8, <2>1 DEF Layers
<1>. QED  BY <1>6, <1>7, <1>8 DEF Commands

\* Layers with the same windows have the same windows after a command.
LEMMA SetSameWindows ==
    ASSUME NEW d \in Layers, NEW e \in Layers, d.rx = e.rx, NEW c \in Commands
    PROVE  Set(d, c).rx = Set(e, c).rx
<1>1. /\ c.cid = "timing" => Set(d, c).rx = [delay |-> c.arg, win |-> d.rx.win]
      /\ c.cid = "setup" => Set(d, c).rx = [delay |-> d.rx.delay, win |-> c.arg]
      /\ c.cid \notin {"timing", "setup"} => Set(d, c).rx = d.rx
    BY SetKeepsShape
<1>2. /\ c.cid = "timing" => Set(e, c).rx = [delay |-> c.arg, win |-> e.rx.win]
      /\ c.cid = "setup" => Set(e, c).rx = [delay |-> e.rx.delay, win |-> c.arg]
      /\ c.cid \notin {"timing", "setup"} => Set(e, c).rx = e.rx
    BY SetKeepsShape
<1>3. CASE c.cid = "timing"
    BY <1>1, <1>2, <1>3
<1>4. CASE c.cid = "setup"
    BY <1>1, <1>2, <1>4
<1>5. CASE c.cid \notin {"timing", "setup"}
    BY <1>1, <1>2, <1>5
<1>. QED  BY <1>3, <1>4, <1>5

\* The requests: one command, or the block of two.
LEMMA RequestShape ==
    ASSUME NEW r \in Requests
    PROVE  \/ \E c \in Commands : r = <<c>>
           \/ \E x, y \in Commands : r = <<x, y>> /\ x.cid = "adr" /\ y.cid = "adr"
BY DEF Requests, Commands, Adr

\* The answer to a command.
Reply(d, c) == [cmd |-> c, ok |-> Accepted(d, c)]

\* An answer is queued or dropped.
LEMMA QueuedOrDropped ==
    ASSUME NEW f \in Seq(Answers), NEW a \in Answers
    PROVE  Queued(f, a) \in Seq(Answers) /\ Queued(f, a) \in {f, Append(f, a)}
BY DEF Queued

\* The first answer fits.
LEMMA FirstAnswerFits == ASSUME NEW a \in Answers PROVE Queued(<<>>, a) = <<a>>
<1>1. DOMAIN <<>> = {}
    OBVIOUS
<1>2. Bytes(<<>>) = 0
    BY <1>1 DEF Bytes, FoldLeft, MapThenFoldSet
<1>3. AnswerLen(a) \in {1, 2}
    BY DEF AnswerLen
<1>. QED  BY <1>2, <1>3 DEF Queued, MaxFOpts

\* One command is answered, and set if it is accepted.
LEMMA RepliedStep ==
    ASSUME NEW d \in Layers, NEW f \in Seq(Answers), NEW c \in Commands
    PROVE  /\ Replied([dev |-> d, fopts |-> f], c)
                 = [dev |-> Applied(d, c), fopts |-> Queued(f, Reply(d, c))]
           /\ Applied(d, c) \in Layers /\ Reply(d, c) \in Answers
           /\ c.cid \notin {"timing", "setup"} => Applied(d, c).rx = d.rx
<1>1. Accepted(d, c) \in BOOLEAN
    BY DEF Accepted
<1>2. /\ Applied(d, c) \in Layers
      /\ c.cid \notin {"timing", "setup"} => Applied(d, c).rx = d.rx
    BY SetKeepsShape DEF Applied
<1>3. Replied([dev |-> d, fopts |-> f], c)
          = [dev |-> Applied(d, c), fopts |-> Queued(f, Reply(d, c))]
    BY DEF Replied, Reply
<1>. QED  BY <1>1, <1>2, <1>3 DEF Reply, Answers

\* What a request brings about: if an answer moves the windows it is the only
\* one, and positive, and they have moved; if none does they have not.
Obeyed(d, r, h) ==
    /\ h.dev \in Layers /\ h.fopts \in Seq(Answers)
    /\ \/ /\ ~Moving(h.fopts) /\ h.dev.rx = d.rx
       \/ \E c \in Commands : /\ c.cid \in {"timing", "setup"} /\ r = <<c>>
                             /\ h.fopts = <<[cmd |-> c, ok |-> TRUE]>>
                             /\ h.dev.rx = Set(d, c).rx

\* No answer to another command moves the windows.
LEMMA OthersStay ==
    ASSUME NEW f, \A i \in DOMAIN f : f[i].cmd.cid \notin {"timing", "setup"}
    PROVE  ~Moving(f)
BY DEF Moving

\* No request, no answer.
LEMMA HandledNone == ASSUME NEW d \in Layers PROVE Obeyed(d, <<>>, Handled(d, <<>>))
<1>1. DOMAIN <<>> = {}
    OBVIOUS
<1>2. Handled(d, <<>>) = [dev |-> d, fopts |-> <<>>]
    BY <1>1 DEF Handled, FoldLeft, MapThenFoldSet
<1>3. <<>> \in Seq(Answers) /\ ~Moving(<<>>)
    BY <1>1 DEF Moving
<1>4. Handled(d, <<>>).dev = d /\ Handled(d, <<>>).fopts = <<>>
    BY <1>2
<1>. QED  BY <1>3, <1>4 DEF Obeyed

\* One command is obeyed, or refused without a trace.
LEMMA HandledSingle ==
    ASSUME NEW d \in Layers, NEW c \in Commands
    PROVE  Obeyed(d, <<c>>, Handled(d, <<c>>))
<1>1. <<>> \in Seq(Answers)
    OBVIOUS
<1>2. Handled(d, <<c>>) = Replied([dev |-> d, fopts |-> <<>>], c)
    BY HandledOne
<1>3. /\ Handled(d, <<c>>) = [dev |-> Applied(d, c), fopts |-> Queued(<<>>, Reply(d, c))]
      /\ Applied(d, c) \in Layers /\ Reply(d, c) \in Answers
      /\ c.cid \notin {"timing", "setup"} => Applied(d, c).rx = d.rx
    BY <1>1, <1>2, RepliedStep
<1>4. Handled(d, <<c>>).dev = Applied(d, c) /\ Handled(d, <<c>>).fopts = <<Reply(d, c)>>
    BY <1>3, FirstAnswerFits
<1>5. <<Reply(d, c)>> \in Seq(Answers)
    BY <1>3
<1>6. CASE Accepted(d, c) /\ c.cid \in {"timing", "setup"}
    <2>1. Applied(d, c) = Set(d, c) /\ Reply(d, c) = [cmd |-> c, ok |-> TRUE]
        BY <1>6 DEF Applied, Reply
    <2>2. /\ Handled(d, <<c>>).dev \in Layers /\ Handled(d, <<c>>).fopts \in Seq(Answers)
          /\ Handled(d, <<c>>).fopts = <<[cmd |-> c, ok |-> TRUE]>>
          /\ Handled(d, <<c>>).dev.rx = Set(d, c).rx
        BY <1>3, <1>4, <1>5, <2>1
    <2>. QED  BY <1>6, <2>2 DEF Obeyed
<1>7. CASE ~Accepted(d, c) \/ c.cid \notin {"timing", "setup"}
    <2>1. Applied(d, c).rx = d.rx
        BY <1>3, <1>7 DEF Applied
    <2>2. \A i \in DOMAIN <<Reply(d, c)>> : <<Reply(d, c)>>[i] = Reply(d, c)
        OBVIOUS
    <2>3. ~(Reply(d, c).ok /\ Reply(d, c).cmd.cid \in {"timing", "setup"})
        BY <1>7 DEF Reply
    <2>4. ~Moving(<<Reply(d, c)>>)
        BY <2>2, <2>3 DEF Moving
    <2>5. /\ Handled(d, <<c>>).dev \in Layers /\ Handled(d, <<c>>).fopts \in Seq(Answers)
          /\ ~Moving(Handled(d, <<c>>).fopts) /\ Handled(d, <<c>>).dev.rx = d.rx
        BY <1>3, <1>4, <1>5, <2>1, <2>4
    <2>. QED  BY <2>5 DEF Obeyed
<1>. QED  BY <1>6, <1>7

\* A block of two sets channels and data rate, never the windows.
LEMMA HandledBlock ==
    ASSUME NEW d \in Layers, NEW x \in Commands, NEW y \in Commands,
           x.cid = "adr", y.cid = "adr"
    PROVE  Obeyed(d, <<x, y>>, Handled(d, <<x, y>>))
<1>. DEFINE e == Applied(d, x)
            f == Queued(<<>>, Reply(d, x))
            g == Queued(f, Reply(e, y))
<1>1. <<>> \in Seq(Answers)
    OBVIOUS
<1>2. /\ Replied([dev |-> d, fopts |-> <<>>], x) = [dev |-> e, fopts |-> f]
      /\ e \in Layers /\ Reply(d, x) \in Answers /\ e.rx = d.rx
    BY <1>1, RepliedStep
<1>3. f = <<Reply(d, x)>> /\ f \in Seq(Answers)
    <2>1. Reply(d, x) \in Answers
        BY <1>2
    <2>2. Queued(<<>>, Reply(d, x)) = <<Reply(d, x)>>
        BY <2>1, FirstAnswerFits
    <2>3. <<Reply(d, x)>> \in Seq(Answers)
        BY <2>1
    <2>. HIDE DEF e, g
    <2>. QED  BY ONLY <2>2, <2>3 DEF f
<1>4. Handled(d, <<x, y>>) = Replied([dev |-> e, fopts |-> f], y)
    BY <1>2, HandledTwo
<1>. HIDE DEF e, f
<1>5. /\ Handled(d, <<x, y>>) = [dev |-> Applied(e, y), fopts |-> g]
      /\ Applied(e, y) \in Layers /\ Reply(e, y) \in Answers /\ Applied(e, y).rx = e.rx
    BY <1>2, <1>3, <1>4, RepliedStep
<1>6. g \in Seq(Answers) /\ g \in {f, Append(f, Reply(e, y))}
    BY <1>3, <1>5, QueuedOrDropped
<1>. HIDE DEF g
<1>7. \A i \in DOMAIN g : g[i] \in {Reply(d, x), Reply(e, y)}
    BY <1>2, <1>3, <1>5, <1>6
<1>8. \A i \in DOMAIN g : g[i].cmd.cid \notin {"timing", "setup"}
    BY <1>7 DEF Reply
<1>. QED  BY <1>2, <1>5, <1>6, <1>8, OthersStay DEF Obeyed

\* A request is obeyed, or refused without a trace.
LEMMA HandledRequest ==
    ASSUME NEW d \in Layers, NEW r \in Requests \cup {<<>>}
    PROVE  Obeyed(d, r, Handled(d, r))
BY RequestShape, HandledNone, HandledSingle, HandledBlock

\* A grant leaves a layer, and moves the windows only if the request asks it to.
LEMMA GrantedRequest ==
    ASSUME NEW d \in Layers, NEW r \in Requests
    PROVE  /\ Granted(d, r) \in Layers
           /\ \A c \in Commands : r = <<c>> => Granted(d, r) = Set(d, c)
           /\ (\A c \in Commands : r = <<c>> => c.cid \notin {"timing", "setup"})
                   => Granted(d, r).rx = d.rx
<1>1. ASSUME NEW c \in Commands, r = <<c>>
      PROVE  /\ Granted(d, r) = Set(d, c) /\ Set(d, c) \in Layers
             /\ c.cid \notin {"timing", "setup"} => Granted(d, r).rx = d.rx
    <2>1. Granted(d, r) = Set(d, c)
        BY <1>1, GrantedOne
    <2>. QED  BY <2>1, SetKeepsShape
<1>2. ASSUME NEW x \in Commands, NEW y \in Commands, r = <<x, y>>, x.cid = "adr", y.cid = "adr"
      PROVE  Granted(d, r) \in Layers /\ Granted(d, r).rx = d.rx
    <2>1. Granted(d, r) = Set(Set(d, x), y)
        BY <1>2, GrantedTwo
    <2>2. Set(d, x) \in Layers /\ Set(d, x).rx = d.rx
        BY <1>2, SetKeepsShape
    <2>3. ASSUME NEW e \in Layers PROVE Set(e, y) \in Layers /\ Set(e, y).rx = e.rx
        BY <1>2, SetKeepsShape
    <2>. QED  BY <2>1, <2>2, <2>3
<1>3. ASSUME NEW x, NEW y, NEW c, r = <<x, y>> PROVE r # <<c>>
    BY <1>3
<1>. QED  BY <1>1, <1>2, <1>3, RequestShape

\* The answers on their way are the pending ones, or those and the link check.
LEMMA OutgoingShape ==
    ASSUME fopts \in Seq(Answers)
    PROVE  /\ Outgoing \in Seq(Answers)
           /\ \E a \in Answers : a.cmd = Check /\ Outgoing \in {fopts, Append(fopts, a)}
<1>. DEFINE a == [cmd |-> Check, ok |-> TRUE]
<1>1. a \in Answers /\ a.cmd = Check
    BY DEF Answers
<1>. HIDE DEF a
<1>2. Queued(fopts, a) \in Seq(Answers) /\ Queued(fopts, a) \in {fopts, Append(fopts, a)}
    BY <1>1, QueuedOrDropped
<1>. QED  BY <1>1, <1>2 DEF Outgoing, a

\* A link check in the queue changes nothing for the windows.
LEMMA CheckMovesNothing ==
    ASSUME NEW f \in Seq(Answers), NEW a \in Answers, a.cmd = Check,
           NEW g \in {f, Append(f, a)}
    PROVE  /\ Moving(g) <=> Moving(f)
           /\ \A s, rx : Promised(f, s, rx) => Promised(g, s, rx)
<1>1. Check.cid \notin {"timing", "setup"}
    BY DEF Check
<1>2. CASE g = f
    BY <1>2
<1>3. CASE g = Append(f, a)
    <2>1. /\ DOMAIN g = DOMAIN f \cup {Len(f) + 1} /\ g[Len(f) + 1] = a
          /\ \A i \in DOMAIN f : g[i] = f[i]
        BY <1>3
    <2>2. Moving(g) <=> Moving(f)
        BY <1>1, <2>1 DEF Moving
    <2>3. ASSUME NEW s, NEW rx, Promised(f, s, rx) PROVE Promised(g, s, rx)
        <3>1. PICK c \in Commands :
                  /\ c.cid \in {"timing", "setup"} /\ s.open = <<c>>
                  /\ \E i \in DOMAIN f : f[i].cmd = c
                  /\ \A i \in DOMAIN f : f[i].cmd = c => f[i].ok
                  /\ rx = Set(s.set, c).rx
            BY <2>3 DEF Promised
        <3>2. c # Check
            BY <1>1, <3>1
        <3>3. \E i \in DOMAIN g : g[i].cmd = c
            BY <2>1, <3>1
        <3>4. \A i \in DOMAIN g : g[i].cmd = c => g[i].ok
            BY <2>1, <3>1, <3>2
        <3>. QED  BY <3>1, <3>3, <3>4 DEF Promised
    <2>. QED  BY <2>2, <2>3
<1>. QED  BY <1>2, <1>3

\* What the server makes of the answers it hears.
Servers == [set : Layers, open : Requests \cup {<<>>}]

\* The server stays in a state of its own whatever answers it hears.
LEMMA HeardShape ==
    ASSUME NEW s \in Servers, NEW f \in Seq(Answers)
    PROVE  Heard(s, f) \in Servers
<1>1. CASE s.open = <<>>
    <2>1. Range(s.open) = {}
        BY <1>1 DEF Range
    <2>. QED  BY <2>1 DEF Heard
<1>2. CASE s.open \in Requests
    <2>1. Granted(s.set, s.open) \in Layers
        BY <1>2, GrantedRequest DEF Servers
    <2>. QED  BY <2>1 DEF Heard, Servers
<1>. QED  BY <1>1, <1>2 DEF Servers

\* If device and server were in step, they use the same windows once it has heard.
LEMMA HeardInStep ==
    ASSUME NEW s \in Servers, NEW f \in Seq(Answers), NEW rx, Together(f, s, rx)
    PROVE  rx = Heard(s, f).set.rx
<1>. DEFINE A == {a \in Range(f) : a.cmd \in Range(s.open)}
<1>1. CASE ~Moving(f)
    <2>1. rx = s.set.rx
        BY <1>1 DEF Together
    <2>2. CASE A = {} \/ ~(\A a \in A : a.ok)
        BY <2>1, <2>2 DEF Heard
    <2>3. CASE A # {} /\ \A a \in A : a.ok
        <3>1. s.open \in Requests
            <4>1. s.open # <<>>
                BY <2>3 DEF Range
            <4>. QED  BY <4>1 DEF Servers
        <3>2. ASSUME NEW c \in Commands, s.open = <<c>>
              PROVE  c.cid \notin {"timing", "setup"}
            <4>1. Range(s.open) = {c}
                BY <3>2 DEF Range
            <4>2. PICK i \in DOMAIN f : f[i].cmd = c /\ f[i].ok
                BY <2>3, <4>1 DEF Range
            <4>. QED  BY <1>1, <4>2 DEF Moving
        <3>3. Granted(s.set, s.open).rx = s.set.rx
            BY <3>1, <3>2, GrantedRequest DEF Servers
        <3>. QED  BY <2>1, <2>3, <3>3 DEF Heard
    <2>. QED  BY <2>2, <2>3
<1>2. CASE Moving(f)
    <2>1. PICK c \in Commands :
              /\ c.cid \in {"timing", "setup"} /\ s.open = <<c>>
              /\ \E i \in DOMAIN f : f[i].cmd = c
              /\ \A i \in DOMAIN f : f[i].cmd = c => f[i].ok
              /\ rx = Set(s.set, c).rx
        BY <1>2 DEF Together, Promised
    <2>2. Range(s.open) = {c}
        BY <2>1 DEF Range
    <2>3. A # {} /\ \A a \in A : a.ok
        BY <2>1, <2>2 DEF Range
    <2>4. s.open \in Requests
        BY <2>1 DEF Servers
    <2>5. Granted(s.set, s.open) = Set(s.set, c)
        BY <2>1, <2>4, GrantedRequest DEF Servers
    <2>. QED  BY <2>1, <2>3, <2>5 DEF Heard
<1>. QED  BY <1>1, <1>2

(***************************************************************************)
(* The steps.                                                              *)
(***************************************************************************)
\* The values of the regional defaults.
LEMMA DefaultShape == Default \in Windows /\ Rx \subseteq Windows
BY DEF Default, Windows, Rx

\* No pending answer moves anything.
LEMMA NothingPending == <<>> \in Seq(Answers) /\ ~Moving(<<>>)
<1>1. DOMAIN <<>> = {}
    OBVIOUS
<1>. QED  BY <1>1 DEF Moving

\* It holds at the start.
LEMMA MacStart == MacInit => MacInv
<1>. SUFFICES ASSUME MacInit PROVE MacInv
    OBVIOUS
<1>1. dev \in Layers /\ ~dev.joined
    BY DefaultShape, MacAssumption DEF MacInit, Layers
<1>. QED  BY <1>1, NothingPending DEF MacInit, MacInv, MacShape

\* A join starts both sides with the windows of the JoinAccept.
LEMMA MacJoin == MacInv /\ Joins => MacInv'
<1>. SUFFICES ASSUME MacInv, NEW rx \in Rx, NEW plan \in SUBSET Blocks, JoinHeard(rx, plan)
              PROVE  MacInv'
    BY DEF Joins
<1>1. dev' = NewSession(rx, IF plan = {} THEN {SubBand} ELSE plan, dev.dr) /\ dev' \in Layers
    BY DefaultShape, MacAssumption DEF JoinHeard, NewSession, MacInv, MacShape, Layers
<1>2. saved' = dev' /\ fopts' = <<>> /\ server' = [set |-> dev', open |-> <<>>]
    BY DEF JoinHeard, Stores
<1>3. MacShape'
    BY <1>1, <1>2, NothingPending DEF MacShape
<1>4. Together(fopts', server', dev'.rx)
    BY <1>2, NothingPending DEF Together
<1>. QED  BY <1>3, <1>4 DEF MacInv

\* A session that is given up promises nothing.
LEMMA MacGivesUp == MacInv /\ LinkGivenUp => MacInv'
<1>. SUFFICES ASSUME MacInv, LinkGivenUp PROVE MacInv'
    OBVIOUS
<1>1. dev' = Forgotten(dev) /\ dev' \in Layers /\ ~dev'.joined
    BY DefaultShape, MacAssumption DEF LinkGivenUp, Forgotten, MacInv, MacShape, Layers
<1>2. saved' = dev' /\ fopts' = <<>> /\ server' = server
    BY DEF LinkGivenUp, Stores
<1>. QED  BY <1>1, <1>2, NothingPending DEF MacInv, MacShape

\* A refused uplink keeps its answers, and may add a link check to them.
LEMMA MacRefused == MacInv /\ Refused => MacInv'
<1>. SUFFICES ASSUME MacInv, Refused PROVE MacInv'
    OBVIOUS
<1>1. fopts' = Outgoing /\ UNCHANGED <<dev, saved, server, mislaid>>
    BY DEF Refused
<1>2. PICK a \in Answers : a.cmd = Check /\ Outgoing \in {fopts, Append(fopts, a)}
    BY OutgoingShape DEF MacInv, MacShape
<1>3. Outgoing \in Seq(Answers)
    BY OutgoingShape DEF MacInv, MacShape
<1>4. MacShape'
    BY <1>1, <1>3 DEF MacInv, MacShape
<1>5. Together(fopts, server, dev.rx) => Together(Outgoing, server, dev.rx)
    BY <1>2, CheckMovesNothing DEF MacInv, MacShape, Together
<1>. QED  BY <1>1, <1>4, <1>5 DEF MacInv

\* An uplink: the server hears the answers or they are mislaid, and a request
\* that comes down is obeyed or refused.
LEMMA MacUplink ==
    ASSUME MacInv, NEW heard \in BOOLEAN, NEW answers \in BOOLEAN,
           NEW ask \in Requests \cup {<<>>}, Uplinked(heard, ask, answers)
    PROVE  MacInv'
<1>. DEFINE s == IF heard THEN Heard(server, Outgoing) ELSE server
            t == IF heard /\ s.open = <<>> THEN [s EXCEPT !.open = ask] ELSE s
            got == heard /\ answers /\ dev.rx = s.set.rx
            h == Handled(dev, t.open)
<1>1. /\ dev.joined /\ server' = t /\ dev' = (IF got THEN h.dev ELSE dev) /\ saved' = dev'
      /\ fopts' = (IF got THEN h.fopts ELSE <<>>)
      /\ mislaid' = (mislaid \/ (~heard /\ Moving(Outgoing)))
    BY DEF Uplinked, Stores
<1>2. dev \in Layers /\ server \in Servers /\ fopts \in Seq(Answers)
    BY DEF MacInv, MacShape, Servers
<1>3. PICK a \in Answers : a.cmd = Check /\ Outgoing \in {fopts, Append(fopts, a)}
    BY <1>2, OutgoingShape
<1>4. Outgoing \in Seq(Answers)
    BY <1>2, OutgoingShape
<1>5. Moving(Outgoing) <=> Moving(fopts)
    BY <1>2, <1>3, CheckMovesNothing
<1>6. ~mislaid => Together(Outgoing, server, dev.rx)
    BY <1>1, <1>2, <1>3, <1>5, CheckMovesNothing DEF MacInv, Together
<1>7. s \in Servers
    BY <1>2, <1>4, HeardShape
<1>8. ~mislaid' => dev.rx = s.set.rx
    <2>1. CASE heard
        BY <1>1, <1>2, <1>4, <1>6, <2>1, HeardInStep
    <2>2. CASE ~heard
        BY <1>1, <1>6, <2>2 DEF Together
    <2>. QED  BY <2>1, <2>2
<1>. HIDE DEF s
<1>9. t \in Servers /\ t.set = s.set
    BY <1>7 DEF Servers
<1>. HIDE DEF t
<1>10. Obeyed(dev, t.open, h)
    BY <1>2, <1>9, HandledRequest DEF Servers
<1>. HIDE DEF h
<1>11. CASE got
    <2>1. dev' = h.dev /\ fopts' = h.fopts /\ dev.rx = t.set.rx
        BY <1>1, <1>9, <1>11
    <2>2. MacShape'
        BY <1>1, <1>9, <1>10, <2>1 DEF MacShape, Servers, Obeyed
    <2>3. CASE ~Moving(h.fopts) /\ h.dev.rx = dev.rx
        BY <1>1, <2>1, <2>2, <2>3 DEF MacInv, Together
    <2>4. ASSUME NEW c \in Commands, c.cid \in {"timing", "setup"}, t.open = <<c>>,
                 h.fopts = <<[cmd |-> c, ok |-> TRUE]>>, h.dev.rx = Set(dev, c).rx
          PROVE  MacInv'
        <3>1. Set(dev, c).rx = Set(t.set, c).rx
            BY <1>2, <1>9, <2>1, SetSameWindows DEF Servers
        <3>2. DOMAIN h.fopts = {1} /\ h.fopts[1].cmd = c /\ h.fopts[1].ok
            BY <2>4
        <3>3. Promised(h.fopts, t, h.dev.rx) /\ Moving(h.fopts)
            BY <2>4, <3>1, <3>2 DEF Promised, Moving
        <3>. QED  BY <1>1, <2>1, <2>2, <3>3 DEF MacInv, Together
    <2>. QED  BY <1>10, <2>3, <2>4 DEF Obeyed
<1>12. CASE ~got
    <2>1. dev' = dev /\ fopts' = <<>>
        BY <1>1, <1>12
    <2>2. MacShape'
        BY <1>1, <1>2, <1>9, <2>1, NothingPending DEF MacShape, Servers
    <2>. QED  BY <1>1, <1>8, <1>9, <2>1, <2>2, NothingPending DEF MacInv, Together
<1>. QED  BY <1>11, <1>12

\* A reboot takes the stored layer; a moving answer that dies with it is mislaid.
LEMMA MacReboot == MacInv /\ Reboot => MacInv'
<1>. SUFFICES ASSUME MacInv, Reboot PROVE MacInv'
    OBVIOUS
<1>1. /\ dev' = dev /\ saved' = saved /\ server' = server /\ fopts' = <<>>
      /\ mislaid' = (mislaid \/ Moving(fopts))
    BY DEF Reboot, MacInv, MacShape
<1>2. MacShape'
    BY <1>1, NothingPending DEF MacInv, MacShape
<1>. QED  BY <1>1, <1>2, NothingPending DEF MacInv, Together

\* Device and server use the same receive windows, or the answer that tells the
\* server is still to be sent, unless such an answer was lost: whatever requests
\* come, and however many uplinks, joins and reboots there are
\* (lorawan.py, _handle_mac_commands, _process_downlink, send_uplink).
THEOREM DeviceAndServerKeepStep == MacSpec => []InStep
<1>1. MacInv /\ [MacNext]_macLayerVars => MacInv'
    <2>. SUFFICES ASSUME MacInv, [MacNext]_macLayerVars PROVE MacInv'
        OBVIOUS
    <2>1. CASE Joins
        BY <2>1, MacJoin
    <2>2. CASE WorkerSteps
        BY <2>2, MacGivesUp, MacRefused, MacUplink DEF WorkerSteps
    <2>3. CASE Reboot
        BY <2>3, MacReboot
    <2>4. CASE UNCHANGED macLayerVars
        BY <2>4 DEF macLayerVars, MacInv, MacShape, Together, Promised, Moving
    <2>. QED  BY <2>1, <2>2, <2>3, <2>4 DEF MacNext
<1>2. MacInv => InStep
    BY DEF MacInv, Together, InStep, InWindows
<1>. QED  BY MacStart, <1>1, <1>2, PTL DEF MacSpec

(***************************************************************************)
(* The publishers.                                                         *)
(***************************************************************************)
ClientShape ==
    /\ ha = [conn |-> ha.conn, up |-> ha.up, announced |-> ha.announced, failed |-> ha.failed]
    /\ broker = [avail |-> broker.avail, shown |-> broker.shown]

GhostInv == ClientShape /\ NoGhost

\* A client that is stopped to be started again leaves `offline` behind.
LEMMA ConfigureLeavesNoGhost ==
    ASSUME GhostInv, NEW starts \in BOOLEAN
    PROVE  LET c == HaConfigure(starts)
           IN  /\ c.broker.avail = "online" => c.client.up
               /\ c.client = [conn |-> c.client.conn, up |-> c.client.up,
                              announced |-> c.client.announced, failed |-> c.client.failed]
               /\ c.broker = [avail |-> c.broker.avail, shown |-> c.broker.shown]
<1>. DEFINE c == HaConfigure(starts)
<1>1. CASE mqtt = Off
    <2>1. c = [client |-> NoClient, broker |-> Stopped(broker, ha)]  BY <1>1 DEF HaConfigure
    <2>. QED  BY <2>1 DEF GhostInv, ClientShape, NoGhost, NoClient, Client, Stopped
<1>2. CASE mqtt # Off /\ c = [client |-> ha, broker |-> broker]
    BY <1>2 DEF GhostInv, ClientShape, NoGhost
<1>3. CASE mqtt # Off /\ c = [client |-> IF starts THEN Client(mqtt, FALSE) ELSE Client(Off, TRUE),
                              broker |-> Stopped(broker, ha)]
    <2>1. PICK w, f : c = [client |-> [conn |-> w, up |-> FALSE, announced |-> FALSE, failed |-> f],
                           broker |-> Stopped(broker, ha)]
        BY <1>3 DEF Client
    <2>2. Stopped(broker, ha).avail # "online"  BY DEF GhostInv, ClientShape, NoGhost, Stopped
    <2>3. Stopped(broker, ha) = [avail |-> Stopped(broker, ha).avail, shown |-> Stopped(broker, ha).shown]
        BY DEF GhostInv, ClientShape, Stopped
    <2>. QED  BY <2>1, <2>2, <2>3
<1>. QED  BY <1>1, <1>2, <1>3 DEF HaConfigure

\* Cycles and reloads, the network thread and the end of the process.
LEMMA GhostStep == GhostInv /\ [Next]_vars => GhostInv'
<1>. SUFFICES ASSUME GhostInv, [Next]_vars PROVE GhostInv'
    OBVIOUS
<1>0. \A s \in Starts : s \in BOOLEAN  BY DEF Starts
<1>1. ASSUME NEW late \in Late, NEW outcome \in Outcome, NEW others \in BOOLEAN, NEW starts \in Starts,
             Cycle(late, outcome, others, starts)
      PROVE  GhostInv'
    <2>1. PICK v, s : Publish(starts, v, s)  BY <1>1 DEF Cycle
    <2>. DEFINE c == HaConfigure(starts)
                p == HaPush(c.client, c.broker, v, s)
    <2>2. ha' = p.client /\ broker' = p.broker  BY <2>1 DEF Publish
    <2>3. /\ c.broker.avail = "online" => c.client.up
          /\ c.client = [conn |-> c.client.conn, up |-> c.client.up,
                         announced |-> c.client.announced, failed |-> c.client.failed]
          /\ c.broker = [avail |-> c.broker.avail, shown |-> c.broker.shown]
        BY <1>0, ConfigureLeavesNoGhost
    <2>. HIDE DEF c
    <2>4. CASE ~c.client.up
        <3>1. ha' = c.client /\ broker' = c.broker  BY <2>2, <2>4 DEF HaPush
        <3>. QED  BY <2>3, <3>1 DEF GhostInv, ClientShape, NoGhost
    <2>5. CASE c.client.up
        <3>1. ha' = [c.client EXCEPT !.announced = TRUE]  BY <2>2, <2>5 DEF HaPush
        <3>2. broker' = [avail |-> broker'.avail, shown |-> broker'.shown]  BY <2>2, <2>5 DEF HaPush
        <3>. QED  BY <2>3, <2>5, <3>1, <3>2 DEF GhostInv, ClientShape, NoGhost
    <2>. QED  BY <2>4, <2>5
<1>2. CASE Restart
    BY <1>2 DEF Restart, PublishersEnd, GhostInv, ClientShape, NoGhost, Stopped, NoClient, Client
<1>3. ASSUME NEW starts \in Starts, Reconfigure(starts) PROVE GhostInv'
    <2>1. ha' = HaConfigure(starts).client /\ broker' = HaConfigure(starts).broker
        BY <1>3 DEF Reconfigure
    <2>. QED  BY <1>0, <2>1, ConfigureLeavesNoGhost DEF GhostInv, ClientShape, NoGhost
<1>4. ASSUME NEW m, NEW k, Save(m, k) PROVE GhostInv'
    BY <1>4 DEF Save, GhostInv, ClientShape, NoGhost
<1>5. CASE Connected  BY <1>5 DEF Connected, GhostInv, ClientShape, NoGhost
<1>6. CASE Disconnected  BY <1>6 DEF Disconnected, GhostInv, ClientShape, NoGhost
<1>7. CASE UNCHANGED vars  BY <1>7 DEF vars, pubVars, GhostInv, ClientShape, NoGhost
<1>. QED  BY <1>1, <1>2, <1>3, <1>4, <1>5, <1>6, <1>7 DEF Next

\* Nothing retained on the broker says online for a unit that is not connected:
\* neither after a reload, a failed start, a cut link nor the end of the process
\* (home_assistant/publisher.py, configure, stop and the will).
THEOREM GhostFree == Spec => []NoGhost
<1>1. Init => GhostInv
    BY DEF Init, PubInit, GhostInv, ClientShape, NoGhost, NoClient, Client
<1>2. GhostInv => NoGhost  BY DEF GhostInv
<1>. QED  BY <1>1, <1>2, GhostStep, PTL DEF Spec

(***************************************************************************)
(* The clock.                                                              *)
(***************************************************************************)
\* Whatever vouches for the clock, the clock was right when it did, and only a
\* power cut can make it wrong again.
Vouched == (ntp => right) /\ (cached = "yes" => right) /\ (agreed => right)

\* The invariant is inductive.
LEMMA VouchedStep == Vouched /\ [PosNext]_posVars => Vouched'
<1>. SUFFICES ASSUME Vouched, [PosNext]_posVars PROVE Vouched'
    OBVIOUS
<1>. USE DEF Vouched, NtpVerdict, Unread, gpsVars, clockVars
<1>1. ASSUME NEW dated \in BOOLEAN, NEW sudo \in BOOLEAN, GpsStep(dated, sudo) PROVE Vouched'
    <2>1. CASE UNCHANGED <<cached, agreed, right>>  BY <1>1, <2>1 DEF GpsStep
    <2>2. CASE Disciplined(dated, sudo)  BY <1>1, <2>2 DEF GpsStep, Disciplined
    <2>. QED  BY <1>1, <2>1, <2>2 DEF GpsStep
<1>2. CASE StampRow  BY <1>2 DEF StampRow
<1>3. CASE LabelRow  BY <1>3 DEF LabelRow
<1>4. CASE Expire  BY <1>4 DEF Expire
<1>5. CASE SkyMoves  BY <1>5 DEF SkyMoves
<1>6. CASE NtpMoves  BY <1>6 DEF NtpMoves
<1>7. CASE ServiceRestarts  BY <1>7 DEF ServiceRestarts, Forget
<1>8. CASE PowerCut  BY <1>8 DEF PowerCut, Forget
<1>9. CASE UNCHANGED posVars  BY <1>9 DEF posVars
<1>. QED  BY <1>1, <1>2, <1>3, <1>4, <1>5, <1>6, <1>7, <1>8, <1>9 DEF PosNext

\* Nothing vouches for the clock yet.
LEMMA VouchedInit == PosInit => Vouched
BY DEF PosInit, Vouched, Unread

\* A reading that says "ntp" or "gps" says it while the clock is right, though the
\* verdict is a minute and the agreement hours old (clock.py, source).
THEOREM LabelsAreHonest == PosSpec => LabelIsHonest
<1>1. Vouched /\ PosNext =>
        ((reading.pc = "stamped" /\ reading'.pc = "labelled" /\ reading'.source # "unsynced") => right)
    <2>. SUFFICES ASSUME Vouched, PosNext, reading.pc = "stamped", reading'.pc = "labelled",
                         reading'.source # "unsynced"
                  PROVE  right
        OBVIOUS
    <2>1. CASE LabelRow
        <3>1. reading' = [reading EXCEPT !.pc = "labelled",
                              !.source = CASE NtpVerdict = "yes" -> "ntp"
                                           [] NtpVerdict = "no" /\ agreed -> "gps"
                                           [] OTHER -> "unsynced"]
            BY <2>1 DEF LabelRow
        <3>2. CASE NtpVerdict = "yes"  BY <3>2 DEF NtpVerdict, Vouched, Unread
        <3>3. CASE NtpVerdict # "yes" /\ agreed  BY <3>3 DEF Vouched
        <3>4. CASE NtpVerdict # "yes" /\ ~agreed
            <4>1. reading' = [reading EXCEPT !.pc = "labelled", !.source = "unsynced"]
                BY <3>1, <3>4
            <4>. QED  BY <4>1
        <3>. QED  BY <3>2, <3>3, <3>4
    <2>2. CASE ~LabelRow
        <3>1. reading'.pc # "labelled" \/ reading' = reading
            BY <2>2 DEF PosNext, GpsStep, StampRow, Expire, SkyMoves, NtpMoves, ServiceRestarts,
                   PowerCut, Forget, NoRow, gpsVars, clockVars
        <3>. QED  BY <3>1
    <2>. QED  BY <2>1, <2>2
<1>. QED  BY <1>1, VouchedInit, VouchedStep, PTL DEF PosSpec, LabelIsHonest

\* A desynchronised toggle costs an attempt and never the fix: under open sky
\* each step of the GPS worker finds one (workers.py, GpsWorker.step).
THEOREM FixesUnderOpenSky == PosSpec => EveryStepFindsTheSky
<1>. DEFINE Receiver == awake \in BOOLEAN /\ asleep \in BOOLEAN
<1>1. Receiver /\ sky => \A dated, sudo \in BOOLEAN : GpsStep(dated, sudo) => fixes'
    BY DEF GpsStep, Attempted, Woken, Resynced, Found
<1>2. PosInit => Receiver  BY DEF PosInit
<1>3. Receiver /\ [PosNext]_posVars => Receiver'
    <2>. SUFFICES ASSUME Receiver, [PosNext]_posVars PROVE Receiver'
        OBVIOUS
    <2>1. ASSUME NEW dated \in BOOLEAN, NEW sudo \in BOOLEAN, GpsStep(dated, sudo) PROVE Receiver'
        BY <2>1 DEF GpsStep, Attempted, Woken, Resynced, Found, Slept, Cycled
    <2>2. CASE \E dated, sudo \in BOOLEAN : GpsStep(dated, sudo)  BY <2>1, <2>2
    <2>3. CASE ~\E dated, sudo \in BOOLEAN : GpsStep(dated, sudo)
        BY <2>3 DEF PosNext, posVars, gpsVars, clockVars, StampRow, LabelRow, Expire, SkyMoves, NtpMoves,
               ServiceRestarts, PowerCut, Forget
    <2>. QED  BY <2>2, <2>3
<1>. HIDE DEF Receiver
<1>. QED  BY <1>1, <1>2, <1>3, PTL DEF PosSpec, EveryStepFindsTheSky

(***************************************************************************)
(* The analog board.                                                       *)
(***************************************************************************)
\* The board goes up once in a run of the service: until then there is no pH
\* driver, from then on the sampler reads the one the application has.
BoardInv ==
    /\ adc \in {"up", "down"} /\ command \in Coef \cup {None}
    /\ drivers = [ph |-> drivers.ph, orp |-> drivers.orp]
    /\ drivers.ph = [built |-> drivers.ph.built, coef |-> drivers.ph.coef,
                     calibrated |-> drivers.ph.calibrated]
    /\ drivers.ph.built \in BOOLEAN
    /\ held.ph <=> drivers.ph.built
    /\ adc = "down" => ~drivers.ph.built /\ (asked => "ph" \in faulted)
    /\ adc = "up" => "ph" \notin faulted /\ (asked => drivers.ph.built)

\* Between a calibration and its hand-over the driver may be behind; the memory
\* is not.
CalibrationInv ==
    /\ command # None => cal = [coef |-> command, stamp |-> TRUE]
    /\ drivers.ph.built /\ command = None =>
            drivers.ph.coef = cal.coef /\ drivers.ph.calibrated = EverCalibrated(cal)

BoardCalInv == BoardInv /\ CalibrationInv

\* What a channel without a driver looks like.
LEMMA NoDriverShape ==
    /\ NoDriver = [built |-> NoDriver.built, coef |-> NoDriver.coef, calibrated |-> NoDriver.calibrated]
    /\ NoDriver.built \in BOOLEAN /\ ~NoDriver.built
BY DEF NoDriver

\* What bringing up the board gives: a pH driver if one is wanted, calibrated.
LEMMA BuiltIsCalibrated ==
    ASSUME NEW d, d = [ph |-> d.ph, orp |-> d.orp], NEW w, NEW data
    PROVE  /\ Built(d, w, data) = [ph |-> Built(d, w, data).ph, orp |-> Built(d, w, data).orp]
           /\ w.ph => Built(d, w, data).ph = [built |-> TRUE, coef |-> data.coef,
                                              calibrated |-> EverCalibrated(data)]
           /\ ~w.ph => Built(d, w, data).ph = NoDriver
<1>. DEFINE b == BuiltUncalibrated(d, w)
<1>1. b = [ph |-> IF w.ph THEN FreshDriver ELSE NoDriver, orp |-> b.orp]
    BY DEF BuiltUncalibrated
<1>2. FreshDriver.built /\ ~NoDriver.built  BY DEF FreshDriver, NoDriver
<1>. HIDE DEF b
<1>3. CASE w.ph
    <2>1. b = [ph |-> FreshDriver, orp |-> b.orp]  BY <1>1, <1>3
    <2>2. Calibrated(b, data) = [ph |-> [built |-> TRUE, coef |-> data.coef,
                                         calibrated |-> EverCalibrated(data)], orp |-> b.orp]
        BY <1>2, <2>1 DEF Calibrated
    <2>. QED  BY <1>3, <2>2 DEF Built, b
<1>4. CASE ~w.ph
    <2>1. b = [ph |-> NoDriver, orp |-> b.orp]  BY <1>1, <1>4
    <2>2. Calibrated(b, data) = b  BY <1>2, <2>1 DEF Calibrated
    <2>. QED  BY <1>4, <2>1, <2>2 DEF Built, b
<1>. QED  BY <1>3, <1>4

\* The same for a start of the service, with or without a board.
LEMMA BootedInv ==
    ASSUME NEW answers \in BOOLEAN, NEW w, NEW data, Boot(answers, w, data) PROVE BoardCalInv'
<1>. DEFINE start == [ph |-> NoDriver, orp |-> IF w.digital THEN "digital" ELSE None]
<1>1. command' = None /\ cal' = data /\ asked' = w.ph /\ held' = Synced(drivers')
    BY DEF Boot
<1>2. held'.ph <=> drivers'.ph.built  BY <1>1 DEF Synced
<1>3. CASE answers
    <2>1. adc' = "up" /\ faulted' = {} /\ drivers' = Built(start, w, data)  BY <1>3 DEF Boot, AtBoot
    <2>2. start = [ph |-> start.ph, orp |-> start.orp]  OBVIOUS
    <2>. HIDE DEF start
    <2>3. /\ drivers' = [ph |-> drivers'.ph, orp |-> drivers'.orp]
          /\ w.ph => drivers'.ph = [built |-> TRUE, coef |-> data.coef,
                                    calibrated |-> EverCalibrated(data)]
          /\ ~w.ph => drivers'.ph = NoDriver
        <3>. DEFINE b == Built(start, w, data)
        <3>1. /\ b = [ph |-> b.ph, orp |-> b.orp]
              /\ w.ph => b.ph = [built |-> TRUE, coef |-> data.coef, calibrated |-> EverCalibrated(data)]
              /\ ~w.ph => b.ph = NoDriver
            BY <2>2, BuiltIsCalibrated
        <3>2. drivers' = b
            BY <2>1
        <3>. HIDE DEF b
        <3>. QED  BY <3>1, <3>2
    <2>4. /\ drivers'.ph = [built |-> drivers'.ph.built, coef |-> drivers'.ph.coef,
                            calibrated |-> drivers'.ph.calibrated]
          /\ drivers'.ph.built \in BOOLEAN /\ (drivers'.ph.built <=> w.ph)
          /\ w.ph => /\ drivers'.ph.coef = data.coef
                     /\ drivers'.ph.calibrated = EverCalibrated(data)
        <3>1. CASE w.ph
            <4>. DEFINE p == drivers'.ph
            <4>1. p = [built |-> TRUE, coef |-> data.coef, calibrated |-> EverCalibrated(data)]
                BY <2>3, <3>1
            <4>. HIDE DEF p
            <4>2. /\ p = [built |-> p.built, coef |-> p.coef, calibrated |-> p.calibrated]
                  /\ p.built = TRUE /\ p.coef = data.coef /\ p.calibrated = EverCalibrated(data)
                BY <4>1
            <4>. QED  BY <3>1, <4>2 DEF p
        <3>2. CASE ~w.ph
            BY <2>3, <3>2, NoDriverShape
        <3>. QED  BY <3>1, <3>2
    <2>5. BoardInv'
        BY <1>1, <1>2, <2>1, <2>3, <2>4 DEF BoardInv
    <2>6. CalibrationInv'
        BY <1>1, <2>4 DEF CalibrationInv
    <2>. QED  BY <2>5, <2>6 DEF BoardCalInv
<1>4. CASE ~answers
    <2>1. adc' = "down" /\ faulted' = Faulted(w)  BY <1>4 DEF Boot
    <2>2. drivers' = [ph |-> NoDriver, orp |-> drivers'.orp]
        BY <1>4 DEF Boot, AtBoot, WithoutAdc
    <2>3. w.ph => "ph" \in Faulted(w)  BY DEF Faulted
    <2>. QED
        BY <1>1, <1>2, <2>1, <2>2, <2>3, NoDriverShape DEF BoardCalInv, BoardInv, CalibrationInv, None
<1>. QED  BY <1>3, <1>4

\* The retries of the board, the settings, the bus and the calibrations.
LEMMA BoardStep == BoardCalInv /\ [ProbeNext]_probeVars => BoardCalInv'
<1>. SUFFICES ASSUME BoardCalInv, [ProbeNext]_probeVars PROVE BoardCalInv'
    OBVIOUS
<1>1. CASE BoardMoves \/ Minute \/ WizardStamps \/ MultiStamps \/ UNCHANGED probeVars
    BY <1>1 DEF BoardMoves, Minute, WizardStamps, MultiStamps, probeVars, BoardCalInv, BoardInv,
           CalibrationInv
<1>2. CASE Retry
    <2>1. asked' = want.ph /\ command' = command /\ cal' = cal /\ want' = want /\ adc = "down"
        BY <1>2 DEF Retry
    <2>2. CASE board
        <3>1. adc' = "up" /\ faulted' = {} /\ drivers' = Built(drivers, want, cal)
              /\ held' = Synced(drivers')
            BY <1>2, <2>2 DEF Retry
        <3>2. held'.ph <=> drivers'.ph.built  BY <3>1 DEF Synced
        <3>3. drivers = [ph |-> drivers.ph, orp |-> drivers.orp]  BY DEF BoardCalInv, BoardInv
        <3>4. drivers' = [ph |-> drivers'.ph, orp |-> drivers'.orp]  BY <3>1, <3>3, BuiltIsCalibrated
        <3>5. CASE want.ph
            <4>1. drivers'.ph = [built |-> TRUE, coef |-> cal.coef, calibrated |-> EverCalibrated(cal)]
                BY <3>1, <3>3, <3>5, BuiltIsCalibrated
            <4>. QED  BY <2>1, <3>1, <3>2, <3>4, <4>1 DEF BoardCalInv, BoardInv, CalibrationInv
        <3>6. CASE ~want.ph
            <4>1. drivers'.ph = NoDriver  BY <3>1, <3>3, <3>6, BuiltIsCalibrated
            <4>. QED
                BY <2>1, <3>1, <3>2, <3>4, <3>6, <4>1 DEF BoardCalInv, BoardInv, CalibrationInv, NoDriver
        <3>. QED  BY <3>5, <3>6
    <2>3. CASE ~board
        <3>1. faulted' = Faulted(want) /\ adc' = adc /\ held' = held
              /\ drivers' = [ph |-> NoDriver, orp |-> drivers'.orp]
            BY <1>2, <2>3 DEF Retry, WithoutAdc
        <3>2. want.ph => "ph" \in Faulted(want)  BY DEF Faulted
        <3>. QED  BY <2>1, <3>1, <3>2, NoDriverShape DEF BoardCalInv, BoardInv, CalibrationInv
    <2>. QED  BY <2>2, <2>3
<1>3. ASSUME NEW w, Reload(w) PROVE BoardCalInv'
    BY <1>3 DEF Reload, BoardCalInv, BoardInv, CalibrationInv
<1>4. ASSUME NEW enabled, DigitalOrp(enabled) PROVE BoardCalInv'
    <2>1. drivers'.ph = drivers.ph /\ drivers' = [ph |-> drivers'.ph, orp |-> drivers'.orp]
        BY <1>4 DEF DigitalOrp, BoardCalInv, BoardInv
    <2>2. held'.ph <=> drivers'.ph.built  BY <1>4 DEF DigitalOrp, Synced
    <2>. QED  BY <1>4, <2>1, <2>2 DEF DigitalOrp, BoardCalInv, BoardInv, CalibrationInv
<1>5. CASE ProbesRestart
    <2>1. CASE board  BY <1>5, <2>1, BootedInv DEF ProbesRestart, Boot
    <2>2. CASE ~board
        <3>1. Boot(FALSE, want, file)  BY <1>5, <2>2 DEF ProbesRestart, Boot, AtBoot
        <3>. QED  BY <3>1, BootedInv
    <2>. QED  BY <2>1, <2>2
<1>6. ASSUME NEW c \in Coef, NEW keep, CalibratePh(c, keep), c # None PROVE BoardCalInv'
    BY <1>6 DEF CalibratePh, Saves, BoardCalInv, BoardInv, CalibrationInv
<1>7. CASE ApplyPh
    <2>1. command' = None /\ cal' = cal /\ cal = [coef |-> command, stamp |-> TRUE]
          /\ UNCHANGED <<adc, asked, faulted, held>>
        BY <1>7 DEF ApplyPh, BoardCalInv, CalibrationInv
    <2>2. CASE drivers.ph.built
        <3>1. drivers' = Calibrated(drivers, cal)  BY <1>7, <2>1, <2>2 DEF ApplyPh
        <3>2. drivers' = [ph |-> [built |-> TRUE, coef |-> cal.coef, calibrated |-> EverCalibrated(cal)],
                          orp |-> drivers.orp]
            BY <2>2, <3>1 DEF Calibrated, BoardCalInv, BoardInv
        <3>. QED  BY <2>1, <2>2, <3>2 DEF BoardCalInv, BoardInv, CalibrationInv
    <2>3. CASE ~drivers.ph.built
        <3>1. drivers' = drivers  BY <1>7, <2>3 DEF ApplyPh
        <3>. QED  BY <2>1, <2>3, <3>1 DEF BoardCalInv, BoardInv, CalibrationInv
    <2>. QED  BY <2>2, <2>3
<1>8. ASSUME NEW c \in Coef, WizardSaves(c) PROVE BoardCalInv'
    BY <1>8 DEF WizardSaves, BoardCalInv, BoardInv, CalibrationInv
<1>9. None \notin Coef  BY FactoryAssumption DEF None
<1>. QED
    BY <1>1, <1>2, <1>3, <1>4, <1>5, <1>6, <1>7, <1>8, <1>9 DEF ProbeNext

\* Every analog channel the unit was asked for is sampled with the calibration
\* in force or said to be faulted, however late the board answers (main.py,
\* _bring_up_adc, _retry_deferred_sensors and apply_analog_ph).
THEOREM ChannelsAccounted == ProbeSpec => []ChannelsAreAccountedFor
<1>1. ProbeInit => BoardCalInv
    <2>. SUFFICES ASSUME ProbeInit PROVE BoardCalInv
        OBVIOUS
    <2>. DEFINE start == [ph |-> NoDriver, orp |-> IF want.digital THEN "digital" ELSE None]
    <2>1. held.ph <=> drivers.ph.built  BY DEF ProbeInit, Synced
    <2>2. start = [ph |-> start.ph, orp |-> start.orp] /\ start.ph = NoDriver  OBVIOUS
    <2>3. CASE board
        <3>1. adc = "up" /\ faulted = {} /\ drivers = Built(start, want, file)  BY <2>3 DEF ProbeInit, AtBoot
        <3>. HIDE DEF start
        <3>2. /\ drivers = [ph |-> drivers.ph, orp |-> drivers.orp]
              /\ want.ph => drivers.ph = [built |-> TRUE, coef |-> file.coef,
                                          calibrated |-> EverCalibrated(file)]
              /\ ~want.ph => drivers.ph = NoDriver
            <4>. DEFINE b == Built(start, want, file)
            <4>1. /\ b = [ph |-> b.ph, orp |-> b.orp]
                  /\ want.ph => b.ph = [built |-> TRUE, coef |-> file.coef,
                                        calibrated |-> EverCalibrated(file)]
                  /\ ~want.ph => b.ph = NoDriver
                BY <2>2, BuiltIsCalibrated
            <4>2. drivers = b
                BY <3>1
            <4>. HIDE DEF b
            <4>. QED  BY <4>1, <4>2
        <3>3. /\ drivers.ph = [built |-> drivers.ph.built, coef |-> drivers.ph.coef,
                               calibrated |-> drivers.ph.calibrated]
              /\ drivers.ph.built \in BOOLEAN /\ (drivers.ph.built <=> want.ph)
              /\ want.ph => /\ drivers.ph.coef = file.coef
                            /\ drivers.ph.calibrated = EverCalibrated(file)
            <4>1. CASE want.ph
                <5>. DEFINE p == drivers.ph
                <5>1. p = [built |-> TRUE, coef |-> file.coef, calibrated |-> EverCalibrated(file)]
                    BY <3>2, <4>1
                <5>. HIDE DEF p
                <5>2. /\ p = [built |-> p.built, coef |-> p.coef, calibrated |-> p.calibrated]
                      /\ p.built = TRUE /\ p.coef = file.coef /\ p.calibrated = EverCalibrated(file)
                    BY <5>1
                <5>. QED  BY <4>1, <5>2 DEF p
            <4>2. CASE ~want.ph
                BY <3>2, <4>2, NoDriverShape
            <4>. QED  BY <4>1, <4>2
        <3>4. BoardInv
            BY <2>1, <3>1, <3>2, <3>3 DEF ProbeInit, BoardInv
        <3>5. CalibrationInv
            BY <3>3 DEF ProbeInit, CalibrationInv
        <3>. QED  BY <3>4, <3>5 DEF BoardCalInv
    <2>4. CASE ~board
        <3>1. adc = "down" /\ faulted = Faulted(want)  BY <2>4 DEF ProbeInit
        <3>2. drivers = [ph |-> NoDriver, orp |-> drivers.orp]  BY <2>4 DEF ProbeInit, AtBoot, WithoutAdc
        <3>3. want.ph => "ph" \in Faulted(want)  BY DEF Faulted
        <3>. QED
            BY <2>1, <3>1, <3>2, <3>3, NoDriverShape DEF ProbeInit, BoardCalInv, BoardInv, CalibrationInv, None
    <2>. QED  BY <2>3, <2>4
<1>2. BoardCalInv => ChannelsAreAccountedFor
    <2>. SUFFICES ASSUME BoardCalInv PROVE ChannelsAreAccountedFor
        OBVIOUS
    <2>1. SilentChannelSaysWhy  BY DEF BoardCalInv, BoardInv, SilentChannelSaysWhy
    <2>2. HeldProbeIsCalibrated
        BY DEF BoardCalInv, BoardInv, CalibrationInv, HeldProbeIsCalibrated, Calibrated
    <2>. QED  BY <2>1, <2>2 DEF ChannelsAreAccountedFor
<1>. QED  BY <1>1, <1>2, BoardStep, PTL DEF ProbeSpec
=============================================================================
