----------------------------- MODULE FlowMeter ------------------------------
(***************************************************************************)
(* The flow meters (sensors/flow.py).  The pulse meter's register is its    *)
(* lifetime count of edges: counted by a callback of lgpio, kept in the      *)
(* database at every sample and restored at start (main.py).  The clamp-on   *)
(* meter keeps its own register; the driver scales it by a unit it reads     *)
(* once.                                                                    *)
(***************************************************************************)
EXTENDS Naturals

CONSTANTS
    MaxEdges,       \* bound: edges of the turbine
    MaxCuts,        \* bound: power cuts and restarts
    NoCount         \* no read before

ASSUME FlowAssumption == MaxEdges \in Nat /\ MaxCuts \in Nat /\ NoCount \notin Nat

VARIABLES
    edges,          \* edges of the turbine so far
    count,          \* _count of the running driver
    lastRead,       \* what the driver read last, NoCount before its first read
    kept,           \* flow_pulse_count in the database
    meterPc,        \* off, run, persist and report: inside one sample
    sample,         \* the count the sample took, its rate, whether it was kept
    register,       \* the total of the latest row
    rate,           \* the rate of the latest row, NoCount without one
    lost,           \* the database refused the count of the latest row (history)
    cuts,           \* power cuts so far
    unit,           \* the unit register of the clamp-on meter
    cachedUnit,     \* _gal_per_unit of its driver, NoUnit before the first read
    clamp           \* its latest answer: nothing, failed, right or scaled by another unit

flowVars == <<edges, count, lastRead, kept, meterPc, sample, register, rate, lost, cuts, unit, cachedUnit, clamp>>

NoUnit == "unread"
Units == {"m3", "L"}

FlowTypeOK ==
    /\ edges \in 0..MaxEdges /\ count \in 0..MaxEdges
    /\ kept \in 0..MaxEdges /\ register \in 0..MaxEdges
    /\ lastRead \in (0..MaxEdges) \cup {NoCount} /\ rate \in (0..MaxEdges) \cup {NoCount}
    /\ meterPc \in {"off", "run", "persist", "report"}
    /\ sample \in [total : 0..MaxEdges, rate : (0..MaxEdges) \cup {NoCount},
                kept : BOOLEAN]
    /\ lost \in BOOLEAN /\ cuts \in 0..MaxCuts
    /\ unit \in Units /\ cachedUnit \in Units \cup {NoUnit}
    /\ clamp \in {"nothing", "failed", "right", "scaled"}

FlowInit ==
    /\ edges = 0 /\ count = 0 /\ lastRead = NoCount /\ kept = 0 /\ meterPc = "off"
    /\ sample = [total |-> 0, rate |-> NoCount, kept |-> TRUE]
    /\ register = 0 /\ rate = NoCount /\ lost = FALSE /\ cuts = 0
    /\ unit \in Units /\ cachedUnit = NoUnit /\ clamp = "nothing"

ClampStays == UNCHANGED <<unit, cachedUnit, clamp>>

\* PulseFlowMeter.__init__: it counts on from a total, and has no rate yet.
CountsFrom(total) == count' = total /\ lastRead' = NoCount /\ meterPc' = "run"

\* The firmware starts it with the count the database has.
MeterStarts ==
    /\ meterPc = "off"
    /\ CountsFrom(kept) /\ cachedUnit' = NoUnit
    /\ UNCHANGED <<edges, kept, sample, register, rate, lost, cuts, unit, clamp>>

\* _on_edge, at any point of a sample.  With the unit off the water is not
\* counted.
Edge ==
    /\ edges < MaxEdges
    /\ edges' = edges + 1
    /\ count' = IF meterPc = "off" THEN count ELSE count + 1
    /\ UNCHANGED <<lastRead, kept, meterPc, sample, register, rate, lost, cuts>> /\ ClampStays

\* read_detailed: the count is taken under the lock; the first read after a
\* start gives no rate.
ReadMeter ==
    /\ meterPc = "run"
    /\ sample' = [total |-> count, rate |-> IF lastRead = NoCount THEN NoCount ELSE count - lastRead,
                kept |-> FALSE]
    /\ lastRead' = count /\ meterPc' = "persist"
    /\ UNCHANGED <<edges, count, kept, register, rate, lost, cuts>> /\ ClampStays

\* The count is persisted once two edges have come.
PersistLater ==
    /\ meterPc = "persist" /\ meterPc' = "report"
    /\ kept' = IF sample.total > kept + 1 THEN sample.total ELSE kept
    /\ sample' = [sample EXCEPT !.kept = TRUE]
    /\ UNCHANGED <<edges, count, lastRead, register, rate, lost, cuts>> /\ ClampStays

\* The count is persisted, or the database refuses it and sampling goes on.
Persist ==
    /\ meterPc = "persist" /\ meterPc' = "report"
    /\ \/ kept' = sample.total /\ sample' = [sample EXCEPT !.kept = TRUE]
       \/ UNCHANGED <<kept, sample>>
    /\ UNCHANGED <<edges, count, lastRead, register, rate, lost, cuts>> /\ ClampStays

\* The row is stored with what the sample took.
Report ==
    /\ meterPc = "report" /\ meterPc' = "run"
    /\ register' = sample.total /\ rate' = sample.rate /\ lost' = ~sample.kept
    /\ UNCHANGED <<edges, count, lastRead, kept, sample, cuts>> /\ ClampStays

\* A power cut or a restart.
Stop ==
    /\ meterPc # "off" /\ cuts < MaxCuts
    /\ meterPc' = "off" /\ cuts' = cuts + 1
    /\ UNCHANGED <<edges, count, lastRead, kept, sample, register, rate, lost>> /\ ClampStays

\* ModbusFlowMeter.read_detailed: a silent bus fails both channels.  The unit
\* is read once (_resolve_units) and kept when a later read fails.
ReadClamp ==
    /\ meterPc = "run"
    /\ \/ clamp' = "failed" /\ cachedUnit' \in {cachedUnit, IF cachedUnit = NoUnit THEN unit ELSE cachedUnit}
       \/ /\ cachedUnit' = IF cachedUnit = NoUnit THEN unit ELSE cachedUnit
          /\ clamp' = IF cachedUnit' = unit THEN "right" ELSE "scaled"
    /\ UNCHANGED <<edges, count, lastRead, kept, meterPc, sample, register, rate, lost, cuts, unit>>

\* Somebody sets another unit at the meter.
SetUnit ==
    /\ \E u \in Units \ {unit} : unit' = u
    /\ UNCHANGED <<edges, count, lastRead, kept, meterPc, sample, register, rate, lost, cuts, cachedUnit, clamp>>

FlowNext == MeterStarts \/ Edge \/ ReadMeter \/ Persist \/ Report \/ Stop \/ ReadClamp \/ SetUnit

FlowSpec == FlowInit /\ [][FlowNext]_flowVars

(***************************************************************************)
(* What the meter promises.                                                *)
(***************************************************************************)
\* The register of a row is never below that of an earlier one, whenever the
\* power was cut, unless the database refused the earlier count (sensors/flow.py:
\* "a reboot never restarts the totalizer").
RegisterNeverGoesBack == [][register' >= register \/ lost]_flowVars

\* The meter, its samples and its restarts keep the promise of a totalizer: no
\* row shows more than has flowed, or less than an earlier one (PulseFlowMeter,
\* _persist; main.py restores the count).
Totalizer == INSTANCE WaterRegister WITH flowed <- edges, reading <- register, unkept <- lost

ImplementsRegister == Totalizer!Spec
=============================================================================
