----------------------------- MODULE RelayProofs -----------------------------
(***************************************************************************)
(* What holds of RelayBank and RelayControl for every set of channels,      *)
(* every ceiling, every rule list and any number of failing writes, and of   *)
(* RuleLimits for every rule list, cooldown, budget and ceiling.             *)
(***************************************************************************)
EXTENDS RelayControl, RuleLimits, FiniteSetTheorems, TLAPS

\* A registered thread is live, was armed for the on-period its channel is in,
\* and will not wait beyond the ceiling.
Registered ==
    \A c \in Channel : timers[c] # None =>
        /\ thread[timers[c]].state # "free"
        /\ thread[timers[c]].ch = c
        /\ ~thread[timers[c]].stale
        /\ MaxOn > 0 => thread[timers[c]].secs <= MaxOn

\* An energised coil has a registered timer, or is one of the exceptions.
Guarded ==
    MaxOn > 0 => \A c \in Channel : pin[c] => timers[c] # None \/ c \in exempt \cup stuck

\* Where pin and bit differ, the pin is the one that is off.
BitsAgree == \A c \in Channel : (bit[c] <=> pin[c]) \/ (c \in torn /\ ~pin[c])

\* Two threads that differ in identity only.
Alike(u, v) == u.state = v.state /\ u.ch = v.ch /\ u.secs = v.secs /\ u.stale = v.stale

BankInv == BankTypeOK /\ Registered /\ Guarded /\ BitsAgree

\* What the threads look like once the timers of C are cancelled.
LEMMA CancelledThreads ==
    ASSUME BankTypeOK, Registered, NEW C \in SUBSET Channel
    PROVE  /\ Cancelled(C) \in [Timer -> Thread]
           /\ \A c \in Channel \ C : timers[c] # None =>
                  Alike(Cancelled(C)[timers[c]], thread[timers[c]])
           /\ \A t \in Timer : thread[t].state = "fired" => Cancelled(C)[t].state = "fired"
<1>. USE BankAssumption DEF BankTypeOK, Registered, Cancelled, Thread, Free
<1>1. Cancelled(C) \in [Timer -> Thread]
    <2>1. ASSUME NEW t \in Timer
          PROVE  [thread[t] EXCEPT !.stale = @ \/ thread[t].ch \in C] \in Thread
        <3>1. CASE thread[t].state = "free"
            <4>1. thread[t] \in [state : {"free"}, ch : {0}, secs : {0}, stale : {FALSE}]
                BY <3>1
            <4>2. (thread[t].stale \/ thread[t].ch \in C) \in {FALSE}  BY <4>1
            <4>. QED  BY <4>1, <4>2
        <3>2. CASE thread[t].state # "free"
            <4>1. thread[t] \in [state : {"waiting", "fired"}, ch : Channel, secs : Nat,
                                 stale : BOOLEAN]
                BY <3>2
            <4>2. (thread[t].stale \/ thread[t].ch \in C) \in BOOLEAN  BY <4>1
            <4>. QED  BY <4>1, <4>2
        <3>. QED  BY <3>1, <3>2
    <2>2. Free \in Thread  OBVIOUS
    <2>. QED  BY <2>1, <2>2
<1>2. ASSUME NEW c \in Channel \ C, timers[c] # None
      PROVE  Alike(Cancelled(C)[timers[c]], thread[timers[c]])
    <2>1. timers[c] \in Timer /\ thread[timers[c]].ch = c  BY <1>2
    <2>2. thread[timers[c]] \in Thread  BY <2>1
    <2>3. (thread[timers[c]].stale \/ thread[timers[c]].ch \in C) = thread[timers[c]].stale
        BY <2>1, <2>2
    <2>. QED  BY <2>1, <2>2, <2>3 DEF Alike
<1>3. ASSUME NEW t \in Timer, thread[t].state = "fired"
      PROVE  Cancelled(C)[t].state = "fired"
    BY <1>3
<1>. QED  BY <1>1, <1>2, <1>3

\* Cancelling leaves the other channels' timers registered.
LEMMA CancelKeeps ==
    ASSUME BankTypeOK, Registered, NEW C \in SUBSET Channel, CancelTimers(C)
    PROVE  /\ thread' \in [Timer -> Thread]
           /\ timers' \in [Channel -> Timer \cup {None}]
           /\ Registered'
           /\ \A c \in Channel \ C : timers'[c] = timers[c]
<1>1. Cancelled(C) \in [Timer -> Thread]
      /\ \A c \in Channel \ C : timers[c] # None =>
             Alike(Cancelled(C)[timers[c]], thread[timers[c]])
    BY CancelledThreads
<1>2. timers' \in [Channel -> Timer \cup {None}]  BY DEF CancelTimers, BankTypeOK
<1>3. Registered'
    BY <1>1, BankAssumption DEF CancelTimers, Registered, BankTypeOK, Alike
<1>. QED  BY <1>1, <1>2, <1>3 DEF CancelTimers

\* Arming registers a fresh thread for the channel and leaves the others.
LEMMA ArmKeeps ==
    ASSUME BankTypeOK, Registered, NEW c \in Channel, NEW s \in Nat,
           MaxOn > 0 => s <= MaxOn, Arm(c, s)
    PROVE  /\ thread' \in [Timer -> Thread]
           /\ timers' \in [Channel -> Timer \cup {None}]
           /\ Registered'
           /\ timers'[c] # None
           /\ \A d \in Channel \ {c} : timers'[d] = timers[d]
<1>1. PICK t \in Timer :
          /\ thread[t].state = "free"
          /\ thread' = [Cancelled({c}) EXCEPT
                           ![t] = [state |-> "waiting", ch |-> c, secs |-> s, stale |-> FALSE]]
          /\ timers' = [timers EXCEPT ![c] = t]
    BY DEF Arm
<1>2. /\ Cancelled({c}) \in [Timer -> Thread]
      /\ \A d \in Channel \ {c} : timers[d] # None =>
             Alike(Cancelled({c})[timers[d]], thread[timers[d]])
    BY CancelledThreads
<1>3. thread' \in [Timer -> Thread]  BY <1>1, <1>2 DEF Thread
<1>4. timers' \in [Channel -> Timer \cup {None}]  BY <1>1 DEF BankTypeOK
<1>5. timers'[c] = t /\ t # None  BY <1>1, BankAssumption DEF BankTypeOK
<1>6. thread'[t] = [state |-> "waiting", ch |-> c, secs |-> s, stale |-> FALSE]
    BY <1>1, <1>2
<1>7. \A d \in Channel \ {c} : timers'[d] = timers[d]  BY <1>1 DEF BankTypeOK
<1>8. ASSUME NEW d \in Channel \ {c}, timers[d] # None
      PROVE  Alike(thread'[timers[d]], thread[timers[d]])
    <2>1. timers[d] # t  BY <1>1, <1>8 DEF Registered
    <2>2. timers[d] \in Timer  BY <1>8 DEF BankTypeOK
    <2>. QED  BY <1>1, <1>2, <1>8, <2>1, <2>2
<1>9. Registered'
    BY <1>5, <1>6, <1>7, <1>8 DEF Registered, Alike
<1>. QED  BY <1>3, <1>4, <1>5, <1>7, <1>9

\* A duration shortened to the ceiling is within it.
LEMMA CeiledBound ==
    ASSUME NEW d \in Nat
    PROVE  Ceiled(d) \in Nat /\ (MaxOn > 0 => Ceiled(d) <= MaxOn)
BY BankAssumption DEF Ceiled

\* Every coil starts off and without a timer.
LEMMA BankInitInv == BankInit => BankInv
BY BankAssumption DEF BankInit, BankInv, BankTypeOK, Registered, Guarded, BitsAgree, Free, Thread

\* set(channel, True): the coil comes on together with its ceiling timer.
LEMMA SetOnKeeps ==
    ASSUME BankInv, NEW c \in Channel, NEW u \in BOOLEAN, SetOn(c, u)
    PROVE  BankInv'
<1>. USE DEF BankInv
<1>1. /\ thread' \in [Timer -> Thread]
      /\ timers' \in [Channel -> Timer \cup {None}]
      /\ Registered'
      /\ MaxOn > 0 /\ ~u => timers'[c] # None
      /\ \A d \in Channel \ {c} : timers'[d] = timers[d]
    <2>1. CASE MaxOn > 0 /\ ~u
        <3>1. Arm(c, MaxOn) /\ MaxOn \in Nat /\ MaxOn <= MaxOn
            BY <2>1, BankAssumption DEF SetOn
        <3>. QED  BY <3>1, ArmKeeps
    <2>2. CASE ~(MaxOn > 0 /\ ~u)
        <3>1. CancelTimers({c})  BY <2>2 DEF SetOn
        <3>. QED  BY <2>2, <3>1, CancelKeeps
    <2>. QED  BY <2>1, <2>2
<1>2. BankTypeOK'  BY <1>1 DEF SetOn, BankTypeOK
<1>3. Guarded'  BY <1>1 DEF SetOn, Guarded, BankTypeOK
<1>4. BitsAgree'  BY DEF SetOn, BitsAgree, BankTypeOK
<1>. QED  BY <1>1, <1>2, <1>3, <1>4

\* set(channel, False): the coil and its timer go together.
LEMMA SetOffKeeps ==
    ASSUME BankInv, NEW c \in Channel, SetOff(c)
    PROVE  BankInv'
<1>. USE DEF BankInv
<1>1. CancelTimers({c})  BY DEF SetOff
<1>2. /\ thread' \in [Timer -> Thread]
      /\ timers' \in [Channel -> Timer \cup {None}]
      /\ Registered'
      /\ \A d \in Channel \ {c} : timers'[d] = timers[d]
    BY <1>1, CancelKeeps
<1>3. BankTypeOK'  BY <1>2 DEF SetOff, BankTypeOK
<1>4. Guarded'  BY <1>2 DEF SetOff, Guarded, BankTypeOK
<1>5. BitsAgree'  BY DEF SetOff, BitsAgree, BankTypeOK
<1>. QED  BY <1>2, <1>3, <1>4, <1>5

\* arm_auto_off replaces the timer of a coil that is on, within the ceiling.
LEMMA ArmAutoOffKeeps ==
    ASSUME BankInv, NEW c \in Channel, NEW d \in Nat, ArmAutoOff(c, d)
    PROVE  BankInv'
<1>. USE DEF BankInv
<1>1. /\ thread' \in [Timer -> Thread]
      /\ timers' \in [Channel -> Timer \cup {None}]
      /\ Registered'
      /\ timers'[c] # None
      /\ \A e \in Channel \ {c} : timers'[e] = timers[e]
    BY CeiledBound, ArmKeeps DEF ArmAutoOff
<1>2. BankTypeOK'  BY <1>1 DEF ArmAutoOff, BankTypeOK
<1>3. Guarded'  BY <1>1 DEF ArmAutoOff, Guarded, BankTypeOK
<1>4. BitsAgree'  BY DEF ArmAutoOff, BitsAgree, BankTypeOK
<1>. QED  BY <1>1, <1>2, <1>3, <1>4

\* A wait that ends changes nothing but the thread's state.
LEMMA TimerFiresKeeps ==
    ASSUME BankInv, NEW t \in Timer, TimerFires(t)
    PROVE  BankInv'
<1>. USE DEF BankInv
<1>1. thread' \in [Timer -> Thread]
    <2>1. thread[t] \in [state : {"waiting", "fired"}, ch : Channel, secs : Nat, stale : BOOLEAN]
        BY DEF TimerFires, BankTypeOK, Thread, Free
    <2>2. [thread[t] EXCEPT !.state = "fired"] \in Thread  BY <2>1 DEF Thread
    <2>. QED  BY <2>2 DEF TimerFires, BankTypeOK
<1>2. BankTypeOK'  BY <1>1 DEF TimerFires, BankTypeOK
<1>3. \A u \in Timer : /\ thread'[u].ch = thread[u].ch
                       /\ thread'[u].secs = thread[u].secs
                       /\ thread'[u].stale = thread[u].stale
                       /\ thread[u].state # "free" => thread'[u].state # "free"
    BY DEF TimerFires, BankTypeOK, Thread, Free
<1>4. Registered'  BY <1>3 DEF TimerFires, Registered, BankTypeOK
<1>5. Guarded' /\ BitsAgree'  BY DEF TimerFires, Guarded, BitsAgree
<1>. QED  BY <1>2, <1>4, <1>5

\* The thread that ends is off the books, whether it dropped the coil or not.
LEMMA ThreadEnds ==
    ASSUME BankInv, NEW t \in Timer, thread[t].state = "fired",
           thread' = [thread EXCEPT ![t] = Free],
           timers' = IF timers[thread[t].ch] = t
                     THEN [timers EXCEPT ![thread[t].ch] = None] ELSE timers
    PROVE  /\ thread' \in [Timer -> Thread]
           /\ timers' \in [Channel -> Timer \cup {None}]
           /\ Registered'
<1>. USE BankAssumption DEF BankInv, BankTypeOK, Registered
<1>1. thread' \in [Timer -> Thread]  BY DEF Thread, Free
<1>2. timers' \in [Channel -> Timer \cup {None}]  OBVIOUS
<1>3. ASSUME NEW c \in Channel, timers'[c] # None
      PROVE  timers'[c] = timers[c] /\ timers[c] # t
    BY <1>3
<1>4. Registered'
    <2>1. ASSUME NEW c \in Channel, timers'[c] # None
          PROVE  thread'[timers'[c]] = thread[timers[c]] /\ timers[c] # None
        BY <1>3, <2>1
    <2>. QED  BY <2>1
<1>. QED  BY <1>1, <1>2, <1>4

\* _auto_off leaves no coil on without a timer, unless its write raised.
LEMMA AutoOffKeeps ==
    ASSUME BankInv, NEW t \in Timer, AutoOff(t) \/ AutoOffFails(t)
    PROVE  BankInv'
<1>. USE BankAssumption DEF BankInv
<1>1. /\ thread' \in [Timer -> Thread]
      /\ timers' \in [Channel -> Timer \cup {None}]
      /\ Registered'
    BY ThreadEnds DEF AutoOff, AutoOffFails
<1>2. CASE AutoOffFails(t)
    <2>1. thread[t].ch \in Channel
        BY <1>2 DEF AutoOffFails, BankTypeOK, Thread, Free
    <2>2. BankTypeOK'  BY <1>1, <1>2, <2>1 DEF AutoOffFails, BankTypeOK
    <2>3. Guarded'  BY <1>2, <2>1 DEF AutoOffFails, Guarded, BankTypeOK
    <2>4. BitsAgree'  BY <1>2 DEF AutoOffFails, BitsAgree
    <2>. QED  BY <1>1, <2>2, <2>3, <2>4
<1>3. CASE AutoOff(t)
    <2>. DEFINE c == thread[t].ch
    <2>1. CASE timers[c] # t
        <3>1. UNCHANGED <<pin, bit, timers, torn, exempt, stuck>>  BY <1>3, <2>1 DEF AutoOff
        <3>. QED  BY <1>1, <3>1 DEF BankTypeOK, Guarded, BitsAgree
    <2>2. CASE timers[c] = t
        <3>1. c \in Channel
            BY <1>3, <2>2 DEF AutoOff, BankTypeOK, Thread, Free
        <3>2. /\ timers' = [timers EXCEPT ![c] = None]
              /\ IF bit[c]
                 THEN /\ pin' = [pin EXCEPT ![c] = FALSE]
                      /\ bit' = [bit EXCEPT ![c] = FALSE]
                      /\ torn' = torn \ {c}
                 ELSE UNCHANGED <<pin, bit, torn>>
              /\ UNCHANGED <<exempt, stuck>>
            BY <1>3, <2>2 DEF AutoOff
        <3>3. BankTypeOK'  BY <1>1, <3>2 DEF BankTypeOK
        <3>4. BitsAgree'  BY <3>1, <3>2 DEF BitsAgree, BankTypeOK
        <3>5. ~pin'[c]  BY <3>1, <3>2 DEF BitsAgree, BankTypeOK
        <3>6. Guarded'  BY <3>1, <3>2, <3>5 DEF Guarded, BankTypeOK
        <3>. QED  BY <1>1, <3>3, <3>4, <3>6
    <2>. QED  BY <2>1, <2>2
<1>. QED  BY <1>2, <1>3

\* all_off, complete or interrupted by a write that raises.
LEMMA AllOffKeeps ==
    ASSUME BankInv, AllOff \/ \E k \in Channel : AllOffFails(k)
    PROVE  BankInv'
<1>. USE DEF BankInv
<1>1. /\ thread' \in [Timer -> Thread]
      /\ timers' \in [Channel -> Timer \cup {None}]
      /\ Registered'
    BY CancelKeeps DEF AllOff, AllOffFails
<1>2. CASE AllOff
    BY <1>1, <1>2 DEF AllOff, BankTypeOK, Guarded, BitsAgree
<1>3. ASSUME NEW k \in Channel, AllOffFails(k)
      PROVE  BankInv'
    <2>1. BankTypeOK'  BY <1>1, <1>3 DEF AllOffFails, BankTypeOK
    <2>2. Guarded'  BY <1>3, BankAssumption DEF AllOffFails, Guarded, BankTypeOK
    <2>3. BitsAgree'  BY <1>3, BankAssumption DEF AllOffFails, BitsAgree, BankTypeOK
    <2>. QED  BY <1>1, <2>1, <2>2, <2>3
<1>. QED  BY <1>2, <1>3

\* The bank's invariant is inductive.
LEMMA BankStepKeeps == BankInv /\ [BankNext]_bankVars => BankInv'
<1>. SUFFICES ASSUME BankInv, [BankNext]_bankVars PROVE BankInv'  OBVIOUS
<1>1. CASE UNCHANGED bankVars
    BY <1>1 DEF bankVars, BankInv, BankTypeOK, Registered, Guarded, BitsAgree
<1>2. CASE BankNext
    BY <1>2, SetOnKeeps, SetOffKeeps, ArmAutoOffKeeps, TimerFiresKeeps, AutoOffKeeps,
       AllOffKeeps, BankAssumption DEF BankNext
<1>. QED  BY <1>1, <1>2

\* What the invariant says about the properties the runs check.
LEMMA BankInvImplies ==
    BankInv => BankTypeOK /\ BoundedCoilIsCovered /\ BitMatchesPin
<1>. SUFFICES ASSUME BankInv PROVE BoundedCoilIsCovered /\ BitMatchesPin  BY DEF BankInv
<1>1. BitMatchesPin  BY DEF BankInv, BitsAgree, BitMatchesPin
<1>2. ASSUME MaxOn > 0, NEW c \in Channel, pin[c], c \notin exempt \cup stuck
      PROVE  Covered(c)
    <2>1. timers[c] # None /\ timers[c] \in Timer
        BY <1>2 DEF BankInv, Guarded, BankTypeOK
    <2>. QED  BY <1>2, <2>1 DEF BankInv, Registered, Covered
<1>. QED  BY <1>1, <1>2 DEF BoundedCoilIsCovered

\* Whatever its callers do, the relay controller keeps its invariant
\* (control/relay.py): timers, ceiling and state bits stay together.
THEOREM BankInvariance == BankSpec => []BankInv
BY BankInitInv, BankStepKeeps, PTL DEF BankSpec

\* The step in which a superseded thread ends leaves every pin alone.
LEMMA StepInert ==
    ASSUME BankInv, [BankNext]_bankVars, NEW t \in Timer,
           thread[t].state = "fired", thread[t].stale, thread'[t] = Free
    PROVE  pin' = pin
<1>. USE BankAssumption DEF BankInv
<1>1. \A C \in SUBSET Channel : Cancelled(C)[t].state = "fired"
    BY CancelledThreads
<1>2. thread'[t].state = "free"  BY DEF Free
<1>3. ASSUME NEW C \in SUBSET Channel, CancelTimers(C) PROVE FALSE
    BY <1>1, <1>2, <1>3 DEF CancelTimers
<1>4. ASSUME NEW c \in Channel, NEW n \in Nat, Arm(c, n) PROVE FALSE
    <2>1. PICK u \in Timer :
              /\ thread[u].state = "free"
              /\ thread' = [Cancelled({c}) EXCEPT
                              ![u] = [state |-> "waiting", ch |-> c, secs |-> n, stale |-> FALSE]]
        BY <1>4 DEF Arm
    <2>2. u # t  BY <2>1
    <2>3. thread'[t] = Cancelled({c})[t]  BY <2>1, <2>2 DEF Cancelled
    <2>. QED  BY <1>1, <1>2, <2>3
<1>5. ASSUME NEW c \in Channel, NEW u \in BOOLEAN, SetOn(c, u) PROVE FALSE
    BY <1>3, <1>4, <1>5 DEF SetOn
<1>6. ASSUME NEW c \in Channel, SetOff(c) PROVE FALSE
    BY <1>3, <1>6 DEF SetOff
<1>7. ASSUME AllOff \/ \E k \in Channel : AllOffFails(k) PROVE FALSE
    BY <1>3, <1>7 DEF AllOff, AllOffFails
<1>8. ASSUME NEW u \in Timer, AutoOff(u) PROVE pin' = pin
    <2>1. u = t
        BY <1>2, <1>8 DEF AutoOff, BankTypeOK
    <2>2. thread[t].ch \in Channel  BY DEF BankTypeOK, Thread
    <2>3. timers[thread[t].ch] # t
        <3>. DEFINE k == thread[t].ch
        <3>1. timers[k] # None => ~thread[timers[k]].stale
            BY <2>2 DEF Registered
        <3>2. t # None
            BY DEF BankTypeOK
        <3>. QED  BY <3>1, <3>2
    <2>. QED  BY <1>8, <2>1, <2>3 DEF AutoOff
<1>9. CASE UNCHANGED bankVars  BY <1>9 DEF bankVars
<1>10. CASE BankNext
    BY <1>5, <1>6, <1>7, <1>8, <1>10 DEF BankNext, ArmAutoOff, TimerFires, AutoOffFails
<1>. QED  BY <1>9, <1>10
-----------------------------------------------------------------------------
(* RelayControl                                                            *)

\* A thread about to arm a timer has a channel and a duration to arm it with.
Busy ==
    /\ spc = "arm" => \A i \in fired : (\A j \in fired : i <= j) => durs[Rules[i].relay] > 0
    /\ cpc \in {"checked", "arm"} => cmd.ch \in Channel
    /\ cpc = "arm" => cmd.dur > 0

Typed == RulesTypeOK /\ HoldTypeOK /\ CommandTypeOK /\ HistoryTypeOK
Engine == Typed /\ Busy /\ HoldForgetsNoCoil
ControlInv == BankInv /\ Engine
BankStep == BankNext \/ UNCHANGED bankVars

\* A rule of the list names a channel, a duration and a probe.
LEMMA RuleFacts ==
    ASSUME NEW i \in DOMAIN Rules
    PROVE  /\ Rules[i].relay \in Channel /\ Rules[i].on \in BOOLEAN
           /\ Rules[i].dur \in Duration \cup {0}
           /\ Rules[i].sensor \in Sensor
           /\ Rules[i].sensor \notin {"none", "hold", "command", "rules"}
           /\ i \in Nat
<1>. DEFINE R == [sensor : STRING, relay : Channel, on : BOOLEAN, dur : Duration \cup {0}]
<1>1. Rules[i] \in R /\ i \in Nat
    <2>1. Rules \in Seq(R)  BY RulesAssumption
    <2>. HIDE DEF R
    <2>2. DOMAIN Rules = 1..Len(Rules) /\ Len(Rules) \in Nat  BY <2>1
    <2>. QED  BY <2>1, <2>2
<1>2. Rules[i].sensor \in Sensor  BY DEF Sensor
<1>. QED  BY <1>1, <1>2, RulesAssumption

\* One relay write: what the bank and the history see.
LEMMA SwitchStep ==
    ASSUME BankTypeOK, HistoryTypeOK, NEW c \in Channel, NEW on \in BOOLEAN,
           NEW who \in {"hold", "command", "rules"} \cup Sensor, NEW saw,
           Switch(c, on, who, saw)
    PROVE  /\ BankNext
           /\ HistoryTypeOK'
           /\ pin' = [pin EXCEPT ![c] = on]
           /\ driver' = [driver EXCEPT ![c] = IF on THEN who ELSE "none"]
<1>1. /\ BankNext
      /\ pin' = [pin EXCEPT ![c] = on]
    <2>1. CASE on  BY <2>1 DEF Switch, SetOn, BankNext
    <2>2. CASE ~on  BY <2>2 DEF Switch, SetOff, BankNext
    <2>. QED  BY <2>1, <2>2
<1>2. driver' = [driver EXCEPT ![c] = IF on THEN who ELSE "none"]  BY DEF Switch
<1>3. HistoryTypeOK'
    <2>1. driver' \in [Channel -> {"none", "hold", "command", "rules"} \cup Sensor]
        BY <1>2 DEF HistoryTypeOK
    <2>2. /\ lost' \subseteq Channel /\ withheld' \subseteq Channel /\ late' \subseteq Channel
          /\ faults' \in 0..MaxFaults
        BY DEF Switch, HistoryTypeOK
    <2>. QED  BY <2>1, <2>2 DEF HistoryTypeOK
<1>. QED  BY <1>1, <1>2, <1>3

\* A write by anybody but the hold leaves the hold nothing new to remember.
LEMMA OthersSwitch ==
    ASSUME BankTypeOK, HistoryTypeOK, HoldForgetsNoCoil, NEW c \in Channel, NEW on \in BOOLEAN,
           NEW who \in {"command", "rules"} \cup Sensor, who # "hold", NEW saw,
           Switch(c, on, who, saw), UNCHANGED <<driven, drivenCh>>
    PROVE  BankNext /\ HistoryTypeOK' /\ HoldForgetsNoCoil'
<1>1. /\ BankNext
      /\ HistoryTypeOK'
      /\ pin' = [pin EXCEPT ![c] = on]
      /\ driver' = [driver EXCEPT ![c] = IF on THEN who ELSE "none"]
    BY SwitchStep
<1>2. HoldForgetsNoCoil'
    BY <1>1 DEF HoldForgetsNoCoil, BankTypeOK, HistoryTypeOK
<1>. QED  BY <1>1, <1>2

\* The hold's own writes.
LEMMA HoldDrives ==
    ASSUME BankTypeOK, HistoryTypeOK, HoldTypeOK, HoldForgetsNoCoil,
           DriveOff \/ (relay # 0 /\ ~driven /\ DriveOn)
    PROVE  /\ BankStep /\ HistoryTypeOK' /\ HoldForgetsNoCoil'
           /\ driven' \in BOOLEAN /\ drivenCh' \in Owner
<1>. USE BankAssumption DEF HoldTypeOK, Owner
<1>1. CASE relay # 0 /\ ~driven /\ DriveOn
    <2>1. CASE WriteFails /\ UNCHANGED <<histVars, driven, drivenCh>>
        BY <2>1, RulesAssumption DEF WriteFails, histVars, BankStep, HistoryTypeOK, HoldForgetsNoCoil, bankVars
    <2>2. CASE Switch(relay, TRUE, "hold", relay) /\ driven' = TRUE /\ drivenCh' = relay
        <3>1. relay \in Channel  BY <1>1
        <3>2. /\ BankNext
              /\ HistoryTypeOK'
              /\ pin' = [pin EXCEPT ![relay] = TRUE]
              /\ driver' = [driver EXCEPT ![relay] = "hold"]
            BY <2>2, <3>1, SwitchStep
        <3>3. HoldForgetsNoCoil'
            BY <1>1, <2>2, <3>1, <3>2 DEF HoldForgetsNoCoil, BankTypeOK, HistoryTypeOK
        <3>. QED  BY <2>2, <3>2, <3>3 DEF BankStep
    <2>. QED  BY <1>1, <2>1, <2>2 DEF DriveOn
<1>2. CASE DriveOff
    <2>. DEFINE c == IF drivenCh # 0 THEN drivenCh ELSE relay
    <2>1. CASE UNCHANGED <<bankVars, driver, late, histVars, faults, driven, drivenCh>>
        BY <2>1 DEF histVars, BankStep, HistoryTypeOK, HoldForgetsNoCoil, bankVars
    <2>2. CASE WriteFails /\ UNCHANGED <<histVars, driven, drivenCh>>
        BY <2>2, RulesAssumption DEF WriteFails, histVars, BankStep, HistoryTypeOK, HoldForgetsNoCoil, bankVars
    <2>3. CASE c # 0 /\ Switch(c, FALSE, "hold", relay) /\ driven' = FALSE /\ drivenCh' = 0
        <3>1. c \in Channel  BY <2>3
        <3>2. /\ BankNext
              /\ HistoryTypeOK'
              /\ pin' = [pin EXCEPT ![c] = FALSE]
              /\ driver' = [driver EXCEPT ![c] = "none"]
            BY <2>3, <3>1, SwitchStep
        <3>3. \A d \in Channel : ~(pin'[d] /\ driver'[d] = "hold")
            BY <3>1, <3>2 DEF HoldForgetsNoCoil, BankTypeOK, HistoryTypeOK
        <3>. QED  BY <2>3, <3>2, <3>3 DEF BankStep, HoldForgetsNoCoil
    <2>. QED  BY <1>2, <2>1, <2>2, <2>3 DEF DriveOff
<1>. QED  BY <1>1, <1>2

\* The switch of a relay by a rule or a command leaves the hold alone.
LEMMA ApplyDropKeeps ==
    ASSUME ControlInv, NEW c \in Channel, ApplyDrop(c)
    PROVE  BankStep /\ Engine'
<1>. USE DEF ControlInv, Engine, Typed, BankInv
<1>1. "rules" \in {"command", "rules"} \cup Sensor /\ "rules" # "hold" /\ FALSE \in BOOLEAN
    OBVIOUS
<1>2. Switch(c, FALSE, "rules", rulesSaw) /\ UNCHANGED <<driven, drivenCh>>
    BY DEF ApplyDrop, holdVars
<1>3. BankNext /\ HistoryTypeOK' /\ HoldForgetsNoCoil'
    BY <1>1, <1>2, OthersSwitch
<1>4. RulesTypeOK' /\ HoldTypeOK' /\ CommandTypeOK'
    BY DEF ApplyDrop, holdVars, cmdVars, RulesTypeOK, HoldTypeOK, CommandTypeOK
<1>5. Busy'  BY DEF ApplyDrop, cmdVars, Busy
<1>. QED  BY <1>3, <1>4, <1>5 DEF BankStep

\* _apply of a rule: the switch, and the way to its duration.
LEMMA ApplyRuleKeeps ==
    ASSUME ControlInv, NEW i \in DOMAIN Rules, ApplyRule(i)
    PROVE  BankStep /\ Engine'
<1>. USE DEF ControlInv, Engine, Typed, BankInv
<1>. DEFINE c == Rules[i].relay
            on == Rules[i].on
            who == Rules[i].sensor
<1>1. c \in Channel /\ on \in BOOLEAN /\ who \in {"command", "rules"} \cup Sensor /\ who # "hold"
    BY RuleFacts
<1>2. Switch(c, on, who, rulesSaw) /\ UNCHANGED <<driven, drivenCh>>
    BY DEF ApplyRule, holdVars
<1>3. BankNext /\ HistoryTypeOK' /\ HoldForgetsNoCoil'
    <2>. HIDE DEF c, on, who
    <2>. QED  BY <1>1, <1>2, OthersSwitch
<1>4. RulesTypeOK' /\ HoldTypeOK' /\ CommandTypeOK'
    BY DEF ApplyRule, holdVars, cmdVars, RulesTypeOK, HoldTypeOK, CommandTypeOK
<1>5. Busy'
    <2>1. CASE on /\ durs[c] > 0
        <3>1. spc' = "arm" /\ fired' = fired /\ durs' = durs  BY <2>1 DEF ApplyRule
        <3>2. ASSUME NEW j \in fired, \A k \in fired : j <= k PROVE j = i
            <4>1. i \in Nat /\ j \in Nat /\ i \in fired
                BY RuleFacts DEF ApplyRule, Turn, RulesTypeOK
            <4>2. i <= j /\ j <= i  BY <3>2, <4>1 DEF ApplyRule, Turn
            <4>. QED  BY <4>1, <4>2
        <3>. QED  BY <2>1, <3>1, <3>2 DEF ApplyRule, cmdVars, Busy
    <2>2. CASE ~(on /\ durs[c] > 0)
        BY <2>2 DEF ApplyRule, Turn, cmdVars, Busy
    <2>. QED  BY <2>1, <2>2
<1>. QED  BY <1>3, <1>4, <1>5 DEF BankStep

\* _apply whose write raised: the action is gone, the coil as it was.
LEMMA ApplyFailsKeeps ==
    ASSUME ControlInv, ApplyFails
    PROVE  BankStep /\ Engine'
<1>. USE DEF ControlInv, Engine, Typed, BankInv
<1>1. BankStep  BY DEF ApplyFails, WriteFails, BankStep
<1>2. HistoryTypeOK' /\ HoldForgetsNoCoil'
    BY RulesAssumption DEF ApplyFails, WriteFails, holdVars, bankVars, HistoryTypeOK,
       HoldForgetsNoCoil, RulesTypeOK
<1>3. RulesTypeOK' /\ HoldTypeOK' /\ CommandTypeOK'
    BY DEF ApplyFails, holdVars, cmdVars, RulesTypeOK, HoldTypeOK, CommandTypeOK
<1>4. Busy'  BY DEF ApplyFails, Turn, cmdVars, Busy
<1>. QED  BY <1>1, <1>2, <1>3, <1>4

\* Arming an auto-off, by a rule or by a command.
LEMMA ArmForStep ==
    ASSUME ControlInv, NEW c \in Channel, NEW d \in Duration, NEW saw, ArmFor(c, d, saw),
           UNCHANGED <<driven, drivenCh>>
    PROVE  BankStep /\ HistoryTypeOK' /\ HoldForgetsNoCoil'
<1>. USE DEF ControlInv, Engine, Typed, BankInv
<1>1. BankStep  BY DEF ArmFor, BankNext, BankStep
<1>2. pin' = pin  BY DEF ArmFor, ArmAutoOff, bankVars
<1>3. HistoryTypeOK'  BY DEF ArmFor, histVars, HistoryTypeOK
<1>4. HoldForgetsNoCoil'  BY <1>2 DEF ArmFor, HoldForgetsNoCoil
<1>. QED  BY <1>1, <1>3, <1>4

\* _arm_relay_timer, after the rule's relay came on.
LEMMA ApplyDurationKeeps ==
    ASSUME ControlInv, ApplyDuration
    PROVE  BankStep /\ Engine'
<1>. USE DEF ControlInv, Engine, Typed, BankInv
<1>1. PICK i \in fired :
          /\ \A j \in fired : i <= j
          /\ ArmFor(Rules[i].relay, durs[Rules[i].relay], rulesSaw)
          /\ fired' = fired \ {i}
    BY DEF ApplyDuration
<1>. DEFINE c == Rules[i].relay
            d == durs[c]
<1>2. c \in Channel  BY RuleFacts DEF RulesTypeOK
<1>3. d \in Duration
    <2>1. d > 0  BY <1>1 DEF ApplyDuration, Busy
    <2>2. d \in Duration \cup {0}  BY <1>2 DEF RulesTypeOK
    <2>. QED  BY <2>1, <2>2
<1>4. ArmFor(c, d, rulesSaw) /\ UNCHANGED <<driven, drivenCh>>
    BY <1>1 DEF ApplyDuration, holdVars
<1>5. BankStep /\ HistoryTypeOK' /\ HoldForgetsNoCoil'
    <2>. HIDE DEF c, d
    <2>. QED  BY <1>2, <1>3, <1>4, ArmForStep
<1>6. RulesTypeOK' /\ HoldTypeOK' /\ CommandTypeOK'
    BY <1>1 DEF ApplyDuration, holdVars, cmdVars, RulesTypeOK, HoldTypeOK, CommandTypeOK
<1>7. Busy'  BY DEF ApplyDuration, cmdVars, Busy
<1>. QED  BY <1>5, <1>6, <1>7

\* A cycle of the rules starts or ends: no relay is written.
LEMMA EvaluateKeeps ==
    ASSUME ControlInv, Evaluate \/ RulesDone
    PROVE  BankStep /\ Engine'
<1>. USE DEF ControlInv, Engine, Typed, BankInv
<1>1. BankStep  BY DEF Evaluate, RulesDone, BankStep
<1>2. CASE RulesDone
    <2>1. RulesTypeOK'  BY <1>2 DEF RulesDone, RulesTypeOK, Owner
    <2>2. HoldTypeOK' /\ CommandTypeOK'
        BY <1>2 DEF RulesDone, holdVars, cmdVars, HoldTypeOK, CommandTypeOK
    <2>3. HistoryTypeOK'  BY <1>2 DEF RulesDone, histVars, HistoryTypeOK
    <2>4. HoldForgetsNoCoil'  BY <1>2 DEF RulesDone, bankVars, holdVars, HoldForgetsNoCoil
    <2>5. Busy'  BY <1>2 DEF RulesDone, cmdVars, Busy
    <2>. QED  BY <1>1, <2>1, <2>2, <2>3, <2>4, <2>5
<1>3. CASE Evaluate
    <2>1. \A S \in SUBSET Sensor : FailsafeWanted(S) \subseteq Channel
        BY RuleFacts DEF FailsafeWanted
    <2>2. RulesTypeOK'
        BY <1>3, <2>1 DEF Evaluate, RulesTypeOK, FailsafeDue, HoldTypeOK
    <2>3. HoldTypeOK' /\ CommandTypeOK'
        BY <1>3 DEF Evaluate, holdVars, cmdVars, HoldTypeOK, CommandTypeOK
    <2>4. HistoryTypeOK'  BY <1>3, <2>1 DEF Evaluate, HistoryTypeOK
    <2>5. Busy' /\ HoldForgetsNoCoil'
        BY <1>3 DEF Evaluate, bankVars, holdVars, cmdVars, Busy, HoldForgetsNoCoil
    <2>. QED  BY <1>1, <2>2, <2>3, <2>4, <2>5
<1>. QED  BY <1>1, <1>2, <1>3

\* Steps inside the hold that write no relay.
LEMMA HoldQuietKeeps ==
    ASSUME ControlInv,
           ConfigureSame \/ Configured \/ \E who \in {"sampler", "reload"} : Configure(who)
    PROVE  BankStep /\ Engine'
<1>. USE DEF ControlInv, Engine, Typed, BankInv, CommandDone, ReloadDone, Unlock, NoCmd
<1>1. /\ BankStep /\ UNCHANGED <<bankVars, rulesVars, driver, histVars, faults, driven, drivenCh>>
      /\ late' \subseteq late
    BY DEF ConfigureSame, Configured, Configure, holdVars, BankStep
<1>2. HoldForgetsNoCoil'  BY <1>1 DEF bankVars, HoldForgetsNoCoil
<1>3. HistoryTypeOK'  BY <1>1 DEF histVars, HistoryTypeOK
<1>4. RulesTypeOK'
    <2>1. spc' \in {spc, "evaluate"}
        BY DEF ConfigureSame, Configured, Configure
    <2>. QED  BY <1>1, <2>1 DEF rulesVars, RulesTypeOK
<1>5. HoldTypeOK'
    BY <1>1 DEF ConfigureSame, Configured, Configure, holdVars, HoldTypeOK
<1>6. CommandTypeOK'
    BY DEF ConfigureSame, Configured, Configure, cmdVars, CommandTypeOK
<1>7. Busy'
    <2>1. spc' = spc \/ spc' = "evaluate"
        BY DEF ConfigureSame, Configured, Configure
    <2>2. cpc' = cpc /\ cmd' = cmd
        BY DEF ConfigureSame, Configured, Configure, cmdVars
    <2>. QED  BY <1>1, <2>1, <2>2 DEF rulesVars, Busy
<1>. QED  BY <1>1, <1>2, <1>3, <1>4, <1>5, <1>6, <1>7

\* Steps inside the hold that may drive its coil.
LEMMA HoldDrivesKeeps ==
    ASSUME ControlInv, LetGo \/ TakeOver \/ EvaluateHold \/ Judge
    PROVE  BankStep /\ Engine'
<1>. USE DEF ControlInv, Engine, Typed, BankInv, Unlock
<1>1. /\ BankStep /\ HistoryTypeOK' /\ HoldForgetsNoCoil'
      /\ driven' \in BOOLEAN /\ drivenCh' \in Owner
    <2>1. CASE DriveOff \/ (relay # 0 /\ ~driven /\ DriveOn)
        BY <2>1, HoldDrives
    <2>2. CASE UNCHANGED <<bankVars, driver, late, histVars, faults, driven, drivenCh>>
        BY <2>2 DEF BankStep, bankVars, histVars, HistoryTypeOK, HoldForgetsNoCoil, HoldTypeOK
    <2>3. CASE EvaluateHold  BY <2>1, <2>2, <2>3 DEF EvaluateHold
    <2>4. CASE LetGo \/ TakeOver  BY <2>1, <2>4 DEF LetGo, TakeOver
    <2>5. CASE Judge
        <3>1. CASE relay # 0 /\ holding' # driven /\ holding'
            BY <2>1, <2>5, <3>1 DEF Judge, HoldTypeOK
        <3>2. CASE relay # 0 /\ holding' # driven /\ ~holding'
            BY <2>1, <2>5, <3>2 DEF Judge
        <3>3. CASE ~(relay # 0 /\ holding' # driven)
            BY <2>2, <2>5, <3>3 DEF Judge
        <3>. QED  BY <3>1, <3>2, <3>3
    <2>. QED  BY <2>3, <2>4, <2>5
<1>2. RulesTypeOK' /\ CommandTypeOK'
    BY DEF LetGo, TakeOver, EvaluateHold, Judge, rulesVars, cmdVars, RulesTypeOK, CommandTypeOK
<1>3. HoldTypeOK'
    BY <1>1 DEF LetGo, TakeOver, EvaluateHold, Judge, HoldTypeOK
<1>4. Busy'
    BY DEF LetGo, TakeOver, EvaluateHold, Judge, rulesVars, cmdVars, Busy
<1>. QED  BY <1>1, <1>2, <1>3, <1>4

\* The idle command is a command.
LEMMA NoCmdTyped ==
    NoCmd \in [ch : Owner, on : BOOLEAN, dur : Duration \cup {0}, lora : BOOLEAN, saw : Owner]
BY DEF NoCmd, Owner

\* Commands from the Service Window, the cloud and LoRa, and a settings reload.
LEMMA CommandKeeps ==
    ASSUME ControlInv,
           CheckOwner \/ CommandSet \/ CommandSetFails \/ CommandArm \/ ReloadSettings
    PROVE  BankStep /\ Engine'
<1>. USE DEF ControlInv, Engine, Typed, BankInv, CommandDone, NoCmd
<1>1. CASE CheckOwner
    <2>1. PICK c \in Commanded \ Reserved, on \in BOOLEAN, d \in Duration \cup {0},
               lora \in BOOLEAN :
              cmd' = [ch |-> c, on |-> on, dur |-> IF on THEN d ELSE 0,
                      lora |-> on /\ d > 0 /\ lora, saw |-> relay]
        BY <1>1 DEF CheckOwner
    <2>2. c \in Channel  BY RulesAssumption
    <2>3. CommandTypeOK'
        <3>1. (IF on THEN d ELSE 0) \in Duration \cup {0} /\ relay \in Owner /\ c \in Owner
            BY <2>2 DEF HoldTypeOK, Owner
        <3>2. (on /\ d > 0 /\ lora) \in BOOLEAN  OBVIOUS
        <3>3. cpc' = "checked" /\ reloading' = reloading  BY <1>1 DEF CheckOwner
        <3>. QED  BY <2>1, <3>1, <3>2, <3>3 DEF CommandTypeOK
    <2>4. Busy'  BY <1>1, <2>1, <2>2 DEF CheckOwner, rulesVars, Busy
    <2>5. RulesTypeOK' /\ HoldTypeOK'
        BY <1>1 DEF CheckOwner, rulesVars, holdVars, RulesTypeOK, HoldTypeOK
    <2>6. HistoryTypeOK' /\ HoldForgetsNoCoil' /\ BankStep
        BY <1>1 DEF CheckOwner, bankVars, holdVars, histVars, HistoryTypeOK, HoldForgetsNoCoil,
           BankStep
    <2>. QED  BY <2>3, <2>4, <2>5, <2>6
<1>2. CASE CommandSet
    <2>1. cmd.ch \in Channel /\ cmd.on \in BOOLEAN  BY <1>2 DEF CommandSet, Busy, CommandTypeOK
    <2>2. "command" \in {"command", "rules"} \cup Sensor /\ "command" # "hold"  OBVIOUS
    <2>3. Switch(cmd.ch, cmd.on, "command", cmd.saw) /\ UNCHANGED <<driven, drivenCh>>
        BY <1>2 DEF CommandSet, holdVars
    <2>4. BankNext /\ HistoryTypeOK' /\ HoldForgetsNoCoil'
        BY <2>1, <2>2, <2>3, OthersSwitch
    <2>5. RulesTypeOK' /\ HoldTypeOK'
        BY <1>2 DEF CommandSet, rulesVars, holdVars, RulesTypeOK, HoldTypeOK
    <2>6. CommandTypeOK'  BY <1>2, NoCmdTyped DEF CommandSet, CommandTypeOK
    <2>7. Busy'  BY <1>2, <2>1 DEF CommandSet, rulesVars, CommandTypeOK, Busy
    <2>. QED  BY <2>4, <2>5, <2>6, <2>7 DEF BankStep
<1>3. CASE CommandSetFails
    <2>1. BankStep /\ HoldForgetsNoCoil'
        BY <1>3 DEF CommandSetFails, WriteFails, bankVars, holdVars, HoldForgetsNoCoil, BankStep
    <2>2. HistoryTypeOK'
        BY <1>3, RulesAssumption DEF CommandSetFails, WriteFails, histVars, HistoryTypeOK
    <2>3. RulesTypeOK' /\ HoldTypeOK'
        BY <1>3 DEF CommandSetFails, rulesVars, holdVars, RulesTypeOK, HoldTypeOK
    <2>4. CommandTypeOK'  BY <1>3, NoCmdTyped DEF CommandSetFails, CommandTypeOK
    <2>5. Busy'  BY <1>3 DEF CommandSetFails, rulesVars, Busy
    <2>. QED  BY <2>1, <2>2, <2>3, <2>4, <2>5
<1>4. CASE CommandArm
    <2>1. cmd.ch \in Channel /\ cmd.dur \in Duration
        BY <1>4 DEF CommandArm, Busy, CommandTypeOK
    <2>2. ArmFor(cmd.ch, cmd.dur, cmd.saw) /\ UNCHANGED <<driven, drivenCh>>
        BY <1>4 DEF CommandArm, holdVars
    <2>3. BankStep /\ HistoryTypeOK' /\ HoldForgetsNoCoil'
        <3>. DEFINE c == cmd.ch
                    d == cmd.dur
                    saw == cmd.saw
        <3>1. c \in Channel /\ d \in Duration /\ ArmFor(c, d, saw)  BY <2>1, <2>2
        <3>. HIDE DEF c, d, saw
        <3>. QED  BY <2>2, <3>1, ArmForStep
    <2>4. RulesTypeOK'
        BY <1>4, <2>1 DEF CommandArm, RulesTypeOK
    <2>5. HoldTypeOK'  BY <1>4 DEF CommandArm, holdVars, HoldTypeOK
    <2>6. CommandTypeOK'  BY <1>4, NoCmdTyped DEF CommandArm, CommandTypeOK
    <2>7. Busy'  BY <1>4 DEF CommandArm, Busy
    <2>. QED  BY <2>3, <2>4, <2>5, <2>6, <2>7
<1>5. CASE ReloadSettings
    <2>1. BankStep /\ HoldForgetsNoCoil' /\ HistoryTypeOK' /\ RulesTypeOK'
        BY <1>5 DEF ReloadSettings, bankVars, rulesVars, histVars, HoldForgetsNoCoil,
           HistoryTypeOK, RulesTypeOK, BankStep
    <2>2. HoldTypeOK'  BY <1>5 DEF ReloadSettings, HoldTypeOK, Owner
    <2>3. CommandTypeOK' /\ Busy'
        BY <1>5 DEF ReloadSettings, rulesVars, CommandTypeOK, Busy
    <2>. QED  BY <2>1, <2>2, <2>3
<1>. QED  BY <1>1, <1>2, <1>3, <1>4, <1>5

\* Coils dropped by a timer or before a reboot: none comes on.
LEMMA DropsKeep ==
    ASSUME ControlInv, RunTimer \/ TimerWriteFails \/ RebootFailsafe
    PROVE  BankStep /\ Engine'
<1>. USE DEF ControlInv, Engine, Typed, BankInv
<1>1. BankNext
    BY DEF RunTimer, TimerWriteFails, RebootFailsafe, BankNext
<1>2. /\ \A c \in Channel : pin'[c] => pin[c]
      /\ UNCHANGED <<driven, drivenCh>>
      /\ \A c \in Channel : pin'[c] => driver'[c] = driver[c]
    <2>1. \A c \in Channel : pin'[c] => pin[c]
        BY DEF RunTimer, TimerWriteFails, RebootFailsafe, TimerFires, AutoOff, AutoOffFails,
           AllOff, AllOffFails, BankTypeOK
    <2>2. UNCHANGED <<driven, drivenCh>>
        BY DEF RunTimer, TimerWriteFails, RebootFailsafe, holdVars
    <2>3. \A c \in Channel : pin'[c] => driver'[c] = driver[c]
        BY DEF RunTimer, TimerWriteFails, RebootFailsafe, ForgetDropped
    <2>. QED  BY <2>1, <2>2, <2>3
<1>3. HoldForgetsNoCoil'  BY <1>2 DEF HoldForgetsNoCoil
<1>4. HistoryTypeOK'
    <2>1. CASE RunTimer
        BY <2>1 DEF RunTimer, ForgetDropped, HistoryTypeOK
    <2>2. CASE TimerWriteFails
        BY <2>2, RulesAssumption DEF TimerWriteFails, histVars, HistoryTypeOK
    <2>3. CASE RebootFailsafe
        <3>1. late' \subseteq Channel  BY <2>3 DEF RebootFailsafe, HistoryTypeOK, HoldTypeOK, Owner
        <3>2. faults' \in 0..MaxFaults
            BY <2>3, RulesAssumption DEF RebootFailsafe, HistoryTypeOK
        <3>3. /\ lost' \subseteq Channel /\ withheld' \subseteq Channel
              /\ driver' \in [Channel -> {"none", "hold", "command", "rules"} \cup Sensor]
            BY <2>3 DEF RebootFailsafe, ForgetDropped, HistoryTypeOK
        <3>. QED  BY <3>1, <3>2, <3>3 DEF HistoryTypeOK
    <2>. QED  BY <2>1, <2>2, <2>3
<1>5. RulesTypeOK' /\ HoldTypeOK'
    BY DEF RunTimer, TimerWriteFails, RebootFailsafe, rulesVars, holdVars, RulesTypeOK, HoldTypeOK
<1>6. CommandTypeOK' /\ Busy'
    BY DEF RunTimer, TimerWriteFails, RebootFailsafe, rulesVars, cmdVars, CommandTypeOK, Busy
<1>. QED  BY <1>1, <1>3, <1>4, <1>5, <1>6 DEF BankStep

\* The service starts with every coil off and nothing to remember.
LEMMA ControlInitInv == ControlInit => ControlInv
<1>. SUFFICES ASSUME ControlInit  PROVE  ControlInv
    OBVIOUS
<1>1. BankInv  BY BankInitInv DEF ControlInit
<1>2. \A c \in Channel : ~pin[c]  BY DEF ControlInit, BankInit
<1>3. RulesTypeOK  BY DEF ControlInit, RulesTypeOK, Owner
<1>4. HoldTypeOK  BY DEF ControlInit, HoldTypeOK, Owner
<1>5. CommandTypeOK  BY NoCmdTyped DEF ControlInit, CommandTypeOK
<1>6. HistoryTypeOK  BY RulesAssumption DEF ControlInit, HistoryTypeOK
<1>7. Busy  BY DEF ControlInit, Busy
<1>8. HoldForgetsNoCoil  BY <1>2 DEF HoldForgetsNoCoil
<1>. QED  BY <1>1, <1>3, <1>4, <1>5, <1>6, <1>7, <1>8 DEF ControlInv, Engine, Typed

\* The invariant is inductive, and every step is a step of the bank.
LEMMA ControlStep ==
    ControlInv /\ [ControlNext]_vars => ControlInv' /\ [BankNext]_bankVars
<1>. SUFFICES ASSUME ControlInv, [ControlNext]_vars
              PROVE  ControlInv' /\ [BankNext]_bankVars
    OBVIOUS
<1>1. BankStep /\ Engine'
    <2>1. CASE UNCHANGED vars
        BY <2>1 DEF vars, controlVars, bankVars, rulesVars, holdVars, cmdVars, histVars, ControlInv,
           Engine, Typed, RulesTypeOK, HoldTypeOK, CommandTypeOK, HistoryTypeOK, Busy,
           HoldForgetsNoCoil, BankStep
    <2>2. CASE SamplerStep
        BY <2>2, EvaluateKeeps, ApplyFailsKeeps, ApplyDurationKeeps, ApplyDropKeeps, ApplyRuleKeeps
           DEF SamplerStep
    <2>3. CASE HoldStep
        BY <2>3, HoldQuietKeeps, HoldDrivesKeeps DEF HoldStep
    <2>4. CASE CommandStep
        BY <2>4, CommandKeeps, DropsKeep DEF CommandStep
    <2>5. CASE RunTimer \/ TimerWriteFails
        BY <2>5, DropsKeep
    <2>. QED  BY <2>1, <2>2, <2>3, <2>4, <2>5 DEF ControlNext
<1>2. [BankNext]_bankVars  BY <1>1 DEF BankStep
<1>3. BankInv'  BY <1>2, BankStepKeeps DEF ControlInv
<1>. QED  BY <1>1, <1>2, <1>3 DEF ControlInv

\* The inductive invariant of the whole.
THEOREM ControlInvariance == ControlSpec => []ControlInv
BY ControlInitInv, ControlStep, PTL DEF ControlSpec

\* Whatever rules, hold, commands and reloads do to the coils, they do through
\* RelayBank: its promises are theirs.
THEOREM ControlIsABank == ControlSpec => BankSpec
<1>1. ControlInit => BankInit  BY DEF ControlInit
<1>. QED  BY <1>1, ControlInvariance, ControlStep, PTL DEF ControlSpec, BankSpec

\* Type correctness of the whole.
THEOREM ControlTypeCorrect == ControlSpec => []ControlTypeOK
<1>1. ControlInv => ControlTypeOK
    BY DEF ControlInv, BankInv, Engine, Typed, ControlTypeOK
<1>. QED  BY <1>1, ControlInvariance, PTL

\* The ceiling covers every bounded on-period, whoever asked for it
\* (relay.py set, arm_auto_off, _auto_off).
THEOREM CeilingCovers == ControlSpec => []BoundedCoilIsCovered
<1>1. ControlInv => BoundedCoilIsCovered  BY BankInvImplies DEF ControlInv
<1>. QED  BY <1>1, ControlInvariance, PTL

\* The state bits agree with the pins.
THEOREM BitsMatch == ControlSpec => []BitMatchesPin
<1>1. ControlInv => BitMatchesPin  BY BankInvImplies DEF ControlInv
<1>. QED  BY <1>1, ControlInvariance, PTL

\* A superseded timer thread never drops a coil (relay.py _auto_off).
THEOREM SupersededInert == ControlSpec => SupersededTimerIsInert
<1>1. ControlInv /\ [ControlNext]_vars =>
          [\A t \in Timer :
              thread[t].state = "fired" /\ thread[t].stale /\ thread'[t] = Free => pin' = pin]_bankVars
    BY ControlStep, StepInert DEF ControlInv
<1>. QED  BY <1>1, ControlInvariance, PTL DEF ControlSpec, SupersededTimerIsInert

\* The hold never loses track of a coil it energised, however many of its
\* writes fail (irrigation_hold.py configure, evaluate, _drive).
THEOREM HoldRemembers == ControlSpec => []HoldForgetsNoCoil
<1>1. ControlInv => HoldForgetsNoCoil  BY DEF ControlInv, Engine
<1>. QED  BY <1>1, ControlInvariance, PTL
-----------------------------------------------------------------------------
(* The mandate of whoever drives a coil                                    *)

\* A coil that is on for a suspended probe is one the cycle still has to drop,
\* or one of the exceptions.
FrozenDue ==
    \A c \in Channel : pin[c] /\ driver[c] \in suspended => c \in lost \cup withheld \cup drops

\* A coil is on for a probe only if a rule of that probe drives it.
OwnCoils ==
    \A c \in Channel : driver[c] \in Sensor =>
        \E j \in DOMAIN Rules : Rules[j].sensor = driver[c] /\ Rules[j].relay = c

\* What the cycle still has to do is nothing for a suspended probe, and it has
\* done it before the hold's turn.
Pending ==
    /\ spc # "apply" => drops = {}
    /\ \A i \in fired : Rules[i].sensor \notin suspended
    /\ lock = "sampler" => spc \in {"hold", "evaluate"}
    /\ hpc = "judge" => lock = "sampler"

\* Nobody acts on a channel that was the hold's when they asked.
AskedFirst ==
    /\ rulesSaw \notin drops
    /\ \A i \in fired : Rules[i].relay # rulesSaw
    /\ cpc \in {"checked", "arm"} => cmd.ch # cmd.saw

\* What the hold believes of its coils, and how many writes had to fail for it
\* to be wrong.
HoldMandate ==
    /\ driven <=> drivenCh # 0
    /\ lock = "none" <=> hpc = "out"
    /\ driven /\ drivenCh # relay /\ hpc # "letgo" => faults >= 1
    /\ driven /\ hpc = "takeover" => faults >= 1
    /\ relay # 0 /\ relay \notin late /\ driven /\ drivenCh = relay /\ faults <= 1
          /\ hpc # "takeover" => pin[relay] /\ timers[relay] = None
    /\ relay # 0 /\ relay \notin late /\ pin[relay] /\ faults = 0
          /\ hpc \notin {"letgo", "takeover"} => driven

Mandate == FrozenDue /\ OwnCoils /\ Pending /\ AskedFirst /\ HoldMandate

\* Nobody has a mandate when the service starts, and no coil is on.
LEMMA MandateInit == ControlInit => Mandate
BY RulesAssumption
   DEF ControlInit, BankInit, NoCmd, Sensor, Mandate, FrozenDue, OwnCoils, Pending, AskedFirst,
       HoldMandate

\* What the mandates say of the coils.
LEMMA MandateImplies == Mandate => DriversKeepTheirMandate
BY DEF Mandate, FrozenDue, Pending, HoldMandate, DriversKeepTheirMandate, FrozenProbeDrivesNothing,
       OwnedCoilIsTheHolds

\* One relay write leaves the other channels alone, and by the hold no timer.
LEMMA SwitchEffects ==
    ASSUME BankInv, NEW c \in Channel, NEW on \in BOOLEAN, NEW who, NEW saw,
           Switch(c, on, who, saw)
    PROVE  /\ \A d \in Channel \ {c} : pin'[d] = pin[d] /\ timers'[d] = timers[d]
           /\ pin'[c] = on
           /\ who = "hold" \/ ~on => timers'[c] = None
<1>. USE DEF BankInv, BankTypeOK
<1>1. CASE on
    <2>1. SetOn(c, who = "hold") /\ (who = "hold") \in BOOLEAN  BY <1>1 DEF Switch
    <2>2. CASE MaxOn > 0 /\ who # "hold"
        <3>1. Arm(c, MaxOn) /\ MaxOn \in Nat /\ MaxOn <= MaxOn
            BY <2>1, <2>2, BankAssumption DEF SetOn
        <3>2. \A d \in Channel \ {c} : timers'[d] = timers[d]  BY <3>1, ArmKeeps
        <3>. QED  BY <1>1, <2>1, <2>2, <3>2 DEF SetOn
    <2>3. CASE ~(MaxOn > 0 /\ who # "hold")
        <3>1. CancelTimers({c})  BY <2>1, <2>3 DEF SetOn
        <3>2. timers' = [d \in Channel |-> IF d \in {c} THEN None ELSE timers[d]]
            BY <3>1 DEF CancelTimers
        <3>. QED  BY <1>1, <2>1, <3>2 DEF SetOn
    <2>. QED  BY <2>2, <2>3
<1>2. CASE ~on
    BY <1>2 DEF Switch, SetOff, CancelTimers
<1>. QED  BY <1>1, <1>2

\* The mandates of the rules outlive a relay write by anybody with a mandate.
LEMMA SwitchKeepsRules ==
    ASSUME ControlInv, FrozenDue, OwnCoils, NEW c \in Channel, NEW on \in BOOLEAN,
           NEW who \in {"hold", "command", "rules"} \cup Sensor, NEW saw,
           Switch(c, on, who, saw),
           on /\ who \in Sensor =>
               /\ who \notin suspended
               /\ \E j \in DOMAIN Rules : Rules[j].sensor = who /\ Rules[j].relay = c,
           suspended' = suspended, drops \ {c} \subseteq drops'
    PROVE  FrozenDue' /\ OwnCoils'
<1>. USE DEF ControlInv, Engine, Typed, BankInv
<1>1. driver' = [driver EXCEPT ![c] = IF on THEN who ELSE "none"]  BY DEF Switch
<1>2. driver \in [Channel -> {"none", "hold", "command", "rules"} \cup Sensor]
    BY DEF HistoryTypeOK
<1>3. suspended \subseteq Sensor /\ Sensor \cap {"none", "hold", "command", "rules"} = {}
    BY RulesAssumption DEF RulesTypeOK
<1>4. /\ \A d \in Channel \ {c} : pin'[d] = pin[d]
      /\ lost' = lost \ {c} /\ withheld' = withheld \ {c}
    BY SwitchEffects DEF Switch
<1>5. driver'[c] \notin suspended  BY <1>1, <1>2, <1>3
<1>6. FrozenDue'  BY <1>1, <1>2, <1>4, <1>5 DEF FrozenDue
<1>7. OwnCoils'  BY <1>1, <1>2, <1>3 DEF OwnCoils
<1>. QED  BY <1>6, <1>7

\* The hold's beliefs outlive a step of another thread that leaves its channel
\* alone, or makes it late.
LEMMA OthersKeepHold ==
    ASSUME HoldMandate, faults \in Nat, faults' \in Nat, faults' >= faults,
           UNCHANGED <<relay, driven, drivenCh, hpc, lock>>,
           relay # 0 /\ relay \notin late' =>
               /\ relay \notin late
               /\ pin'[relay] => pin[relay]
               /\ timers[relay] = None => timers'[relay] = None /\ pin'[relay] = pin[relay]
    PROVE  HoldMandate'
BY DEF HoldMandate

\* A relay write by a rule or a command that asked first.
LEMMA OthersMandate ==
    ASSUME ControlInv, Mandate, NEW c \in Channel, NEW on \in BOOLEAN,
           NEW who \in {"command", "rules"} \cup Sensor, NEW saw, saw # c,
           Switch(c, on, who, saw),
           on /\ who \in Sensor =>
               /\ who \notin suspended
               /\ \E j \in DOMAIN Rules : Rules[j].sensor = who /\ Rules[j].relay = c,
           UNCHANGED <<suspended, holdVars>>, drops \ {c} \subseteq drops'
    PROVE  FrozenDue' /\ OwnCoils' /\ HoldMandate'
<1>. USE DEF ControlInv, Engine, Typed, Mandate
<1>1. FrozenDue' /\ OwnCoils'  BY SwitchKeepsRules
<1>2. \A d \in Channel \ {c} : pin'[d] = pin[d] /\ timers'[d] = timers[d]
    BY SwitchEffects
<1>3. faults' = faults /\ late' = IF c = relay THEN late \cup {c} ELSE late \ {c}
    BY DEF Switch
<1>4. relay # 0 /\ relay \notin late' =>
          /\ relay \notin late
          /\ pin'[relay] = pin[relay] /\ timers'[relay] = timers[relay]
    BY <1>2, <1>3 DEF HoldTypeOK, Owner
<1>5. HoldMandate'
    <2>1. UNCHANGED <<relay, driven, drivenCh, hpc, lock>>  BY DEF holdVars
    <2>2. faults \in Nat  BY RulesAssumption DEF HistoryTypeOK
    <2>. QED  BY <1>3, <1>4, <2>1, <2>2, OthersKeepHold
<1>. QED  BY <1>1, <1>5

\* An auto-off armed by a rule or a command that asked first.
LEMMA ArmForMandate ==
    ASSUME ControlInv, Mandate, NEW c \in Channel, NEW d \in Duration, NEW saw, saw # c,
           ArmFor(c, d, saw), UNCHANGED holdVars
    PROVE  UNCHANGED <<pin, driver, lost, withheld, faults>> /\ HoldMandate'
<1>. USE DEF ControlInv, Engine, Typed, BankInv, Mandate
<1>1. UNCHANGED <<pin, driver, lost, withheld, faults>>
    BY DEF ArmFor, ArmAutoOff, bankVars, histVars
<1>2. CASE bit[c]
    <2>1. ArmAutoOff(c, d)  BY <1>2 DEF ArmFor
    <2>2. d \in Nat  BY BankAssumption
    <2>3. \A e \in Channel \ {c} : timers'[e] = timers[e]
        BY <2>1, <2>2, CeiledBound, ArmKeeps DEF ArmAutoOff
    <2>4. relay # 0 /\ relay \notin late' => relay \notin late /\ relay # c
        BY <1>2 DEF ArmFor
    <2>5. HoldMandate'
        <3>1. UNCHANGED <<relay, driven, drivenCh, hpc, lock>>  BY DEF holdVars
        <3>2. faults \in Nat  BY RulesAssumption DEF HistoryTypeOK
        <3>3. relay # 0 /\ relay \notin late' =>
                  /\ relay \notin late
                  /\ pin'[relay] = pin[relay] /\ timers'[relay] = timers[relay]
            BY <1>1, <2>3, <2>4 DEF HoldTypeOK, Owner
        <3>. QED  BY <1>1, <3>1, <3>2, <3>3, OthersKeepHold
    <2>. QED  BY <1>1, <2>5
<1>3. CASE ~bit[c]
    <2>1. UNCHANGED bankVars /\ late' = late  BY <1>3 DEF ArmFor
    <2>. QED  BY <1>1, <2>1 DEF bankVars, holdVars, HoldMandate
<1>. QED  BY <1>2, <1>3

\* The rules' cycle: what it decides, and what it then does.
LEMMA EvaluateMandate ==
    ASSUME ControlInv, Mandate, Evaluate
    PROVE  Mandate'
<1>. USE DEF ControlInv, Engine, Typed, Mandate
<1>1. PICK S \in SUBSET Sensor :
          \E expired \in SUBSET (sweeps \ (Reserved \cup FailsafeDue(S))) :
             /\ suspended' = S
             /\ drops' = FailsafeDue(S) \cup expired
             /\ fired' \subseteq {i \in DOMAIN Rules :
                                     Rules[i].relay \notin Reserved /\ Rules[i].sensor \notin S}
             /\ withheld' = withheld \cup {c \in FailsafeWanted(S) : c = relay /\ pin[c]}
             /\ rulesSaw' = relay
    BY DEF Evaluate
<1>2. spc = "idle" /\ drops = {} /\ spc' = "apply"  BY DEF Evaluate, Pending
<1>3. UNCHANGED <<bankVars, holdVars, cmdVars, driver, late, lost, faults>>  BY DEF Evaluate
<1>4. FrozenDue'
    <2>1. SUFFICES ASSUME NEW c \in Channel, pin[c], driver[c] \in S
                   PROVE  c \in lost \cup withheld' \cup drops'
        BY <1>1, <1>3 DEF FrozenDue, bankVars
    <2>2. CASE driver[c] \in suspended  BY <1>1, <1>2, <2>1, <2>2 DEF FrozenDue
    <2>3. CASE driver[c] \notin suspended
        <3>1. PICK j \in DOMAIN Rules : Rules[j].sensor = driver[c] /\ Rules[j].relay = c
            BY <2>1 DEF OwnCoils
        <3>2. c \in FailsafeWanted(S)  BY <2>1, <2>3, <3>1 DEF FailsafeWanted
        <3>. QED  BY <1>1, <2>1, <3>2 DEF FailsafeDue, Reserved
    <2>. QED  BY <2>2, <2>3
<1>5. OwnCoils'  BY <1>3 DEF OwnCoils
<1>6. Pending'
    <2>1. lock = "none" /\ UNCHANGED <<lock, hpc>>  BY <1>3 DEF Evaluate, holdVars
    <2>. QED  BY <1>1, <1>2, <2>1 DEF Pending
<1>7. AskedFirst'
    <2>1. \A i \in DOMAIN Rules : Rules[i].relay # 0  BY RuleFacts, BankAssumption
    <2>2. 0 \notin FailsafeDue(S) /\ 0 \notin sweeps
        BY <2>1, BankAssumption DEF FailsafeDue, FailsafeWanted, RulesTypeOK
    <2>3. rulesSaw' \notin drops'  BY <1>1, <2>2 DEF FailsafeDue, Reserved
    <2>4. \A i \in fired' : Rules[i].relay # rulesSaw'  BY <1>1, <2>1 DEF Reserved
    <2>. QED  BY <1>3, <2>3, <2>4 DEF AskedFirst, cmdVars
<1>8. HoldMandate'  BY <1>3 DEF HoldMandate, bankVars, holdVars
<1>. QED  BY <1>4, <1>5, <1>6, <1>7, <1>8

\* What the cycle applies, it applies on channels that were free, for live probes.
LEMMA ApplyMandate ==
    ASSUME ControlInv, Mandate,
           RulesDone \/ ApplyFails \/ ApplyDuration
               \/ (\E c \in Channel : ApplyDrop(c)) \/ \E i \in DOMAIN Rules : ApplyRule(i)
    PROVE  Mandate'
<1>. USE DEF ControlInv, Engine, Typed, Mandate
<1>1. ASSUME NEW c \in Channel, ApplyDrop(c)  PROVE  Mandate'
    <2>1. "rules" \in {"command", "rules"} \cup Sensor /\ FALSE \in BOOLEAN  OBVIOUS
    <2>2. Switch(c, FALSE, "rules", rulesSaw) /\ c \in drops /\ drops' = drops \ {c}
        BY <1>1 DEF ApplyDrop
    <2>3. rulesSaw # c  BY <2>2 DEF AskedFirst
    <2>4. UNCHANGED <<suspended, holdVars>>  BY <1>1 DEF ApplyDrop
    <2>5. FrozenDue' /\ OwnCoils' /\ HoldMandate'  BY <2>1, <2>2, <2>3, <2>4, OthersMandate
    <2>6. Pending'  BY <1>1 DEF ApplyDrop, holdVars, Pending
    <2>7. AskedFirst'  BY <1>1 DEF ApplyDrop, AskedFirst, cmdVars
    <2>. QED  BY <2>5, <2>6, <2>7
<1>2. ASSUME NEW i \in DOMAIN Rules, ApplyRule(i)  PROVE  Mandate'
    <2>. DEFINE c == Rules[i].relay
                on == Rules[i].on
                who == Rules[i].sensor
    <2>1. c \in Channel /\ on \in BOOLEAN /\ who \in {"command", "rules"} \cup Sensor
        BY RuleFacts
    <2>2. Switch(c, on, who, rulesSaw) /\ i \in fired /\ drops = {} /\ drops' = drops
        BY <1>2 DEF ApplyRule, Turn
    <2>3. rulesSaw # c  BY <2>2 DEF AskedFirst
    <2>4. UNCHANGED <<suspended, holdVars>>  BY <1>2 DEF ApplyRule
    <2>5. /\ who \notin suspended
          /\ \E j \in DOMAIN Rules : Rules[j].sensor = who /\ Rules[j].relay = c
        BY <2>2 DEF Pending
    <2>6. FrozenDue' /\ OwnCoils' /\ HoldMandate'
        <3>. HIDE DEF c, on, who
        <3>. QED  BY <2>1, <2>2, <2>3, <2>4, <2>5, OthersMandate
    <2>7. fired' \subseteq fired /\ rulesSaw' = rulesSaw /\ UNCHANGED cmdVars
        BY <1>2 DEF ApplyRule
    <2>8. Pending'
        <3>1. spc = "apply"  BY <1>2 DEF ApplyRule, Turn
        <3>. QED  BY <2>2, <2>4, <2>7, <3>1 DEF holdVars, Pending
    <2>9. AskedFirst'  BY <2>2, <2>7 DEF AskedFirst, cmdVars
    <2>. QED  BY <2>6, <2>8, <2>9
<1>3. CASE ApplyFails
    <2>1. /\ UNCHANGED <<bankVars, driver, late, suspended, rulesSaw, spc, holdVars, cmdVars, withheld>>
          /\ faults' = faults + 1
          /\ fired' \subseteq fired
          /\ drops' \subseteq drops
          /\ \A c \in drops : pin[c] => c \in drops' \cup lost'
          /\ lost \subseteq lost'
        BY <1>3 DEF ApplyFails, WriteFails
    <2>2. FrozenDue'  BY <2>1 DEF FrozenDue, bankVars
    <2>3. OwnCoils'  BY <2>1 DEF OwnCoils
    <2>4. Pending'  BY <2>1 DEF holdVars, Pending
    <2>5. AskedFirst'  BY <2>1 DEF AskedFirst, cmdVars
    <2>6. HoldMandate'
        <3>1. faults \in Nat  BY RulesAssumption DEF HistoryTypeOK
        <3>. QED  BY <2>1, <3>1, OthersKeepHold DEF bankVars, holdVars
    <2>. QED  BY <2>2, <2>3, <2>4, <2>5, <2>6
<1>4. CASE ApplyDuration
    <2>1. PICK i \in fired :
              /\ \A j \in fired : i <= j
              /\ ArmFor(Rules[i].relay, durs[Rules[i].relay], rulesSaw)
              /\ fired' = fired \ {i}
        BY <1>4 DEF ApplyDuration
    <2>. DEFINE c == Rules[i].relay
                d == durs[c]
    <2>2. c \in Channel /\ rulesSaw # c  BY RuleFacts DEF RulesTypeOK, AskedFirst
    <2>3. d \in Duration
        <3>1. d > 0  BY <1>4, <2>1 DEF ApplyDuration, Busy
        <3>2. d \in Duration \cup {0}  BY <2>2 DEF RulesTypeOK
        <3>. QED  BY <3>1, <3>2
    <2>4. UNCHANGED <<pin, driver, lost, withheld, faults>> /\ HoldMandate'
        <3>1. ArmFor(c, d, rulesSaw) /\ UNCHANGED holdVars  BY <2>1, <1>4 DEF ApplyDuration
        <3>. HIDE DEF c, d
        <3>. QED  BY <2>2, <2>3, <3>1, ArmForMandate
    <2>5. UNCHANGED <<suspended, drops, rulesSaw, cmdVars>> /\ spc' = "apply" /\ fired' \subseteq fired
        BY <1>4, <2>1 DEF ApplyDuration
    <2>6. FrozenDue' /\ OwnCoils'  BY <2>4, <2>5 DEF FrozenDue, OwnCoils
    <2>7. Pending'
        <3>1. spc = "arm" /\ UNCHANGED holdVars  BY <1>4 DEF ApplyDuration
        <3>. QED  BY <2>5, <3>1 DEF holdVars, Pending
    <2>8. AskedFirst'  BY <2>5 DEF AskedFirst, cmdVars
    <2>. QED  BY <2>4, <2>6, <2>7, <2>8
<1>5. CASE RulesDone
    <2>1. UNCHANGED <<bankVars, suspended, drops, fired, holdVars, cmdVars, driver, late, histVars, faults>>
          /\ drops = {} /\ fired = {} /\ spc' = "hold"
        BY <1>5 DEF RulesDone
    <2>. QED  BY <2>1 DEF bankVars, holdVars, cmdVars, histVars, FrozenDue, OwnCoils, Pending,
                 AskedFirst, HoldMandate
<1>. QED  BY <1>1, <1>2, <1>3, <1>4, <1>5

\* Commands act on channels they found free; a reload waits for the hold.
LEMMA CommandMandate ==
    ASSUME ControlInv, Mandate,
           CheckOwner \/ CommandSet \/ CommandSetFails \/ CommandArm \/ ReloadSettings
    PROVE  Mandate'
<1>. USE DEF ControlInv, Engine, Typed, Mandate, CommandDone
<1>1. CASE CheckOwner
    <2>1. /\ UNCHANGED <<bankVars, rulesVars, spc, holdVars, driver, late, histVars, faults>>
          /\ \E c \in Channel \ Reserved : cmd'.ch = c /\ cmd'.saw = relay
        BY <1>1, RulesAssumption DEF CheckOwner
    <2>2. cmd'.ch # cmd'.saw  BY <2>1, BankAssumption DEF Reserved
    <2>. QED  BY <2>1, <2>2 DEF bankVars, rulesVars, holdVars, histVars, FrozenDue, OwnCoils,
                 Pending, AskedFirst, HoldMandate
<1>2. CASE CommandSet
    <2>1. cmd.ch \in Channel /\ cmd.on \in BOOLEAN /\ cmd.saw # cmd.ch
        BY <1>2 DEF CommandSet, Busy, CommandTypeOK, AskedFirst
    <2>2. "command" \in {"command", "rules"} \cup Sensor /\ "command" \notin Sensor
        BY RulesAssumption
    <2>3. /\ Switch(cmd.ch, cmd.on, "command", cmd.saw)
          /\ UNCHANGED <<rulesVars, spc, holdVars>>
          /\ (cpc' = "arm" /\ cmd' = cmd) \/ cpc' = "idle"
        BY <1>2 DEF CommandSet
    <2>4. UNCHANGED <<suspended, holdVars>> /\ drops \ {cmd.ch} \subseteq drops'
        BY <2>3 DEF rulesVars
    <2>5. FrozenDue' /\ OwnCoils' /\ HoldMandate'
        <3>. DEFINE c == cmd.ch
                    on == cmd.on
                    saw == cmd.saw
        <3>1. /\ c \in Channel /\ on \in BOOLEAN /\ saw # c
              /\ Switch(c, on, "command", saw) /\ drops \ {c} \subseteq drops'
            BY <2>1, <2>3, <2>4
        <3>. HIDE DEF c, on, saw
        <3>. QED  BY <2>2, <2>4, <3>1, OthersMandate
    <2>6. Pending'  BY <2>3 DEF rulesVars, holdVars, Pending
    <2>7. AskedFirst'  BY <1>2, <2>3 DEF CommandSet, rulesVars, AskedFirst
    <2>. QED  BY <2>5, <2>6, <2>7
<1>3. CASE CommandSetFails
    <2>1. /\ UNCHANGED <<bankVars, driver, late, rulesVars, spc, holdVars, histVars>>
          /\ faults' = faults + 1 /\ cpc' = "idle"
        BY <1>3 DEF CommandSetFails, WriteFails
    <2>2. FrozenDue' /\ OwnCoils' /\ Pending' /\ AskedFirst'
        BY <2>1 DEF bankVars, rulesVars, holdVars, histVars, FrozenDue, OwnCoils, Pending,
           AskedFirst
    <2>3. HoldMandate'
        <3>1. faults \in Nat  BY RulesAssumption DEF HistoryTypeOK
        <3>. QED  BY <2>1, <3>1, OthersKeepHold DEF bankVars, holdVars
    <2>. QED  BY <2>2, <2>3
<1>4. CASE CommandArm
    <2>1. /\ cmd.ch \in Channel /\ cmd.dur \in Duration /\ cmd.saw # cmd.ch
          /\ ArmFor(cmd.ch, cmd.dur, cmd.saw) /\ UNCHANGED holdVars
        BY <1>4 DEF CommandArm, Busy, CommandTypeOK, AskedFirst
    <2>2. UNCHANGED <<pin, driver, lost, withheld, faults>> /\ HoldMandate'
        <3>. DEFINE c == cmd.ch
                    d == cmd.dur
                    saw == cmd.saw
        <3>1. c \in Channel /\ d \in Duration /\ saw # c /\ ArmFor(c, d, saw)  BY <2>1
        <3>. HIDE DEF c, d, saw
        <3>. QED  BY <2>1, <3>1, ArmForMandate
    <2>3. UNCHANGED <<suspended, drops, fired, rulesSaw, spc>> /\ cpc' = "idle"
        BY <1>4 DEF CommandArm
    <2>. QED  BY <2>1, <2>2, <2>3 DEF holdVars, FrozenDue, OwnCoils, Pending, AskedFirst
<1>5. CASE ReloadSettings
    BY <1>5 DEF ReloadSettings, bankVars, rulesVars, histVars, FrozenDue, OwnCoils, Pending,
       AskedFirst, HoldMandate
<1>. QED  BY <1>1, <1>2, <1>3, <1>4, <1>5

\* A coil dropped by its timer was not the hold's; one dropped before a reboot
\* is late.
LEMMA DropsMandate ==
    ASSUME ControlInv, Mandate, RunTimer \/ TimerWriteFails \/ RebootFailsafe
    PROVE  Mandate'
<1>. USE DEF ControlInv, Engine, Typed, BankInv, Mandate
<1>1. /\ UNCHANGED <<rulesVars, spc, holdVars, cmdVars>>
      /\ \A c \in Channel : pin'[c] => pin[c]
      /\ \A c \in Channel : timers[c] = None => timers'[c] = None
      /\ RunTimer \/ TimerWriteFails => late' = late
    <2>1. \A c \in Channel : timers[c] = None => timers'[c] = None
        BY DEF RunTimer, TimerWriteFails, RebootFailsafe, TimerFires, AutoOff, AutoOffFails,
           AllOff, AllOffFails, CancelTimers, BankTypeOK
    <2>2. \A c \in Channel : pin'[c] => pin[c]
        BY DEF RunTimer, TimerWriteFails, RebootFailsafe, TimerFires, AutoOff, AutoOffFails,
           AllOff, AllOffFails, BankTypeOK
    <2>. QED  BY <2>1, <2>2 DEF RunTimer, TimerWriteFails, RebootFailsafe
<1>2. /\ \A c \in Channel : driver'[c] = driver[c] \/ (~pin'[c] /\ driver'[c] = "none")
      /\ \A c \in Channel : pin'[c] => (c \in lost => c \in lost') /\ (c \in withheld => c \in withheld')
    BY DEF RunTimer, TimerWriteFails, RebootFailsafe, ForgetDropped, histVars, HistoryTypeOK
<1>3. FrozenDue'
    <2>1. \A c \in Channel : pin'[c] => pin[c] /\ driver'[c] = driver[c]
        BY <1>1 DEF RunTimer, TimerWriteFails, RebootFailsafe, ForgetDropped
    <2>. QED  BY <1>1, <1>2, <2>1 DEF rulesVars, FrozenDue
<1>4. OwnCoils'
    <2>1. "none" \notin Sensor  BY RulesAssumption
    <2>. QED  BY <1>2, <2>1 DEF OwnCoils
<1>5. Pending' /\ AskedFirst'  BY <1>1 DEF rulesVars, holdVars, cmdVars, Pending, AskedFirst
<1>6. HoldMandate'
    <2>1. faults \in Nat /\ faults' \in Nat /\ faults' >= faults
        BY RulesAssumption DEF RunTimer, TimerWriteFails, RebootFailsafe, HistoryTypeOK
    <2>2. ASSUME relay # 0, relay \notin late'
          PROVE  /\ relay \notin late
                 /\ pin'[relay] => pin[relay]
                 /\ timers[relay] = None => timers'[relay] = None /\ pin'[relay] = pin[relay]
        <3>1. relay \in Channel  BY <2>2 DEF HoldTypeOK, Owner
        <3>2. CASE RebootFailsafe
            BY <1>1, <2>2, <3>1, <3>2 DEF RebootFailsafe
        <3>3. CASE TimerWriteFails
            <4>1. pin' = pin /\ late' = late  BY <3>3 DEF TimerWriteFails, AutoOffFails
            <4>. QED  BY <1>1, <2>2, <3>1, <4>1
        <3>4. CASE RunTimer
            <4>1. timers[relay] = None => pin'[relay] = pin[relay]
                BY <3>1, <3>4, BankAssumption DEF RunTimer, TimerFires, AutoOff, BankTypeOK
            <4>. QED  BY <1>1, <2>2, <3>1, <3>4, <4>1
        <3>. QED  BY <3>2, <3>3, <3>4
    <2>3. UNCHANGED <<relay, driven, drivenCh, hpc, lock>>  BY <1>1 DEF holdVars
    <2>. QED  BY <2>1, <2>2, <2>3, OthersKeepHold
<1>. QED  BY <1>3, <1>4, <1>5, <1>6

\* What comes of a drive of the hold: no coil to drive, a write that failed, a
\* coil let go of, or the coil taken.
NothingDriven == UNCHANGED <<pin, timers, late, faults, driven, drivenCh>> /\ drivenCh = 0 /\ relay = 0
DriveFailed == UNCHANGED <<pin, timers, late, driven, drivenCh>> /\ faults' = faults + 1
GivenBack ==
    /\ driven' = FALSE /\ drivenCh' = 0 /\ faults' = faults
    /\ drivenCh \in {0, relay} /\ relay # 0 => ~pin'[relay]
Taken ==
    /\ driven' = TRUE /\ drivenCh' = relay /\ faults' = faults
    /\ pin'[relay] /\ timers'[relay] = None

\* A write of the hold leaves the mandates of the rules in force.
LEMMA HoldSwitch ==
    ASSUME ControlInv, Mandate, UNCHANGED rulesVars, NEW c \in Channel, NEW on \in BOOLEAN,
           Switch(c, on, "hold", relay)
    PROVE  /\ FrozenDue' /\ OwnCoils'
           /\ pin'[c] = on /\ timers'[c] = None /\ faults' = faults /\ late' = late \ {c}
<1>. USE DEF ControlInv, Engine, Typed, Mandate
<1>1. "hold" \in {"hold", "command", "rules"} \cup Sensor /\ "hold" \notin Sensor
    BY RulesAssumption
<1>2. suspended' = suspended /\ drops \ {c} \subseteq drops'  BY DEF rulesVars
<1>3. FrozenDue' /\ OwnCoils'  BY <1>1, <1>2, SwitchKeepsRules
<1>4. pin'[c] = on /\ timers'[c] = None  BY SwitchEffects
<1>. QED  BY <1>3, <1>4 DEF Switch

\* A write of the hold that fails changes nothing but the count of them.
LEMMA HoldWriteFails ==
    ASSUME Mandate, UNCHANGED rulesVars, WriteFails \/ UNCHANGED <<bankVars, driver, late, faults>>,
           UNCHANGED histVars
    PROVE  FrozenDue' /\ OwnCoils' /\ UNCHANGED <<pin, timers, late>>
BY DEF Mandate, WriteFails, bankVars, histVars, rulesVars, FrozenDue, OwnCoils

\* Taking the coil: the hold drives it and keeps no timer, or the write fails.
LEMMA HoldTakes ==
    ASSUME ControlInv, Mandate, UNCHANGED rulesVars, relay # 0, DriveOn
    PROVE  FrozenDue' /\ OwnCoils' /\ (DriveFailed \/ Taken)
<1>. USE DEF DriveFailed, Taken
<1>1. relay \in Channel  BY DEF ControlInv, Engine, Typed, HoldTypeOK, Owner
<1>2. CASE WriteFails /\ UNCHANGED <<histVars, driven, drivenCh>>
    BY <1>2, HoldWriteFails DEF WriteFails
<1>3. CASE Switch(relay, TRUE, "hold", relay) /\ driven' = TRUE /\ drivenCh' = relay
    BY <1>1, <1>3, HoldSwitch
<1>. QED  BY <1>2, <1>3 DEF DriveOn

\* Letting go of a coil: the one last driven, else the one configured.
LEMMA HoldReleases ==
    ASSUME ControlInv, Mandate, UNCHANGED rulesVars, DriveOff
    PROVE  FrozenDue' /\ OwnCoils' /\ (NothingDriven \/ DriveFailed \/ GivenBack)
<1>. USE DEF NothingDriven, DriveFailed, GivenBack
<1>. DEFINE c == IF drivenCh # 0 THEN drivenCh ELSE relay
<1>1. CASE c = 0
    <2>1. drivenCh = 0 /\ relay = 0  BY <1>1
    <2>2. UNCHANGED <<bankVars, driver, late, histVars, faults, driven, drivenCh>>
        BY <1>1 DEF DriveOff
    <2>. QED  BY <2>1, <2>2, HoldWriteFails
<1>2. CASE c # 0 /\ WriteFails /\ UNCHANGED <<histVars, driven, drivenCh>>
    BY <1>2, HoldWriteFails DEF WriteFails
<1>3. CASE c # 0 /\ Switch(c, FALSE, "hold", relay) /\ driven' = FALSE /\ drivenCh' = 0
    <2>1. c \in Channel  BY <1>3 DEF ControlInv, Engine, Typed, HoldTypeOK, Owner
    <2>2. FrozenDue' /\ OwnCoils' /\ ~pin'[c] /\ faults' = faults
        <3>. HIDE DEF c
        <3>. QED  BY <1>3, <2>1, HoldSwitch
    <2>3. drivenCh \in {0, relay} => c = relay  OBVIOUS
    <2>. QED  BY <1>3, <2>2, <2>3
<1>. QED  BY <1>1, <1>2, <1>3 DEF DriveOff

\* The steps of the hold: one failed write can make it wrong one way, it takes
\* two to make it wrong the other.
LEMMA HoldMandateStep ==
    ASSUME ControlInv, Mandate, HoldStep
    PROVE  Mandate'
<1>. USE DEF ControlInv, Engine, Typed, Mandate, Unlock
<1>. faults \in Nat  BY RulesAssumption DEF HistoryTypeOK
<1>1. CASE ConfigureSame \/ Configured \/ \E who \in {"sampler", "reload"} : Configure(who)
    <2>1. UNCHANGED <<bankVars, rulesVars, driver, histVars, faults, driven, drivenCh>>
        BY <1>1 DEF ConfigureSame, Configured, Configure, holdVars
    <2>2. FrozenDue' /\ OwnCoils'
        BY <2>1 DEF bankVars, rulesVars, histVars, FrozenDue, OwnCoils
    <2>3. spc' = spc \/ (spc \in {"hold", "evaluate"} /\ spc' = "evaluate")
        BY <1>1 DEF Pending, ConfigureSame, Configured, Configure
    <2>4. Pending'
        <3>1. hpc' # "judge" \/ UNCHANGED holdVars
            BY <1>1 DEF ConfigureSame, Configured, Configure
        <3>2. lock' = "sampler" => spc' \in {"hold", "evaluate"}
            BY <1>1, <2>3 DEF holdVars, Pending, ConfigureSame, Configured, Configure
        <3>. QED  BY <2>1, <2>3, <3>1, <3>2 DEF rulesVars, holdVars, Pending
    <2>5. AskedFirst'
        BY <1>1, <2>1 DEF rulesVars, cmdVars, ReloadDone, AskedFirst, ConfigureSame, Configured,
           Configure
    <2>6. HoldMandate'
        <3>1. CASE ConfigureSame
            BY <3>1, <2>1 DEF ConfigureSame, holdVars, bankVars, HoldMandate
        <3>2. CASE Configured
            BY <3>2, <2>1 DEF Configured, bankVars, HoldMandate, HoldTypeOK
        <3>3. ASSUME NEW who \in {"sampler", "reload"}, Configure(who)  PROVE  HoldMandate'
            BY <3>3, <2>1 DEF Configure, bankVars, HoldMandate, HoldTypeOK
        <3>. QED  BY <1>1, <3>1, <3>2, <3>3
    <2>. QED  BY <2>2, <2>4, <2>5, <2>6
<1>2. CASE LetGo \/ TakeOver
    <2>1. DriveOff /\ UNCHANGED <<rulesVars, spc, relay, lock, cmdVars>>
        BY <1>2 DEF LetGo, TakeOver
    <2>2. FrozenDue' /\ OwnCoils'  BY <2>1, HoldReleases
    <2>3. Pending' /\ AskedFirst'
        BY <1>2, <2>1 DEF LetGo, TakeOver, rulesVars, cmdVars, Pending, AskedFirst
    <2>4. HoldMandate'
        <3>1. CASE LetGo
            <4>1. /\ relay' = relay /\ lock' = lock /\ hpc = "letgo"
                  /\ hpc' = IF relay # 0 THEN "takeover" ELSE "configured"
                BY <3>1 DEF LetGo
            <4>2. CASE NothingDriven
                BY <4>1, <4>2 DEF NothingDriven, HoldMandate
            <4>3. CASE DriveFailed
                BY <4>1, <4>3 DEF DriveFailed, HoldMandate
            <4>4. CASE GivenBack
                BY <4>1, <4>4 DEF GivenBack, HoldMandate
            <4>. QED  BY <2>1, <4>2, <4>3, <4>4, HoldReleases
        <3>2. CASE TakeOver
            <4>1. relay' = relay /\ lock' = lock /\ hpc = "takeover" /\ hpc' = "configured"
                BY <3>2 DEF TakeOver
            <4>2. CASE NothingDriven
                BY <4>1, <4>2 DEF NothingDriven, HoldMandate
            <4>3. CASE DriveFailed
                BY <4>1, <4>3 DEF DriveFailed, HoldMandate
            <4>4. CASE GivenBack
                BY <4>1, <4>4 DEF GivenBack, HoldMandate
            <4>. QED  BY <2>1, <4>2, <4>3, <4>4, HoldReleases
        <3>. QED  BY <1>2, <3>1, <3>2
    <2>. QED  BY <2>2, <2>3, <2>4
<1>3. CASE EvaluateHold
    <2>1. /\ UNCHANGED <<rulesVars, spc, relay, cmdVars>> /\ spc = "evaluate"
          /\ lock = "none" /\ lock' = "sampler" /\ hpc' = "judge"
        BY <1>3 DEF EvaluateHold
    <2>2. Pending' /\ AskedFirst'  BY <2>1 DEF rulesVars, cmdVars, Pending, AskedFirst
    <2>3. CASE driven /\ drivenCh # relay
        <3>1. DriveOff  BY <1>3, <2>3 DEF EvaluateHold
        <3>2. FrozenDue' /\ OwnCoils'  BY <2>1, <3>1, HoldReleases
        <3>3. HoldMandate'
            <4>1. CASE NothingDriven
                BY <2>1, <2>3, <4>1 DEF NothingDriven, HoldMandate
            <4>2. CASE DriveFailed
                BY <2>1, <2>3, <4>2 DEF DriveFailed, HoldMandate
            <4>3. CASE GivenBack
                BY <2>1, <2>3, <4>3 DEF GivenBack, HoldMandate
            <4>. QED  BY <2>1, <3>1, <4>1, <4>2, <4>3, HoldReleases
        <3>. QED  BY <2>2, <3>2, <3>3
    <2>4. CASE ~(driven /\ drivenCh # relay)
        <3>1. UNCHANGED <<bankVars, driver, late, histVars, faults, driven, drivenCh>>
            BY <1>3, <2>4 DEF EvaluateHold
        <3>2. FrozenDue' /\ OwnCoils'  BY <2>1, <3>1 DEF bankVars, rulesVars, histVars, FrozenDue, OwnCoils
        <3>3. HoldMandate'
            BY <2>1, <3>1 DEF bankVars, HoldMandate
        <3>. QED  BY <2>2, <3>2, <3>3
    <2>. QED  BY <2>3, <2>4
<1>4. CASE Judge
    <2>1. UNCHANGED <<rulesVars, relay, cmdVars>> /\ hpc = "judge" /\ spc' = "idle"
          /\ lock' = "none" /\ hpc' = "out"
        BY <1>4 DEF Judge
    <2>2. Pending' /\ AskedFirst'
        <3>1. spc # "apply"  BY <2>1 DEF Pending
        <3>. QED  BY <2>1, <3>1 DEF rulesVars, cmdVars, Pending, AskedFirst
    <2>3. CASE relay # 0 /\ holding' # driven
        <3>1. CASE driven
            <4>1. DriveOff  BY <1>4, <2>3, <3>1 DEF Judge, HoldTypeOK
            <4>2. HoldMandate'
                <5>1. CASE NothingDriven
                    BY <2>1, <2>3, <3>1, <5>1 DEF NothingDriven, HoldMandate
                <5>2. CASE DriveFailed
                    BY <2>1, <2>3, <3>1, <5>2 DEF DriveFailed, HoldMandate
                <5>3. CASE GivenBack
                    BY <2>1, <2>3, <3>1, <5>3 DEF GivenBack, HoldMandate
                <5>. QED  BY <2>1, <4>1, <5>1, <5>2, <5>3, HoldReleases
            <4>. QED  BY <2>1, <2>2, <4>1, <4>2, HoldReleases
        <3>2. CASE ~driven
            <4>1. DriveOn  BY <1>4, <2>3, <3>2 DEF Judge, HoldTypeOK
            <4>2. HoldMandate'
                <5>1. CASE DriveFailed
                    BY <2>1, <2>3, <3>2, <5>1 DEF DriveFailed, HoldMandate
                <5>2. CASE Taken
                    BY <2>1, <2>3, <3>2, <5>2 DEF Taken, HoldMandate
                <5>. QED  BY <2>1, <2>3, <4>1, <5>1, <5>2, HoldTakes
            <4>. QED  BY <2>1, <2>3, <2>2, <4>1, <4>2, HoldTakes
        <3>. QED  BY <3>1, <3>2
    <2>4. CASE ~(relay # 0 /\ holding' # driven)
        <3>1. UNCHANGED <<bankVars, driver, late, histVars, faults, driven, drivenCh>>
            BY <1>4, <2>4 DEF Judge
        <3>2. FrozenDue' /\ OwnCoils'  BY <2>1, <3>1 DEF bankVars, rulesVars, histVars, FrozenDue, OwnCoils
        <3>3. HoldMandate'  BY <2>1, <3>1 DEF bankVars, HoldMandate
        <3>. QED  BY <2>2, <3>2, <3>3
    <2>. QED  BY <2>3, <2>4
<1>. QED  BY <1>1, <1>2, <1>3, <1>4 DEF HoldStep

\* Every step keeps every mandate.
LEMMA MandateStep ==
    ControlInv /\ Mandate /\ [ControlNext]_vars => Mandate'
<1>. SUFFICES ASSUME ControlInv, Mandate, [ControlNext]_vars  PROVE  Mandate'
    OBVIOUS
<1>1. CASE UNCHANGED vars
    BY <1>1 DEF vars, controlVars, bankVars, rulesVars, holdVars, cmdVars, histVars, Mandate,
       FrozenDue, OwnCoils, Pending, AskedFirst, HoldMandate
<1>2. CASE SamplerStep
    BY <1>2, EvaluateMandate, ApplyMandate DEF SamplerStep
<1>3. CASE HoldStep
    BY <1>3, HoldMandateStep
<1>4. CASE CommandStep
    BY <1>4, CommandMandate, DropsMandate DEF CommandStep
<1>5. CASE RunTimer \/ TimerWriteFails
    BY <1>5, DropsMandate
<1>. QED  BY <1>1, <1>2, <1>3, <1>4, <1>5 DEF ControlNext

\* Rules drive nothing for a dead probe, and nobody but the hold the contact
\* that it owns, for any number of channels, rules and failing writes
\* (rules.py evaluate, irrigation_hold.py evaluate).
THEOREM MandatesAreKept == ControlSpec => []DriversKeepTheirMandate
<1>1. ControlSpec => [](ControlInv /\ Mandate)
    <2>1. ControlInit => ControlInv /\ Mandate  BY ControlInitInv, MandateInit
    <2>2. ControlInv /\ Mandate /\ [ControlNext]_vars => (ControlInv /\ Mandate)'
        BY ControlStep, MandateStep
    <2>. QED  BY <2>1, <2>2, PTL DEF ControlSpec
<1>2. ControlInv /\ Mandate => DriversKeepTheirMandate  BY MandateImplies
<1>. QED  BY <1>1, <1>2, PTL

-----------------------------------------------------------------------------
(***************************************************************************)
(* The limits of the rules engine.                                         *)
(***************************************************************************)
\* The seconds charged to the hour it is.
Spent(n) == IF n.hour = Hour THEN n.secs ELSE 0

\* With the seconds that are yet to be charged.
Owed(n) == Spent(n) + (IF n.since = Unset THEN 0 ELSE now - n.since)

Notes == [timer : Nat, since : Nat, off : Nat, hour : Nat, secs : Nat]

LimitsShape ==
    /\ now \in Nat /\ now > 0 /\ energised \in BOOLEAN /\ autoOff \in Nat /\ toDrop \in BOOLEAN
    /\ notes \in Notes /\ notes.since <= now /\ notes.off <= now
    /\ fell \in Nat /\ fell <= now /\ ran \in Int /\ counted \in Nat /\ orders \in Nat

\* After the engine's own drop the cooldown runs, or will from its next cycle on.
DropIsNoted == felled = "rule" /\ ~energised => fell <= notes.off \/ Due(notes)

\* A period of the engine that the controller will end is one it has noted.
PeriodIsNoted == bound = "rule" /\ autoOff # Unset => notes.timer = autoOff

\* What the hour's periods took has been charged, or will be when the engine looks.
PeriodsAreKnown ==
    /\ counted <= Spent(notes)
    /\ ran >= 0 => energised /\ notes.since # Unset /\ counted + ran <= Owed(notes)

LimitsInv == LimitsShape /\ DropIsNoted /\ PeriodIsNoted /\ PeriodsAreKnown

(***************************************************************************)
(* A rule list has any length: what a cycle does to the notes is shown by    *)
(* counting up to it.                                                      *)
(***************************************************************************)
\* A set that has 0, and the next of each number it has, has every number: if n
\* is missing, the numbers below n that it has are mapped into themselves by
\* counting on, onto all of them, and 0 is not reached.
LEMMA CountingUp ==
    ASSUME NEW S, 0 \in S, \A n \in Nat : n \in S => n + 1 \in S
    PROVE  Nat \subseteq S
<1>. SUFFICES ASSUME NEW n \in Nat, n \notin S PROVE FALSE
    OBVIOUS
<1>. DEFINE T == {x \in 0..n : x \in S}
            next == [x \in T |-> x + 1]
<1>1. IsFiniteSet(T)
    <2>1. IsFiniteSet(0..n)
        BY FS_Interval
    <2>. QED  BY <2>1, FS_Subset
<1>2. next \in [T -> T]
    <2>1. ASSUME NEW x \in T PROVE x + 1 \in T
        <3>1. x \in Nat /\ x <= n /\ x \in S /\ x # n
            OBVIOUS
        <3>2. x + 1 \in S /\ x + 1 \in 0..n
            BY <3>1
        <3>. QED  BY <3>2
    <2>. QED  BY <2>1
<1>3. next \in Injection(T, T)
    BY <1>2 DEF Injection, IsInjective
<1>4. next \in Surjection(T, T)
    BY <1>1, <1>3, FS_Injection
<1>5. 0 \in T
    OBVIOUS
<1>6. PICK x \in T : next[x] = 0
    BY <1>4, <1>5 DEF Surjection
<1>. QED  BY <1>6

\* The notes after each rule's turn, from c on.
After(f, c, M, m) == [k \in 0..m |-> IF k = 0 THEN c ELSE RuleTurn(f[k - 1], M, k)]

\* The turns of any number of rules follow one another.
LEMMA TurnsFollow ==
    ASSUME NEW c, NEW M, NEW m \in Nat
    PROVE  \E f : f = After(f, c, M, m)
<1>. DEFINE S == {k \in Nat : \E f : f = After(f, c, M, k)}
<1>1. 0 \in S
    <2>. DEFINE f == [k \in 0..0 |-> c]
    <2>1. f = After(f, c, M, 0)
        BY DEF After
    <2>. QED  BY <2>1
<1>2. ASSUME NEW n \in Nat, n \in S PROVE n + 1 \in S
    <2>1. PICK f : f = After(f, c, M, n)
        BY <1>2
    <2>. DEFINE g == [k \in 0..(n + 1) |-> IF k <= n THEN f[k] ELSE RuleTurn(f[n], M, n + 1)]
    <2>2. ASSUME NEW k \in 0..(n + 1)
          PROVE  g[k] = IF k = 0 THEN c ELSE RuleTurn(g[k - 1], M, k)
        <3>1. CASE k = 0
            <4>1. f[0] = c
                BY <2>1 DEF After
            <4>. QED  BY <3>1, <4>1
        <3>2. CASE k # 0 /\ k <= n
            <4>1. k \in 0..n /\ k - 1 \in 0..(n + 1) /\ k - 1 <= n
                BY <3>2
            <4>2. f[k] = RuleTurn(f[k - 1], M, k)
                BY <2>1, <3>2, <4>1 DEF After
            <4>3. g[k] = f[k] /\ g[k - 1] = f[k - 1]
                BY <3>2, <4>1
            <4>. QED  BY <3>2, <4>2, <4>3
        <3>3. CASE k = n + 1
            <4>1. g[k] = RuleTurn(f[n], M, k) /\ g[k - 1] = f[n]
                BY <3>3
            <4>. QED  BY <3>3, <4>1
        <3>. QED  BY <3>1, <3>2, <3>3
    <2>3. g = [k \in 0..(n + 1) |-> g[k]]
        OBVIOUS
    <2>. HIDE DEF g
    <2>4. g = After(g, c, M, n + 1)
        BY <2>2, <2>3 DEF After
    <2>. QED  BY <2>4
<1>. HIDE DEF S
<1>3. Nat \subseteq S
    BY <1>1, <1>2, CountingUp
<1>4. m \in S
    BY <1>3
<1>. QED  BY <1>4 DEF S

\* What is in I[0] before the turns, and is taken from I[k - 1] to I[k] by the k-th,
\* is in I[m] after m of them.
LEMMA TurnsKeep ==
    ASSUME NEW c, NEW M, NEW m \in Nat, NEW f, f = After(f, c, M, m), NEW I,
           c \in I[0], \A k \in 1..m : \A x \in I[k - 1] : RuleTurn(x, M, k) \in I[k]
    PROVE  f[m] \in I[m]
<1>. DEFINE S == {k \in Nat : k <= m => f[k] \in I[k]}
<1>1. 0 \in S
    BY DEF After
<1>2. ASSUME NEW n \in Nat, n \in S PROVE n + 1 \in S
    <2>. SUFFICES ASSUME n + 1 <= m PROVE f[n + 1] \in I[n + 1]
        OBVIOUS
    <2>1. f[n] \in I[n] /\ n + 1 \in 1..m /\ n + 1 \in 0..m /\ n + 1 # 0 /\ (n + 1) - 1 = n
        BY <1>2
    <2>2. f[n + 1] = RuleTurn(f[n], M, n + 1)
        BY <2>1 DEF After
    <2>. QED  BY <2>1, <2>2
<1>. HIDE DEF S
<1>3. Nat \subseteq S
    BY <1>1, <1>2, CountingUp
<1>. QED  BY <1>3 DEF S

-----------------------------------------------------------------------------
\* What a cycle has made of the notes, and the switchings it will apply.
Work == [n : Notes, sets : Seq(BOOLEAN), dur : Nat]

Raises(c) == \E j \in DOMAIN c.sets : c.sets[j]
Drops(c) == \E j \in DOMAIN c.sets : ~c.sets[j]

\* After k turns the notes that began as b: they are raised only if the cooldown is
\* over and the budget not used up, and say of each switching when it was.
Noted(c, b, M, k) ==
    /\ c.n.off \in {b.n.off, now} /\ Spent(c.n) = Spent(b.n)
    /\ c.n.since \in {Unset, now}
    /\ Raises(c) => ~Resting(b.n) /\ Spent(b.n) < BudgetS
    /\ Drops(c) => c.n.off = now
    /\ c.sets = <<>> => c.n.since = b.n.since /\ c.n.timer = b.n.timer /\ c.n.off = b.n.off
    /\ c.sets # <<>> /\ c.sets[Len(c.sets)] => c.n.since = now
    /\ c.dur # 0 => c.n.timer = now + c.dur
    /\ Len(c.sets) >= Len(b.sets)
    /\ (\E i \in M : i <= k /\ ~Policy[i].on) => Len(c.sets) > Len(b.sets)

\* The hour of the day is a number.
LEMMA HourIsNumber == ASSUME now \in Nat PROVE Hour \in Nat /\ NoHour \in Nat
<1>1. now \div HourS \in Nat
    BY LimitsAssumption
<1>2. (now \div HourS) % DayH \in 0..(DayH - 1) /\ DayH \in Nat
    BY <1>1, LimitsAssumption
<1>. QED  BY <1>2 DEF Hour, NoHour

\* One switching more.
LEMMA OneMore ==
    ASSUME NEW s \in Seq(BOOLEAN), NEW v \in BOOLEAN
    PROVE  LET t == Append(s, v)
           IN  /\ t \in Seq(BOOLEAN) /\ t # <<>> /\ Len(t) = Len(s) + 1 /\ t[Len(t)] = v
               /\ (\E j \in DOMAIN t : t[j]) => v \/ \E j \in DOMAIN s : s[j]
               /\ (\E j \in DOMAIN t : ~t[j]) => ~v \/ \E j \in DOMAIN s : ~s[j]
OBVIOUS

\* The rules are what they are.
LEMMA RulesAreRules ==
    ASSUME NEW k \in 1..Len(Policy)
    PROVE  Policy[k].on \in BOOLEAN /\ Policy[k].dur \in Nat
<1>. DEFINE R == [on : BOOLEAN, dur : Nat]
<1>1. Policy \in Seq(R)
    BY LimitsAssumption
<1>2. Policy[k] \in R
    <2>. HIDE DEF R
    <2>. QED  BY <1>1
<1>. QED  BY <1>2

\* The relay is let go, by an OFF rule.
LEMMA OffIsNoted ==
    ASSUME LimitsShape, NEW c \in Work, NEW b \in Work, NEW M, NEW k \in 1..Len(Policy),
           Noted(c, b, M, k - 1), M \subseteq DOMAIN Policy, NEW d,
           d = [n |-> [c.n EXCEPT !.off = now, !.since = Unset],
                sets |-> Append(c.sets, FALSE), dur |-> c.dur]
    PROVE  d \in Work /\ Noted(d, b, M, k)
<1>1. /\ c.n \in Notes /\ c.sets \in Seq(BOOLEAN) /\ c.dur \in Nat
      /\ c = [n |-> c.n, sets |-> c.sets, dur |-> c.dur]
      /\ b.sets \in Seq(BOOLEAN)
    BY DEF Work
<1>3. /\ d.n \in Notes /\ d.n.off = now /\ d.n.since = Unset
      /\ d.n.hour = c.n.hour /\ d.n.secs = c.n.secs /\ d.n.timer = c.n.timer
      /\ d.dur = c.dur /\ d.sets = Append(c.sets, FALSE)
    BY <1>1 DEF Notes, Unset, LimitsShape
<1>4. /\ d.sets \in Seq(BOOLEAN) /\ d.sets # <<>> /\ Len(d.sets) = Len(c.sets) + 1
      /\ ~d.sets[Len(d.sets)] /\ (Raises(d) => Raises(c))
    <2>. DEFINE s == Append(c.sets, FALSE)
    <2>1. /\ s \in Seq(BOOLEAN) /\ s # <<>> /\ Len(s) = Len(c.sets) + 1 /\ s[Len(s)] = FALSE
          /\ (\E j \in DOMAIN s : s[j]) => \E j \in DOMAIN c.sets : c.sets[j]
        BY <1>1, OneMore
    <2>. HIDE DEF s
    <2>2. d.sets = s
        BY <1>3 DEF s
    <2>. QED  BY <2>1, <2>2 DEF Raises
<1>5. d \in Work
    BY <1>1, <1>3, <1>4 DEF Work
<1>6. Spent(d.n) = Spent(c.n)
    BY <1>3 DEF Spent
<1>7. Len(d.sets) > Len(b.sets) /\ Len(d.sets) >= Len(b.sets)
    BY <1>1, <1>4 DEF Noted
<1>8. Noted(d, b, M, k)
    BY <1>3, <1>4, <1>6, <1>7 DEF Noted
<1>. QED  BY <1>5, <1>8

\* A rule that does nothing: it rests, or the budget is used up.
LEMMA NoneIsNoted ==
    ASSUME NEW c \in Work, NEW d \in Work, NEW b \in Work, NEW M, NEW k \in 1..Len(Policy),
           Noted(c, b, M, k - 1), M \subseteq DOMAIN Policy, k \in M => Policy[k].on,
           d.n.off = c.n.off, d.n.since = c.n.since, d.n.timer = c.n.timer,
           Spent(d.n) = Spent(c.n), d.sets = c.sets, d.dur = c.dur
    PROVE  Noted(d, b, M, k)
<1>1. (\E i \in M : i <= k /\ ~Policy[i].on) => \E i \in M : i <= k - 1 /\ ~Policy[i].on
    <2>. SUFFICES ASSUME NEW i \in M, i <= k, ~Policy[i].on
                  PROVE  \E j \in M : j <= k - 1 /\ ~Policy[j].on
        OBVIOUS
    <2>1. i # k /\ i \in Nat
        BY LimitsAssumption
    <2>. QED  BY <2>1
<1>. QED  BY <1>1 DEF Noted, Raises, Drops

\* A look at the budget changes nothing of what is spent in the hour.
LEMMA RenewedIs ==
    ASSUME LimitsShape, NEW n \in Notes
    PROVE  /\ Renewed(n) \in Notes /\ Renewed(n).secs = Spent(n) /\ Renewed(n).hour = Hour
           /\ Spent(Renewed(n)) = Spent(n)
           /\ Renewed(n).off = n.off /\ Renewed(n).since = n.since /\ Renewed(n).timer = n.timer
BY HourIsNumber DEF Renewed, Spent, Notes, LimitsShape

\* A relay let go just now rests.
LEMMA JustRests == ASSUME LimitsShape, NEW n, n.off = now PROVE Resting(n)
BY LimitsAssumption DEF Resting, Unset, LimitsShape

\* The engine raises the relay.
LEMMA OnIsNoted ==
    ASSUME LimitsShape, NEW c \in Work, NEW b \in Work, NEW M, NEW k \in 1..Len(Policy),
           Noted(c, b, M, k - 1), M \subseteq DOMAIN Policy, Policy[k].on,
           ~Resting(c.n), Renewed(c.n).secs < BudgetS, NEW d \in Nat, d = Policy[k].dur,
           NEW e, e = [n |-> [Renewed(c.n) EXCEPT !.since = IF @ = Unset THEN now ELSE @,
                                                  !.timer = IF d > 0 THEN now + d ELSE @],
                       sets |-> Append(c.sets, TRUE),
                       dur |-> IF d > 0 THEN d ELSE c.dur]
    PROVE  e \in Work /\ Noted(e, b, M, k)
<1>1. /\ c.n \in Notes /\ c.sets \in Seq(BOOLEAN) /\ c.dur \in Nat /\ b.sets \in Seq(BOOLEAN)
    BY DEF Work
<1>2. /\ Renewed(c.n) \in Notes /\ Renewed(c.n).secs = Spent(c.n) /\ Renewed(c.n).hour = Hour
      /\ Renewed(c.n).off = c.n.off /\ Renewed(c.n).since = c.n.since /\ Renewed(c.n).timer = c.n.timer
    BY <1>1, RenewedIs
<1>3. /\ e.n \in Notes /\ e.n.off = c.n.off /\ e.n.since = now
      /\ e.n.timer = (IF d > 0 THEN now + d ELSE c.n.timer)
      /\ e.n.hour = Hour /\ e.n.secs = Spent(c.n)
    <2>. DEFINE m == Renewed(c.n)
    <2>1. (IF m.since = Unset THEN now ELSE m.since) = now
        BY <1>2 DEF Noted
    <2>2. (IF d > 0 THEN now + d ELSE m.timer) \in Nat
        <3>1. now \in Nat /\ m.timer \in Nat
            BY <1>2 DEF Notes, LimitsShape
        <3>. HIDE DEF m
        <3>2. now + d \in Nat
            BY <3>1
        <3>. QED  BY <3>1, <3>2
    <2>. QED  BY <1>2, <2>1, <2>2 DEF Notes, LimitsShape
<1>4. /\ e.dur = (IF d > 0 THEN d ELSE c.dur) /\ e.dur \in Nat /\ e.sets = Append(c.sets, TRUE)
    BY <1>1
<1>5. /\ e.sets \in Seq(BOOLEAN) /\ e.sets # <<>> /\ Len(e.sets) = Len(c.sets) + 1
      /\ e.sets[Len(e.sets)] /\ (Drops(e) => Drops(c))
    BY <1>1, <1>4, OneMore DEF Drops
<1>6. e \in Work
    BY <1>3, <1>4, <1>5 DEF Work
<1>7. c.n.off # now
    BY JustRests
<1>8. c.n.off = b.n.off /\ ~Resting(b.n)
    BY <1>7 DEF Noted, Resting
<1>9. Spent(e.n) = Spent(c.n) /\ Spent(b.n) < BudgetS
    BY <1>2, <1>3 DEF Spent, Noted
<1>10. Len(e.sets) > Len(b.sets) /\ Len(e.sets) >= Len(b.sets)
    BY <1>1, <1>5 DEF Noted
<1>11. e.dur # 0 => e.n.timer = now + e.dur
    BY <1>1, <1>3, <1>4 DEF Noted
<1>12. Drops(e) => e.n.off = now
    BY <1>3, <1>5 DEF Noted
<1>13. Noted(e, b, M, k)
    BY <1>3, <1>5, <1>8, <1>9, <1>10, <1>11, <1>12 DEF Noted
<1>. QED  BY <1>6, <1>13

\* The turn of any rule is noted.
LEMMA TurnIsNoted ==
    ASSUME LimitsShape, NEW c \in Work, NEW b \in Work, NEW M, NEW k \in 1..Len(Policy),
           Noted(c, b, M, k - 1), M \subseteq DOMAIN Policy
    PROVE  RuleTurn(c, M, k) \in Work /\ Noted(RuleTurn(c, M, k), b, M, k)
<1>1. CASE k \notin M
    <2>1. RuleTurn(c, M, k) = c
        BY <1>1 DEF RuleTurn
    <2>2. Noted(c, b, M, k)
        BY <1>1, NoneIsNoted
    <2>. QED  BY <2>1, <2>2
<1>2. CASE k \in M /\ ~Policy[k].on
    <2>1. RuleTurn(c, M, k) = [n |-> [c.n EXCEPT !.off = now, !.since = Unset],
                           sets |-> Append(c.sets, FALSE), dur |-> c.dur]
        BY <1>2 DEF RuleTurn, Matched
    <2>. QED  BY <1>2, <2>1, OffIsNoted
<1>3. CASE k \in M /\ Policy[k].on /\ Resting(c.n)
    <2>1. RuleTurn(c, M, k) = c
        BY <1>3 DEF RuleTurn, Matched
    <2>2. Noted(c, b, M, k)
        BY <1>3, NoneIsNoted
    <2>. QED  BY <2>1, <2>2
<1>4. CASE k \in M /\ Policy[k].on /\ ~Resting(c.n) /\ Renewed(c.n).secs >= BudgetS
    <2>1. RuleTurn(c, M, k) = [c EXCEPT !.n = Renewed(c.n)]
        BY <1>4 DEF RuleTurn, Matched
    <2>. DEFINE d == [c EXCEPT !.n = Renewed(c.n)]
    <2>2. c.n \in Notes /\ c.sets \in Seq(BOOLEAN) /\ c.dur \in Nat
          /\ c = [n |-> c.n, sets |-> c.sets, dur |-> c.dur]
        BY DEF Work
    <2>3. d = [n |-> Renewed(c.n), sets |-> c.sets, dur |-> c.dur]
        BY <2>2
    <2>4. /\ Renewed(c.n) \in Notes /\ Spent(Renewed(c.n)) = Spent(c.n)
          /\ Renewed(c.n).off = c.n.off /\ Renewed(c.n).since = c.n.since
          /\ Renewed(c.n).timer = c.n.timer
        BY <2>2, RenewedIs
    <2>. HIDE DEF d
    <2>5. d \in Work /\ d.n = Renewed(c.n) /\ d.sets = c.sets /\ d.dur = c.dur
        BY <2>2, <2>3, <2>4 DEF Work
    <2>6. Noted(d, b, M, k)
        BY <1>4, <2>4, <2>5, NoneIsNoted
    <2>. QED  BY <2>1, <2>5, <2>6 DEF d
<1>5. CASE k \in M /\ Policy[k].on /\ ~Resting(c.n) /\ ~(Renewed(c.n).secs >= BudgetS)
    <2>1. PICK d \in Nat : d = Policy[k].dur
        BY RulesAreRules
    <2>2. RuleTurn(c, M, k) = [n |-> [Renewed(c.n) EXCEPT !.since = IF @ = Unset THEN now ELSE @,
                                                      !.timer = IF d > 0 THEN now + d ELSE @],
                           sets |-> Append(c.sets, TRUE),
                           dur |-> IF d > 0 THEN d ELSE c.dur]
        BY <1>5, <2>1 DEF RuleTurn, Matched
    <2>3. Renewed(c.n).secs < BudgetS
        <3>1. c.n \in Notes
            BY DEF Work
        <3>2. Renewed(c.n).secs \in Nat /\ BudgetS \in Nat
            BY <3>1, RenewedIs, LimitsAssumption DEF Notes
        <3>. QED  BY <1>5, <3>2
    <2>. QED  BY <1>5, <2>1, <2>2, <2>3, OnIsNoted
<1>. QED  BY <1>1, <1>2, <1>3, <1>4, <1>5, RulesAreRules

-----------------------------------------------------------------------------
\* The cycle before its rules: the fail-safe and the end of the timed period.
Begun == Swept(Reverted([n |-> notes, sets |-> <<>>, dur |-> 0]))

\* What it lets go it notes, once.
BegunAs(c) ==
    /\ c \in Work /\ c.dur = 0
    /\ c.n.hour = notes.hour /\ c.n.secs = notes.secs
    /\ \/ c.n = notes /\ c.sets = <<>> /\ ~Due(notes)
       \/ /\ c.n.off = now /\ c.n.since = Unset
          /\ c.sets # <<>> /\ ~Raises(c) /\ ~c.sets[Len(c.sets)]

\* To be let go is noted.
LEMMA ReleasedIs ==
    ASSUME LimitsShape, NEW c \in Work, c.n = notes, c.sets = <<>>, c.dur = 0
    PROVE  BegunAs(Released(c)) /\ ~Due(Released(c).n)
<1>. DEFINE d == Released(c)
<1>1. d = [n |-> [notes EXCEPT !.off = now, !.since = Unset, !.timer = Unset],
           sets |-> Append(<<>>, FALSE), dur |-> 0]
    BY DEF Released
<1>. HIDE DEF d
<1>2. /\ d.n \in Notes /\ d.n.off = now /\ d.n.since = Unset /\ d.n.timer = Unset
      /\ d.n.hour = notes.hour /\ d.n.secs = notes.secs
    BY <1>1 DEF LimitsShape, Notes, Unset
<1>3. /\ d.sets \in Seq(BOOLEAN) /\ d.sets # <<>> /\ ~d.sets[Len(d.sets)] /\ ~Raises(d)
      /\ d.dur = 0
    <2>. DEFINE none == <<>>
    <2>1. none \in Seq(BOOLEAN) /\ DOMAIN none = {}
        OBVIOUS
    <2>. DEFINE s == Append(none, FALSE)
    <2>2. d.sets = s /\ d.dur = 0
        BY <1>1
    <2>. HIDE DEF none
    <2>3. /\ s \in Seq(BOOLEAN) /\ s # <<>> /\ s[Len(s)] = FALSE
          /\ ~\E j \in DOMAIN s : s[j]
        BY <2>1, OneMore
    <2>. HIDE DEF s
    <2>. QED  BY <2>2, <2>3 DEF Raises
<1>5. d \in Work
    BY <1>1, <1>2, <1>3 DEF Work
<1>. QED  BY <1>2, <1>3, <1>5 DEF d, BegunAs, Due

\* Whichever of the two lets the relay go, it is noted.
LEMMA BegunIs == ASSUME LimitsShape PROVE BegunAs(Begun)
<1>. DEFINE s == [n |-> notes, sets |-> <<>>, dur |-> 0]
<1>1. s \in Work /\ s.n = notes /\ s.sets = <<>> /\ s.dur = 0
    BY DEF LimitsShape, Work
<1>. HIDE DEF s
<1>2. CASE toDrop
    BY <1>1, <1>2, ReleasedIs DEF Begun, Swept, Reverted, s
<1>3. CASE ~toDrop /\ Due(notes)
    BY <1>1, <1>3, ReleasedIs DEF Begun, Swept, Reverted, s
<1>4. CASE ~toDrop /\ ~Due(notes)
    <2>1. Begun = s
        BY <1>1, <1>4 DEF Begun, Swept, Reverted, s
    <2>. QED  BY <1>1, <1>4, <2>1 DEF BegunAs
<1>. QED  BY <1>2, <1>3, <1>4

\* What was not charged yet is charged to the hour it is.
LEMMA ChargedIs ==
    ASSUME LimitsShape, NEW n \in Notes, n.since <= now
    PROVE  /\ Charged(n) \in Notes /\ Charged(n).off = n.off /\ Charged(n).timer = n.timer
           /\ Charged(n).since = (IF n.since = Unset THEN Unset ELSE now)
           /\ Spent(Charged(n)) = Owed(n) /\ Owed(n) >= Spent(n)
<1>1. CASE n.since = Unset
    BY <1>1, HourIsNumber DEF Charged, Owed, Spent, Notes, LimitsShape
<1>2. CASE n.since # Unset
    <2>. DEFINE secs == now - n.since + (IF n.hour = Hour THEN n.secs ELSE 0)
    <2>1. secs \in Nat
        BY DEF Notes, LimitsShape
    <2>2. Charged(n) = [n EXCEPT !.hour = Hour, !.since = now, !.secs = secs]
        BY <1>2 DEF Charged
    <2>3. /\ Charged(n) \in Notes /\ Charged(n).off = n.off /\ Charged(n).timer = n.timer
          /\ Charged(n).since = now /\ Charged(n).hour = Hour /\ Charged(n).secs = secs
        <3>. HIDE DEF secs
        <3>. QED  BY <2>1, <2>2, HourIsNumber DEF Notes, LimitsShape
    <2>4. Spent(n) \in Nat /\ now - n.since \in Nat
        BY DEF Spent, Notes, LimitsShape
    <2>. QED  BY <1>2, <2>3, <2>4 DEF Owed, Spent
<1>. QED  BY <1>1, <1>2

\* The work of an open cycle before its rules.
Opened == [n |-> Charged(Begun.n), sets |-> Begun.sets, dur |-> 0]

\* What an open cycle begins with is noted.
LEMMA OpenedIs ==
    ASSUME LimitsShape, NEW M \in SUBSET DOMAIN Policy
    PROVE  Opened \in Work /\ Noted(Opened, Opened, M, 0)
<1>1. Begun \in Work /\ Begun.dur = 0 /\ Begun.n \in Notes /\ Begun.n.since <= now
    BY BegunIs DEF BegunAs, Work, LimitsShape, Unset
<1>2. /\ Charged(Begun.n) \in Notes /\ Charged(Begun.n).off = Begun.n.off
      /\ Charged(Begun.n).since \in {Unset, now}
    BY <1>1, ChargedIs
<1>3. /\ Opened.n = Charged(Begun.n) /\ Opened.sets = Begun.sets /\ Opened.dur = 0
      /\ Opened \in Work
    BY <1>1, <1>2 DEF Opened, Work
<1>4. Begun.sets = <<>> \/ (Begun.n.off = now /\ ~Raises(Begun) /\ ~Begun.sets[Len(Begun.sets)])
    BY BegunIs DEF BegunAs
<1>5. ~Raises(Opened)
    <2>1. CASE Begun.sets = <<>>
        BY <1>3, <2>1 DEF Raises
    <2>. QED  BY <1>3, <1>4, <2>1 DEF Raises
<1>6. Drops(Opened) => Opened.n.off = now
    <2>1. CASE Begun.sets = <<>>
        BY <1>3, <2>1 DEF Drops
    <2>. QED  BY <1>2, <1>3, <1>4, <2>1
<1>7. ~\E i \in M : i <= 0 /\ ~Policy[i].on
    BY LimitsAssumption
<1>8. Len(Opened.sets) >= Len(Opened.sets)
    BY <1>3 DEF Work
<1>. QED  BY <1>2, <1>3, <1>4, <1>5, <1>6, <1>7, <1>8 DEF Noted

\* The rules of an open cycle have their turns one after another.
LEMMA OpenCycleIs ==
    ASSUME LimitsShape, NEW M \in SUBSET DOMAIN Policy
    PROVE  Cycle(TRUE, M) \in Work /\ Noted(Cycle(TRUE, M), Opened, M, Len(Policy))
<1>. DEFINE m == Len(Policy)
            f == CHOOSE f : f = After(f, Opened, M, m)
<1>1. m \in Nat
    BY LimitsAssumption
<1>2. f = After(f, Opened, M, m)
    <2>. HIDE DEF m
    <2>. QED  BY <1>1, TurnsFollow
<1>3. Opened = [Begun EXCEPT !.n = Charged(@)]
    BY BegunIs DEF Opened, BegunAs, Work
<1>4. Cycle(TRUE, M) = f[m]
    BY <1>3 DEF Cycle, After, Begun
<1>. DEFINE I == [k \in 0..m |-> {c \in Work : Noted(c, Opened, M, k)}]
<1>. HIDE DEF f
<1>5. Opened \in I[0]
    BY <1>1, OpenedIs
<1>6. ASSUME NEW k \in 1..m, NEW x \in I[k - 1] PROVE RuleTurn(x, M, k) \in I[k]
    <2>1. k \in 0..m /\ k - 1 \in 0..m
        BY <1>1
    <2>2. x \in Work /\ Noted(x, Opened, M, k - 1)
        BY <2>1
    <2>3. Opened \in Work /\ M \subseteq DOMAIN Policy
        BY OpenedIs
    <2>4. RuleTurn(x, M, k) \in Work /\ Noted(RuleTurn(x, M, k), Opened, M, k)
        BY <2>2, <2>3, TurnIsNoted
    <2>. QED  BY <2>1, <2>4
<1>7. f[m] \in I[m]
    <2>. HIDE DEF I, m
    <2>. QED  BY <1>1, <1>2, <1>5, <1>6, TurnsKeep
<1>8. I[m] = {c \in Work : Noted(c, Opened, M, m)}
    <2>. HIDE DEF m
    <2>. QED  BY <1>1
<1>9. f[m] \in Work /\ Noted(f[m], Opened, M, m)
    <2>. HIDE DEF I, m
    <2>. QED  BY <1>7, <1>8
<1>. QED  BY <1>4, <1>9

\* What a cycle leaves, by the switchings it will apply.
Left(c, open, M) ==
    /\ c \in Work /\ c.n.since <= now /\ c.n.off <= now /\ Spent(c.n) >= Spent(notes)
    /\ c.sets = <<>> =>
           /\ ~Due(notes) /\ c.n.timer = notes.timer /\ c.n.off = notes.off
           /\ (notes.since # Unset => c.n.since # Unset) /\ Owed(c.n) = Owed(notes)
    /\ c.sets # <<>> /\ c.sets[Len(c.sets)] =>
           /\ ~Due(notes) /\ ~Resting(notes) /\ Spent(c.n) < BudgetS
           /\ c.n.since = now /\ Spent(c.n) = Owed(notes)
           /\ c.dur # 0 => c.n.timer = now + c.dur
    /\ c.sets # <<>> /\ ~c.sets[Len(c.sets)] =>
           /\ c.n.off = now
           /\ open /\ (\E i \in M : ~Policy[i].on) /\ Len(c.sets) = 1 => Spent(c.n) = Owed(notes)

\* Outside the schedule, or in manual override, the rules have no turn.
LEMMA ClosedLeaves ==
    ASSUME LimitsShape, NEW M PROVE Left(Cycle(FALSE, M), FALSE, M)
<1>. DEFINE c == Cycle(FALSE, M)
<1>1. c = Begun
    BY DEF Cycle, Begun
<1>. HIDE DEF c
<1>2. c \in Work /\ c.n.since <= now /\ c.n.off <= now
    BY <1>1, BegunIs DEF BegunAs, LimitsShape, Unset
<1>3. Spent(c.n) = Spent(notes) /\ Spent(notes) \in Nat /\ Spent(c.n) >= Spent(notes)
    BY <1>1, BegunIs DEF BegunAs, Spent, LimitsShape, Notes
<1>4. CASE c.n = notes /\ c.sets = <<>> /\ ~Due(notes)
    <2>1. Left(c, FALSE, M)
        BY <1>2, <1>3, <1>4 DEF Left
    <2>. QED  BY <2>1 DEF c
<1>5. CASE c.n.off = now /\ c.sets # <<>> /\ ~c.sets[Len(c.sets)]
    <2>1. Left(c, FALSE, M)
        BY <1>2, <1>3, <1>5 DEF Left
    <2>. QED  BY <2>1 DEF c
<1>. QED  BY <1>1, <1>4, <1>5, BegunIs DEF BegunAs

\* An open cycle, in which the rules have had their turns.
LEMMA OpenLeaves ==
    ASSUME LimitsShape, NEW M \in SUBSET DOMAIN Policy PROVE Left(Cycle(TRUE, M), TRUE, M)
<1>. DEFINE c == Cycle(TRUE, M)
            b == Opened
<1>1. c \in Work /\ Noted(c, b, M, Len(Policy))
    BY OpenCycleIs
<1>2. Begun \in Work /\ Begun.n \in Notes /\ Begun.n.since <= now
    BY BegunIs DEF BegunAs, Work, LimitsShape, Unset
<1>3. /\ b.n = Charged(Begun.n) /\ b.sets = Begun.sets /\ b.n.off = Begun.n.off
      /\ b.n.timer = Begun.n.timer /\ Spent(b.n) = Owed(Begun.n)
      /\ b.n.since = (IF Begun.n.since = Unset THEN Unset ELSE now)
    BY <1>2, ChargedIs DEF Opened
<1>4. Begun.n.off <= now
    BY BegunIs DEF BegunAs, LimitsShape
<1>. HIDE DEF c, b
<1>5. /\ c.n \in Notes /\ c.n.since \in {Unset, now} /\ c.n.off \in {Begun.n.off, now}
      /\ Spent(c.n) = Owed(Begun.n)
    BY <1>1, <1>3 DEF Noted, Work
<1>6. c.n.since <= now /\ c.n.off <= now /\ Owed(c.n) = Spent(c.n)
    BY <1>4, <1>5 DEF LimitsShape, Unset, Owed, Spent, Notes
<1>7. CASE Begun.n = notes /\ Begun.sets = <<>> /\ ~Due(notes)
    <2>1. Spent(c.n) = Owed(notes) /\ Owed(notes) >= Spent(notes)
        BY <1>5, <1>7, ChargedIs DEF LimitsShape
    <2>2. ASSUME c.sets = <<>>
          PROVE  /\ c.n.timer = notes.timer /\ c.n.off = notes.off
                 /\ (notes.since # Unset => c.n.since # Unset)
        BY <1>1, <1>3, <1>7, <2>2 DEF Noted, LimitsShape, Unset
    <2>3. ASSUME c.sets # <<>>, c.sets[Len(c.sets)]
          PROVE  /\ ~Resting(notes) /\ Spent(c.n) < BudgetS /\ c.n.since = now
                 /\ (c.dur # 0 => c.n.timer = now + c.dur)
        <3>1. Raises(c)
            BY <1>1, <2>3 DEF Raises, Work
        <3>. QED  BY <1>1, <1>3, <1>7, <2>3, <3>1 DEF Noted, Resting
    <2>4. ASSUME c.sets # <<>>, ~c.sets[Len(c.sets)] PROVE c.n.off = now
        <3>1. Drops(c)
            BY <1>1, <2>4 DEF Drops, Work
        <3>. QED  BY <1>1, <3>1 DEF Noted
    <2>5. Left(c, TRUE, M)
        BY <1>1, <1>6, <1>7, <2>1, <2>2, <2>3, <2>4 DEF Left
    <2>. QED  BY <2>5 DEF c
<1>8. CASE /\ Begun.n.off = now /\ Begun.n.since = Unset
           /\ Begun.sets # <<>> /\ ~Begun.sets[Len(Begun.sets)]
    <2>1. Spent(c.n) = Spent(notes)
        BY <1>5, <1>8, BegunIs DEF BegunAs, Owed, Spent, LimitsShape, Notes
    <2>2. c.sets # <<>>
        BY <1>1, <1>2, <1>3, <1>8 DEF Noted, Work
    <2>3. ~c.sets[Len(c.sets)]
        <3>. SUFFICES ASSUME c.sets[Len(c.sets)] PROVE FALSE
            OBVIOUS
        <3>1. Raises(c)
            BY <1>1, <2>2 DEF Raises, Work
        <3>2. ~Resting(b.n)
            BY <1>1, <3>1 DEF Noted
        <3>. QED  BY <1>3, <1>8, <3>2, JustRests
    <2>4. c.n.off = now
        <3>1. Drops(c)
            BY <1>1, <2>2, <2>3 DEF Drops, Work
        <3>. QED  BY <1>1, <3>1 DEF Noted
    <2>5. (\E i \in M : ~Policy[i].on) => Len(c.sets) # 1
        <3>1. (\E i \in M : ~Policy[i].on) => \E i \in M : i <= Len(Policy) /\ ~Policy[i].on
            BY LimitsAssumption
        <3>2. (\E i \in M : ~Policy[i].on) => Len(c.sets) > Len(Begun.sets)
            BY <1>1, <1>3, <3>1 DEF Noted
        <3>3. Begun.sets \in Seq(BOOLEAN) /\ c.sets \in Seq(BOOLEAN)
            BY <1>1, <1>2 DEF Work
        <3>4. Len(Begun.sets) > 0
            BY <1>8, <3>3
        <3>5. Len(c.sets) > Len(Begun.sets) => Len(c.sets) # 1
            BY <3>3, <3>4
        <3>. QED  BY <3>2, <3>5
    <2>6. Spent(notes) \in Nat
        BY DEF Spent, LimitsShape, Notes
    <2>7. Left(c, TRUE, M)
        BY <1>1, <1>6, <2>1, <2>2, <2>3, <2>4, <2>5, <2>6 DEF Left
    <2>. QED  BY <2>7 DEF c
<1>. QED  BY <1>7, <1>8, BegunIs DEF BegunAs

\* Any cycle, open or closed.
LEMMA CycleLeaves ==
    ASSUME LimitsShape, NEW open \in BOOLEAN, NEW M \in SUBSET DOMAIN Policy
    PROVE  Left(Cycle(open, M), open, M)
<1>1. CASE open
    <2>1. open = TRUE
        BY <1>1
    <2>. QED  BY <2>1, OpenLeaves
<1>2. CASE ~open
    <2>1. open = FALSE
        BY <1>2
    <2>. QED  BY <2>1, ClosedLeaves
<1>. QED  BY <1>1, <1>2

-----------------------------------------------------------------------------
\* The end of a period on the controller's clock is a moment.
LEMMA UntilIs ==
    ASSUME now \in Nat, NEW d \in Nat
    PROVE  Until(d) \in Nat /\ (d # 0 /\ Shorter(d) = d => Until(d) = now + d)
<1>1. Shorter(d) \in Nat
    BY LimitsAssumption DEF Shorter
<1>2. Until(d) \in Nat
    BY <1>1 DEF Until, Unset
<1>. QED  BY <1>2 DEF Until

\* The clock stands: the notes mean what they meant.
LEMMA ClockStands ==
    ASSUME now' = now
    PROVE  Hour' = Hour /\ (notes' = notes => /\ Spent(notes)' = Spent(notes)
                                             /\ Owed(notes)' = Owed(notes) /\ Due(notes)' = Due(notes))
BY DEF Hour, Spent, Owed, Due

\* What is spent and owed is a number of seconds.
LEMMA SecondsAreNumbers ==
    ASSUME NEW n \in Notes, n.since <= now, now \in Nat
    PROVE  Spent(n) \in Nat /\ Owed(n) \in Nat
BY DEF Spent, Owed, Notes

\* The engine starts with notes that say nothing, of a relay that is off.
LEMMA LimitsStart == LimitsInit => LimitsInv
<1>. SUFFICES ASSUME LimitsInit PROVE LimitsInv
    OBVIOUS
<1>1. notes \in Notes /\ notes.since <= now /\ notes.off <= now
    BY HourIsNumber DEF LimitsInit, NoNotes, Notes, Unset
<1>2. /\ now = 1 /\ energised = FALSE /\ autoOff = 0 /\ toDrop = FALSE /\ orders = 0
      /\ fell = 0 /\ felled = "start" /\ bound = "none" /\ ran = -1 /\ counted = 0
    BY DEF LimitsInit, Unset
<1>3. LimitsShape
    <2>1. now \in Nat /\ now > 0 /\ autoOff \in Nat /\ orders \in Nat /\ fell \in Nat /\ fell <= now
        BY <1>2
    <2>2. ran \in Int /\ counted \in Nat
        BY <1>2
    <2>3. energised \in BOOLEAN /\ toDrop \in BOOLEAN
        BY <1>2
    <2>. QED  BY <1>1, <2>1, <2>2, <2>3 DEF LimitsShape
<1>4. DropIsNoted /\ PeriodIsNoted
    BY <1>2 DEF DropIsNoted, PeriodIsNoted
<1>5. PeriodsAreKnown
    BY <1>1, <1>2, SecondsAreNumbers DEF PeriodsAreKnown
<1>. QED  BY <1>3, <1>4, <1>5 DEF LimitsInv

\* A cycle keeps the invariant, and raises the relay within the limits only.
LEMMA CycleKeeps ==
    ASSUME LimitsInv, NEW open \in BOOLEAN, NEW M \in SUBSET DOMAIN Policy, OneCycle(open, M)
    PROVE  LimitsInv' /\ RestsBetween /\ KeepsToBudget
<1>. DEFINE c == Cycle(open, M)
            byRule == open /\ \E i \in M : ~Policy[i].on
<1>1. Left(c, open, M)
    BY CycleLeaves DEF LimitsInv
<1>2. /\ notes' = c.n /\ toDrop' = FALSE /\ now' = now /\ orders' = orders
      /\ c.sets = <<>> => UNCHANGED <<energised, autoOff, fell, felled, bound, ran, counted>>
      /\ c.sets # <<>> /\ c.sets[Len(c.sets)] =>
             /\ energised' = TRUE /\ autoOff' = Until(c.dur)
             /\ bound' = (IF c.dur # 0 /\ Shorter(c.dur) = c.dur THEN "rule" ELSE "ceiling")
             /\ ran' = (IF ran < 0 THEN 0 ELSE ran)
             /\ UNCHANGED <<fell, felled, counted>>
      /\ c.sets # <<>> /\ ~c.sets[Len(c.sets)] =>
             /\ energised' = FALSE /\ autoOff' = Unset
             /\ counted' = counted + (IF byRule /\ ran > 0 /\ Len(c.sets) = 1 THEN ran ELSE 0)
             /\ \/ fell' = now /\ felled' = "rule" /\ ran' = -1 /\ bound' = "none"
                \/ ~energised /\ UNCHANGED <<fell, felled, ran, bound>>
    BY DEF OneCycle, Dropped
<1>. HIDE DEF c
<1>3. /\ c \in Work /\ c.n \in Notes /\ c.dur \in Nat /\ c.n.since <= now /\ c.n.off <= now
      /\ now \in Nat /\ now > 0 /\ counted \in Nat /\ ran \in Int /\ fell \in Nat /\ fell <= now
    BY <1>1 DEF Left, Work, LimitsInv, LimitsShape
<1>4. /\ Spent(notes)' = Spent(c.n) /\ Owed(notes)' = Owed(c.n)
      /\ Spent(c.n) \in Nat /\ Owed(c.n) \in Nat /\ Spent(notes) \in Nat /\ Owed(notes) \in Nat
    <2>1. Spent(notes)' = Spent(c.n) /\ Owed(notes)' = Owed(c.n)
        BY <1>2 DEF Spent, Owed, Hour
    <2>. QED  BY <2>1, <1>3, SecondsAreNumbers DEF LimitsInv, LimitsShape
<1>5. CASE c.sets = <<>>
    <2>1. /\ ~Due(notes) /\ c.n.timer = notes.timer /\ c.n.off = notes.off
          /\ (notes.since # Unset => c.n.since # Unset) /\ Owed(c.n) = Owed(notes)
          /\ Spent(c.n) >= Spent(notes)
        BY <1>1, <1>5 DEF Left
    <2>2. UNCHANGED <<energised, autoOff, fell, felled, bound, ran, counted>>
        BY <1>2, <1>5
    <2>3. LimitsShape'
        BY <1>2, <1>3, <2>2 DEF LimitsInv, LimitsShape
    <2>4. DropIsNoted'
        BY <1>2, <2>1, <2>2 DEF LimitsInv, DropIsNoted
    <2>5. PeriodIsNoted'
        BY <1>2, <2>1, <2>2 DEF LimitsInv, PeriodIsNoted
    <2>6. PeriodsAreKnown'
        BY <1>2, <1>3, <1>4, <2>1, <2>2 DEF LimitsInv, PeriodsAreKnown
    <2>7. ~RuleRaises
        BY <2>2 DEF RuleRaises
    <2>. QED  BY <2>3, <2>4, <2>5, <2>6, <2>7 DEF LimitsInv, RestsBetween, KeepsToBudget
<1>6. CASE c.sets # <<>> /\ c.sets[Len(c.sets)]
    <2>1. /\ ~Due(notes) /\ ~Resting(notes) /\ Spent(c.n) < BudgetS
          /\ c.n.since = now /\ Spent(c.n) = Owed(notes)
          /\ c.dur # 0 => c.n.timer = now + c.dur
          /\ Spent(c.n) >= Spent(notes)
        BY <1>1, <1>6 DEF Left
    <2>2. /\ energised' = TRUE /\ autoOff' = Until(c.dur)
          /\ bound' = (IF c.dur # 0 /\ Shorter(c.dur) = c.dur THEN "rule" ELSE "ceiling")
          /\ ran' = (IF ran < 0 THEN 0 ELSE ran)
          /\ UNCHANGED <<fell, felled, counted>>
        BY <1>2, <1>6
    <2>3. LimitsShape'
        <3>1. autoOff' \in Nat /\ ran' \in Int
            BY <1>3, <2>2, UntilIs
        <3>. QED  BY <1>2, <1>3, <2>2, <3>1 DEF LimitsInv, LimitsShape
    <2>4. DropIsNoted'
        BY <2>2 DEF DropIsNoted
    <2>5. PeriodIsNoted'
        BY <1>2, <1>3, <2>1, <2>2, UntilIs DEF PeriodIsNoted
    <2>6. PeriodsAreKnown'
        <3>1. counted' <= Spent(notes)'
            BY <1>3, <1>4, <2>1, <2>2 DEF LimitsInv, PeriodsAreKnown
        <3>2. counted' + ran' <= Owed(notes)' /\ notes'.since # Unset
            <4>1. Owed(c.n) = Spent(c.n) /\ now # Unset
                BY <1>3, <1>4, <2>1 DEF Owed, Unset
            <4>2. CASE ran < 0
                BY <1>2, <1>3, <1>4, <2>1, <2>2, <4>1, <4>2, <3>1
            <4>3. CASE ran >= 0
                BY <1>2, <1>3, <1>4, <2>1, <2>2, <4>1, <4>3 DEF LimitsInv, PeriodsAreKnown
            <4>. QED  BY <1>3, <4>2, <4>3
        <3>. QED  BY <2>2, <3>1, <3>2 DEF PeriodsAreKnown
    <2>7. RestsBetween
        <3>. SUFFICES ASSUME ~energised, fell # Unset, felled = "rule" PROVE now - fell >= CooldownS
            BY DEF RestsBetween, RuleRaises
        <3>1. fell <= notes.off
            BY <2>1 DEF LimitsInv, DropIsNoted
        <3>2. notes.off # Unset /\ notes.off \in Nat
            BY <1>3, <3>1 DEF LimitsInv, LimitsShape, Notes, Unset
        <3>3. CooldownS \in Nat /\ now - notes.off >= CooldownS
            BY <1>3, <2>1, <3>2, LimitsAssumption DEF Resting
        <3>. QED  BY <1>3, <3>1, <3>2, <3>3
    <2>8. KeepsToBudget
        <3>1. counted <= Spent(notes) /\ BudgetS \in Nat
            BY LimitsAssumption DEF LimitsInv, PeriodsAreKnown
        <3>2. counted < BudgetS
            BY <1>3, <1>4, <2>1, <3>1
        <3>. QED  BY <3>2 DEF KeepsToBudget
    <2>. QED  BY <2>3, <2>4, <2>5, <2>6, <2>7, <2>8 DEF LimitsInv
<1>7. CASE c.sets # <<>> /\ ~c.sets[Len(c.sets)]
    <2>1. /\ c.n.off = now /\ (byRule /\ Len(c.sets) = 1 => Spent(c.n) = Owed(notes))
          /\ Spent(c.n) >= Spent(notes)
        BY <1>1, <1>7 DEF Left
    <2>2. /\ energised' = FALSE /\ autoOff' = Unset
          /\ counted' = counted + (IF byRule /\ ran > 0 /\ Len(c.sets) = 1 THEN ran ELSE 0)
          /\ \/ fell' = now /\ felled' = "rule" /\ ran' = -1 /\ bound' = "none"
             \/ ~energised /\ UNCHANGED <<fell, felled, ran, bound>>
        BY <1>2, <1>7
    <2>. HIDE DEF byRule
    <2>3. counted' \in Nat /\ counted' <= Spent(c.n)
        <3>1. CASE byRule /\ ran > 0 /\ Len(c.sets) = 1
            <4>1. counted' = counted + ran /\ counted + ran <= Owed(notes)
                BY <1>3, <2>2, <3>1 DEF LimitsInv, PeriodsAreKnown
            <4>. QED  BY <1>3, <1>4, <2>1, <3>1, <4>1
        <3>2. CASE ~(byRule /\ ran > 0 /\ Len(c.sets) = 1)
            <4>1. counted' = counted /\ counted <= Spent(notes)
                BY <1>3, <2>2, <3>2 DEF LimitsInv, PeriodsAreKnown
            <4>. QED  BY <1>3, <1>4, <2>1, <4>1
        <3>. QED  BY <3>1, <3>2
    <2>4. ran' \in Int /\ ran' < 0 /\ fell' \in Nat /\ fell' <= now
        BY <1>3, <2>2 DEF LimitsInv, PeriodsAreKnown
    <2>5. LimitsShape'
        BY <1>2, <1>3, <2>2, <2>3, <2>4 DEF LimitsInv, LimitsShape, Unset
    <2>6. DropIsNoted'
        BY <1>2, <2>1, <2>4 DEF DropIsNoted
    <2>7. PeriodIsNoted'
        BY <2>2 DEF PeriodIsNoted
    <2>8. PeriodsAreKnown'
        BY <1>4, <2>3, <2>4 DEF PeriodsAreKnown
    <2>9. ~RuleRaises
        BY <2>2 DEF RuleRaises
    <2>. QED  BY <2>5, <2>6, <2>7, <2>8, <2>9 DEF LimitsInv, RestsBetween, KeepsToBudget
<1>. QED  BY <1>5, <1>6, <1>7

\* So does whatever else happens, which is not the engine's doing.
LEMMA OthersKeep ==
    ASSUME LimitsInv,
           \/ \E on, downlink \in BOOLEAN : \E d \in Asked : Order(on, d, downlink)
           \/ Freeze \/ Thaw \/ TimeIsUp \/ Restart \/ UNCHANGED limitVars
    PROVE  LimitsInv' /\ ~RuleRaises
<1>1. /\ now \in Nat /\ now > 0 /\ notes \in Notes /\ notes.since <= now /\ notes.off <= now
      /\ fell \in Nat /\ fell <= now /\ ran \in Int /\ counted \in Nat /\ orders \in Nat
      /\ autoOff \in Nat /\ energised \in BOOLEAN /\ toDrop \in BOOLEAN
    BY DEF LimitsInv, LimitsShape
<1>2. now' = now
    BY DEF Order, Freeze, Thaw, TimeIsUp, Restart, limitVars
<1>3. Spent(notes) \in Nat /\ Owed(notes) \in Nat
    BY <1>1, SecondsAreNumbers
<1>4. notes' = notes => /\ Spent(notes)' = Spent(notes) /\ Owed(notes)' = Owed(notes)
                        /\ Due(notes)' = Due(notes)
    BY <1>2, ClockStands
<1>5. ASSUME NEW on \in BOOLEAN, NEW downlink \in BOOLEAN, NEW d \in Asked, Order(on, d, downlink)
      PROVE  LimitsInv' /\ ~RuleRaises
    <2>1. orders' = orders + 1 /\ counted' = counted /\ toDrop' = toDrop
        BY <1>5 DEF Order
    <2>2. ~RuleRaises
        BY <1>1, <2>1 DEF RuleRaises
    <2>3. d \in Nat
        BY LimitsAssumption
    <2>4. CASE on
        <3>1. /\ energised' = TRUE /\ autoOff' = Until(d) /\ bound' = "command"
              /\ UNCHANGED <<fell, felled, ran>>
              /\ notes' = IF downlink /\ d > 0 THEN [notes EXCEPT !.timer = now + d] ELSE notes
            BY <1>5, <2>4 DEF Order
        <3>2. /\ notes' \in Notes /\ notes'.since = notes.since /\ notes'.off = notes.off
              /\ notes'.hour = notes.hour /\ notes'.secs = notes.secs
            <4>1. now + d \in Nat
                BY <1>1, <2>3
            <4>. QED  BY <1>1, <3>1, <4>1 DEF Notes
        <3>3. Spent(notes)' = Spent(notes) /\ Owed(notes)' = Owed(notes)
            BY <1>2, <3>2 DEF Spent, Owed, Hour
        <3>4. Until(d) \in Nat
            BY <1>1, <2>3, UntilIs
        <3>5. LimitsShape'
            BY <1>1, <1>2, <2>1, <3>1, <3>2, <3>4 DEF LimitsShape
        <3>6. DropIsNoted' /\ PeriodIsNoted'
            BY <3>1 DEF DropIsNoted, PeriodIsNoted
        <3>7. PeriodsAreKnown'
            BY <2>1, <3>1, <3>2, <3>3 DEF LimitsInv, PeriodsAreKnown
        <3>. QED  BY <2>2, <3>5, <3>6, <3>7 DEF LimitsInv
    <2>5. CASE ~on
        <3>1. /\ energised' = FALSE /\ autoOff' = Unset /\ notes' = notes
              /\ \/ fell' = now /\ felled' = "command" /\ ran' = -1 /\ bound' = "none"
                 \/ ~energised /\ UNCHANGED <<fell, felled, ran, bound>>
            BY <1>5, <2>5 DEF Order, Dropped
        <3>2. ran' \in Int /\ ran' < 0 /\ fell' \in Nat /\ fell' <= now
            BY <1>1, <3>1 DEF LimitsInv, PeriodsAreKnown
        <3>3. LimitsShape'
            <5>1. energised' \in BOOLEAN /\ toDrop' \in BOOLEAN /\ autoOff' \in Nat
                BY <1>1, <1>2, <2>1, <3>1, <3>2 DEF Unset
            <5>2. now' \in Nat /\ now' > 0 /\ orders' \in Nat /\ fell' \in Nat /\ fell' <= now'
                BY <1>1, <1>2, <2>1, <3>1, <3>2
            <5>3. ran' \in Int /\ counted' \in Nat
                BY <1>1, <1>2, <2>1, <3>1, <3>2
            <5>. QED  BY <1>1, <1>2, <2>1, <3>1, <3>2, <5>1, <5>2, <5>3 DEF LimitsShape
        <3>4. DropIsNoted'
            BY <1>4, <3>1 DEF LimitsInv, DropIsNoted
        <3>5. PeriodIsNoted'
            BY <3>1 DEF PeriodIsNoted
        <3>6. PeriodsAreKnown'
            BY <1>4, <2>1, <3>1, <3>2 DEF LimitsInv, PeriodsAreKnown
        <3>. QED  BY <2>2, <3>3, <3>4, <3>5, <3>6 DEF LimitsInv
    <2>. QED  BY <2>4, <2>5
<1>6. CASE Freeze \/ Thaw \/ UNCHANGED limitVars
    <2>1. /\ UNCHANGED <<energised, autoOff, notes, orders, fell, felled, bound, ran, counted>>
          /\ toDrop' \in BOOLEAN
        BY <1>1, <1>6 DEF Freeze, Thaw, limitVars
    <2>2. LimitsShape'
        BY <1>1, <1>2, <2>1 DEF LimitsShape
    <2>3. DropIsNoted' /\ PeriodIsNoted' /\ PeriodsAreKnown'
        BY <1>4, <2>1 DEF LimitsInv, DropIsNoted, PeriodIsNoted, PeriodsAreKnown
    <2>. QED  BY <2>1, <2>2, <2>3 DEF LimitsInv, RuleRaises
<1>7. CASE TimeIsUp
    <2>1. /\ autoOff # Unset /\ now >= autoOff /\ energised' = FALSE /\ autoOff' = Unset
          /\ fell' = now /\ felled' = bound /\ ran' = -1
          /\ UNCHANGED <<notes, toDrop, orders, counted>>
        BY <1>7 DEF TimeIsUp, Dropped
    <2>2. LimitsShape'
        <4>1. energised' \in BOOLEAN /\ toDrop' \in BOOLEAN /\ autoOff' \in Nat
            BY <1>1, <1>2, <2>1 DEF Unset
        <4>2. now' \in Nat /\ now' > 0 /\ orders' \in Nat /\ fell' \in Nat /\ fell' <= now'
            BY <1>1, <1>2, <2>1
        <4>3. ran' \in Int /\ counted' \in Nat
            BY <1>1, <1>2, <2>1
        <4>. QED  BY <1>1, <1>2, <2>1, <4>1, <4>2, <4>3 DEF LimitsShape
    <2>3. DropIsNoted'
        <3>. SUFFICES ASSUME bound = "rule" PROVE Due(notes)
            BY <1>4, <2>1 DEF DropIsNoted
        <3>. QED  BY <2>1 DEF LimitsInv, PeriodIsNoted, Due
    <2>4. PeriodIsNoted' /\ PeriodsAreKnown'
        BY <1>4, <2>1 DEF LimitsInv, PeriodIsNoted, PeriodsAreKnown
    <2>. QED  BY <2>1, <2>2, <2>3, <2>4 DEF LimitsInv, RuleRaises
<1>8. CASE Restart
    <2>1. /\ energised' = FALSE /\ autoOff' = Unset /\ fell' = now /\ felled' = "start"
          /\ ran' = -1 /\ counted' = 0 /\ toDrop' = FALSE /\ orders' = orders /\ notes' = NoNotes
        BY <1>8 DEF Restart, Dropped
    <2>2. notes' \in Notes /\ notes'.since <= now /\ notes'.off <= now
        BY <1>1, <2>1, HourIsNumber DEF NoNotes, Notes, Unset
    <2>3. Spent(notes)' \in Nat
        BY <2>2 DEF Spent, Notes
    <2>4. LimitsShape'
        <4>1. energised' \in BOOLEAN /\ toDrop' \in BOOLEAN /\ autoOff' \in Nat
            BY <1>1, <1>2, <2>1, <2>2 DEF Unset
        <4>2. now' \in Nat /\ now' > 0 /\ orders' \in Nat /\ fell' \in Nat /\ fell' <= now'
            BY <1>1, <1>2, <2>1, <2>2
        <4>3. ran' \in Int /\ counted' \in Nat
            BY <1>1, <1>2, <2>1, <2>2
        <4>. QED  BY <1>1, <1>2, <2>1, <2>2, <4>1, <4>2, <4>3 DEF LimitsShape
    <2>5. DropIsNoted' /\ PeriodIsNoted' /\ PeriodsAreKnown'
        BY <2>1, <2>3 DEF DropIsNoted, PeriodIsNoted, PeriodsAreKnown
    <2>. QED  BY <2>1, <2>4, <2>5 DEF LimitsInv, RuleRaises
<1>. QED  BY <1>5, <1>6, <1>7, <1>8

\* Time goes on.
LEMMA PassKeeps == ASSUME LimitsInv, Pass PROVE LimitsInv' /\ ~RuleRaises
<1>1. /\ now \in Nat /\ now > 0 /\ notes \in Notes /\ notes.since <= now /\ notes.off <= now
      /\ fell \in Nat /\ fell <= now /\ ran \in Int /\ counted \in Nat
    BY DEF LimitsInv, LimitsShape
<1>. DEFINE same == (now + 1) \div HourS = now \div HourS
            on == IF energised /\ ran >= 0 THEN 1 ELSE 0
<1>2. /\ now' = now + 1
      /\ ran' = (IF same THEN ran + on ELSE IF ran < 0 THEN ran ELSE 0)
      /\ counted' = (IF same THEN counted ELSE 0)
      /\ UNCHANGED <<energised, autoOff, notes, toDrop, orders, fell, felled, bound>>
    BY DEF Pass
<1>3. same => Hour' = Hour
    BY <1>2 DEF Hour
<1>. HIDE DEF same
<1>4. /\ now' \in Nat /\ now' > 0 /\ notes.since <= now' /\ notes.off <= now' /\ fell <= now'
      /\ ran' \in Int /\ counted' \in Nat
    <2>1. on \in Int
        OBVIOUS
    <2>. HIDE DEF on
    <2>2. ran' \in Int /\ counted' \in Nat
        BY <1>1, <1>2, <2>1
    <2>3. notes.since \in Nat /\ notes.off \in Nat
        BY <1>1 DEF Notes
    <2>. QED  BY <1>1, <1>2, <2>2, <2>3
<1>5. LimitsShape'
    BY <1>2, <1>4 DEF LimitsInv, LimitsShape
<1>6. DropIsNoted'
    <2>1. Due(notes) => Due(notes)'
        BY <1>1, <1>2 DEF Due, Notes
    <2>. QED  BY <1>2, <2>1 DEF LimitsInv, DropIsNoted
<1>7. PeriodIsNoted'
    BY <1>2 DEF LimitsInv, PeriodIsNoted
<1>8. PeriodsAreKnown'
    <2>1. CASE same
        <3>1. Spent(notes)' = Spent(notes) /\ Spent(notes) \in Nat
            BY <1>1, <1>2, <1>3, <2>1, SecondsAreNumbers DEF Spent
        <3>2. counted' <= Spent(notes)'
            BY <1>2, <2>1, <3>1 DEF LimitsInv, PeriodsAreKnown
        <3>3. CASE ran >= 0
            <4>1. energised /\ notes.since # Unset /\ counted + ran <= Spent(notes) + (now - notes.since)
                BY <3>3 DEF LimitsInv, PeriodsAreKnown, Owed
            <4>2. ran' = ran + 1 /\ counted' = counted
                BY <1>2, <2>1, <3>3, <4>1
            <4>3. Owed(notes)' = Spent(notes) + (now + 1 - notes.since) /\ notes.since \in Nat
                BY <1>1, <1>2, <3>1, <4>1 DEF Owed, Notes
            <4>4. counted' + ran' <= Owed(notes)'
                BY <1>1, <3>1, <4>1, <4>2, <4>3
            <4>. QED  BY <1>2, <3>2, <4>1, <4>4 DEF PeriodsAreKnown
        <3>4. CASE ran < 0
            <4>1. ran' < 0
                BY <1>1, <1>2, <2>1, <3>4
            <4>. QED  BY <1>4, <3>2, <4>1 DEF PeriodsAreKnown
        <3>. QED  BY <1>1, <3>3, <3>4
    <2>2. CASE ~same
        <3>1. counted' = 0 /\ ran' = IF ran < 0 THEN ran ELSE 0
            BY <1>2, <2>2
        <3>2. Spent(notes)' \in Nat /\ Owed(notes)' \in Nat
            BY <1>1, <1>2, <1>4 DEF Spent, Owed, Notes
        <3>3. ran >= 0 => energised /\ notes.since # Unset
            BY DEF LimitsInv, PeriodsAreKnown
        <3>. QED  BY <1>1, <1>2, <3>1, <3>2, <3>3 DEF PeriodsAreKnown
    <2>. QED  BY <2>1, <2>2
<1>9. ~RuleRaises
    BY <1>2 DEF RuleRaises
<1>. QED  BY <1>5, <1>6, <1>7, <1>8, <1>9 DEF LimitsInv

\* Every step keeps the invariant and, if it is the engine that raises the relay,
\* both limits.
LEMMA StepsAreLimited ==
    ASSUME LimitsInv, [LimitsNext]_limitVars
    PROVE  LimitsInv' /\ RestsBetween /\ KeepsToBudget
<1>1. ASSUME NEW open \in BOOLEAN, NEW M \in SUBSET DOMAIN Policy, OneCycle(open, M)
      PROVE  LimitsInv' /\ RestsBetween /\ KeepsToBudget
    BY <1>1, CycleKeeps
<1>2. ASSUME \/ \E on, downlink \in BOOLEAN : \E d \in Asked : Order(on, d, downlink)
             \/ Freeze \/ Thaw \/ TimeIsUp \/ Restart \/ UNCHANGED limitVars
      PROVE  LimitsInv' /\ RestsBetween /\ KeepsToBudget
    BY <1>2, OthersKeep DEF RestsBetween, KeepsToBudget
<1>3. CASE Pass
    BY <1>3, PassKeeps DEF RestsBetween, KeepsToBudget
<1>. QED  BY <1>1, <1>2, <1>3 DEF LimitsNext

\* The engine raises the relay only when the cooldown after its own last drop is over
\* and the periods that its OFF rules ended have not used the budget of the hour up
\* (rules.py, evaluate), for every rule list, cooldown, budget and ceiling.
THEOREM LimitsAreKept == LimitsSpec => RulesKeepTheirLimits
<1>1. LimitsInv /\ [LimitsNext]_limitVars => LimitsInv'
    BY StepsAreLimited
<1>2. LimitsInv /\ [LimitsNext]_limitVars => [RestsBetween /\ KeepsToBudget]_limitVars
    BY StepsAreLimited
<1>. QED  BY LimitsStart, <1>1, <1>2, PTL DEF LimitsSpec, RulesKeepTheirLimits
=============================================================================
