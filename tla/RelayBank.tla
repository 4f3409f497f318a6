------------------------------ MODULE RelayBank ------------------------------
(***************************************************************************)
(* RelayController (control/relay.py): the coils, the state bits and one    *)
(* auto-off timer thread per channel.  Every method runs under the          *)
(* controller's lock, so it is one step; what interleaves is the timer      *)
(* threads, whose wait may end before or after a cancel, and the callers.   *)
(*                                                                         *)
(* Abstracted: time.  A waiting thread may run out at any moment; `secs` is *)
(* how long it was asked to wait.  A GPIO write that raises leaves the pin  *)
(* as it was; set() then changes nothing at all and has no action here.     *)
(***************************************************************************)
EXTENDS Naturals, FiniteSets

CONSTANTS
    Channel,        \* relay channels, 1..4 on the board
    Timer,          \* bound: timer threads alive at once
    None,           \* no timer registered for the channel
    MaxOn,          \* max_on_s, the ceiling in seconds; 0 = none
    Duration        \* durations a caller may ask for

ASSUME BankAssumption ==
    /\ Channel \subseteq Nat \ {0}
    /\ None \notin Timer
    /\ MaxOn \in Nat
    /\ Duration \subseteq Nat \ {0}

VARIABLES
    pin,            \* what the GPIO line is driven to
    bit,            \* RelayController._state
    timers,         \* RelayController._timers: the registered thread
    thread,         \* the timer threads
    exempt,         \* channels whose on-period was asked for as unbounded
    stuck,          \* history: the write that should have dropped the coil raised
    torn            \* history: all_off raised between this pin's write and its bit

bankVars == <<pin, bit, timers, thread, exempt, stuck, torn>>

\* `stale` is history: a later request for the channel followed the arming.
Free == [state |-> "free", ch |-> 0, secs |-> 0, stale |-> FALSE]
Thread ==
    [state : {"free"}, ch : {0}, secs : {0}, stale : {FALSE}] \cup
    [state : {"waiting", "fired"}, ch : Channel, secs : Nat, stale : BOOLEAN]

BankInit ==
    /\ pin = [c \in Channel |-> FALSE]
    /\ bit = [c \in Channel |-> FALSE]
    /\ timers = [c \in Channel |-> None]
    /\ thread = [t \in Timer |-> Free]
    /\ exempt = {} /\ stuck = {} /\ torn = {}
-----------------------------------------------------------------------------
\* The threads after a request for the channels C has cancelled their timers.
\* A thread that has run out already is past cancelling: it goes on to
\* _auto_off, where it finds itself superseded.
Cancelled(C) ==
    [t \in Timer |->
        IF thread[t].state = "waiting" /\ timers[thread[t].ch] = t /\ thread[t].ch \in C
        THEN Free
        ELSE [thread[t] EXCEPT !.stale = @ \/ thread[t].ch \in C]]

CancelTimers(C) ==
    /\ thread' = Cancelled(C)
    /\ timers' = [c \in Channel |-> IF c \in C THEN None ELSE timers[c]]

\* _arm: cancel, register a new thread, start it.
Arm(c, s) ==
    \E t \in Timer :
        /\ thread[t].state = "free"
        /\ thread' = [Cancelled({c}) EXCEPT
                         ![t] = [state |-> "waiting", ch |-> c, secs |-> s, stale |-> FALSE]]
        /\ timers' = [timers EXCEPT ![c] = t]

Ceiled(d) == IF MaxOn > 0 /\ MaxOn < d THEN MaxOn ELSE d

\* set(channel, True, unbounded)
SetOn(c, unbounded) ==
    /\ pin' = [pin EXCEPT ![c] = TRUE]
    /\ bit' = [bit EXCEPT ![c] = TRUE]
    /\ IF MaxOn > 0 /\ ~unbounded THEN Arm(c, MaxOn) ELSE CancelTimers({c})
    /\ exempt' = IF unbounded THEN exempt \cup {c} ELSE exempt \ {c}
    /\ stuck' = stuck \ {c}
    /\ torn' = torn \ {c}

\* set(channel, False)
SetOff(c) ==
    /\ pin' = [pin EXCEPT ![c] = FALSE]
    /\ bit' = [bit EXCEPT ![c] = FALSE]
    /\ CancelTimers({c})
    /\ exempt' = exempt \ {c}
    /\ stuck' = stuck \ {c}
    /\ torn' = torn \ {c}

\* Fault: the ceiling is left to set().
ArmAutoOffFault(c, d) ==
    /\ bit[c]
    /\ Arm(c, d)
    /\ exempt' = exempt \ {c}
    /\ stuck' = stuck \ {c}
    /\ UNCHANGED <<pin, bit, torn>>

\* arm_auto_off: a no-op on a relay that is off.
ArmAutoOff(c, d) ==
    /\ bit[c]
    /\ Arm(c, Ceiled(d))
    /\ exempt' = exempt \ {c}
    /\ stuck' = stuck \ {c}
    /\ UNCHANGED <<pin, bit, torn>>

\* The wait of a thread ends, uncancelled.
TimerFires(t) ==
    /\ thread[t].state = "waiting"
    /\ thread' = [thread EXCEPT ![t].state = "fired"]
    /\ UNCHANGED <<pin, bit, timers, exempt, stuck, torn>>

\* _auto_off gets the lock.  The registered thread drops the coil; a thread
\* that a newer timer or a manual OFF has superseded does nothing.
AutoOff(t) ==
    /\ thread[t].state = "fired"
    /\ thread' = [thread EXCEPT ![t] = Free]
    /\ LET c == thread[t].ch IN
          IF timers[c] = t
          THEN /\ timers' = [timers EXCEPT ![c] = None]
               /\ IF bit[c]
                  THEN /\ pin' = [pin EXCEPT ![c] = FALSE]
                       /\ bit' = [bit EXCEPT ![c] = FALSE]
                       /\ torn' = torn \ {c}
                  ELSE UNCHANGED <<pin, bit, torn>>
          ELSE UNCHANGED <<pin, bit, timers, torn>>
    /\ UNCHANGED <<exempt, stuck>>

\* The same, and the write raises: the timer is already off the books, and the
\* exception ends the thread.
AutoOffFails(t) ==
    /\ thread[t].state = "fired"
    /\ timers[thread[t].ch] = t
    /\ bit[thread[t].ch]
    /\ thread' = [thread EXCEPT ![t] = Free]
    /\ timers' = [timers EXCEPT ![thread[t].ch] = None]
    /\ stuck' = stuck \cup {thread[t].ch}
    /\ UNCHANGED <<pin, bit, exempt, torn>>

\* all_off
AllOff ==
    /\ pin' = [c \in Channel |-> FALSE]
    /\ bit' = [c \in Channel |-> FALSE]
    /\ CancelTimers(Channel)
    /\ exempt' = {} /\ stuck' = {} /\ torn' = {}

\* all_off raises at the write of channel k: the timers are cancelled, the pins
\* before k dropped, and no state bit changed.
AllOffFails(k) ==
    /\ pin' = [c \in Channel |-> IF c < k THEN FALSE ELSE pin[c]]
    /\ CancelTimers(Channel)
    /\ stuck' = {c \in Channel : c >= k /\ pin[c]}
    /\ torn' = {c \in Channel : c < k /\ bit[c]} \cup {c \in torn : c >= k}
    /\ UNCHANGED <<bit, exempt>>

BankNext ==
    \/ \E c \in Channel :
          \/ \E u \in BOOLEAN : SetOn(c, u)
          \/ SetOff(c)
          \/ \E d \in Duration : ArmAutoOff(c, d)
          \/ AllOffFails(c)
    \/ \E t \in Timer : TimerFires(t) \/ AutoOff(t) \/ AutoOffFails(t)
    \/ AllOff

BankSpec == BankInit /\ [][BankNext]_bankVars
-----------------------------------------------------------------------------
BankTypeOK ==
    /\ pin \in [Channel -> BOOLEAN]
    /\ bit \in [Channel -> BOOLEAN]
    /\ timers \in [Channel -> Timer \cup {None}]
    /\ thread \in [Timer -> Thread]
    /\ exempt \subseteq Channel /\ stuck \subseteq Channel /\ torn \subseteq Channel

\* A live thread armed for the on-period the channel is in, and for no longer
\* than the ceiling.
Covered(c) ==
    \E t \in Timer :
        /\ timers[c] = t
        /\ thread[t].state # "free"
        /\ thread[t].ch = c
        /\ thread[t].secs <= MaxOn
        /\ ~thread[t].stale

\* With a ceiling, every energised coil has a timer that will drop it in time,
\* but for an unbounded period and a coil whose drop raised (relay.py set,
\* arm_auto_off, _auto_off; the promise of the module's docstring).
BoundedCoilIsCovered ==
    MaxOn > 0 => \A c \in Channel : pin[c] => Covered(c) \/ c \in exempt \cup stuck

\* The bitmask that rows, telemetry and arm_auto_off read agrees with the pins,
\* but for channels an all_off that raised had already dropped.
BitMatchesPin == \A c \in Channel : (bit[c] <=> pin[c]) \/ c \in torn

\* A timer thread that ran out just before a newer request took the channel
\* never drops the coil of the newer on-period, however late it gets the lock.
SupersededTimerIsInert ==
    [][\A t \in Timer :
          thread[t].state = "fired" /\ thread[t].stale /\ thread'[t] = Free => pin' = pin]_bankVars
=============================================================================
