---------------------------- MODULE SmartBreaker ----------------------------
(***************************************************************************)
(* The AWG circuit (integrations/smart_breaker): a controller that owns an  *)
(* interlock relay in series with the load and a vendor's breaker reached   *)
(* over its cloud, the worker that polls, the plain timers main.py starts   *)
(* for commands with a duration, and the settings, which an installer binds *)
(* in a file and a reload brings into the running service.                  *)
(*                                                                         *)
(* One call of the controller is one step: request() and poll() hold one    *)
(* lock from their first line to their last.  The load runs while the       *)
(* breaker is closed and the relay wired in series with it is energised.    *)
(*                                                                         *)
(* The relays are not the controller's alone: relay_set, the rules, FPort   *)
(* 100 and the ceiling's timer switch its channel like any other, and a     *)
(* write of a relay may raise.                                             *)
(***************************************************************************)
EXTENDS Integers

CONSTANTS
    Channel,        \* relay channels
    Wire,           \* the channel wired in series with the load, 0 for none
    Binding,        \* settings an installer may save
    MinOff,         \* smart_breaker_min_off_s
    Grace,          \* smart_breaker_unreachable_grace_s
    Duration        \* durationSeconds of cloud commands

Off == "off"    HoldLast == "last"    On == "on"

ASSUME SmartBreakerAssumption ==
    /\ Channel \subseteq Nat \ {0} /\ Wire \in Channel \cup {0}
    /\ MinOff \in Nat /\ Grace \in Nat /\ Duration \subseteq Nat \ {0}
    /\ Binding \subseteq [vendor : {"none", "relay_only", "ableedge"}, bound : BOOLEAN,
                          ch : Channel \cup {0}, mode : {Off, HoldLast, On}]

Linked == -1        \* _unreachable_since is None
Unasked == "unasked"

VARIABLES
    file, live,     \* the settings on disk, and those the service works with
    built,          \* the vendor the controller was built for at boot
    ctl,            \* the controller's memory
    coil,           \* the relay outputs
    breaker,        \* the breaker is closed
    service,        \* the vendor: "up", "slow" (acts, answers too late),
                    \* "down", "locked" (rejects the credentials)
    token,          \* the client's bearer token: "none", "good", "dead"
    timers,         \* time left of the threading.Timer objects
    jammed,         \* the writes of the relays raise
    mixed,          \* history: a reload has changed the vendor of a controller
    rest,           \* history: time since the load stopped, whoever stopped it
    ordered,        \* history: a request or the fail-safe of this run stopped it
    spared          \* history: the fail-safe OFF of this outage left the wire's
                    \* relay up, or another writer has raised it since

settingsVars == <<file, live, built, mixed>>
aroundVars == <<service, jammed>>
loadVars == <<rest, ordered, spared>>
breakerVars == <<settingsVars, aroundVars, loadVars, ctl, coil, breaker, token, timers>>

AtMost(x, bound) == IF x < bound THEN x ELSE bound
Longest == CHOOSE d \in Duration : \A e \in Duration : e <= d

\* The relay in series with the load is energised.
Raised == \E c \in Channel : c = Wire /\ coil[c]

Load == breaker /\ (Wire # 0 => Raised)

\* What the controller remembers from boot: no command, link down since now.
FreshCtl == [desired |-> Unasked, pending |-> FALSE, down |-> 0, failSafe |-> "none",
             sinceOff |-> MinOff]

\* Device id, direct auth mode, all three credentials from some source.
Credentialed(b) == b.bound

\* build_smart_breaker refuses rather than half-configuring.
Built(b) ==
    IF \/ b.vendor = "relay_only" /\ b.ch # 0
       \/ b.vendor = "ableedge" /\ Credentialed(b)
    THEN b.vendor ELSE "none"

BreakerInit ==
    /\ file \in Binding /\ live = file /\ built = Built(file)
    /\ ctl = FreshCtl
    /\ coil = [c \in Channel |-> FALSE]
    /\ breaker \in BOOLEAN
    /\ service = "up" /\ token = "none"
    /\ timers = {} /\ jammed = FALSE /\ mixed = FALSE
    /\ rest = MinOff /\ ordered = FALSE /\ spared = FALSE

-----------------------------------------------------------------------------
(* The vendor's API.  A call without a token, or with one the vendor has    *)
(* forgotten (401), fetches a new one and goes out once more.               *)

Answers(t) == service = "up"

\* A command that was sent moves the breaker, also when the answer is too late.
Moves == service = "up" \/ (service = "slow" /\ token = "good")

TokenAfter(t) ==
    CASE service = "up" -> "good"
      [] service = "locked" -> "none"
      [] OTHER -> t

-----------------------------------------------------------------------------
(* The controller's helpers: operators on its memory and on the relays, so  *)
(* that a handler can apply them one after the other.                       *)

\* A write that raises is logged and reported, and not repeated.
Interlock(c, on) ==
    IF live.ch = 0 \/ jammed THEN c ELSE [c EXCEPT ![live.ch] = on]

\* _set_interlock returns True.
InterlockOk == live.ch = 0 \/ ~jammed

\* A recovered link may be lost again: the fail-safe is armed again.
MarkOk(m) == [m EXCEPT !.down = Linked, !.failSafe = "none"]

\* Fault: the fail-safe does not count as the last OFF.
FailSafeUncounted(m) ==
    IF live.mode # Off THEN [m EXCEPT !.failSafe = live.mode]
    ELSE [m EXCEPT !.failSafe = Off, !.desired = Off, !.pending = TRUE]

FailSafe(m) ==
    IF live.mode # Off THEN [m EXCEPT !.failSafe = live.mode]
    ELSE [m EXCEPT !.failSafe = Off, !.sinceOff = 0, !.desired = Off, !.pending = TRUE]

\* Fault: the grace period starts over with every failed call.
FailedAfresh(m) == [m EXCEPT !.down = 0]

Failed(m) == [m EXCEPT !.down = IF @ = Linked THEN 0 ELSE @]

FailSafeDue(m) == m.failSafe = "none" /\ m.down >= Grace

\* _mark_fail and _evaluate_fail_safe: memory m, relays c, after a failed call.
AfterFail(m, c) ==
    IF FailSafeDue(Failed(m)) /\ live.mode # HoldLast THEN Interlock(c, live.mode = On) ELSE c

MarkFail(m) == IF FailSafeDue(Failed(m)) THEN FailSafe(Failed(m)) ELSE Failed(m)

\* The clock sees when a step stops the load, and on whose order.
Rested(told) ==
    IF Load /\ ~Load' THEN rest' = 0 /\ ordered' = told ELSE UNCHANGED <<rest, ordered>>

\* Whether the fail-safe OFF of this outage has met a relay that it could not, or
\* was not set to, drop.
Spared ==
    spared' = (/\ ctl'.failSafe = Off /\ Raised'
               /\ IF ctl.failSafe = Off THEN spared ELSE jammed \/ live.ch # Wire)

\* What a command finds: the controller of boot, the settings of now.
Smart == built = "ableedge" /\ live.vendor = "ableedge"
RelayOnly == built # "none" /\ live.vendor = "relay_only" /\ live.ch # 0
NoClient ==
    /\ built # "none" /\ live.vendor # "none"
    /\ ~Smart /\ ~RelayOnly

-----------------------------------------------------------------------------
(* request(): a command of the Service Window, the cloud or a timer.        *)

OnAllowed == ctl.sinceOff >= MinOff

\* Fault: an open that is queued survives the ON that follows it.
ConfirmedKeepsQueue(m, on) == [MarkOk(m) EXCEPT !.desired = IF on THEN On ELSE Off]

Confirmed(m, on) == [MarkOk(m) EXCEPT !.desired = IF on THEN On ELSE Off, !.pending = FALSE]

\* The local half of an OFF: it needs no network.
First(c) == Interlock(c, FALSE)

RequestOff ==
    LET m == [ctl EXCEPT !.sinceOff = 0, !.desired = Off]
    IN /\ Smart
       /\ breaker' = (breaker /\ ~Moves) /\ token' = TokenAfter(token)
       /\ ctl' = IF Answers(token) THEN Confirmed(m, FALSE) ELSE [MarkFail(m) EXCEPT !.pending = TRUE]
       /\ coil' = IF Answers(token) THEN First(coil) ELSE AfterFail(m, First(coil))

\* The remote half first: the relay follows a confirmed close.
RequestOn ==
    /\ Smart /\ OnAllowed
    /\ breaker' = (breaker \/ Moves) /\ token' = TokenAfter(token)
    /\ ctl' = IF Answers(token) THEN Confirmed(ctl, TRUE) ELSE MarkFail(ctl)
    /\ coil' = IF Answers(token) THEN Interlock(coil, TRUE) ELSE AfterFail(ctl, coil)

RequestRelayOnly(on) ==
    /\ RelayOnly /\ (on => OnAllowed)
    /\ ctl' = [ctl EXCEPT !.desired = IF on THEN On ELSE Off, !.sinceOff = IF on THEN @ ELSE 0]
    /\ coil' = Interlock(coil, on)
    /\ UNCHANGED <<breaker, token>>

\* An OFF that is refused for want of a client or a channel counts as one.
RequestRefused ==
    /\ NoClient
    /\ ctl' = [ctl EXCEPT !.sinceOff = 0]
    /\ UNCHANGED <<coil, breaker, token>>

TurnOff == RequestOff \/ RequestRelayOnly(FALSE) \/ RequestRefused
TurnOn == RequestOn \/ RequestRelayOnly(TRUE)

Command ==
    /\ TurnOn \/ TurnOff
    /\ Rested(TRUE) /\ Spared
    /\ UNCHANGED <<timers, settingsVars, aroundVars>>

\* A cloud command with a duration starts a timer if it was carried out.
TimedOn(d) ==
    /\ TurnOn
    /\ timers' = IF InterlockOk /\ (Smart => Answers(token)) THEN timers \cup {d} ELSE timers
    /\ Rested(TRUE) /\ Spared
    /\ UNCHANGED <<settingsVars, aroundVars>>

\* The timer asks for OFF, whatever was asked in between; with the vendor set
\* to none, or no controller, the command is refused.
TimerFires ==
    /\ 0 \in timers /\ timers' = timers \ {0}
    /\ \/ TurnOff
       \/ /\ built = "none" \/ live.vendor = "none"
          /\ UNCHANGED <<ctl, coil, breaker, token>>
    /\ Rested(TRUE) /\ Spared
    /\ UNCHANGED <<settingsVars, aroundVars>>

-----------------------------------------------------------------------------
(* poll(): the queued open, then the position, the link's health.  An open  *)
(* that is delivered here stops the load and does not count as an OFF.     *)

Flushed(m) == IF Answers(token) THEN [MarkOk(m) EXCEPT !.pending = FALSE] ELSE MarkFail(m)

PollFlushes ==
    /\ Smart /\ ctl.pending
    /\ breaker' = (breaker /\ ~Moves) /\ token' = TokenAfter(token)
    /\ ctl' = Flushed(ctl)
    /\ IF Answers(token) THEN UNCHANGED coil
       ELSE coil' = AfterFail(ctl, coil)

PollSamples ==
    /\ Smart /\ ~ctl.pending
    /\ token' = TokenAfter(token)
    /\ IF Answers(token)
       THEN ctl' = MarkOk(ctl) /\ UNCHANGED coil
       ELSE /\ ctl' = MarkFail(ctl)
            /\ coil' = AfterFail(ctl, coil)
    /\ UNCHANGED breaker

Poll ==
    /\ PollFlushes \/ PollSamples
    /\ Rested(Raised /\ ~Raised') /\ Spared
    /\ UNCHANGED <<timers, settingsVars, aroundVars>>

-----------------------------------------------------------------------------
(* Around the controller.                                                   *)

\* Timers fire on time; ages beyond what the guards compare count as that.
Tick ==
    /\ 0 \notin timers
    /\ timers' = {t - 1 : t \in timers}
    /\ ctl' = [ctl EXCEPT !.sinceOff = AtMost(@ + 1, MinOff),
                          !.down = IF @ = Linked THEN @ ELSE AtMost(@ + 1, Grace)]
    /\ rest' = AtMost(rest + 1, MinOff)
    /\ UNCHANGED <<ordered, spared, coil, breaker, token, settingsVars, aroundVars>>

\* Another writer of the relays: relay_set, a rule, FPort 100, the ceiling.
OtherWrites ==
    /\ ~jammed
    /\ \E c \in Channel, on \in BOOLEAN : coil' = [coil EXCEPT ![c] = on]
    /\ UNCHANGED <<ctl, breaker, token, timers, settingsVars, aroundVars>>
    /\ spared' = (Raised' /\ (spared \/ ctl.failSafe = Off))
    /\ Rested(FALSE)

\* The GPIO stops working, or works again.
RelayFault ==
    /\ jammed' = ~jammed
    /\ UNCHANGED <<ctl, coil, breaker, token, timers, service, settingsVars, loadVars>>

\* The handle in the panel, the vendor's app.
PanelHandle ==
    /\ breaker' = ~breaker
    /\ UNCHANGED <<ctl, coil, token, timers, spared, settingsVars, aroundVars>>
    /\ Rested(FALSE)

\* The installer saves another binding, with or without the restart it asks
\* for; any reload, for another key or by the cloud, takes it all over.
Bind ==
    /\ file' \in Binding \ {file}
    /\ UNCHANGED <<live, built, mixed, ctl, coil, breaker, token, timers, loadVars, aroundVars>>

Reload ==
    /\ live' = file /\ mixed' = (mixed \/ file.vendor # live.vendor)
    /\ UNCHANGED <<file, built, ctl, coil, breaker, token, timers, loadVars, aroundVars>>

\* The service goes down, every relay with it, and comes up again.  Nothing is
\* sent to the breaker, nothing of the controller is kept, of its last OFF either.
ServiceRestart ==
    /\ live' = file /\ built' = Built(file)
    /\ ctl' = FreshCtl /\ timers' = {} /\ token' = "none"
    /\ coil' = [c \in Channel |-> FALSE]
    /\ mixed' = FALSE /\ jammed' = FALSE
    /\ UNCHANGED <<file, breaker, service>>
    /\ rest' = (IF Load /\ ~Load' THEN 0 ELSE rest) /\ ordered' = FALSE /\ spared' = FALSE

VendorChanges ==
    /\ service' \in {"up", "slow", "down", "locked"} \ {service}
    /\ UNCHANGED <<settingsVars, loadVars, jammed, ctl, coil, breaker, token, timers>>

TokenDies ==
    /\ token = "good" /\ token' \in {"none", "dead"}
    /\ UNCHANGED <<settingsVars, loadVars, aroundVars, ctl, coil, breaker, timers>>

BreakerNext ==
    \/ Command
    \/ \E d \in Duration : TimedOn(d)
    \/ TimerFires
    \/ Poll
    \/ Tick
    \/ OtherWrites
    \/ RelayFault
    \/ PanelHandle
    \/ Bind
    \/ Reload
    \/ ServiceRestart
    \/ VendorChanges
    \/ TokenDies

BreakerSpec == BreakerInit /\ [][BreakerNext]_breakerVars

\* The worker polls for ever, timers run, time passes; a vendor that is up
\* again and again is met by a poll.
FairBreakerSpec ==
    /\ BreakerSpec
    /\ WF_breakerVars(Tick) /\ WF_breakerVars(Poll) /\ WF_breakerVars(TimerFires)
    /\ SF_breakerVars(Poll /\ service = "up")

-----------------------------------------------------------------------------
(* Properties.                                                              *)

BreakerTypeOK ==
    /\ file \in Binding /\ live \in Binding /\ built \in {"none", "relay_only", "ableedge"}
    /\ ctl \in [desired : {Unasked, Off, On}, pending : BOOLEAN, down : {Linked} \cup 0..Grace,
                failSafe : {"none", Off, HoldLast, On}, sinceOff : 0..MinOff]
    /\ coil \in [Channel -> BOOLEAN]
    /\ mixed \in BOOLEAN /\ breaker \in BOOLEAN
    /\ service \in {"up", "slow", "down", "locked"} /\ token \in {"none", "good", "dead"}
    /\ timers \subseteq 0..(IF Duration = {} THEN 0 ELSE Longest) /\ jammed \in BOOLEAN
    /\ rest \in 0..MinOff /\ ordered \in BOOLEAN /\ spared \in BOOLEAN

\* A queued open is only ever the last word: once a later ON was carried out
\* nothing is left that would cut it off when the link returns.  A reload that
\* changes the vendor under the controller leaves the queue as it is.
QueuedOffIsWanted == ctl.pending /\ ~mixed => ctl.desired = Off

\* Commands, timers and polls, all of them through the controller.
ControllerStep == Command \/ (\E d \in Duration : TimedOn(d)) \/ TimerFires \/ Poll

\* The fail-safe ON is applied in this step.
Energises == ctl.failSafe = "none" /\ ctl'.failSafe = On

\* A step that starts the load finds it rested.
RestsFirst == ~Load /\ Load' => rest >= MinOff \/ ~ordered \/ Energises

\* The short-cycle guard as far as it goes: the controller never starts the load,
\* by its relay or by its breaker, less than MinOff after a request, a timer or
\* the fail-safe stopped it, whatever failed in between.  Fail-safe ON is the
\* exception, and so are stops it does not count: an open delivered by the poll,
\* another writer of the relay, the handle, a restart.
NoShortCycle == [][ControllerStep => RestsFirst]_breakerVars

\* Fail-safe OFF stops the load in bounded time when the vendor stays away: the
\* interlock drops, unless its write raised, another writer raises the relay
\* again, the mode or the channel was set differently, or the outage has already
\* met another mode or another vendor.
FailSafeStopsTheLoad ==
    (Wire # 0 /\ Smart /\ service # "up") ~>
        \/ service = "up" \/ ~Smart \/ mixed
        \/ ~Raised \/ spared
        \/ live.ch # Wire \/ live.mode # Off \/ ctl.failSafe \in {HoldLast, On}

(* What the documents say and the code does not do.                         *)

\* "Minimum time the circuit must stay off before it may be re-energised"
\* (controller.py, min_off_s): whoever stopped the load, and whoever starts it.
CircuitStaysOff == [][~Load /\ Load' /\ coil' # coil => rest >= MinOff \/ Energises]_breakerVars

\* And when the controller is the one that starts it.
EveryStopCounts == [][ControllerStep /\ ~Load /\ Load' => rest >= MinOff \/ Energises]_breakerVars

\* "Fail-OFF therefore guarantees the interlock opens"
\* (docs/smart-breaker-integration.md:263): nothing keeps the relay up.
FailOffGuarantees ==
    (Wire # 0 /\ Smart /\ service # "up") ~>
        \/ service = "up" \/ ~Smart \/ mixed
        \/ ~Raised \/ jammed
        \/ live.ch # Wire \/ live.mode # Off \/ ctl.failSafe \in {HoldLast, On}

\* docs/smart-breaker-integration.md:255, in all columns: an explicit OFF while
\* the vendor is unreachable drops the relay.  Fail-safe ON raises it again in
\* the same call.
ExplicitOffDrops == [][RequestOff /\ live.ch # 0 /\ ~jammed => ~coil'[live.ch]]_breakerVars

\* No coil is left behind by a reload: the channel that the controller would drop
\* is the same before and after.  A binding taken over by a reload, which the
\* settings schema marks as needing a restart, leaves one on.
NoCoilLeftBehind ==
    [][live' # live =>
        \A c \in Channel : coil'[c] /\ c = live.ch => c = live'.ch \/ built # built']_breakerVars
=============================================================================
