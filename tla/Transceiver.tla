----------------------------- MODULE Transceiver -----------------------------
(***************************************************************************)
(* The SX1262 driver (radio/sx1262.py): send() and receive() set the chip  *)
(* up, start it and wait for an event that the alert thread sets when DIO1 *)
(* rises.  One event serves TxDone, RxDone and the chip's own timeout; the *)
(* thread may be late, and the driver may give up waiting at any moment.   *)
(*                                                                         *)
(* SPI commands are not lost; a chip that does not answer is one that      *)
(* never raises DIO1.  The MAC sends, and opens RX1 and RX2 after a send   *)
(* that succeeded.                                                         *)
(***************************************************************************)
EXTENDS Naturals

VARIABLES
    chip,       \* mode, frequency and modulation (tune), IQ of the packet
                \* parameters (iq) and of register 0x0736 (pol), what DIO1 is
                \* armed for (dio), and the IRQ flags
    edge,       \* a rising edge of DIO1 the alert thread has yet to handle
    event,      \* _tx_done_event
    at,         \* where the driver is, and with which of "up", "rx1", "rx2"
    result,     \* of the last call: "none", "sent", "heard" or "nothing"
    aired,      \* the frame at hand was transmitted (history)
    came,       \* a packet came in the window at hand (history)
    stale       \* an edge of an earlier call was on its way when the chip was
                \* started for this uplink or a window of it (history)

chipVars == <<chip, edge, event, at, result, aired, came, stale>>

Tunes == {"up", "rx1", "rx2"}
Flags == {"tx_done", "rx_done", "timeout"}
Steps == [do : {"idle", "ready", "wait", "late"}, with : Tunes]
Step(s, w) == [do |-> s, with |-> w]
Idle == Step("idle", "up")

ChipTypeOK ==
    /\ chip \in [mode : {"standby", "tx", "rx"}, tune : Tunes, iq : {"std", "inv"},
                 pol : {"std", "inv"}, dio : {"tx", "rx"}, irq : SUBSET Flags]
    /\ edge \in BOOLEAN /\ event \in BOOLEAN
    /\ aired \in BOOLEAN /\ came \in BOOLEAN /\ stale \in BOOLEAN
    /\ at \in Steps
    /\ result \in {"none", "sent", "heard", "nothing"}

\* SX1262.__init__: no call is running, DIO1 is not watched.
Opened == edge = FALSE /\ event = FALSE /\ at = Idle /\ result = "none"

\* init(): reset, uplink configuration, DIO1 armed for TxDone.
ChipInit ==
    /\ chip = [mode |-> "standby", tune |-> "up", iq |-> "std", pol |-> "std",
               dio |-> "tx", irq |-> {}]
    /\ Opened
    /\ aired = FALSE /\ came = FALSE /\ stale = FALSE

(***************************************************************************)
(* The driver.                                                             *)
(***************************************************************************)

\* set_tx_config and the head of send(): frequency, packet parameters, the
\* polarity register, DIO1, and the flags.
SendSetup(c) ==
    [c EXCEPT !.tune = "up", !.iq = "std", !.pol = "std", !.dio = "tx", !.irq = {}]

\* set_rx_config and the head of receive().
ReceiveSetup(c, w) ==
    [c EXCEPT !.tune = w, !.iq = "inv", !.pol = "inv", !.dio = "rx", !.irq = {}]

SendBegins ==
    /\ at = Idle
    /\ at' = Step("ready", "up")
    /\ chip' = SendSetup(chip)
    /\ result' = "none" /\ aired' = FALSE /\ came' = FALSE /\ stale' = FALSE
    /\ UNCHANGED <<edge, event>>

\* Fault: the chip is started with the event as the last call left it.
StartUncleared(w) ==
    /\ at = Step("ready", w)
    /\ stale' = (stale \/ edge)
    /\ chip' = [chip EXCEPT !.mode = IF w = "up" THEN "tx" ELSE "rx"]
    /\ at' = Step("wait", w)
    /\ UNCHANGED <<edge, event, result, aired, came>>

\* The event is cleared, then the chip started.
Start(w) ==
    /\ at = Step("ready", w)
    /\ event' = FALSE
    /\ stale' = (stale \/ edge)
    /\ chip' = [chip EXCEPT !.mode = IF w = "up" THEN "tx" ELSE "rx"]
    /\ at' = Step("wait", w)
    /\ UNCHANGED <<edge, result, aired, came>>

\* A call ends with r; a window opens after a send that succeeded and after
\* an RX1 that brought nothing.
NextWindow(w, r) == CASE r = "sent" -> "rx1" [] w = "rx1" /\ r = "nothing" -> "rx2" [] OTHER -> "up"
Ends(w, r, c) ==
    LET next == NextWindow(w, r)
    IN  /\ result' = r
        /\ IF next = "up"
           THEN at' = Idle /\ chip' = c /\ UNCHANGED came
           ELSE at' = Step("ready", next) /\ chip' = ReceiveSetup(c, next) /\ came' = FALSE
        /\ UNCHANGED <<edge, event, aired, stale>>

InStandby == [chip EXCEPT !.mode = "standby"]

Sent ==
    /\ at = Step("wait", "up") /\ event
    /\ Ends("up", "sent", chip)

\* DIO1 rose in a window and there is a packet; it may be an empty one.
Read(w) ==
    /\ w # "up" /\ at = Step("wait", w) /\ event
    /\ "rx_done" \in chip.irq
    /\ \E r \in {"heard", "nothing"} : Ends(w, r, IF r = "heard" THEN InStandby ELSE chip)

\* The wait runs out, or DIO1 rose in a window and there is no packet ...
WaitEnds(w) ==
    /\ at = Step("wait", w)
    /\ event => w # "up" /\ "rx_done" \notin chip.irq
    /\ at' = Step("late", w)
    /\ UNCHANGED <<chip, edge, event, result, aired, came, stale>>

\* ... and the chip is forced back to standby.
ToStandby(w) ==
    /\ at = Step("late", w)
    /\ Ends(w, "nothing", InStandby)

(***************************************************************************)
(* The chip and the alert thread.                                          *)
(***************************************************************************)
\* DIO1 rises when a flag it is armed for is the first to be set.
Watched(c) == IF c.dio = "tx" THEN {"tx_done"} ELSE {"rx_done", "timeout"}
Raise(flag) ==
    /\ chip' = [chip EXCEPT !.mode = "standby", !.irq = @ \cup {flag}]
    /\ edge' = (edge \/ (flag \in Watched(chip) /\ chip.irq \cap Watched(chip) = {}))

TxDone ==
    /\ chip.mode = "tx"
    /\ Raise("tx_done")
    /\ aired' = TRUE
    /\ UNCHANGED <<event, at, result, came, stale>>

RxDone ==
    /\ chip.mode = "rx"
    /\ Raise("rx_done")
    /\ came' = TRUE
    /\ UNCHANGED <<event, at, result, aired, stale>>

RxTimeout ==
    /\ chip.mode = "rx"
    /\ Raise("timeout")
    /\ UNCHANGED <<event, at, result, aired, came, stale>>

\* _on_dio1.
Alert ==
    /\ edge
    /\ edge' = FALSE /\ event' = TRUE
    /\ UNCHANGED <<chip, at, result, aired, came, stale>>

\* The process restarts: the chip is reset, the alert claimed anew.
RadioRestarts ==
    /\ at # Idle
    /\ chip' = [mode |-> "standby", tune |-> "up", iq |-> "std", pol |-> "std",
                dio |-> "tx", irq |-> {}]
    /\ edge' = FALSE /\ event' = FALSE /\ at' = Idle /\ result' = "none"
    /\ aired' = FALSE /\ came' = FALSE /\ stale' = FALSE

RadioNext ==
    \/ SendBegins
    \/ \E w \in Tunes : Start(w)
    \/ Sent
    \/ \E w \in Tunes : Read(w)
    \/ \E w \in Tunes : WaitEnds(w)
    \/ \E w \in Tunes : ToStandby(w)
    \/ TxDone
    \/ RxDone
    \/ RxTimeout
    \/ Alert
    \/ RadioRestarts

RadioSpec == ChipInit /\ [][RadioNext]_chipVars

(***************************************************************************)
(* What the driver promises.                                               *)
(***************************************************************************)

\* The chip never sends or listens with the set-up of another call: the
\* windows retune it and invert the IQ, in two places (sx1262.py, _tx_cfg and
\* _set_iq_inverted).  An edge of an earlier call ends a send too soon.
RightSetup ==
    ~stale =>
    /\ chip.mode = "tx" => chip.tune = "up" /\ chip.iq = "std" /\ chip.pol = "std"
    /\ chip.mode = "rx" => chip.tune = at.with /\ chip.iq = "inv" /\ chip.pol = "inv"

\* A frame that went out while the driver waits is on its way to the driver
\* (sx1262.py, "Re-arm DIO1 for TxDone").
TxDoneArrives == (at = Step("wait", "up") /\ aired) => edge \/ event

\* send() says that the frame went out only when it did, unless an edge of an
\* earlier call was still on its way; receive() returns a packet only when one
\* came in this window (sx1262.py, _tx_done_event.clear()).
TellsTheTruth ==
    /\ (result' = "sent" /\ result # "sent") => aired \/ stale
    /\ (result' = "heard" /\ result # "heard") => came

\* A call works with its own set-up, hears of its own frame and reports its own
\* outcome, whatever the calls before it left on the chip and on the interrupt
\* line (sx1262.py).
CallsAreWhole == [][RightSetup' /\ TxDoneArrives' /\ TellsTheTruth]_chipVars

(***************************************************************************)
(* What the documents say and the code does not do.                        *)
(***************************************************************************)
\* sx1262.py:327 "True if TxDone received, False on timeout".
SentIsAired == [][(result' = "sent" /\ result # "sent") => aired]_chipVars
=============================================================================
