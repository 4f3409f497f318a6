------------------------------ MODULE MacLayer ------------------------------
(***************************************************************************)
(* The MAC commands of the LoRaWAN layer (radio/lorawan.py): the receive   *)
(* windows, channel plan and data rate the network server sets by requests *)
(* in its downlinks, the answers that ride in the next uplink, and the     *)
(* link check that gives up a session gone silent.                         *)
(*                                                                         *)
(* LoRaSession models the session itself, its counters and its row; here a *)
(* step of the radio worker is one action, ended by the write of the row.  *)
(* The server is external: it repeats a request until it hears the answer, *)
(* and uses the new parameters from then on if the answer is positive.     *)
(***************************************************************************)
EXTENDS Naturals, Sequences, SequencesExt

CONSTANTS
    Blocks,         \* the blocks of 125 kHz channels; SubBand is one of them
    SubBand,
    Values,         \* how many values a reading may have, as the unit is equipped
    CheckEvery,     \* LINK_CHECK_EVERY_UPLINKS
    GiveUpAfter,    \* REJOIN_AFTER_UNANSWERED_LINK_CHECKS
    MaxReboots      \* bound

ASSUME MacAssumption ==
    /\ SubBand \in Blocks
    /\ Values \subseteq 0..10
    /\ CheckEvery \in Nat \ {0} /\ GiveUpAfter \in Nat /\ MaxReboots \in Nat

VARIABLES
    dev,            \* the layer in memory: joined, rx (delay and windows),
                    \* plan (enabled blocks), dr
    fopts,          \* _pending_fopts
    saved,          \* session and mac_params in the database
    waited,         \* _uplinks_since_downlink
    checks,         \* _unanswered_link_checks
    server,         \* the parameters the server uses, and its open request
    size,           \* bytes of this unit's reading
    mislaid,        \* a positive answer never got through (history)
    reboots

macLayerVars == <<dev, fopts, saved, waited, checks, server, size, mislaid, reboots>>

Default == [delay |-> 1, win |-> "default"]
Rx == [delay : {1, 5}, win : {"default", "moved"}]
Odd == "odd"                            \* windows outside US915

\* MAX_PAYLOAD_BY_DR and _MAX_FOPTS_LEN.
Room == (1 :> 53) @@ (2 :> 125) @@ (3 :> 242)
MaxFOpts == 15

(***************************************************************************)
(* The requests.  A LinkADRReq with ChMaskCntl 7 switches all 125 kHz      *)
(* channels off and one with 0..4 sets a block.                            *)
(***************************************************************************)
Timing(d) == [cid |-> "timing", arg |-> d, dr |-> 15]
Setup(w) == [cid |-> "setup", arg |-> w, dr |-> 15]
Adr(op, r) == [cid |-> "adr", arg |-> op, dr |-> r]
Check == [cid |-> "check", arg |-> 0, dr |-> 15]

Requests ==
    {<<Timing(d)>> : d \in {1, 5}}
        \cup {<<Setup(w)>> : w \in {"default", "moved", Odd}}
        \cup {<<Adr(b, r)>> : b \in Blocks, r \in {0, 3, 15}}
        \cup {<<Adr("none", 15), Adr(b, 15)>> : b \in Blocks}

AnswerLen(a) == IF a.cmd.cid \in {"timing", "check"} THEN 1 ELSE 2
Bytes(f) == FoldLeft(LAMBDA n, a : n + AnswerLen(a), 0, f)

\* _queue_answer: an answer that does not fit is dropped.
Queued(f, a) == IF Bytes(f) + AnswerLen(a) <= MaxFOpts THEN Append(f, a) ELSE f

\* The plan after a LinkADRReq that passes.
NewPlan(d, c) == IF c.arg = "none" THEN {} ELSE d.plan \cup {c.arg}

\* The status of a request has every bit set.
Accepted(d, c) ==
    CASE c.cid = "setup" -> c.arg # Odd
      [] c.cid = "adr" -> NewPlan(d, c) # {} /\ c.dr \in {1, 2, 3, 15}
      [] OTHER -> TRUE

\* The parameters after a request, were it accepted.
Set(d, c) ==
    CASE c.cid = "timing" -> [d EXCEPT !.rx.delay = c.arg]
      [] c.cid = "setup" -> [d EXCEPT !.rx.win = c.arg]
      [] c.cid = "adr" -> [d EXCEPT !.plan = NewPlan(d, c),
                                    !.dr = IF c.dr = 15 THEN @ ELSE c.dr]
      [] OTHER -> d

\* Fault: the windows are set before the status of the request is known.
AppliedBlindly(d, c) == IF Accepted(d, c) \/ c.cid = "setup" THEN Set(d, c) ELSE d

Applied(d, c) == IF Accepted(d, c) THEN Set(d, c) ELSE d

\* _handle_mac_commands: every command for itself, also inside a block.
Replied(s, c) ==
    [dev |-> Applied(s.dev, c), fopts |-> Queued(s.fopts, [cmd |-> c, ok |-> Accepted(s.dev, c)])]

Handled(d, request) == FoldLeft(Replied, [dev |-> d, fopts |-> <<>>], request)

\* Answers that move the receive windows, and are positive.
Moving(f) == \E i \in DOMAIN f : f[i].ok /\ f[i].cmd.cid \in {"timing", "setup"}

(***************************************************************************)
(* The server.                                                             *)
(***************************************************************************)
\* The parameters after a request that is granted.
Granted(d, request) == FoldLeft(Set, d, request)

\* It hears the answers to its open request.
Heard(s, f) ==
    LET answers == {a \in Range(f) : a.cmd \in Range(s.open)}
    IN  IF answers = {} THEN s
        ELSE [set |-> IF \A a \in answers : a.ok THEN Granted(s.set, s.open) ELSE s.set,
              open |-> <<>>]

NewSession(rx, plan, r) == [joined |-> TRUE, rx |-> rx, plan |-> plan, dr |-> r]

\* encode: a channel, a type and two bytes for each value; the position takes
\* eleven.
Payload(n, located) == 4 * n + (IF located THEN 11 ELSE 0)

MacInit ==
    /\ dev = [joined |-> FALSE, rx |-> Default, plan |-> {SubBand}, dr |-> 1]
    /\ fopts = <<>> /\ saved = dev
    /\ waited = 0 /\ checks = 0
    /\ server = [set |-> dev, open |-> <<>>]
    /\ size \in {Payload(n, located) : n \in Values, located \in BOOLEAN}
    /\ mislaid = FALSE /\ reboots = 0

(***************************************************************************)
(* The radio worker.                                                       *)
(***************************************************************************)
\* mac_params, written with the session.
Stores == saved' = dev'

\* join() and _process_join_accept: the JoinAccept is sent in the default
\* windows, and brings the delay, the windows and a CFList (or none).
JoinHeard(rx, plan) ==
    /\ ~dev.joined
    /\ dev.rx.win = "default"
    /\ dev' = NewSession(rx, IF plan = {} THEN {SubBand} ELSE plan, dev.dr)
    /\ Stores
    /\ fopts' = <<>>
    /\ server' = [set |-> dev', open |-> <<>>]
    /\ mislaid' = FALSE
    /\ UNCHANGED <<waited, checks, size, reboots>>

\* The link check as send_uplink begins.
Due == (waited + 1) % CheckEvery = 0
Exhausted == Due /\ checks >= GiveUpAfter
Outgoing == IF Due THEN Queued(fopts, [cmd |-> Check, ok |-> TRUE]) ELSE fopts
Fits == size <= Room[dev.dr] - Bytes(Outgoing)

\* Fault: the session is dropped and the parameters it had are kept.
ForgottenInPart(d) == [d EXCEPT !.joined = FALSE]

\* forget_session and _reset_mac_params; the spreading factor stays.
Forgotten(d) == [joined |-> FALSE, rx |-> Default, plan |-> {SubBand}, dr |-> d.dr]

LinkGivenUp ==
    /\ dev.joined /\ Exhausted
    /\ dev' = Forgotten(dev)
    /\ Stores
    /\ fopts' = <<>> /\ waited' = 0 /\ checks' = 0
    /\ UNCHANGED <<server, size, mislaid, reboots>>

\* The reading and the answers do not fit the data rate.
Refused ==
    /\ dev.joined /\ ~Exhausted /\ ~Fits
    /\ fopts' = Outgoing
    /\ waited' = waited + 1
    /\ checks' = IF Due THEN checks + 1 ELSE checks
    /\ UNCHANGED <<dev, saved, server, size, mislaid, reboots>>

\* An uplink and its windows.  The server hears it or not, has something to
\* ask or not, answers or not; the answer arrives in the windows it opens.
Uplinked(heard, ask, answers) ==
    LET s == IF heard THEN Heard(server, Outgoing) ELSE server
        t == IF heard /\ s.open = <<>> THEN [s EXCEPT !.open = ask] ELSE s
        got == heard /\ answers /\ dev.rx = s.set.rx
        h == Handled(dev, t.open)
    IN  /\ dev.joined /\ ~Exhausted /\ Fits
        /\ server' = t
        /\ dev' = IF got THEN h.dev ELSE dev
        /\ Stores
        /\ fopts' = IF got THEN h.fopts ELSE <<>>
        /\ waited' = IF got THEN 0 ELSE waited + 1
        /\ checks' = IF got THEN 0 ELSE IF Due THEN checks + 1 ELSE checks
        /\ mislaid' = (mislaid \/ (~heard /\ Moving(Outgoing)))
        /\ UNCHANGED <<size, reboots>>

\* The process dies; pending answers and the counts of the check die with it.
Reboot ==
    /\ reboots < MaxReboots
    /\ reboots' = reboots + 1
    /\ dev' = saved
    /\ fopts' = <<>> /\ waited' = 0 /\ checks' = 0
    /\ mislaid' = (mislaid \/ Moving(fopts))
    /\ UNCHANGED <<saved, server, size>>

Joins == \E rx \in Rx, plan \in SUBSET Blocks : JoinHeard(rx, plan)
WorkerSteps ==
    \/ LinkGivenUp
    \/ Refused
    \/ \E heard, answers \in BOOLEAN, ask \in Requests \cup {<<>>} : Uplinked(heard, ask, answers)

MacNext == Joins \/ WorkerSteps \/ Reboot

\* The worker sends as long as there are readings, and a unit that keeps
\* asking to join is heard some day.
MacFairness == WF_macLayerVars(WorkerSteps) /\ WF_macLayerVars(Joins)

MacSpec == MacInit /\ [][MacNext]_macLayerVars /\ MacFairness

\* Device and server use the same windows, or will once the answer is heard.
InWindows == dev.rx = server.set.rx \/ Moving(fopts)

(***************************************************************************)
(* What the layer promises.                                                *)
(***************************************************************************)
MacTypeOK ==
    /\ dev \in [joined : BOOLEAN, rx : Rx, plan : SUBSET Blocks \ {{}}, dr : 1..3]
    /\ saved = dev
    /\ Bytes(fopts) <= MaxFOpts

\* Device and server listen and send in the same windows, unless the answer
\* is still to be sent, or was sent and not heard, or died in a reboot
\* (lorawan.py, _handle_mac_command).
InStep ==
    dev.joined => InWindows \/ mislaid

\* However the windows drifted apart, the link comes back: the link check
\* notices the silence, and the rejoin starts from the regional defaults
\* (lorawan.py, "Session liveness" and _reset_mac_params).
LinkComesBack == []<>(dev.joined /\ InWindows)

(***************************************************************************)
(* What the documents say and the code does not do.                        *)
(***************************************************************************)
\* radio/cayenne.py:53 "(max ~31 bytes for full reading)", so that answers of
\* 15 bytes always fit beside it.
ReadingFits == dev.joined => Fits

\* lorawan.py:207 "LoRaWAN 1.0.3 Class A MAC layer": a block of LinkADRReq is
\* one request, accepted or refused as a whole.
PlanIsTheServers == (dev.joined /\ server.open = <<>>) => dev.plan = server.set.plan
=============================================================================
