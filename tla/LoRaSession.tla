------------------------------ MODULE LoRaSession ------------------------------
(***************************************************************************)
(* The LoRaWAN session (radio/lorawan.py): the OTAA join, the counters of    *)
(* frames in both directions, the link check that gives a dead session up,  *)
(* and the one row of the database they are kept in.  The radio worker is   *)
(* the only one to join and to send; the command thread may forget the      *)
(* session behind its back (`lora_rejoin`); the process may die anywhere.   *)
(*                                                                         *)
(* _persist_session takes the session and the MAC parameters, and then      *)
(* writes them: two steps, between which the other thread runs.             *)
(*                                                                         *)
(* Abstracted: a session's keys are the two nonces they are derived from;   *)
(* a MIC matches if the keys and the full counter do.  Channel plan, data   *)
(* rates, receive timing and the answers to MAC commands are left out.  A   *)
(* downlink is verified and decrypted in one step.  The network is external: *)
(* it refuses a DevNonce it has seen, and what it sends may get lost or be  *)
(* heard again.                                                             *)
(***************************************************************************)
EXTENDS Integers, Sequences, FiniteSets, SequencesExt

CONSTANTS
    LinkEvery,      \* LINK_CHECK_EVERY_UPLINKS
    RejoinAfter,    \* REJOIN_AFTER_UNANSWERED_LINK_CHECKS
    Kept,           \* RECENT_APP_NONCES_KEPT
    NonceMod,       \* 2^16, DevNonces
    Seeds,          \* bound: the DevNonces a new unit may start from
    FCntMod,        \* 2^16, frame counters on the air
    MaxJoins,       \* bound: join requests
    MaxUp, MaxDown, \* bounds: uplinks and downlinks of a session
    MaxRejoins, MaxRestarts, MaxSaveFails   \* bounds

ASSUME LoRaAssumption ==
    /\ LinkEvery \in Nat \ {0} /\ RejoinAfter \in Nat /\ Kept \in Nat \ {0}
    /\ Seeds \subseteq 0..(NonceMod - 1)
    /\ NonceMod \in Nat \ {0} /\ FCntMod \in Nat \ {0}
    /\ {MaxJoins, MaxUp, MaxDown, MaxRejoins, MaxRestarts, MaxSaveFails} \subseteq Nat
    /\ MaxJoins + MaxRestarts <= NonceMod   \* DevNonces do not run out

VARIABLES
    \* the MAC layer, in memory
    session,        \* keys and the next counter each way
    nonce,          \* _dev_nonce_counter
    recent,         \* _recent_app_nonces
    silent,         \* _uplinks_since_downlink
    unanswered,     \* _unanswered_link_checks
    \* lorawan_session in the database
    row,
    \* the radio worker and the command thread: where they are, and what they
    \* are about to write
    pc, snap,
    frame,          \* the uplink at hand
    order,          \* the downlink at hand
    cpc, csnap,
    \* the network
    made,           \* keys it derived
    known,          \* the session it holds for the device
    down,           \* downlinks sent in it
    \* bounds
    rejoins, restarts, saveFails,
    \* history
    asked,          \* DevNonces of the requests sent
    taken,          \* AppNonces of the JoinAccepts that were taken
    stray,          \* keys made of one missed in its own window and heard, for
                    \* the first time, in a later one
    unlearnt,       \* AppNonces taken that the process died too early to remember, or too many
                    \* joins ago
    sent,           \* uplinks sent
    acted,          \* downlinks that went to the relays
    left,           \* sessions given up
    late,           \* threads whose snapshot is older than the row
    behind,         \* the row is older than it should be
    misled          \* and the process has restarted from it

macVars == <<session, nonce, recent, silent, unanswered>>
radioVars == <<pc, snap, frame, order>>
cmdVars == <<cpc, csnap>>
netVars == <<made, known, down>>
boundVars == <<rejoins, restarts, saveFails>>
airVars == <<asked, taken, stray, unlearnt, sent, acted, left>>
rowVars == <<row, late, behind>>
vars == <<macVars, rowVars, radioVars, cmdVars, netVars, boundVars, airVars, misled>>

NoKeys == <<0, 0>>
NoFrame == <<NoKeys, 0>>
Fresh == [keys |-> NoKeys, up |-> 0, down |-> 0]
Joined == session.keys # NoKeys

Row(s, n, r) == [session |-> s, nonce |-> n, recent |-> r]

Init ==
    /\ session = Fresh /\ nonce = -1 /\ recent = <<>> /\ silent = 0 /\ unanswered = 0
    /\ row = Row(Fresh, -1, <<>>)
    /\ pc = "idle" /\ snap = row /\ frame = NoFrame /\ order = NoFrame
    /\ cpc = "idle" /\ csnap = row
    /\ made = {} /\ known = NoKeys /\ down = 0
    /\ rejoins = 0 /\ restarts = 0 /\ saveFails = 0
    /\ asked = {} /\ taken = {} /\ stray = {} /\ unlearnt = {} /\ sent = {} /\ acted = {} /\ left = {}
    /\ late = {} /\ behind = FALSE /\ misled = FALSE
-----------------------------------------------------------------------------
(* The row                                                                 *)

\* Threads other than t that hold a snapshot they have not written.
Overtaken(t) ==
    {u \in {"radio", "command"} \ {t} :
        \/ u = "radio" /\ pc \in {"join_save", "up_save", "left_save", "keep_save"}
        \/ u = "command" /\ cpc = "save"}

\* save_session commits what thread t took.
Commit(t, taking) ==
    /\ row' = taking
    /\ behind' = (t \in late /\ (taking # row \/ behind))
    /\ late' = Overtaken(t)
    /\ UNCHANGED saveFails

CommitFails(t) ==
    /\ saveFails < MaxSaveFails
    /\ saveFails' = saveFails + 1
    /\ behind' = TRUE
    /\ late' = Overtaken(t)
    /\ UNCHANGED row

\* _persist: an error is logged.
Persist == Commit("radio", snap) \/ CommitFails("radio")

\* forget_session
Forget ==
    /\ session' = Fresh
    /\ silent' = 0 /\ unanswered' = 0
    /\ left' = left \cup ({session.keys} \ {NoKeys})
    /\ UNCHANGED <<nonce, recent>>
-----------------------------------------------------------------------------
(* Radio worker: the join                                                  *)

\* _next_dev_nonce
NextNonces == IF nonce < 0 THEN Seeds ELSE {(nonce + 1) % NonceMod}

JoinBegins ==
    /\ pc = "idle" /\ ~Joined
    /\ Cardinality(asked) < MaxJoins
    /\ nonce' \in NextNonces
    /\ snap' = Row(session, nonce', recent)
    /\ pc' = "join_save"
    /\ UNCHANGED <<session, recent, silent, unanswered, rowVars, frame, order, cmdVars, netVars,
                   boundVars, airVars, misled>>

JoinSaved ==
    /\ pc = "join_save"
    /\ Persist
    /\ pc' = "join_send"
    /\ UNCHANGED <<macVars, snap, frame, order, cmdVars, netVars, rejoins, restarts, airVars, misled>>

\* The request is sent, if the radio does; the network may hear it.
JoinSend ==
    /\ pc = "join_send"
    /\ asked' = asked \cup {nonce}
    /\ pc' = "join_window"
    /\ \/ UNCHANGED netVars
       \/ /\ nonce \notin {k[1] : k \in made}
          /\ known' = <<nonce, Cardinality(made) + 1>>
          /\ made' = made \cup {known'}
          /\ down' = 0
    /\ UNCHANGED <<macVars, rowVars, snap, frame, order, cmdVars, boundVars,
                   taken, stray, unlearnt, sent, acted, left, misled>>

JoinUnanswered ==
    /\ pc = "join_window"
    /\ pc' = "idle"
    /\ UNCHANGED <<macVars, rowVars, snap, frame, order, cmdVars, netVars, boundVars, airVars, misled>>

\* _process_join_accept: the MIC does not cover the DevNonce, so that any
\* JoinAccept the network has sent so far will do: the answer to the request, one
\* that was taken before, or one that was missed in its own window.
JoinAccepted ==
    /\ pc = "join_window"
    /\ \E k \in made :
          /\ ~Contains(recent, k[2])
          /\ recent' = IF Len(recent) < Kept THEN Append(recent, k[2])
                                             ELSE Append(Tail(recent), k[2])
          /\ session' = [keys |-> <<nonce, k[2]>>, up |-> 0, down |-> 0]
          /\ taken' = taken \cup {k[2]}
          /\ stray' = stray \cup (IF k[1] = nonce \/ k[2] \in taken THEN {} ELSE {<<nonce, k[2]>>})
          /\ unlearnt' = unlearnt \cup (Range(recent) \ Range(recent'))
    /\ pc' = "keep"
    /\ UNCHANGED <<nonce, silent, unanswered, rowVars, snap, frame, order, cmdVars, netVars,
                   boundVars, asked, sent, acted, left, misled>>

\* The worker persists what the join or the uplink has left in memory.
Keep ==
    /\ pc = "keep"
    /\ snap' = Row(session, nonce, recent)
    /\ pc' = "keep_save"
    /\ UNCHANGED <<macVars, rowVars, frame, order, cmdVars, netVars, boundVars, airVars, misled>>

\* Unlike in _persist, an error ends the step; the downlink is dropped.
KeepSaved ==
    /\ pc = "keep_save"
    /\ \/ /\ Commit("radio", snap)
          /\ pc' = IF order = NoFrame THEN "idle" ELSE "act"
          /\ UNCHANGED order
       \/ /\ CommitFails("radio")
          /\ pc' = "idle" /\ order' = NoFrame
    /\ UNCHANGED <<macVars, snap, frame, cmdVars, netVars, rejoins, restarts, airVars, misled>>
-----------------------------------------------------------------------------
(* Radio worker: the uplink and its windows                                *)

CheckDue == (silent + 1) % LinkEvery = 0

\* Fault: the uplinks without a downlink are counted afresh at each check.
GiveUpDueFault == CheckDue /\ unanswered > RejoinAfter


GiveUpDue == CheckDue /\ unanswered >= RejoinAfter

\* The worker has a reading to send.  A session the network knows gets MaxUp
\* uplinks, another one as many as it takes.
UplinkBegins ==
    /\ pc = "idle" /\ Joined
    /\ session.up < MaxUp \/ session.keys # known

\* The network has been silent for too long.
GiveUp ==
    /\ UplinkBegins
    /\ GiveUpDue
    /\ Forget
    /\ snap' = Row(Fresh, nonce, recent)
    /\ pc' = "left_save"
    /\ UNCHANGED <<rowVars, frame, order, cmdVars, netVars, boundVars,
                   asked, taken, stray, unlearnt, sent, acted, misled>>

GivenUp ==
    /\ pc = "left_save"
    /\ Persist
    /\ pc' = "keep"
    /\ UNCHANGED <<macVars, snap, frame, order, cmdVars, netVars, rejoins, restarts, airVars, misled>>

CountUplink ==
    /\ ~GiveUpDue
    /\ silent' = silent + 1
    /\ unanswered' = IF CheckDue THEN unanswered + 1 ELSE unanswered

\* The payload and the MAC answers do not fit the data rate; it counts all the
\* same.
UplinkTooLong ==
    /\ UplinkBegins
    /\ CountUplink
    /\ pc' = "keep"
    /\ UNCHANGED <<session, nonce, recent, rowVars, snap, frame, order, cmdVars, netVars, boundVars,
                   airVars, misled>>

\* Fault: the row is written before the counter is consumed.
UplinkFault ==
    /\ UplinkBegins
    /\ CountUplink
    /\ frame' = <<session.keys, session.up>>
    /\ session' = [session EXCEPT !.up = @ + 1]
    /\ snap' = Row(session, nonce, recent)
    /\ pc' = "up_save"
    /\ UNCHANGED <<nonce, recent, rowVars, order, cmdVars, netVars, boundVars, airVars, misled>>

\* The frame is built and its counter consumed.
Uplink ==
    /\ UplinkBegins
    /\ CountUplink
    /\ frame' = <<session.keys, session.up>>
    /\ session' = [session EXCEPT !.up = @ + 1]
    /\ snap' = Row(session', nonce, recent)
    /\ pc' = "up_save"
    /\ UNCHANGED <<nonce, recent, rowVars, order, cmdVars, netVars, boundVars, airVars, misled>>

UplinkSaved ==
    /\ pc = "up_save"
    /\ Persist
    /\ pc' = "send"
    /\ UNCHANGED <<macVars, snap, frame, order, cmdVars, netVars, rejoins, restarts, airVars, misled>>

\* The radio may fail.  A network that hears its session may answer.
Send ==
    /\ pc = "send"
    /\ sent' = sent \cup {frame}
    /\ pc' = "window"
    /\ \/ UNCHANGED down
       \/ /\ frame[1] = known /\ down < MaxDown
          /\ down' = down + 1
    /\ UNCHANGED <<macVars, rowVars, snap, frame, order, cmdVars, made, known, boundVars,
                   asked, taken, stray, unlearnt, acted, left, misled>>

NothingHeard ==
    /\ pc = "window"
    /\ pc' = "keep" /\ frame' = NoFrame
    /\ UNCHANGED <<macVars, rowVars, snap, order, cmdVars, netVars, boundVars, airVars, misled>>

\* _reconstruct_fcnt_down
Reconstruct(f16) ==
    LET candidate == (session.down \div FCntMod) * FCntMod + f16
    IN  IF candidate < session.down THEN candidate + FCntMod ELSE candidate

\* _process_downlink: the answer, or an older one again.  It may hold a command
\* for the relays.
Downlink ==
    /\ pc = "window"
    /\ \E n \in 0..(down - 1) :
          /\ Joined /\ session.keys = known
          /\ Reconstruct(n % FCntMod) = n
          /\ session' = [session EXCEPT !.down = n + 1]
          /\ order' \in {NoFrame, <<known, n>>}
    /\ silent' = 0 /\ unanswered' = 0
    /\ pc' = "keep" /\ frame' = NoFrame
    /\ UNCHANGED <<nonce, recent, rowVars, snap, cmdVars, netVars, boundVars, airVars, misled>>

\* process_downlink_command
Act ==
    /\ pc = "act"
    /\ acted' = acted \cup {order}
    /\ pc' = "idle" /\ order' = NoFrame
    /\ UNCHANGED <<macVars, rowVars, snap, frame, cmdVars, netVars, boundVars,
                   asked, taken, stray, unlearnt, sent, left, misled>>
-----------------------------------------------------------------------------
(* Command thread, crashes, network                                        *)

\* lora_rejoin
Rejoin ==
    /\ cpc = "idle"
    /\ rejoins < MaxRejoins
    /\ rejoins' = rejoins + 1
    /\ Forget
    /\ cpc' = "forgot"
    /\ UNCHANGED <<rowVars, radioVars, csnap, netVars, restarts, saveFails,
                   asked, taken, stray, unlearnt, sent, acted, misled>>

RejoinTakes ==
    /\ cpc = "forgot"
    /\ csnap' = Row(session, nonce, recent)
    /\ cpc' = "save"
    /\ UNCHANGED <<macVars, rowVars, radioVars, netVars, boundVars, airVars, misled>>

\* If it raises, the command is answered with an error.
RejoinSaved ==
    /\ cpc = "save"
    /\ Commit("command", csnap) \/ CommitFails("command")
    /\ cpc' = "idle"
    /\ UNCHANGED <<macVars, radioVars, csnap, netVars, rejoins, restarts, airVars, misled>>

\* The process dies anywhere, and start() restores the row.  A session that was
\* still being given up is not given up.
Restart ==
    /\ restarts < MaxRestarts
    /\ restarts' = restarts + 1
    /\ session' = row.session /\ nonce' = row.nonce /\ recent' = row.recent
    /\ silent' = 0 /\ unanswered' = 0
    /\ pc' = "idle" /\ snap' = row /\ frame' = NoFrame /\ order' = NoFrame
    /\ cpc' = "idle" /\ csnap' = row
    /\ left' = IF cpc # "idle" \/ pc = "left_save" THEN left \ {row.session.keys} ELSE left
    /\ unlearnt' = unlearnt \cup (taken \ Range(row.recent))
    /\ misled' = (misled \/ behind)
    /\ behind' = FALSE /\ late' = {}
    /\ UNCHANGED <<row, netVars, rejoins, saveFails, asked, taken, stray, sent, acted>>

\* The network loses the session: the device is registered anew, or moved.
NetworkForgets ==
    /\ known # NoKeys
    /\ known' = NoKeys
    /\ UNCHANGED <<macVars, rowVars, radioVars, cmdVars, made, down, boundVars, airVars, misled>>

RadioStep == \/ JoinBegins \/ JoinSaved \/ JoinSend \/ JoinUnanswered \/ JoinAccepted
             \/ Keep \/ KeepSaved \/ GiveUp \/ GivenUp \/ UplinkTooLong \/ Uplink \/ UplinkSaved
             \/ Send \/ NothingHeard \/ Downlink \/ Act

CommandStep == Rejoin \/ RejoinTakes \/ RejoinSaved

Next == RadioStep \/ CommandStep \/ Restart \/ NetworkForgets

Spec == Init /\ [][Next]_vars

-----------------------------------------------------------------------------
Keys == {NoKeys} \cup ((0..(NonceMod - 1)) \X (1..MaxJoins))

SessionType == [keys : Keys, up : Nat, down : 0..MaxDown]

TypeOK ==
    /\ session \in SessionType /\ row.session \in SessionType
    /\ \A n \in {nonce, row.nonce} : n \in -1..(NonceMod - 1)
    /\ \A r \in {recent, row.recent} : Len(r) <= Kept /\ Range(r) \subseteq taken /\ IsInjective(r)
    /\ silent \in Nat /\ unanswered \in 0..RejoinAfter
    /\ pc \in {"idle", "join_save", "join_send", "join_window", "keep", "keep_save", "left_save",
               "up_save", "send", "window", "act"}
    /\ order = NoFrame \/ pc \in {"keep", "keep_save", "act"}
    /\ cpc \in {"idle", "forgot", "save"}
    /\ down \in 0..MaxDown /\ (known = NoKeys \/ known \in made)
    /\ rejoins \in 0..MaxRejoins /\ restarts \in 0..MaxRestarts /\ saveFails \in 0..MaxSaveFails
    /\ late \subseteq {"radio", "command"} /\ behind \in BOOLEAN /\ misled \in BOOLEAN

\* "A crash mid-uplink can never replay a frame counter" (lorawan.py): no two
\* uplinks of a session carry the same number, through crashes and rejoins that
\* cross them, unless the process restarted from a row that could not be written
\* or was overwritten by an older one.
NumberIsFresh == Send => frame \notin sent \/ misled

\* The AppNonces remembered keep a JoinAccept from being taken twice
\* (lorawan.py, _process_join_accept): a join leaves the device with keys the
\* network holds too, whatever it hears in its window, except in two cases.  The
\* JoinAccept was missed in its own window and is heard for the first time in a
\* later one, which no check finds out; or it was taken already, just before the
\* process died or before the last RECENT_APP_NONCES_KEPT others.
KeysAreShared ==
    Joined => session.keys \in made \cup stray \/ session.keys[2] \in unlearnt

\* A downlink that was verified is never taken again, so its relay command is
\* executed at most once: a crash may lose it, but repeats it only with the same
\* exception.
ActsOnce == Act => order \notin acted \/ misled

\* No counter is used twice: no number by two uplinks, no frame by two commands
\* (lorawan.py, send_uplink and _parse_downlink).
FramesCountOnce == [][NumberIsFresh /\ ActsOnce]_vars

\* A session given up, by the link check or by command, does not come back.
LeftForGood ==
    session.keys \notin left \/ misled

\* However the session came to be one the network does not answer - dropped over
\* there, keys that differ, downlink counters out of step - it is given up before
\* the next link check but RejoinAfter is due (LINK_CHECK_EVERY_UPLINKS,
\* REJOIN_AFTER_UNANSWERED_LINK_CHECKS).
SilenceIsBounded ==
    Joined => silent < LinkEvery * (RejoinAfter + 1)

\* A session is one the network can answer, or is on its way to be given up, and
\* for good, the one a stray JoinAccept leaves included (lorawan.py: join,
\* forget_session, the link check).
SessionIsSound == KeysAreShared /\ LeftForGood /\ SilenceIsBounded
=============================================================================
