--------------------------- MODULE DeviceCommands ----------------------------
(***************************************************************************)
(* Calibration and RS485 commands that Cloud queues for the device: fetched *)
(* by the command worker (app/workers.py CommandWorker), applied once by    *)
(* DeviceCommandDispatcher (cloud/device_commands.py), answered over HTTP   *)
(* (cloud/client.py post_command_result).  The dispatcher remembers what it *)
(* answered, on disk, until the command expires; results that were not      *)
(* delivered wait in memory.                                                *)
(*                                                                         *)
(* Abstracted: payloads.  A malformed command is one whose handler rejects  *)
(* it; the point step of a calibration is part of its start.  Device and    *)
(* Cloud agree on when a command expires.                                   *)
(***************************************************************************)
EXTENDS Naturals, Sequences, FiniteSets, SequencesExt

CONSTANTS
    Cmd,            \* bound: commands Cloud queues
    Asks,           \* bound: what each command may ask for
    Cap,            \* HANDLED_COMMANDS_MAX: undelivered results kept
    MaxCrashes,     \* bound
    MaxSaveFails    \* bound

Answer == {"applied", "rejected"}
Kind == {"start", "finish", "config"}

ASSUME CommandsAssumption ==
    /\ IsFiniteSet(Cmd) /\ Asks \subseteq [Cmd -> Kind]
    /\ Cap \in Nat \ {0} /\ MaxCrashes \in Nat /\ MaxSaveFails \in Nat

VARIABLES
    \* Cloud
    cloud,          \* the result on record: "pending", an answer, or "gone"
    kind,           \* what each command asks for
    expired,        \* commands past their expiresAt
    \* device, in memory
    handled,        \* _handled: the answer given, or "none"
    started,        \* _analog_started, _rs485_started
    unposted,       \* _unposted_device_results, oldest first
    \* device, on disk
    saved,          \* the handled-command cache
    \* the worker
    pc,
    retries,        \* undelivered results still to be retried in this step
    batch,          \* fetched commands still to be applied
    cur,            \* the command at hand and its answer
    crashes, saveFails,
    \* history
    effects,        \* how often the command took effect on the device
    torn,           \* took effect, and the memory of it was lost
    partial,        \* took effect, and then raised
    forgotten       \* expired and evicted before its result was on record

cloudVars  == <<cloud, kind, expired>>
boundVars  == <<crashes, saveFails>>
histVars   == <<effects, torn, partial>>
vars == <<cloudVars, handled, started, unposted, saved, pc, retries, batch, cur, boundVars,
          histVars, forgotten>>

NoCur == [id |-> "none", out |-> "none"]

Init ==
    /\ cloud = [c \in Cmd |-> "pending"] /\ kind \in Asks /\ expired = {}
    /\ handled = [c \in Cmd |-> "none"] /\ saved = [c \in Cmd |-> "none"]
    /\ started = FALSE /\ unposted = <<>>
    /\ pc = "idle" /\ retries = <<>> /\ batch = {} /\ cur = NoCur
    /\ crashes = 0 /\ saveFails = 0
    /\ effects = [c \in Cmd |-> 0] /\ torn = {} /\ partial = {} /\ forgotten = {}
-----------------------------------------------------------------------------
(* The worker's step: retry, fetch, apply                                  *)

\* _retry_unposted_device_results works on a copy of the map.
StepBegins ==
    /\ pc = "idle"
    /\ retries' = unposted
    /\ pc' = IF unposted = <<>> THEN "fetch" ELSE "retry"
    /\ UNCHANGED <<cloudVars, handled, started, unposted, saved, batch, cur, boundVars, histVars,
                   forgotten>>

\* GET commands/pending.  Any failure gives an empty list.
Fetch ==
    /\ pc = "fetch"
    /\ \/ batch' = {c \in Cmd \ expired : cloud[c] = "pending"}
       \/ batch' = {}
    /\ pc' = IF batch' = {} THEN "idle" ELSE "apply"
    /\ UNCHANGED <<cloudVars, handled, started, unposted, saved, retries, cur, boundVars, histVars,
                   forgotten>>

\* _evict_expired
Unexpired(h) == [c \in Cmd |-> IF c \in expired THEN "none" ELSE h[c]]

Evicts ==
    forgotten' = forgotten \cup {c \in expired : handled[c] # "none" /\ cloud[c] = "pending"}

\* The handler ran: c took effect or not, and was answered so.
Ran(c, took, out) ==
    /\ effects' = IF took THEN [effects EXCEPT ![c] = @ + 1] ELSE effects
    /\ partial' = IF took /\ out = "rejected" THEN partial \cup {c} ELSE partial
    /\ cur' = [id |-> c, out |-> out]
    /\ pc' = "store"

\* _ph_calibrate and _rs485_config.  A calibration is finished in the process
\* that started it; the hardware may raise before or after it acted.
Handler(c) ==
    \/ /\ kind[c] = "start"
       /\ started' = TRUE
       /\ Ran(c, TRUE, "applied")
    \/ /\ kind[c] = "finish" /\ started
       /\ started' = FALSE
       /\ Ran(c, TRUE, "applied")
    \/ /\ kind[c] = "config"
       /\ Ran(c, TRUE, "applied")
       /\ UNCHANGED started
    \/ /\ kind[c] = "config" \/ (kind[c] = "finish" /\ started)
       /\ Ran(c, TRUE, "rejected")
       /\ UNCHANGED started
    \/ /\ Ran(c, FALSE, "rejected")
       /\ UNCHANGED started

\* Fault: a command that is on the books is turned down as a duplicate.
ApplyTwiceFault(c) ==
    /\ pc = "apply" /\ c \in batch
    /\ batch' = batch \ {c}
    /\ handled' = Unexpired(handled)
    /\ Evicts
    /\ IF handled'[c] # "none" \/ c \in expired
       THEN /\ cur' = [id |-> c, out |-> "rejected"] /\ pc' = "post"
            /\ UNCHANGED <<started, effects, partial>>
       ELSE Handler(c)
    /\ UNCHANGED <<cloudVars, unposted, saved, retries, boundVars, torn>>

\* Fault: a command that is on the books is passed over.
ApplyOnceFault(c) ==
    /\ pc = "apply" /\ c \in batch
    /\ batch' = batch \ {c}
    /\ handled' = Unexpired(handled)
    /\ Evicts
    /\ IF handled'[c] # "none"
       THEN /\ pc' = IF batch' = {} THEN "idle" ELSE "apply"
            /\ UNCHANGED <<cur, started, effects, partial>>
       ELSE \/ /\ c \in expired
               /\ cur' = [id |-> c, out |-> "rejected"] /\ pc' = "store"
               /\ UNCHANGED <<started, effects, partial>>
            \/ c \notin expired /\ Handler(c)
    /\ UNCHANGED <<cloudVars, unposted, saved, retries, boundVars, torn>>

\* apply(): answered before, expired since it was fetched, or run.
Apply(c) ==
    /\ pc = "apply" /\ c \in batch
    /\ batch' = batch \ {c}
    /\ handled' = Unexpired(handled)
    /\ Evicts
    /\ IF handled'[c] # "none"
       THEN /\ cur' = [id |-> c, out |-> handled'[c]] /\ pc' = "post"
            /\ UNCHANGED <<started, effects, partial>>
       ELSE \/ /\ c \in expired
               /\ cur' = [id |-> c, out |-> "rejected"] /\ pc' = "store"
               /\ UNCHANGED <<started, effects, partial>>
            \/ c \notin expired /\ Handler(c)
    /\ UNCHANGED <<cloudVars, unposted, saved, retries, boundVars, torn>>

\* _store, _save_handled: a cache that cannot be written is logged.
Store ==
    /\ pc = "store"
    /\ handled' = [Unexpired(handled) EXCEPT ![cur.id] = cur.out]
    /\ Evicts
    /\ \/ saved' = handled' /\ UNCHANGED saveFails
       \/ saveFails < MaxSaveFails /\ saveFails' = saveFails + 1 /\ UNCHANGED saved
    /\ pc' = "post"
    /\ UNCHANGED <<cloudVars, started, unposted, retries, batch, cur, crashes, histVars>>
-----------------------------------------------------------------------------
(* Delivery of a result                                                    *)

Ids(s) == {s[i].id : i \in DOMAIN s}

\* The undelivered results once r has failed: r keeps its place if it has one,
\* and pushes the oldest out if there is no room.
Keep(r) ==
    IF r.id \in Ids(unposted)
    THEN [i \in DOMAIN unposted |-> IF unposted[i].id = r.id THEN r ELSE unposted[i]]
    ELSE Append(IF Len(unposted) >= Cap THEN Tail(unposted) ELSE unposted, r)

\* pop(cmd_id): the ids are the keys of a map, so at most one result goes.
Without(id) ==
    IF id \in Ids(unposted)
    THEN RemoveAt(unposted, CHOOSE i \in DOMAIN unposted : unposted[i].id = id)
    ELSE unposted

\* _deliver_device_result of r.  Cloud records the first answer (200) and says
\* 409 to a later one; the reply to a recorded answer may be lost; a command
\* that is gone is a terminal 4xx.
Deliver(r) ==
    \/ /\ cloud' = [cloud EXCEPT ![r.id] = IF @ = "pending" THEN r.out ELSE @]
       /\ \/ unposted' = Without(r.id)
          \/ unposted' = Keep(r)
    \/ unposted' = Keep(r) /\ UNCHANGED cloud
    \/ /\ r.id \in expired
       /\ cloud' = [cloud EXCEPT ![r.id] = IF @ = "pending" THEN "gone" ELSE @]
       /\ unposted' = Without(r.id)

PostResult ==
    /\ pc = "post"
    /\ Deliver(cur)
    /\ cur' = NoCur
    /\ pc' = IF batch = {} THEN "idle" ELSE "apply"
    /\ UNCHANGED <<kind, expired, handled, started, saved, retries, batch, boundVars, histVars, forgotten>>

RetryResult ==
    /\ pc = "retry"
    /\ Deliver(Head(retries))
    /\ retries' = Tail(retries)
    /\ pc' = IF Len(retries) = 1 THEN "fetch" ELSE "retry"
    /\ UNCHANGED <<kind, expired, handled, started, saved, batch, cur, boundVars, histVars, forgotten>>
-----------------------------------------------------------------------------
(* The world                                                               *)

Expire(c) ==
    /\ c \notin expired
    /\ expired' = expired \cup {c}
    /\ UNCHANGED <<cloud, kind, handled, started, unposted, saved, pc, retries, batch, cur, boundVars,
                   histVars, forgotten>>

\* Fault: the cache is written and never read.
RestartFault ==
    /\ crashes < MaxCrashes
    /\ crashes' = crashes + 1
    /\ handled' = [c \in Cmd |-> "none"]
    /\ started' = FALSE /\ unposted' = <<>>
    /\ pc' = "idle" /\ retries' = <<>> /\ batch' = {} /\ cur' = NoCur
    /\ torn' = torn \cup {c \in Cmd : effects[c] > 0 /\ saved[c] = "none"}
    /\ UNCHANGED <<cloudVars, saved, saveFails, effects, partial, forgotten>>

\* The process stops anywhere, and _load_handled reads the cache.
Restart ==
    /\ crashes < MaxCrashes
    /\ crashes' = crashes + 1
    /\ handled' = saved
    /\ started' = FALSE /\ unposted' = <<>>
    /\ pc' = "idle" /\ retries' = <<>> /\ batch' = {} /\ cur' = NoCur
    /\ torn' = torn \cup {c \in Cmd : effects[c] > 0 /\ saved[c] = "none"}
    /\ UNCHANGED <<cloudVars, saved, saveFails, effects, partial, forgotten>>

WorkerStep == StepBegins \/ Fetch \/ Store \/ PostResult \/ RetryResult \/ \E c \in Cmd : Apply(c)

Next == WorkerStep \/ Restart \/ \E c \in Cmd : Expire(c)

Spec == Init /\ [][Next]_vars

\* The worker runs; a fetch and a result that are tried for ever get through.
Fairness ==
    /\ WF_vars(WorkerStep)
    /\ SF_vars(Fetch /\ batch' # {})
    /\ \A c \in Cmd : SF_vars(PostResult /\ cur.id = c /\ cloud'[c] # "pending")

FairSpec == Spec /\ Fairness
-----------------------------------------------------------------------------
TypeOK ==
    /\ cloud \in [Cmd -> Answer \cup {"pending", "gone"}]
    /\ kind \in [Cmd -> Kind] /\ expired \subseteq Cmd /\ batch \subseteq Cmd
    /\ handled \in [Cmd -> Answer \cup {"none"}] /\ saved \in [Cmd -> Answer \cup {"none"}]
    /\ started \in BOOLEAN
    /\ \A s \in {unposted, retries} :
          /\ Len(s) <= Cap
          /\ \A i \in DOMAIN s : s[i] \in [id : Cmd, out : Answer]
          /\ Cardinality(Ids(s)) = Len(s)
    /\ pc \in {"idle", "retry", "fetch", "apply", "store", "post"}
    /\ pc = "retry" => retries # <<>>
    /\ IF pc \in {"store", "post"} THEN cur \in [id : Cmd, out : Answer] ELSE cur = NoCur
    /\ effects \in [Cmd -> Nat]
    /\ torn \subseteq Cmd /\ partial \subseteq Cmd /\ forgotten \subseteq Cmd

\* "Evicting an unexpired id would re-apply a command Cloud can still redeliver"
\* (device_commands.py): lost answers, lost replies, evicted results and
\* restarts do not make the device act twice on a command, unless the process
\* died between the act and the cache, or could not write it.
AppliedAtMostOnce == \A c \in Cmd : effects[c] > 1 => c \in torn

\* What Cloud has on record is what happened on the device.  The exceptions are
\* a handler that raised after it had acted, and a command whose answer was lost
\* with the process, or with its expiry.
CloudKnowsTheTruth ==
    \A c \in Cmd :
        /\ cloud[c] = "applied" => effects[c] > 0
        /\ cloud[c] = "rejected" => effects[c] = 0 \/ c \in torn \cup partial \cup forgotten

\* The worker, the dispatcher and Cloud together keep the promise of
\* CommandLedger: through lost answers, lost replies, evicted results and
\* restarts, no command that has an answer on record is acted on, none is acted
\* on twice but for the memory of it, and the one answer is what happened.
Ledger == INSTANCE CommandLedger WITH
    record  <- cloud,
    acts    <- effects,
    lapsed  <- expired,
    lost    <- torn,
    half    <- partial,
    dropped <- forgotten

ImplementsLedger == Ledger!Spec

\* Every command Cloud queues is answered in the end, unless it expires:
\* a result that could not be delivered is retried, or asked for again.
EveryCommandAnswered == \A c \in Cmd : cloud[c] = "pending" ~> (cloud[c] # "pending" \/ c \in expired)
=============================================================================
