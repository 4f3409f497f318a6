---------------------------- MODULE StoreForward ----------------------------
(***************************************************************************)
(* The durable reading buffer and the three threads that share it:         *)
(*   - the sampler inserts rows                    (app/workers.py)        *)
(*   - the cloud-sync worker reads the oldest pending rows, posts them with *)
(*     retries and marks each one as the reply says (cloud/client.py)      *)
(*   - the supervisor rotates the table            (storage/database.py)   *)
(* together with the settings that turn sync and rotation of pending rows  *)
(* on and off, the device key, and a process that can die anywhere.        *)
(*                                                                         *)
(* Every SQLite statement or transaction of the code is one step; between  *)
(* two of them the other threads run.  Rows are synchronous=FULL, so a     *)
(* crash keeps every committed row and loses all of the threads' locals.   *)
(*                                                                         *)
(* Abstracted: a row is a name, a sync state and a timestamp rank (the     *)
(* clock may be wrong, so ranks need not follow the order of insertion);   *)
(* attempt counters, logging and the payload are left out.  The server is  *)
(* external: it judges a row once, and a reply may name any of the batch;  *)
(* a batch with a row it cannot take it refuses whole, and judges none.    *)
(***************************************************************************)
EXTENDS Naturals, FiniteSets

CONSTANTS
    Reading,        \* the rows that may ever be inserted
    Stamp,          \* timestamp ranks
    BatchSizes,     \* what settings.batch_size may be
    DbMaxRows,      \* settings.db_max_rows
    MaxRetries,     \* settings.max_retries: HTTP attempts per batch
    MaxRestarts     \* bound on the restarts of the process

ASSUME SizesAssumption ==
    /\ IsFiniteSet(Reading)
    /\ Stamp \subseteq Nat
    /\ BatchSizes \subseteq Nat \ {0}
    /\ DbMaxRows \in Nat
    /\ MaxRetries \in Nat \ {0}
    /\ MaxRestarts \in Nat

VARIABLES
    row,            \* readings table: sync_state of each row, or where it went
    stamp,          \* readings.timestamp
    verdict,        \* server: what it decided on each row it processed
    legacy,         \* server: TRUE if its replies carry no per-row index
    refused,        \* server: the rows for which it refuses the whole batch
    cfgCloud,       \* cloud_enabled in config.yaml
    cloudOn,        \* cloud_enabled in the settings in force
    keyFile,        \* the persistent HTTP key exists
    apiKey,         \* CloudClient._api_key is not empty
    rotatePending,  \* WQM1Database.rotate_pending
    batchSize,      \* CloudClient._batch_size
    pc,             \* where the sync worker is
    batch,          \* rows of the batch in hand
    tries,          \* attempts made for it
    reply,          \* per-row outcomes of the 200 reply
    rpc,            \* where the rotation is
    excess,         \* rows it decided to delete
    shed,           \* history: pending rows deleted by rotation
    restarts        \* restarts so far

tableVars  == <<row, stamp, shed>>
serverVars == <<verdict, legacy, refused>>
cfgVars    == <<cfgCloud, cloudOn, keyFile, apiKey, rotatePending, batchSize>>
syncVars   == <<pc, batch, tries, reply>>
rotateVars == <<rpc, excess>>
vars == <<tableVars, serverVars, cfgVars, syncVars, rotateVars, restarts>>

RowState == {"absent", "pending", "synced", "failed_permanent", "deleted"}
Resolved == {"synced", "failed_permanent"}
NoReply  == [stored |-> {}, failed |-> {}]

Pending    == {r \in Reading : row[r] = "pending"}
ResolvedRows == {r \in Reading : row[r] \in Resolved}
Present    == {r \in Reading : row[r] \notin {"absent", "deleted"}}
Settled    == {r \in Reading : verdict[r] # "unknown"}

\* ORDER BY timestamp ASC LIMIT n: ties fall either way.
OldestOf(S, n) ==
    {B \in SUBSET S :
        /\ Cardinality(B) = IF Cardinality(S) < n THEN Cardinality(S) ELSE n
        /\ \A b \in B, s \in S \ B : stamp[b] <= stamp[s]}

Ready == cloudOn /\ apiKey

Init ==
    /\ row = [r \in Reading |-> "absent"]
    /\ stamp \in [Reading -> Stamp]
    /\ verdict = [r \in Reading |-> "unknown"]
    /\ legacy \in BOOLEAN
    /\ refused \in SUBSET Reading
    /\ cfgCloud \in BOOLEAN
    /\ cloudOn = cfgCloud
    /\ keyFile \in BOOLEAN
    /\ apiKey = keyFile
    /\ rotatePending = ~cloudOn
    /\ batchSize \in BatchSizes
    /\ pc = "idle" /\ batch = {} /\ tries = 0 /\ reply = NoReply
    /\ rpc = "idle" /\ excess = 0
    /\ shed = {}
    /\ restarts = 0
-----------------------------------------------------------------------------
(* Sampler                                                                 *)

\* SamplingWorker stores a cycle that produced at least one value.
InsertReading(r) ==
    /\ row[r] = "absent"
    /\ row' = [row EXCEPT ![r] = "pending"]
    /\ UNCHANGED <<stamp, shed, serverVars, cfgVars, syncVars, rotateVars, restarts>>
-----------------------------------------------------------------------------
(* Cloud-sync worker: get_unsynced, the POST with its retries, the marks   *)

GetUnsynced ==
    /\ pc = "idle"
    /\ Ready
    /\ Pending # {}
    /\ \E B \in OldestOf(Pending, batchSize) : batch' = B
    /\ pc' = "posting"
    /\ tries' = 0
    /\ UNCHANGED <<reply, tableVars, serverVars, cfgVars, rotateVars, restarts>>

SyncIdle == pc' = "idle" /\ batch' = {} /\ tries' = 0 /\ reply' = NoReply

\* The rows of the batch a server that got the request decides on.  A legacy
\* server stores all of them; a v2 server judges some, each once.
ServerProcesses(M) ==
    /\ batch \cap refused = {}
    /\ M \subseteq batch
    /\ legacy => M = batch
    /\ verdict' \in [Reading -> {"unknown", "stored", "error"}]
    /\ \A r \in Reading :
          IF r \in M /\ verdict[r] = "unknown"
          THEN verdict'[r] \in (IF legacy THEN {"stored"} ELSE {"stored", "error"})
          ELSE verdict'[r] = verdict[r]
    /\ UNCHANGED <<legacy, refused>>

\* No usable answer: the request never arrived, or was processed and its reply
\* was lost, cut short or a 5xx.  Out of attempts the rows stay pending
\* (bump_sync_attempts counts them and marks nothing).
AttemptFails ==
    /\ pc = "posting"
    /\ \/ UNCHANGED serverVars
       \/ \E M \in SUBSET batch : ServerProcesses(M)
    /\ IF tries + 1 < MaxRetries
       THEN tries' = tries + 1 /\ UNCHANGED <<pc, batch, reply>>
       ELSE SyncIdle
    /\ UNCHANGED <<tableVars, cfgVars, rotateVars, restarts>>

\* A 4xx is final for this cycle.  A 401 also empties the client's key and
\* removes the stored one (note_http_key_revoked).
AttemptRefused ==
    /\ pc = "posting"
    /\ \/ UNCHANGED <<keyFile, apiKey>>
       \/ keyFile' = FALSE /\ apiKey' = FALSE
    /\ SyncIdle
    /\ UNCHANGED <<tableVars, serverVars, cfgCloud, cloudOn, rotatePending, batchSize, rotateVars, restarts>>

\* A 200.  A v2 reply names at least one row of the batch by its index, each
\* as stored or as an error; a legacy reply names none.
AttemptAnswered ==
    /\ pc = "posting"
    /\ \E M \in SUBSET batch :
          /\ M # {}
          /\ ServerProcesses(M)
          /\ reply' = IF legacy THEN NoReply
                      ELSE [stored |-> {r \in M : verdict'[r] = "stored"},
                            failed |-> {r \in M : verdict'[r] = "error"}]
    /\ pc' = "mark_synced"
    /\ UNCHANGED <<batch, tries, tableVars, cfgVars, rotateVars, restarts>>

\* Rows still in the table change state; an UPDATE finds no deleted row.
Mark(S, s) == row' = [r \in Reading |-> IF r \in S \cap Present THEN s ELSE row[r]]

\* Fault: any 200 marks the whole batch.
MarkSyncedFault ==
    /\ pc = "mark_synced"
    /\ Mark(batch, "synced")
    /\ pc' = "mark_failed"
    /\ UNCHANGED <<batch, tries, reply, stamp, shed, serverVars, cfgVars, rotateVars, restarts>>

\* A reply without per-row outcomes marks the whole batch.
MarkSynced ==
    /\ pc = "mark_synced"
    /\ Mark(IF reply = NoReply THEN batch ELSE reply.stored, "synced")
    /\ pc' = "mark_failed"
    /\ UNCHANGED <<batch, tries, reply, stamp, shed, serverVars, cfgVars, rotateVars, restarts>>

\* Fault: a row the server refused one by one stays pending.
MarkFailedNothingFault ==
    /\ pc = "mark_failed"
    /\ SyncIdle
    /\ UNCHANGED <<tableVars, serverVars, cfgVars, rotateVars, restarts>>

MarkFailedPermanent ==
    /\ pc = "mark_failed"
    /\ Mark(reply.failed, "failed_permanent")
    /\ SyncIdle
    /\ UNCHANGED <<stamp, shed, serverVars, cfgVars, rotateVars, restarts>>
-----------------------------------------------------------------------------
(* Supervisor: WQM1Database.rotate, four statements                        *)

RotateIdle == rpc' = "idle" /\ excess' = 0

RotateCount ==
    /\ rpc = "idle"
    /\ Cardinality(Present) > DbMaxRows
    /\ excess' = Cardinality(Present) - DbMaxRows
    /\ rpc' = "resolved"
    /\ UNCHANGED <<tableVars, serverVars, cfgVars, syncVars, restarts>>

Delete(S) == row' = [r \in Reading |-> IF r \in S THEN "deleted" ELSE row[r]]

\* Fault: the delete forgets the sync state.
RotateAnyFault ==
    /\ rpc = "resolved"
    /\ \E D \in OldestOf(Present, excess) : Delete(D)
    /\ IF rotatePending THEN rpc' = "recount" /\ excess' = 0 ELSE RotateIdle
    /\ UNCHANGED <<stamp, shed, serverVars, cfgVars, syncVars, restarts>>

\* Fault: pending rows are cut whatever rotate_pending says.
RotateAlwaysCapsFault ==
    /\ rpc = "resolved"
    /\ \E D \in OldestOf(ResolvedRows, excess) : Delete(D)
    /\ rpc' = "recount" /\ excess' = 0
    /\ UNCHANGED <<stamp, shed, serverVars, cfgVars, syncVars, restarts>>

RotateResolved ==
    /\ rpc = "resolved"
    /\ \E D \in OldestOf(ResolvedRows, excess) : Delete(D)
    /\ IF rotatePending THEN rpc' = "recount" /\ excess' = 0 ELSE RotateIdle
    /\ UNCHANGED <<stamp, shed, serverVars, cfgVars, syncVars, restarts>>

RotateRecount ==
    /\ rpc = "recount"
    /\ IF Cardinality(Present) > DbMaxRows
       THEN excess' = Cardinality(Present) - DbMaxRows /\ rpc' = "pending"
       ELSE RotateIdle
    /\ UNCHANGED <<tableVars, serverVars, cfgVars, syncVars, restarts>>

RotatePendingRows ==
    /\ rpc = "pending"
    /\ \E D \in OldestOf(Pending, excess) : Delete(D) /\ shed' = shed \cup D
    /\ RotateIdle
    /\ UNCHANGED <<stamp, serverVars, cfgVars, syncVars, restarts>>
-----------------------------------------------------------------------------
(* Key, configuration and process life                                     *)

\* Self-registration stores the key, writes cloud_enabled: true, hands the key
\* to the running client and reloads the settings.
Register ==
    /\ ~keyFile
    /\ keyFile' = TRUE /\ apiKey' = TRUE
    /\ cfgCloud' = TRUE /\ cloudOn' = TRUE
    /\ UNCHANGED <<rotatePending, batchSize, tableVars, serverVars, syncVars, rotateVars, restarts>>

\* The operator changes cloud mode on the provisioning page: the file only.
ProvisionCloud ==
    /\ cfgCloud' = ~cfgCloud
    /\ UNCHANGED <<cloudOn, keyFile, apiKey, rotatePending, batchSize,
                   tableVars, serverVars, syncVars, rotateVars, restarts>>

\* A config_reload command, or an applied remote config, re-reads the file.
ReloadConfig ==
    /\ cloudOn # cfgCloud
    /\ cloudOn' = cfgCloud
    /\ UNCHANGED <<cfgCloud, keyFile, apiKey, rotatePending, batchSize,
                   tableVars, serverVars, syncVars, rotateVars, restarts>>

\* The process dies at any point and start() wires it again.
Restart ==
    /\ restarts < MaxRestarts
    /\ restarts' = restarts + 1
    /\ cloudOn' = cfgCloud
    /\ apiKey' = keyFile
    /\ rotatePending' = ~cfgCloud
    /\ SyncIdle
    /\ RotateIdle
    /\ UNCHANGED <<cfgCloud, keyFile, batchSize, tableVars, serverVars>>
-----------------------------------------------------------------------------
SyncStep   == GetUnsynced \/ AttemptFails \/ AttemptRefused \/ AttemptAnswered
                \/ MarkSynced \/ MarkFailedPermanent
RotateStep == RotateCount \/ RotateResolved \/ RotateRecount \/ RotatePendingRows

Next ==
    \/ \E r \in Reading : InsertReading(r)
    \/ SyncStep
    \/ RotateStep
    \/ Register \/ ProvisionCloud \/ ReloadConfig \/ Restart

Spec == Init /\ [][Next]_vars

\* Threads run; a unit without a key registers; and a server that is asked for
\* ever about batches it can take answers one of them in the end, with the
\* outcome of at least one of its rows.
FairSpec ==
    /\ Spec
    /\ WF_vars(GetUnsynced) /\ WF_vars(MarkSynced) /\ WF_vars(MarkFailedPermanent)
    /\ WF_vars(AttemptFails)
    /\ WF_vars(RotateStep)
    /\ WF_vars(Register) /\ WF_vars(ReloadConfig)
    /\ SF_vars(AttemptAnswered)
-----------------------------------------------------------------------------
TypeOK ==
    /\ row \in [Reading -> RowState]
    /\ stamp \in [Reading -> Stamp]
    /\ verdict \in [Reading -> {"unknown", "stored", "error"}]
    /\ legacy \in BOOLEAN
    /\ refused \subseteq Reading
    /\ cfgCloud \in BOOLEAN /\ cloudOn \in BOOLEAN
    /\ keyFile \in BOOLEAN /\ apiKey \in BOOLEAN
    /\ rotatePending \in BOOLEAN
    /\ batchSize \in BatchSizes
    /\ pc \in {"idle", "posting", "mark_synced", "mark_failed"}
    /\ batch \subseteq Reading
    /\ tries \in 0..(MaxRetries - 1)
    /\ reply \in [stored : SUBSET Reading, failed : SUBSET Reading]
    /\ rpc \in {"idle", "resolved", "recount", "pending"}
    /\ excess \in Nat
    /\ shed \subseteq Reading
    /\ restarts \in 0..MaxRestarts

\* A row leaves "pending" for a reason the cloud agrees with: marked synced only
\* if the server stored it, failed only if the server refused it.  Retries whose
\* first answer was lost, rotation during the POST and a crash between the two
\* marks must not break the agreement (sync_readings, mark_*).
MarksAgreeWithCloud ==
    \A r \in Reading :
        /\ row[r] = "synced" => verdict[r] = "stored"
        /\ row[r] = "failed_permanent" => verdict[r] = "error"

\* "A network outage never loses data" (docs/firmware-overview.md): every row
\* ever inserted is still pending, was judged by the cloud, or was given up by
\* the rotation of pending rows.
NothingForgotten ==
    \A r \in Reading :
        row[r] # "absent" => r \in Pending \cup Settled \cup shed

\* A row once resolved is never on the wire again: what the worker is posting
\* is still pending, or rotation has deleted it under the request.
ResolvedNeverResent ==
    pc = "posting" => \A r \in batch : row[r] \in {"pending", "deleted"}

\* Rotation counts in one statement and deletes in another, while the sampler
\* and the sync worker run: it must still never delete below db_max_rows.
NeverRotatesBelowLimit ==
    [][(\E r \in Reading : row[r] # row'[r] /\ row'[r] = "deleted")
          => Cardinality(Present') >= DbMaxRows]_vars

\* The buffer implements the promise of ReadingLog.
Log == INSTANCE ReadingLog WITH
           taken   <- {r \in Reading : row[r] # "absent"},
           held    <- Pending,
           settled <- Settled,
           shed    <- shed,
           capped  <- rotatePending
ImplementsReadingLog == Log!Spec

\* "Pending rows are never dropped" (storage/database.py) by a unit that
\* reports to the cloud: rotate_pending is for cloud_enabled false only.
PendingKeptWhileCloudOn ==
    [][\A r \in Reading : row[r] = "pending" /\ row'[r] = "deleted" => ~cloudOn]_vars

\* A row the server refuses is among those the next cycle would post.
HeadRefused == \E B \in OldestOf(Pending, batchSize) : B \cap refused # {}

\* Every pending row of a unit in cloud mode is settled in the end, or shed,
\* unless a batch at the head of the queue is refused whole for ever: rows that
\* fail one by one at the head, answers that get lost and keys that are revoked
\* never keep those behind from their turn (sync_readings).
EventuallySettled ==
    (<>[]cfgCloud /\ <>[]~HeadRefused) =>
        \A r \in Reading : (row[r] = "pending") ~> (row[r] # "pending")

\* "No silent loss, no infinite retry" (sync_readings): a row the server cannot
\* take does not keep those behind it for ever.  It does: a 4xx marks nothing,
\* and the same rows are posted again in every cycle.
NoHeadBlocks ==
    <>[]cfgCloud =>
        \A r \in Reading :
            (row[r] = "pending" /\ r \notin refused) ~> (row[r] # "pending")

=============================================================================
