------------------------- MODULE StoreForwardProofs -------------------------
(***************************************************************************)
(* Proofs about StoreForward for every set of readings, every batch size,  *)
(* buffer limit and number of retries.                                     *)
(*                                                                         *)
(* MarksAgreeWithCloud is not inductive: the marks are made from a reply   *)
(* the worker holds, so the reply itself must agree with the server, a     *)
(* reply without rows must come from a legacy server that stored the whole *)
(* batch, and the batch must hold no resolved row.                         *)
(***************************************************************************)
EXTENDS StoreForward, FiniteSetTheorems, TLAPS

\* What the worker holds while it marks agrees with the server's verdicts.
ReplyAgrees ==
    /\ \A r \in reply.stored : verdict[r] = "stored"
    /\ \A r \in reply.failed : verdict[r] = "error"
    /\ pc \in {"idle", "posting"} => reply = NoReply
    /\ pc = "mark_synced" /\ reply = NoReply => \A r \in batch : verdict[r] = "stored"

LegacyNeverRefuses == legacy => \A r \in Reading : verdict[r] # "error"

\* Only a capped unit gets to the second half of rotate().
PendingHalfNeedsCap == rpc \in {"recount", "pending"} => rotatePending

\* A batch in hand holds recorded rows only.
BatchRecorded == \A r \in batch : row[r] # "absent"

Agreement ==
    /\ ReplyAgrees
    /\ LegacyNeverRefuses
    /\ PendingHalfNeedsCap
    /\ BatchRecorded
    /\ MarksAgreeWithCloud
    /\ NothingForgotten
    /\ ResolvedNeverResent

\* The inductive invariant.
IInv == TypeOK /\ Agreement
-----------------------------------------------------------------------------
\* The sampler keeps every variable in its type.
LEMMA TypeInsert ==
  ASSUME TypeOK, NEW r \in Reading, InsertReading(r)
  PROVE  TypeOK'
BY DEF TypeOK, InsertReading, RowState, serverVars, cfgVars, syncVars, rotateVars

\* So does every step of the sync worker.
LEMMA TypeSync ==
  ASSUME TypeOK, SyncStep
  PROVE  TypeOK'
<1>1. CASE GetUnsynced
  BY <1>1, SizesAssumption DEF TypeOK, GetUnsynced, OldestOf, Pending, tableVars, serverVars, cfgVars, rotateVars
<1>2. CASE AttemptFails
  <2>1. verdict' \in [Reading -> {"unknown", "stored", "error"}] /\ legacy' \in BOOLEAN /\ refused' \subseteq Reading
    BY <1>2 DEF TypeOK, AttemptFails, ServerProcesses, serverVars
  <2>2. tries' \in 0..(MaxRetries - 1) /\ batch' \subseteq Reading
          /\ reply' \in [stored : SUBSET Reading, failed : SUBSET Reading]
          /\ pc' \in {"idle", "posting"}
    BY <1>2, SizesAssumption DEF TypeOK, AttemptFails, SyncIdle, NoReply
  <2>3. QED BY <1>2, <2>1, <2>2 DEF TypeOK, AttemptFails, tableVars, cfgVars, rotateVars
<1>3. CASE AttemptRefused
  <2>1. keyFile' \in BOOLEAN /\ apiKey' \in BOOLEAN
    BY <1>3, Zenon DEF TypeOK, AttemptRefused
  <2>2. tries' \in 0..(MaxRetries - 1) /\ batch' \subseteq Reading
          /\ reply' \in [stored : SUBSET Reading, failed : SUBSET Reading]
    BY <1>3, SizesAssumption DEF AttemptRefused, SyncIdle, NoReply
  <2>3. QED BY <1>3, <2>1, <2>2 DEF TypeOK, AttemptRefused, SyncIdle, tableVars, serverVars, rotateVars
<1>4. CASE AttemptAnswered
  BY <1>4 DEF TypeOK, AttemptAnswered, ServerProcesses, NoReply, tableVars, cfgVars, rotateVars
<1>5. CASE MarkSynced
  BY <1>5 DEF TypeOK, MarkSynced, Mark, RowState, serverVars, cfgVars, rotateVars
<1>6. CASE MarkFailedPermanent
  BY <1>6, SizesAssumption DEF TypeOK, MarkFailedPermanent, Mark, RowState, SyncIdle, NoReply,
       serverVars, cfgVars, rotateVars
<1>7. QED BY <1>1, <1>2, <1>3, <1>4, <1>5, <1>6 DEF SyncStep

\* Rotation counts a finite table, so what it decides to delete is a number.
LEMMA TypeRotate ==
  ASSUME TypeOK, RotateStep
  PROVE  TypeOK'
<1> DEFINE n == Cardinality(Present)
<1>0. n \in Nat /\ (n > DbMaxRows => n - DbMaxRows \in Nat)
  <2>1. n \in Nat BY SizesAssumption, FS_Subset, FS_CardinalityType DEF Present
  <2>2. QED BY <2>1, SizesAssumption
<1>1. CASE RotateCount
  BY <1>0, <1>1 DEF TypeOK, RotateCount, tableVars, serverVars, cfgVars, syncVars
<1>2. CASE RotateResolved
  BY <1>2 DEF TypeOK, RotateResolved, Delete, RotateIdle, RowState, serverVars, cfgVars, syncVars
<1>3. CASE RotateRecount
  BY <1>0, <1>3 DEF TypeOK, RotateRecount, RotateIdle, tableVars, serverVars, cfgVars, syncVars
<1>4. CASE RotatePendingRows
  <2>1. shed' \subseteq Reading
    BY <1>4 DEF TypeOK, RotatePendingRows, OldestOf, Pending
  <2>2. QED BY <1>4, <2>1 DEF TypeOK, RotatePendingRows, Delete, RotateIdle, RowState,
                 serverVars, cfgVars, syncVars
<1>5. QED BY <1>1, <1>2, <1>3, <1>4 DEF RotateStep

\* Registration, provisioning, a reload and a restart move Booleans only.
LEMMA TypeLife ==
  ASSUME TypeOK, Register \/ ProvisionCloud \/ ReloadConfig \/ Restart
  PROVE  TypeOK'
<1>1. CASE Register
  BY <1>1 DEF TypeOK, Register, tableVars, serverVars, syncVars, rotateVars
<1>2. CASE ProvisionCloud
  BY <1>2 DEF TypeOK, ProvisionCloud, tableVars, serverVars, syncVars, rotateVars
<1>3. CASE ReloadConfig
  BY <1>3 DEF TypeOK, ReloadConfig, tableVars, serverVars, syncVars, rotateVars
<1>4. CASE Restart
  <2>1. tries' \in 0..(MaxRetries - 1) /\ restarts' \in 0..MaxRestarts /\ excess' \in Nat
    BY <1>4, SizesAssumption DEF TypeOK, Restart, SyncIdle, RotateIdle
  <2>2. QED BY <1>4, <2>1 DEF TypeOK, Restart, SyncIdle, RotateIdle, NoReply, tableVars, serverVars
<1>5. QED BY <1>1, <1>2, <1>3, <1>4

\* Every step keeps the types.
LEMMA TypeNext ==
  ASSUME TypeOK, [Next]_vars
  PROVE  TypeOK'
<1>1. CASE \E r \in Reading : InsertReading(r)
  BY <1>1, TypeInsert
<1>2. CASE SyncStep
  BY <1>2, TypeSync
<1>3. CASE RotateStep
  BY <1>3, TypeRotate
<1>4. CASE Register \/ ProvisionCloud \/ ReloadConfig \/ Restart
  BY <1>4, TypeLife
<1>5. CASE UNCHANGED vars
  BY <1>5 DEF TypeOK, vars, tableVars, serverVars, cfgVars, syncVars, rotateVars
<1>6. QED BY <1>1, <1>2, <1>3, <1>4, <1>5 DEF Next

\* Every initial state has its types.
LEMMA TypeInit == Init => TypeOK
<1> SUFFICES ASSUME Init PROVE TypeOK
  OBVIOUS
<1>1. tries \in 0..(MaxRetries - 1) /\ restarts \in 0..MaxRestarts /\ excess \in Nat
  BY SizesAssumption DEF Init
<1>2. rotatePending \in BOOLEAN /\ cloudOn \in BOOLEAN /\ apiKey \in BOOLEAN
  BY Zenon DEF Init
<1>3. QED BY <1>1, <1>2 DEF Init, TypeOK, RowState, NoReply

\* Type correctness of the buffer, its threads and its settings.
THEOREM TypeCorrect == Spec => []TypeOK
BY TypeInit, TypeNext, PTL DEF Spec
-----------------------------------------------------------------------------
(* The agreement of the marks with the cloud                               *)

\* Nothing is marked before anything is sent.
LEMMA AgreementInit == Init => Agreement
BY DEF Init, Agreement, ReplyAgrees, LegacyNeverRefuses, PendingHalfNeedsCap, BatchRecorded,
       MarksAgreeWithCloud, NothingForgotten, ResolvedNeverResent, NoReply

\* A new row is unsynced: it agrees with a cloud that has not seen it.
LEMMA AgreementInsert ==
  ASSUME TypeOK, Agreement, NEW r \in Reading, InsertReading(r)
  PROVE  Agreement'
<1> USE DEF InsertReading, TypeOK, Agreement, serverVars, cfgVars, syncVars, rotateVars
<1>1. ReplyAgrees' /\ LegacyNeverRefuses' /\ PendingHalfNeedsCap'
  BY DEF ReplyAgrees, LegacyNeverRefuses, PendingHalfNeedsCap, NoReply
<1>2. BatchRecorded' /\ MarksAgreeWithCloud' /\ ResolvedNeverResent'
  BY DEF BatchRecorded, MarksAgreeWithCloud, ResolvedNeverResent
<1>3. NothingForgotten'
  BY DEF NothingForgotten, Pending, Settled
<1>4. QED BY <1>1, <1>2, <1>3

\* What a request leaves behind at the server, whether or not it is answered:
\* verdicts given stay given, and a legacy server gives only one.
LEMMA VerdictsStand ==
  ASSUME TypeOK, LegacyNeverRefuses, NEW M, ServerProcesses(M)
  PROVE  /\ \A r \in Reading : verdict[r] # "unknown" => verdict'[r] = verdict[r]
         /\ \A r \in M : r \in Reading /\ verdict'[r] \in {"stored", "error"}
         /\ LegacyNeverRefuses'
         /\ legacy => \A r \in batch : verdict'[r] = "stored"
BY DEF TypeOK, LegacyNeverRefuses, ServerProcesses

\* The pass of the sync worker, whatever becomes of each request.
LEMMA AgreementSync ==
  ASSUME TypeOK, Agreement, SyncStep
  PROVE  Agreement'
<1> USE DEF Agreement
<1>1. CASE GetUnsynced
  <2>1. batch' \subseteq Pending
    BY <1>1 DEF GetUnsynced, OldestOf
  <2>2. QED BY <1>1, <2>1 DEF GetUnsynced, TypeOK, ReplyAgrees, LegacyNeverRefuses,
       PendingHalfNeedsCap, BatchRecorded, MarksAgreeWithCloud, NothingForgotten,
       ResolvedNeverResent, Pending, Settled, NoReply, tableVars, serverVars, cfgVars, rotateVars
<1>2. CASE AttemptFails
  <2>1. /\ \A r \in Reading : verdict[r] # "unknown" => verdict'[r] = verdict[r]
        /\ LegacyNeverRefuses'
    BY <1>2, VerdictsStand DEF AttemptFails, serverVars, LegacyNeverRefuses
  <2>2. UNCHANGED <<tableVars, cfgVars, rotateVars>>
    BY <1>2 DEF AttemptFails
  <2>3. ReplyAgrees'
    BY <1>2 DEF AttemptFails, SyncIdle, ReplyAgrees, NoReply
  <2>4. MarksAgreeWithCloud' /\ NothingForgotten'
    BY <2>1, <2>2 DEF MarksAgreeWithCloud, NothingForgotten, Pending, Settled, tableVars, TypeOK
  <2>5. BatchRecorded' /\ ResolvedNeverResent' /\ PendingHalfNeedsCap'
    BY <1>2, <2>2 DEF AttemptFails, SyncIdle, BatchRecorded, ResolvedNeverResent,
       PendingHalfNeedsCap, tableVars, cfgVars, rotateVars
  <2>6. QED BY <2>1, <2>3, <2>4, <2>5
<1>3. CASE AttemptRefused
  BY <1>3 DEF AttemptRefused, SyncIdle, TypeOK, ReplyAgrees, LegacyNeverRefuses,
       PendingHalfNeedsCap, BatchRecorded, MarksAgreeWithCloud, NothingForgotten,
       ResolvedNeverResent, Pending, Settled, NoReply, tableVars, serverVars, rotateVars
<1>4. CASE AttemptAnswered
  <2>1. PICK M \in SUBSET batch :
          /\ M # {}
          /\ ServerProcesses(M)
          /\ reply' = IF legacy THEN NoReply
                      ELSE [stored |-> {r \in M : verdict'[r] = "stored"},
                            failed |-> {r \in M : verdict'[r] = "error"}]
    BY <1>4 DEF AttemptAnswered
  <2>2. /\ \A r \in Reading : verdict[r] # "unknown" => verdict'[r] = verdict[r]
        /\ \A r \in M : verdict'[r] \in {"stored", "error"}
        /\ LegacyNeverRefuses'
        /\ legacy => \A r \in batch : verdict'[r] = "stored"
    BY <2>1, VerdictsStand
  <2>3. UNCHANGED <<batch, tableVars, cfgVars, rotateVars>> /\ pc' = "mark_synced"
    BY <1>4 DEF AttemptAnswered
  <2>4. ~legacy => reply'.stored \cup reply'.failed # {}
    BY <2>1, <2>2
  <2>5. ReplyAgrees'
    BY <2>1, <2>2, <2>3, <2>4 DEF ReplyAgrees, NoReply
  <2>6. MarksAgreeWithCloud' /\ NothingForgotten'
    BY <2>2, <2>3 DEF MarksAgreeWithCloud, NothingForgotten, Pending, Settled, tableVars, TypeOK
  <2>7. BatchRecorded' /\ ResolvedNeverResent' /\ PendingHalfNeedsCap'
    BY <2>3 DEF BatchRecorded, ResolvedNeverResent, PendingHalfNeedsCap, tableVars, cfgVars, rotateVars
  <2>8. QED BY <2>2, <2>5, <2>6, <2>7
<1>5. CASE MarkSynced
  <2>1. \A r \in IF reply = NoReply THEN batch ELSE reply.stored : verdict[r] = "stored"
    BY <1>5 DEF MarkSynced, ReplyAgrees
  <2>2. QED BY <1>5, <2>1 DEF MarkSynced, Mark, Present, TypeOK, ReplyAgrees, LegacyNeverRefuses,
       PendingHalfNeedsCap, BatchRecorded, MarksAgreeWithCloud, NothingForgotten,
       ResolvedNeverResent, Pending, Settled, NoReply, serverVars, cfgVars, rotateVars
<1>6. CASE MarkFailedPermanent
  <2>1. \A r \in reply.failed : verdict[r] = "error"
    BY DEF ReplyAgrees
  <2>2. QED BY <1>6, <2>1 DEF MarkFailedPermanent, SyncIdle, Mark, Present, TypeOK, ReplyAgrees,
       LegacyNeverRefuses, PendingHalfNeedsCap, BatchRecorded, MarksAgreeWithCloud,
       NothingForgotten, ResolvedNeverResent, Pending, Settled, NoReply, serverVars, cfgVars, rotateVars
<1>7. QED BY <1>1, <1>2, <1>3, <1>4, <1>5, <1>6 DEF SyncStep

\* Rotation deletes rows the cloud has judged, or pending rows it records as shed.
LEMMA AgreementRotate ==
  ASSUME TypeOK, Agreement, RotateStep
  PROVE  Agreement'
<1> USE DEF Agreement
<1>1. CASE RotateCount
  BY <1>1 DEF RotateCount, TypeOK, ReplyAgrees, LegacyNeverRefuses, PendingHalfNeedsCap,
       BatchRecorded, MarksAgreeWithCloud, NothingForgotten, ResolvedNeverResent, Pending,
       Settled, NoReply, tableVars, serverVars, cfgVars, syncVars
<1>2. CASE RotateResolved
  <2>1. PICK D \in SUBSET ResolvedRows : Delete(D)
    BY <1>2 DEF RotateResolved, OldestOf
  <2>2. \A r \in D : r \in Settled
    BY DEF ResolvedRows, Resolved, MarksAgreeWithCloud, Settled
  <2>3. UNCHANGED <<stamp, shed, serverVars, cfgVars, syncVars>>
    BY <1>2 DEF RotateResolved
  <2>4. PendingHalfNeedsCap'
    BY <1>2 DEF RotateResolved, RotateIdle, PendingHalfNeedsCap, cfgVars
  <2>5. ReplyAgrees' /\ LegacyNeverRefuses' /\ BatchRecorded' /\ MarksAgreeWithCloud'
          /\ ResolvedNeverResent'
    BY <2>1, <2>3 DEF Delete, TypeOK, ReplyAgrees, LegacyNeverRefuses, BatchRecorded,
       MarksAgreeWithCloud, ResolvedNeverResent, NoReply, serverVars, syncVars
  <2>6. NothingForgotten'
    BY <2>1, <2>2, <2>3 DEF Delete, NothingForgotten, Pending, Settled, ResolvedRows, serverVars, TypeOK
  <2>7. QED BY <2>4, <2>5, <2>6
<1>3. CASE RotateRecount
  BY <1>3 DEF RotateRecount, RotateIdle, TypeOK, ReplyAgrees, LegacyNeverRefuses,
       PendingHalfNeedsCap, BatchRecorded, MarksAgreeWithCloud, NothingForgotten,
       ResolvedNeverResent, Pending, Settled, NoReply, tableVars, serverVars, cfgVars, syncVars
<1>4. CASE RotatePendingRows
  <2>1. PICK D \in SUBSET Pending : Delete(D) /\ shed' = shed \cup D
    BY <1>4 DEF RotatePendingRows, OldestOf
  <2>2. UNCHANGED <<stamp, serverVars, cfgVars, syncVars>> /\ rpc' = "idle"
    BY <1>4 DEF RotatePendingRows, RotateIdle
  <2>3. QED BY <2>1, <2>2 DEF Delete, TypeOK, ReplyAgrees, LegacyNeverRefuses,
       PendingHalfNeedsCap, BatchRecorded, MarksAgreeWithCloud, NothingForgotten,
       ResolvedNeverResent, Pending, Settled, NoReply, serverVars, cfgVars, syncVars
<1>5. QED BY <1>1, <1>2, <1>3, <1>4 DEF RotateStep

\* Registration, provisioning, reloads and restarts mark no row.
LEMMA AgreementLife ==
  ASSUME TypeOK, Agreement, Register \/ ProvisionCloud \/ ReloadConfig \/ Restart
  PROVE  Agreement'
<1> USE DEF Agreement, TypeOK, ReplyAgrees, LegacyNeverRefuses, PendingHalfNeedsCap, BatchRecorded,
       MarksAgreeWithCloud, NothingForgotten, ResolvedNeverResent, Pending, Settled, NoReply,
       tableVars, serverVars, syncVars, rotateVars
<1>1. CASE Register
  BY <1>1 DEF Register
<1>2. CASE ProvisionCloud
  BY <1>2 DEF ProvisionCloud
<1>3. CASE ReloadConfig
  BY <1>3 DEF ReloadConfig
<1>4. CASE Restart
  BY <1>4 DEF Restart, SyncIdle, RotateIdle
<1>5. QED BY <1>1, <1>2, <1>3, <1>4

\* The inductive invariant holds of every behaviour.
THEOREM Invariance == Spec => []IInv
<1>1. Init => IInv
  BY TypeInit, AgreementInit DEF IInv
<1>2. IInv /\ [Next]_vars => IInv'
  <2> SUFFICES ASSUME IInv, [Next]_vars PROVE IInv'
    OBVIOUS
  <2>1. TypeOK'
    BY TypeNext DEF IInv
  <2>2. CASE \E r \in Reading : InsertReading(r)
    BY <2>1, <2>2, AgreementInsert DEF IInv
  <2>3. CASE SyncStep
    BY <2>1, <2>3, AgreementSync DEF IInv
  <2>4. CASE RotateStep
    BY <2>1, <2>4, AgreementRotate DEF IInv
  <2>5. CASE Register \/ ProvisionCloud \/ ReloadConfig \/ Restart
    BY <2>1, <2>5, AgreementLife DEF IInv
  <2>6. CASE UNCHANGED vars
    BY <2>1, <2>6 DEF IInv, Agreement, TypeOK, ReplyAgrees, LegacyNeverRefuses,
       PendingHalfNeedsCap, BatchRecorded, MarksAgreeWithCloud, NothingForgotten,
       ResolvedNeverResent, Pending, Settled, NoReply,
       vars, tableVars, serverVars, cfgVars, syncVars, rotateVars
  <2>7. QED BY <2>2, <2>3, <2>4, <2>5, <2>6 DEF Next
<1>3. QED BY <1>1, <1>2, PTL DEF Spec

\* A row is marked synced or failed only when the server decided so
\* (sync_readings, mark_synced, mark_failed_permanent).
THEOREM MarksAgree == Spec => []MarksAgreeWithCloud
<1>1. IInv => MarksAgreeWithCloud
  BY DEF IInv, Agreement
<1>2. QED BY <1>1, Invariance, PTL

\* No recorded reading is forgotten before the cloud has judged it, except the
\* rows that rotation of pending rows sheds (rotate).
THEOREM NoSilentLoss == Spec => []NothingForgotten
<1>1. IInv => NothingForgotten
  BY DEF IInv, Agreement
<1>2. QED BY <1>1, Invariance, PTL

\* The worker never posts a row it has already resolved (get_unsynced, _request).
THEOREM NoResend == Spec => []ResolvedNeverResent
<1>1. IInv => ResolvedNeverResent
  BY DEF IInv, Agreement
<1>2. QED BY <1>1, Invariance, PTL
-----------------------------------------------------------------------------
(* The buffer implements ReadingLog: each step is a step of the log or a   *)
(* stutter.                                                                *)

Taken == {r \in Reading : row[r] # "absent"}

LogStep == [Log!Next]_<<Taken, Pending, Settled, shed, rotatePending>>

\* insert_reading records one reading in the log.
LEMMA LogInsert ==
  ASSUME TypeOK, NEW r \in Reading, InsertReading(r)
  PROVE  Log!Record(r)
BY DEF TypeOK, InsertReading, Log!Record, Pending, Settled, serverVars, cfgVars

\* A marked row is released from the log; every other sync step stutters.
LEMMA LogSync ==
  ASSUME IInv, SyncStep
  PROVE  LogStep
<1> USE DEF LogStep, IInv, Agreement
<1>1. CASE GetUnsynced \/ AttemptRefused
  BY <1>1 DEF GetUnsynced, AttemptRefused, Taken, Pending, Settled, tableVars, serverVars, cfgVars
<1>2. CASE AttemptFails \/ AttemptAnswered
  <2>1. UNCHANGED <<row, stamp, shed, rotatePending>>
    BY <1>2 DEF AttemptFails, AttemptAnswered, tableVars, cfgVars
  <2>2. \/ verdict' = verdict
        \/ \E M \in SUBSET batch : ServerProcesses(M)
    BY <1>2 DEF AttemptFails, AttemptAnswered, serverVars
  <2>3. CASE verdict' = verdict
    BY <2>1, <2>3 DEF Taken, Pending, Settled
  <2>4. ASSUME NEW M \in SUBSET batch, ServerProcesses(M)
        PROVE  LogStep
    <3>1. M \in SUBSET Taken
      BY DEF BatchRecorded, Taken, TypeOK
    <3>2. Settled' = Settled \cup M
      BY <2>4, VerdictsStand DEF Settled, ServerProcesses, TypeOK
    <3>3. Log!Settle(M)
      BY <2>1, <3>2 DEF Log!Settle, Taken, Pending
    <3>4. QED BY <3>1, <3>3 DEF Log!Next, Taken
  <2>5. QED BY <2>2, <2>3, <2>4
<1>3. CASE MarkSynced \/ MarkFailedPermanent
  <2> DEFINE S == Pending \ Pending'
  <2>1. UNCHANGED <<shed, verdict, rotatePending>> /\ Taken' = Taken /\ Pending' \subseteq Pending
    BY <1>3 DEF MarkSynced, MarkFailedPermanent, Mark, Present, Pending, Taken, TypeOK,
       serverVars, cfgVars
  <2>2. \A r \in S : row'[r] \in Resolved
    BY <1>3 DEF MarkSynced, MarkFailedPermanent, Mark, Present, Pending, Resolved, TypeOK
  <2>3. MarksAgreeWithCloud'
    BY <1>3, AgreementSync DEF SyncStep
  <2>4. S \subseteq Settled /\ S \in SUBSET Taken
    BY <2>1, <2>2, <2>3 DEF MarksAgreeWithCloud, Settled, Resolved, Pending, Taken
  <2>5. Log!Release(S)
    BY <2>1, <2>4 DEF Log!Release, Settled, Taken
  <2>6. QED BY <2>4, <2>5 DEF Log!Next, Taken
<1>4. QED BY <1>1, <1>2, <1>3 DEF SyncStep

\* What rotate deletes, the log has released or is entitled to shed.
LEMMA LogRotate ==
  ASSUME IInv, RotateStep
  PROVE  LogStep
<1> USE DEF LogStep, IInv, Agreement
<1>1. CASE RotateCount \/ RotateRecount
  BY <1>1 DEF RotateCount, RotateRecount, Taken, Pending, Settled, tableVars, serverVars, cfgVars
<1>2. CASE RotateResolved
  BY <1>2 DEF RotateResolved, OldestOf, Delete, ResolvedRows, Resolved, Taken, Pending, Settled,
     TypeOK, serverVars, cfgVars
<1>3. CASE RotatePendingRows
  <2>1. PICK D \in SUBSET Pending : Delete(D) /\ shed' = shed \cup D
    BY <1>3 DEF RotatePendingRows, OldestOf
  <2>2. UNCHANGED <<verdict, rotatePending>> /\ rotatePending
    BY <1>3 DEF RotatePendingRows, PendingHalfNeedsCap, serverVars, cfgVars
  <2>3. Log!Shed(D) /\ D \in SUBSET Taken
    BY <2>1, <2>2 DEF Log!Shed, Delete, Taken, Pending, Settled, TypeOK
  <2>4. QED BY <2>3 DEF Log!Next, Taken
<1>4. QED BY <1>1, <1>2, <1>3 DEF RotateStep

\* A restart or a change of settings is a stutter of the log.
LEMMA LogLife ==
  ASSUME IInv, Register \/ ProvisionCloud \/ ReloadConfig \/ Restart
  PROVE  LogStep
<1> USE DEF LogStep, IInv, TypeOK, Taken, Pending, Settled, tableVars, serverVars
<1>1. CASE Register \/ ProvisionCloud \/ ReloadConfig
  BY <1>1 DEF Register, ProvisionCloud, ReloadConfig
<1>2. CASE Restart
  <2>1. UNCHANGED <<row, shed, verdict>> /\ rotatePending' \in BOOLEAN
    BY <1>2, Zenon DEF Restart
  <2>2. Log!Recap
    BY <2>1 DEF Log!Recap
  <2>3. QED BY <2>2 DEF Log!Next
<1>3. QED BY <1>1, <1>2

\* The buffer implements the promise of ReadingLog.
THEOREM Refinement == Spec => ImplementsReadingLog
<1>1. Init => Log!Init
  <2>1. Init => rotatePending \in BOOLEAN
    BY Zenon DEF Init
  <2>2. QED BY <2>1 DEF Init, Log!Init, Pending, Settled
<1>2. IInv /\ [Next]_vars => LogStep
  <2> SUFFICES ASSUME IInv, [Next]_vars PROVE LogStep
    OBVIOUS
  <2>1. CASE \E r \in Reading : InsertReading(r)
    BY <2>1, LogInsert DEF IInv, LogStep, Log!Next
  <2>2. CASE SyncStep \/ RotateStep
    BY <2>2, LogSync, LogRotate
  <2>3. CASE Register \/ ProvisionCloud \/ ReloadConfig \/ Restart
    BY <2>3, LogLife
  <2>4. CASE UNCHANGED vars
    BY <2>4 DEF LogStep, Taken, Pending, Settled, vars, tableVars, serverVars, cfgVars
  <2>5. QED BY <2>1, <2>2, <2>3, <2>4 DEF Next
<1>3. QED BY <1>1, <1>2, Invariance, PTL DEF Spec, ImplementsReadingLog, Log!Spec, LogStep, Log!logVars, Taken
-----------------------------------------------------------------------------
(* Rotation counts in one statement and deletes in another: nobody else    *)
(* takes rows out of the table in between, so the count stays an           *)
(* under-estimate of what may go.                                          *)

ExcessFits ==
    rpc \in {"resolved", "pending"} => excess + DbMaxRows <= Cardinality(Present)

\* Deleting at most n of the rows present leaves the others.
LEMMA DeleteLeaves ==
  ASSUME TypeOK, NEW n \in Nat, n + DbMaxRows <= Cardinality(Present),
         NEW S \in SUBSET Present, NEW D \in OldestOf(S, n), Delete(D)
  PROVE  Cardinality(Present') >= DbMaxRows
<1>1. IsFiniteSet(Present) /\ Cardinality(Present) \in Nat
  BY SizesAssumption, FS_Subset, FS_CardinalityType DEF Present
<1>2. D \in SUBSET Present /\ Cardinality(S) \in Nat
  BY <1>1, FS_Subset, FS_CardinalityType DEF OldestOf
<1>3. Cardinality(D) <= n
  BY <1>2 DEF OldestOf
<1>4. Present' = Present \ D
  BY <1>2 DEF Delete, Present, TypeOK
<1>5. Cardinality(Present \ D) = Cardinality(Present) - Cardinality(Present \cap D)
  BY <1>1, FS_Difference
<1>6. Present \cap D = D /\ Cardinality(D) \in Nat
  BY <1>1, <1>2, FS_Subset, FS_CardinalityType
<1>7. Cardinality(Present') = Cardinality(Present) - Cardinality(D)
  BY <1>4, <1>5, <1>6
<1>8. DbMaxRows \in Nat
  BY SizesAssumption
<1>9. QED BY <1>1, <1>3, <1>6, <1>7, <1>8

\* What the other threads do never makes the table smaller.
LEMMA OthersKeepRows ==
  ASSUME TypeOK, ~RotateStep, [Next]_vars
  PROVE  Cardinality(Present') >= Cardinality(Present)
<1>1. Present \subseteq Present'
  <2>1. CASE \E r \in Reading : InsertReading(r)
    BY <2>1 DEF InsertReading, Present, TypeOK
  <2>2. CASE SyncStep
    BY <2>2 DEF SyncStep, GetUnsynced, AttemptFails, AttemptRefused, AttemptAnswered, MarkSynced,
       MarkFailedPermanent, Mark, Present, TypeOK, tableVars
  <2>3. CASE Register \/ ProvisionCloud \/ ReloadConfig \/ Restart
    BY <2>3 DEF Register, ProvisionCloud, ReloadConfig, Restart, Present, tableVars
  <2>4. CASE UNCHANGED vars
    BY <2>4 DEF vars, tableVars, Present
  <2>5. QED BY <2>1, <2>2, <2>3, <2>4 DEF Next
<1>2. IsFiniteSet(Present')
  BY SizesAssumption, FS_Subset DEF Present
<1>3. QED BY <1>1, <1>2, FS_Subset, FS_CardinalityType

\* The excess rotate computed never outgrows the rows present.
LEMMA ExcessFitsNext ==
  ASSUME TypeOK, ExcessFits, [Next]_vars
  PROVE  ExcessFits'
<1>1. Cardinality(Present) \in Nat /\ Cardinality(Present') \in Nat
  BY SizesAssumption, FS_Subset, FS_CardinalityType DEF Present
<1>2. CASE RotateCount \/ RotateRecount
  <2>1. Present' = Present
    BY <1>2 DEF RotateCount, RotateRecount, Present, tableVars
  <2>2. QED BY <1>1, <1>2, <2>1, SizesAssumption DEF RotateCount, RotateRecount, RotateIdle, ExcessFits
<1>3. CASE RotateResolved \/ RotatePendingRows
  BY <1>3 DEF RotateResolved, RotatePendingRows, RotateIdle, ExcessFits
<1>4. CASE ~RotateStep
  <2>1. UNCHANGED rotateVars \/ rpc' = "idle"
    BY <1>4 DEF Next, InsertReading, SyncStep, GetUnsynced, AttemptFails, AttemptRefused,
       AttemptAnswered, MarkSynced, MarkFailedPermanent, Register, ProvisionCloud, ReloadConfig,
       Restart, RotateIdle, vars, rotateVars
  <2>2. Cardinality(Present') >= Cardinality(Present)
    BY <1>4, OthersKeepRows
  <2>3. QED BY <1>1, <2>1, <2>2, SizesAssumption DEF ExcessFits, TypeOK, rotateVars
<1>5. QED BY <1>2, <1>3, <1>4 DEF RotateStep

\* Rotation never deletes below db_max_rows, whatever runs between its count
\* and its delete (rotate).
THEOREM RotationKeepsLimit == Spec => NeverRotatesBelowLimit
<1>1. Init => ExcessFits
  BY DEF Init, ExcessFits
<1>2. TypeOK /\ ExcessFits /\ [Next]_vars => ExcessFits'
  BY ExcessFitsNext
<1>3. TypeOK /\ ExcessFits /\ [Next]_vars
        => [(\E r \in Reading : row[r] # row'[r] /\ row'[r] = "deleted")
              => Cardinality(Present') >= DbMaxRows]_vars
  <2> SUFFICES ASSUME TypeOK, ExcessFits, [Next]_vars,
                      NEW r \in Reading, row[r] # row'[r], row'[r] = "deleted"
               PROVE  Cardinality(Present') >= DbMaxRows
    OBVIOUS
  <2>1. RotateResolved \/ RotatePendingRows
    BY DEF Next, InsertReading, SyncStep, GetUnsynced, AttemptFails, AttemptRefused,
       AttemptAnswered, MarkSynced, MarkFailedPermanent, Mark, RotateStep, RotateCount,
       RotateRecount, Register, ProvisionCloud, ReloadConfig, Restart, vars, tableVars, TypeOK
  <2>2. CASE RotateResolved
    <3>1. PICK D \in OldestOf(ResolvedRows, excess) : Delete(D)
      BY <2>2 DEF RotateResolved
    <3>2. ResolvedRows \in SUBSET Present
      BY DEF ResolvedRows, Resolved, Present
    <3>3. excess \in Nat /\ excess + DbMaxRows <= Cardinality(Present)
      BY <2>2 DEF RotateResolved, ExcessFits, TypeOK
    <3>4. QED BY <3>1, <3>2, <3>3, DeleteLeaves
  <2>3. CASE RotatePendingRows
    <3>1. PICK D \in OldestOf(Pending, excess) : Delete(D)
      BY <2>3 DEF RotatePendingRows
    <3>2. Pending \in SUBSET Present
      BY DEF Pending, Present
    <3>3. excess \in Nat /\ excess + DbMaxRows <= Cardinality(Present)
      BY <2>3 DEF RotatePendingRows, ExcessFits, TypeOK
    <3>4. QED BY <3>1, <3>2, <3>3, DeleteLeaves
  <2>4. QED BY <2>1, <2>2, <2>3
<1>4. QED BY <1>1, <1>2, <1>3, TypeCorrect, PTL DEF Spec, NeverRotatesBelowLimit

=============================================================================
