---------------------------- MODULE Registration ----------------------------
(* How a unit becomes known to the cloud and keeps the key it uploads with.   *)
(*                                                                            *)
(* Two programs share the data directory: the firmware ("fw") and whoever     *)
(* runs the one attempt after a join ("win": the Service Window, or the       *)
(* captive portal).  Both may create the identity seed at first boot (one     *)
(* file lock, a temporary file, a rename); both POST /v2/devices/register;    *)
(* both write the key file, config.yaml and device-register.json, each with   *)
(* a write of its own.  The firmware uploads from several threads with the    *)
(* key it holds in memory; the first 401 makes that thread take the key off   *)
(* the unit.                                                                  *)
EXTENDS Naturals, Functions

CONSTANTS Seeds,       \* identities an Ed25519 generator may draw
          NoSeed,      \* no seed: an absent file
          Foreign,     \* the identity of an earlier card, in the cloud's record
          Threads,     \* how many threads of the firmware call the cloud
          Changes,     \* bound: keys issued over a valid one, and owners who release the unit
          Kicks,       \* bound: attempts by the other program
          Troubles     \* bound: lost answers, failed writes of config.yaml, kills, power cuts

ASSUME RegistrationAssumption ==
    /\ NoSeed \notin Seeds /\ Foreign \notin Seeds /\ NoSeed # Foreign /\ "torn" \notin Seeds
    /\ {Threads, Changes, Kicks, Troubles} \subseteq Nat

Procs == {"fw", "win"}
Nobody == "nobody"
Keys == 0 .. Changes + 1      \* 0: no key
Idle == [pc |-> "idle", ans |-> "none", key |-> 0, timely |-> TRUE]

VARIABLES seed,     \* device-ed25519.key
          tmp,      \* device-ed25519.key.tmp: a seed, "torn", or NoSeed
          loose,    \* the last rename is not on the medium yet
          keylock,  \* who holds device-ed25519.key.lock
          making,   \* per program: where it is in the read-or-create
          drawn,    \* per program: the seed it has just generated
          pk,       \* per program: the identity it has been given
          up,       \* per program: running
          reg,      \* device-register.json, its status
          offset,   \* device-register.json, ts_offset_ms
          file,     \* device-http.key
          cfg,      \* config.yaml: [key: api_key, on: cloud_enabled]
          mem,      \* the firmware's memory: [key: CloudClient._api_key, on: settings]
          att,      \* per program: its registration attempt
          req,      \* per key: how many requests in flight carry it
          rev,      \* the thread inside note_http_key_revoked: its step, what it saw
          skew,     \* server time minus the unit's clock
          cloud,    \* [pk, claimed, live, issued]
          left      \* what is left of every bound

identity == <<seed, tmp, loose, keylock, making, drawn, pk>>
stored == <<reg, offset, file, cfg>>
vars == <<identity, stored, up, mem, att, req, rev, skew, cloud, left>>

NoRev == [at |-> "none", had |-> FALSE]
NoRequests == [k \in Keys |-> 0]
Spend(what) == left[what] > 0 /\ left' = [left EXCEPT ![what] = @ - 1]
Stage(p, pc) == att' = [att EXCEPT ![p].pc = pc]

Init ==
    /\ seed = NoSeed /\ tmp = NoSeed /\ loose = FALSE /\ keylock = Nobody
    /\ making = [p \in Procs |-> "boot"] /\ drawn = [p \in Procs |-> NoSeed]
    /\ pk = [p \in Procs |-> NoSeed] /\ up = [p \in Procs |-> TRUE]
    /\ reg = "pending" /\ offset = 0 /\ file = 0
    /\ cfg = [key |-> 0, on |-> FALSE] /\ mem = cfg
    /\ att = [p \in Procs |-> Idle] /\ req = NoRequests /\ rev = NoRev
    /\ skew = 1
    /\ cloud \in [pk : {NoSeed, Foreign}, claimed : {FALSE}, live : {0}, issued : {0}]
    /\ left = [changes |-> Changes, kicks |-> Kicks, troubles |-> Troubles]

-----------------------------------------------------------------------------
(* The identity seed.  The lock covers the whole read-or-create.              *)
\* As it would be without the file lock.
LockIgnored(p) == TRUE

LockFree(p) == keylock \in {Nobody, p}

\* A seed on the card, or a whole one a crash left in the temporary file.
ReadIdentity(p) ==
    /\ up[p] /\ making[p] = "boot" /\ LockFree(p)
    /\ \/ seed # NoSeed /\ UNCHANGED <<seed, tmp, loose>>
       \/ seed = NoSeed /\ tmp \in Seeds
          /\ seed' = tmp /\ tmp' = NoSeed /\ loose' = TRUE
    /\ making' = [making EXCEPT ![p] = "done"]
    /\ pk' = [pk EXCEPT ![p] = seed']
    /\ UNCHANGED <<keylock, drawn, stored, up, mem, att, req, rev, skew, cloud, left>>

\* Nothing usable: a seed never seen before is drawn, the temporary file opened for it.
NewSeed == CHOOSE s \in Seeds : s # cloud.pk /\ \A q \in Procs : s \notin {drawn[q], pk[q]}

DrawIdentity(p) ==
    /\ up[p] /\ making[p] = "boot" /\ LockFree(p)
    /\ seed = NoSeed /\ tmp \notin Seeds
    /\ drawn' = [drawn EXCEPT ![p] = NewSeed]
    /\ tmp' = "torn" /\ keylock' = p
    /\ making' = [making EXCEPT ![p] = "write"]
    /\ UNCHANGED <<seed, loose, pk, stored, up, mem, att, req, rev, skew, cloud, left>>

WriteIdentity(p) ==
    /\ up[p] /\ making[p] = "write"
    /\ tmp' = drawn[p]
    /\ making' = [making EXCEPT ![p] = "rename"]
    /\ UNCHANGED <<seed, loose, keylock, drawn, pk, stored, up, mem, att, req, rev, skew, cloud, left>>

RenameIdentity(p) ==
    /\ up[p] /\ making[p] = "rename" /\ tmp \in Seeds
    /\ seed' = tmp /\ tmp' = NoSeed /\ loose' = TRUE
    /\ making' = [making EXCEPT ![p] = "sync"]
    /\ UNCHANGED <<keylock, drawn, pk, stored, up, mem, att, req, rev, skew, cloud, left>>

\* The directory is synced (an error is only logged), the file read back, the lock given up.
SyncIdentity(p) ==
    /\ up[p] /\ making[p] = "sync"
    /\ loose' \in {FALSE, loose}
    /\ pk' = [pk EXCEPT ![p] = seed] /\ keylock' = Nobody
    /\ making' = [making EXCEPT ![p] = "done"] /\ drawn' = [drawn EXCEPT ![p] = NoSeed]
    /\ UNCHANGED <<seed, tmp, stored, up, mem, att, req, rev, skew, cloud, left>>

-----------------------------------------------------------------------------
(* One registration attempt.                                                  *)

\* attempt_register asks for nothing after a conflict, or with a key in hand.
Wanted == reg # "conflict" /\ ~(reg = "registered" /\ file # 0)

Ask(p) ==
    /\ up[p] /\ making[p] = "done" /\ att[p].pc = "idle" /\ Wanted
    /\ pk' = [pk EXCEPT ![p] = seed]
    /\ att' = [att EXCEPT ![p] = [Idle EXCEPT !.pc = "asked", !.timely = (skew = offset)]]
    /\ UNCHANGED <<seed, tmp, loose, keylock, making, drawn, stored, up, mem, req, rev, skew, cloud>>

WorkerAsks == Ask("fw") /\ UNCHANGED left
KickAsks == Ask("win") /\ Spend("kicks")

Answered(p, ans, key) ==
    att' = [att EXCEPT ![p].pc = "answered", ![p].ans = ans, ![p].key = key]

\* The cloud's side: what it makes of a POST that reaches it.
Judge(p) ==
    \/ ~att[p].timely /\ Answered(p, "stale", 0) /\ UNCHANGED <<cloud, left>>
    \/ att[p].timely /\ cloud.pk \notin {NoSeed, pk[p]}
       /\ Answered(p, "conflict", 0) /\ UNCHANGED <<cloud, left>>
    \/ att[p].timely /\ cloud.pk \in {NoSeed, pk[p]} /\ ~cloud.claimed
       /\ Answered(p, "wait", 0) /\ UNCHANGED <<cloud, left>>
    \/ att[p].timely /\ cloud.pk = pk[p] /\ cloud.claimed /\ cloud.live # 0
       /\ Answered(p, "key", cloud.live) /\ UNCHANGED <<cloud, left>>
    \/ /\ att[p].timely /\ cloud.pk \in {NoSeed, pk[p]} /\ cloud.claimed
       /\ IF cloud.live = 0 THEN UNCHANGED left ELSE Spend("changes")
       /\ cloud' = [cloud EXCEPT !.pk = pk[p], !.live = cloud.issued + 1, !.issued = @ + 1]
       /\ Answered(p, "key", cloud.issued + 1)

CloudAnswers(p) ==
    /\ att[p].pc = "asked" /\ Judge(p)
    /\ UNCHANGED <<identity, stored, up, mem, req, rev, skew>>

\* No answer, a 5xx, a 200 without a key: the cloud may still have acted on the POST.
AnswerLost(p) ==
    /\ att[p].pc = "asked" /\ Spend("troubles")
    /\ \E ans \in {"offline", "refused"} : Answered(p, ans, 0)
    /\ \/ UNCHANGED cloud
       \/ /\ att[p].timely /\ cloud.pk = pk[p] /\ cloud.claimed /\ cloud.live = 0
          /\ cloud' = [cloud EXCEPT !.live = cloud.issued + 1, !.issued = @ + 1]
    /\ UNCHANGED <<identity, stored, up, mem, req, rev, skew>>

\* An answer without a key is one write of the register state.
StatusOf(ans) == CASE ans = "conflict" -> "conflict"
                   [] ans = "refused" -> "error"
                   [] OTHER -> "pending"

Record(p) ==
    /\ up[p] /\ att[p].pc = "answered" /\ att[p].ans # "key"
    /\ reg' = StatusOf(att[p].ans)
    /\ offset' = IF att[p].ans = "stale" THEN skew ELSE offset
    /\ att' = [att EXCEPT ![p] = Idle]
    /\ UNCHANGED <<identity, file, cfg, up, mem, req, rev, skew, cloud, left>>

StoreKey(p) ==
    /\ up[p] /\ att[p].pc = "answered" /\ att[p].ans = "key"
    /\ file' = att[p].key /\ Stage(p, "stored")
    /\ UNCHANGED <<identity, reg, offset, cfg, up, mem, req, rev, skew, cloud, left>>

ConfigKey(p) ==
    /\ up[p] /\ att[p].pc = "stored" /\ Stage(p, "configured")
    /\ \/ cfg' = [key |-> att[p].key, on |-> TRUE] /\ UNCHANGED left
       \/ Spend("troubles") /\ UNCHANGED cfg
    /\ UNCHANGED <<identity, reg, offset, file, up, mem, req, rev, skew, cloud>>

\* Only the firmware's own worker hands the key to the running CloudClient.
MarkRegistered(p) ==
    /\ up[p] /\ att[p].pc = "configured" /\ reg' = "registered"
    /\ att' = [att EXCEPT ![p] = IF p = "fw" THEN [Idle EXCEPT !.pc = "attach"] ELSE Idle]
    /\ UNCHANGED <<identity, offset, file, cfg, up, mem, req, rev, skew, cloud, left>>

AttachKey ==
    /\ up["fw"] /\ att["fw"].pc = "attach"
    /\ mem' = IF file = 0 THEN mem ELSE [key |-> file, on |-> cfg.on]
    /\ att' = [att EXCEPT !["fw"] = Idle]
    /\ UNCHANGED <<identity, stored, up, req, rev, skew, cloud, left>>

-----------------------------------------------------------------------------
(* The firmware's requests, and the key taken away.                           *)
Calling == FoldFunction(+, IF rev = NoRev THEN 0 ELSE 1, req)

Send ==
    /\ up["fw"] /\ mem.on /\ mem.key # 0 /\ Calling < Threads
    /\ req' = [req EXCEPT ![mem.key] = @ + 1]
    /\ UNCHANGED <<identity, stored, up, mem, att, rev, skew, cloud, left>>

Accepted ==
    /\ cloud.live # 0 /\ req[cloud.live] > 0
    /\ req' = [req EXCEPT ![cloud.live] = @ - 1]
    /\ UNCHANGED <<identity, stored, up, mem, att, rev, skew, cloud, left>>

\* As it would be if a 401 only emptied the memory.
DeniedQuietly ==
    /\ \E k \in Keys \ {cloud.live} : req[k] > 0 /\ req' = [req EXCEPT ![k] = @ - 1]
    /\ mem' = [mem EXCEPT !.key = 0]
    /\ UNCHANGED <<identity, stored, up, att, rev, skew, cloud, left>>

\* A 401 takes the key in memory, whichever key the request carried; with none there, nothing more.
Denied ==
    /\ \E k \in Keys \ {cloud.live} : req[k] > 0 /\ req' = [req EXCEPT ![k] = @ - 1]
    /\ \/ mem.key = 0 /\ UNCHANGED <<mem, rev>>
       \/ /\ mem.key # 0 /\ rev = NoRev
          /\ mem' = [mem EXCEPT !.key = 0] /\ rev' = [NoRev EXCEPT !.at = "file"]
    /\ UNCHANGED <<identity, stored, up, att, skew, cloud, left>>

ClearFile ==
    /\ rev.at = "file"
    /\ file' = 0 /\ rev' = [rev EXCEPT !.at = "config", !.had = (file # 0)]
    /\ UNCHANGED <<identity, reg, offset, cfg, up, mem, att, req, skew, cloud, left>>

ClearConfig ==
    /\ rev.at = "config" /\ rev' = [rev EXCEPT !.at = "state"]
    /\ \/ cfg' = [cfg EXCEPT !.key = 0] /\ UNCHANGED left
       \/ Spend("troubles") /\ UNCHANGED cfg
    /\ UNCHANGED <<identity, reg, offset, file, up, mem, att, req, skew, cloud>>

\* Pending again, due at once; with no key and already pending there is nothing to write.
ClearState ==
    /\ rev.at = "state" /\ rev' = NoRev
    /\ reg' = IF ~rev.had /\ reg = "pending" THEN reg ELSE "pending"
    /\ UNCHANGED <<identity, offset, file, cfg, up, mem, att, req, skew, cloud, left>>

-----------------------------------------------------------------------------
(* Programs stop and start; the cloud's owner changes its mind.               *)
FwForgets == mem' = [key |-> 0, on |-> FALSE] /\ req' = NoRequests /\ rev' = NoRev

\* What a half-written temporary file turns out to hold.
TmpAfter(p) == IF making[p] = "write" THEN {"torn", drawn[p]} ELSE {tmp}

Kill(p) ==
    /\ up[p] /\ Spend("troubles")
    /\ up' = [up EXCEPT ![p] = FALSE]
    /\ making' = [making EXCEPT ![p] = "boot"] /\ drawn' = [drawn EXCEPT ![p] = NoSeed]
    /\ pk' = [pk EXCEPT ![p] = NoSeed] /\ att' = [att EXCEPT ![p] = Idle]
    /\ tmp' \in TmpAfter(p)
    /\ keylock' = IF keylock = p THEN Nobody ELSE keylock
    /\ IF p = "fw" THEN FwForgets ELSE UNCHANGED <<mem, req, rev>>
    /\ UNCHANGED <<seed, loose, stored, skew, cloud>>

\* A rename that is not on the medium is kept or undone; an unsynced file is anything.
PowerCut ==
    /\ Spend("troubles")
    /\ \/ UNCHANGED seed
          /\ \/ tmp = "torn" /\ tmp' \in {NoSeed, "torn"}
             \/ \E p \in Procs : tmp' \in TmpAfter(p)
       \/ loose /\ seed' = NoSeed /\ tmp' = seed
    /\ loose' = FALSE /\ keylock' = Nobody
    /\ up' = [p \in Procs |-> FALSE] /\ making' = [p \in Procs |-> "boot"]
    /\ drawn' = [p \in Procs |-> NoSeed] /\ pk' = [p \in Procs |-> NoSeed]
    /\ att' = [p \in Procs |-> Idle] /\ FwForgets
    /\ UNCHANGED <<stored, skew, cloud>>

\* At start the firmware takes the key from config.yaml, else from the key file.
Boot(p) ==
    /\ ~up[p] /\ up' = [up EXCEPT ![p] = TRUE]
    /\ mem' = IF p = "fw" THEN [key |-> IF cfg.key # 0 THEN cfg.key ELSE file, on |-> cfg.on]
              ELSE mem
    /\ UNCHANGED <<identity, stored, att, req, rev, skew, cloud, left>>

NtpSteps ==
    /\ skew # 0 /\ skew' = 0
    /\ UNCHANGED <<identity, stored, up, mem, att, req, rev, cloud, left>>

Claim ==
    /\ ~cloud.claimed /\ cloud' = [cloud EXCEPT !.claimed = TRUE]
    /\ UNCHANGED <<identity, stored, up, mem, att, req, rev, skew, left>>

Unclaim ==
    /\ cloud.claimed /\ Spend("changes")
    /\ cloud' = [cloud EXCEPT !.claimed = FALSE, !.live = 0]
    /\ UNCHANGED <<identity, stored, up, mem, att, req, rev, skew>>

\* Support releases the identity of the earlier card.
Release ==
    /\ cloud.pk = Foreign /\ cloud' = [cloud EXCEPT !.pk = NoSeed]
    /\ UNCHANGED <<identity, stored, up, mem, att, req, rev, skew, left>>

MakesIdentity(p) ==
    ReadIdentity(p) \/ DrawIdentity(p) \/ WriteIdentity(p) \/ RenameIdentity(p) \/ SyncIdentity(p)
Attempts(p) == Record(p) \/ StoreKey(p) \/ ConfigKey(p) \/ MarkRegistered(p)
Runs(p) == MakesIdentity(p) \/ CloudAnswers(p) \/ Attempts(p) \/ Boot(p)
Revokes == ClearFile \/ ClearConfig \/ ClearState

Next ==
    \/ \E p \in Procs : Runs(p) \/ AnswerLost(p) \/ Kill(p)
    \/ WorkerAsks \/ KickAsks \/ AttachKey
    \/ Send \/ Accepted \/ Denied \/ Revokes
    \/ PowerCut \/ NtpSteps \/ Claim \/ Unclaim \/ Release

Spec == Init /\ [][Next]_vars

(* Fairness: a started program runs its steps (systemd starts it again after  *)
(* a stop); a POST is answered or times out after REQUEST_TIMEOUT_S; the      *)
(* register worker asks again when its backoff is over.  Nothing is assumed   *)
(* of claims, kicks, faults or the clock.                                     *)
FairSpec ==
    /\ Spec
    /\ \A p \in Procs : WF_vars(Runs(p))
    /\ WF_vars(WorkerAsks) /\ WF_vars(AttachKey)
    /\ WF_vars(Send) /\ WF_vars(Accepted) /\ WF_vars(Denied) /\ WF_vars(Revokes)
-----------------------------------------------------------------------------
TypeOK ==
    /\ seed \in Seeds \cup {NoSeed} /\ tmp \in Seeds \cup {NoSeed, "torn"} /\ loose \in BOOLEAN
    /\ keylock \in Procs \cup {Nobody}
    /\ making \in [Procs -> {"boot", "write", "rename", "sync", "done"}]
    /\ drawn \in [Procs -> Seeds \cup {NoSeed}] /\ pk \in [Procs -> Seeds \cup {NoSeed}]
    /\ up \in [Procs -> BOOLEAN]
    /\ reg \in {"pending", "registered", "conflict", "error"} /\ offset \in {0, 1}
    /\ file \in Keys /\ cfg \in [key : Keys, on : BOOLEAN] /\ mem \in [key : Keys, on : BOOLEAN]
    /\ req \in [Keys -> 0 .. Threads] /\ skew \in {0, 1}
    /\ rev \in [at : {"none", "file", "config", "state"}, had : BOOLEAN]
    /\ cloud \in [pk : Seeds \cup {NoSeed, Foreign}, claimed : BOOLEAN, live : Keys, issued : Keys]

\* The identity the next reader gets, now or after the power is cut.
OnCard == IF seed # NoSeed THEN seed ELSE tmp

(* OneIdentity: an identity a program has been given, or the cloud has        *)
(* bound, is the one on the card, whichever program was first, was killed on  *)
(* the way, or lost its power: the unit never registers an identity it does   *)
(* not hold (ensure_keypair, sign_bytes).                                     *)
OneIdentity ==
    /\ \A p \in Procs : pk[p] # NoSeed => pk[p] = OnCard
    /\ cloud.pk \in Seeds => cloud.pk = OnCard

(* ImplementsIdentity: stronger, the read-or-create keeps the promise of      *)
(* UnitIdentity: once the card holds a whole seed, renamed or not, it is the  *)
(* unit's for good, and nobody is given or binds another one (ensure_keypair, *)
(* sign_bytes).                                                               *)
Identity == INSTANCE UnitIdentity WITH
    Id    <- Seeds,
    held  <- {s \in Seeds : s = OnCard},
    given <- {pk[p] : p \in Procs} \ {NoSeed},
    bound <- {s \in Seeds : s = cloud.pk}

ImplementsIdentity == Identity!Spec

Online == up["fw"] /\ mem.on /\ mem.key # 0 /\ mem.key = cloud.live
Settled == cloud.claimed /\ cloud.pk # Foreign
NoKick == left.kicks = Kicks

(* AloneItUploads: a unit whose owner has claimed it, that nobody else        *)
(* registers, ends up uploading for good with the key the cloud holds valid:  *)
(* through releases, rotations, lost answers, a wrong clock, late 401s that   *)
(* take a fresh key, kills and power cuts between any two writes.             *)
(* config.yaml must say cloud_enabled in the end: a failed write of it is     *)
(* only logged (_persist_http_key) and never repeated.                        *)
AloneItUploads ==
    (<>[]Settled /\ [](NoKick /\ cloud.pk # Foreign) /\ <>[](cfg.on)) => <>[]Online

(* AStartHeals: whatever the other program's attempt left in the files (an    *)
(* older key over a newer one, a status that fits neither), a firmware that   *)
(* is started once it is over gets online by itself: a key the cloud refuses  *)
(* is taken off the unit everywhere and asked for again.                      *)
Over == /\ Settled /\ left.changes = 0 /\ cfg.on /\ reg # "conflict"
        /\ left.kicks = 0 /\ att["win"].pc = "idle"
AStartHeals == (Over /\ ~up["fw"]) ~> Online

(* UploadsAtLast: both of them (register.py, DeviceRegisterWorker,            *)
(* note_http_key_revoked).                                                  *)
UploadsAtLast == AloneItUploads /\ AStartHeals

(* What the documents say and the code does not do.                           *)

(* KeyOnDiskIsUsed: a valid key on the unit is used.  The worker asks for and *)
(* attaches a key only in its own attempt.                                    *)
KeyOnDiskIsUsed ==
    <>[](Settled /\ cfg.on /\ up["fw"] /\ file # 0 /\ file = cloud.live) => <>Online

(* CloudRecovers: after a conflict, releasing the earlier identity in the     *)
(* cloud lets this card in.                                                   *)
CloudRecovers == <>[]Settled => <>(file # 0)

(* FreshKeySurvives: what a 401 takes off the card is not a valid key.        *)
FreshKeySurvives == [][file = cloud.live /\ file # 0 => file' # 0]_vars
=============================================================================
