-------------------------- MODULE CommissioningProofs -------------------------
(***************************************************************************)
(* A unit that is commissioned: the identity it makes, for every set of     *)
(* seeds a generator may draw, any number of keys, kills and power cuts;     *)
(* and the radio it is joined with, for every set of networks, any number    *)
(* of joins, faults and power cuts.                                        *)
(***************************************************************************)
EXTENDS Registration, WifiSetup, TLAPS

(***************************************************************************)
(* The identity.                                                           *)
(***************************************************************************)

\* A program that makes an identity holds the lock, and nobody has been given
\* one yet: not a program, and not the cloud.
MakingInv ==
    /\ making \in [Procs -> {"boot", "write", "rename", "sync", "done"}]
    /\ \A p \in Procs : making[p] \in {"write", "rename", "sync"} => keylock = p
    /\ \A p \in Procs : making[p] \in {"write", "rename"} =>
          seed = NoSeed /\ cloud.pk \notin Seeds /\ \A q \in Procs : pk[q] = NoSeed
    /\ \A p \in Procs : making[p] \in {"sync", "done"} => seed \in Seeds

CardInv ==
    /\ seed \in Seeds \cup {NoSeed}
    /\ loose => seed \in Seeds
    /\ pk \in [Procs -> Seeds \cup {NoSeed}]
    /\ cloud = [pk |-> cloud.pk, claimed |-> cloud.claimed, live |-> cloud.live, issued |-> cloud.issued]

IdInv == MakingInv /\ CardInv /\ OneIdentity

\* Nobody works on an identity yet, and the cloud has bound none.
LEMMA IdInit == Init => IdInv
BY RegistrationAssumption DEF Init, IdInv, MakingInv, CardInv, OneIdentity, Procs

\* A program that may take the lock finds nobody at work on an identity.
LEMMA LockExcludes ==
    ASSUME IdInv, NEW p \in Procs, making[p] = "boot", LockFree(p)
    PROVE  \A q \in Procs : making[q] \notin {"write", "rename", "sync"}
BY DEF IdInv, MakingInv, LockFree, Procs, Nobody

\* The read-or-create under the lock.
LEMMA MakesStep ==
    ASSUME IdInv, NEW p \in Procs, MakesIdentity(p)
    PROVE  IdInv'
<1>1. cloud' = cloud
    BY DEF MakesIdentity, ReadIdentity, DrawIdentity, WriteIdentity, RenameIdentity, SyncIdentity
<1>2. CASE ReadIdentity(p)
    <2>1. /\ \A q \in Procs : making[q] \notin {"write", "rename", "sync"}
          /\ making' = [making EXCEPT ![p] = "done"] /\ pk' = [pk EXCEPT ![p] = seed']
        BY <1>2, LockExcludes DEF ReadIdentity
    <2>2. seed' \in Seeds /\ seed' = OnCard
        BY <1>2 DEF ReadIdentity, OnCard, IdInv, CardInv
    <2>3. MakingInv'  BY <2>1, <2>2 DEF IdInv, MakingInv
    <2>4. CardInv'  BY <1>1, <2>1, <2>2 DEF IdInv, CardInv
    <2>5. OnCard' = OnCard  BY <2>2, RegistrationAssumption DEF OnCard
    <2>6. OneIdentity'  BY <1>1, <2>1, <2>2, <2>5 DEF IdInv, CardInv, OneIdentity
    <2>. QED  BY <2>3, <2>4, <2>6 DEF IdInv
<1>3. CASE DrawIdentity(p)
    <2>1. /\ \A q \in Procs : making[q] \notin {"write", "rename", "sync"}
          /\ making' = [making EXCEPT ![p] = "write"] /\ keylock' = p
          /\ seed = NoSeed /\ tmp \notin Seeds /\ UNCHANGED <<seed, loose, pk>>
        BY <1>3, LockExcludes DEF DrawIdentity
    <2>2. cloud.pk \notin Seeds /\ \A q \in Procs : pk[q] = NoSeed
        BY <2>1 DEF IdInv, CardInv, OneIdentity, OnCard
    <2>3. MakingInv'  BY <1>1, <2>1, <2>2, RegistrationAssumption DEF IdInv, MakingInv
    <2>4. OneIdentity'  BY <1>1, <2>1, <2>2 DEF OneIdentity
    <2>. QED  BY <1>1, <2>1, <2>3, <2>4 DEF IdInv, CardInv
<1>4. CASE WriteIdentity(p)
    <2>1. /\ making[p] = "write" /\ making' = [making EXCEPT ![p] = "rename"]
          /\ UNCHANGED <<seed, loose, keylock, pk>>
        BY <1>4 DEF WriteIdentity
    <2>2. MakingInv'  BY <1>1, <2>1, RegistrationAssumption DEF IdInv, MakingInv
    <2>3. OneIdentity'  BY <1>1, <2>1 DEF IdInv, MakingInv, OneIdentity
    <2>. QED  BY <1>1, <2>1, <2>2, <2>3 DEF IdInv, CardInv
<1>5. CASE RenameIdentity(p)
    <2>1. /\ making[p] = "rename" /\ making' = [making EXCEPT ![p] = "sync"]
          /\ seed' \in Seeds /\ UNCHANGED <<keylock, pk>>
        BY <1>5 DEF RenameIdentity
    <2>2. \A q \in Procs : q # p => making[q] \notin {"write", "rename", "sync"}
        BY <2>1 DEF IdInv, MakingInv
    <2>3. MakingInv'  BY <1>1, <2>1, <2>2 DEF IdInv, MakingInv
    <2>4. OneIdentity'  BY <1>1, <2>1 DEF IdInv, MakingInv, OneIdentity
    <2>. QED  BY <1>1, <2>1, <2>3, <2>4 DEF IdInv, CardInv
<1>6. CASE SyncIdentity(p)
    <2>1. /\ making[p] = "sync" /\ making' = [making EXCEPT ![p] = "done"]
          /\ pk' = [pk EXCEPT ![p] = seed] /\ UNCHANGED <<seed, tmp>>
        BY <1>6 DEF SyncIdentity
    <2>2. seed \in Seeds  BY <2>1 DEF IdInv, MakingInv
    <2>3. \A q \in Procs : q # p => making[q] \notin {"write", "rename", "sync"}
        BY <2>1 DEF IdInv, MakingInv
    <2>4. MakingInv'  BY <2>1, <2>2, <2>3 DEF IdInv, MakingInv
    <2>5. OneIdentity'
        BY <1>1, <2>1, <2>2, RegistrationAssumption DEF IdInv, CardInv, OneIdentity, OnCard
    <2>. QED  BY <1>1, <2>1, <2>2, <2>4, <2>5 DEF IdInv, CardInv
<1>. QED  BY <1>2, <1>3, <1>4, <1>5, <1>6 DEF MakesIdentity

\* An attempt reads the seed again, and never without one.
LEMMA AskStep ==
    ASSUME IdInv, NEW p \in Procs, Ask(p)
    PROVE  IdInv'
<1>1. /\ making[p] = "done" /\ pk' = [pk EXCEPT ![p] = seed]
      /\ UNCHANGED <<seed, tmp, loose, keylock, making, cloud>>
    BY DEF Ask
<1>2. seed \in Seeds  BY <1>1 DEF IdInv, MakingInv
<1>3. OneIdentity'
    BY <1>1, <1>2, RegistrationAssumption DEF IdInv, CardInv, OneIdentity, OnCard
<1>. QED  BY <1>1, <1>2, <1>3, RegistrationAssumption DEF IdInv, MakingInv, CardInv

\* The cloud binds the identity of a program that asked, or none.
LEMMA CloudStep ==
    ASSUME IdInv, UNCHANGED identity,
           cloud' = [pk |-> cloud'.pk, claimed |-> cloud'.claimed, live |-> cloud'.live, issued |-> cloud'.issued],
           cloud'.pk \in Seeds => cloud'.pk = cloud.pk \/ \E p \in Procs : cloud'.pk = pk[p]
    PROVE  IdInv'
<1>1. OnCard' = OnCard  BY DEF identity, OnCard
<1>2. cloud'.pk \in Seeds => cloud'.pk = OnCard
    BY RegistrationAssumption DEF IdInv, OneIdentity
<1>3. OneIdentity'  BY <1>1, <1>2 DEF IdInv, OneIdentity, identity
<1>4. MakingInv'
    BY RegistrationAssumption DEF IdInv, MakingInv, identity
<1>. QED  BY <1>3, <1>4 DEF IdInv, CardInv, identity

\* Answers of the cloud and claims of the owner touch no identity.
LEMMA CloudSideStep ==
    ASSUME IdInv, NEW p \in Procs, CloudAnswers(p) \/ AnswerLost(p) \/ Claim \/ Unclaim \/ Release
    PROVE  IdInv'
<1>1. UNCHANGED identity
    BY DEF CloudAnswers, AnswerLost, Claim, Unclaim, Release
<1>2. /\ cloud' = [pk |-> cloud'.pk, claimed |-> cloud'.claimed, live |-> cloud'.live, issued |-> cloud'.issued]
      /\ cloud'.pk \in {cloud.pk, pk[p], NoSeed}
    <2>1. cloud = [pk |-> cloud.pk, claimed |-> cloud.claimed, live |-> cloud.live, issued |-> cloud.issued]
        BY DEF IdInv, CardInv
    <2>2. CASE CloudAnswers(p)  BY <2>1, <2>2 DEF CloudAnswers, Judge
    <2>3. CASE AnswerLost(p)  BY <2>1, <2>3 DEF AnswerLost
    <2>4. CASE Claim  BY <2>1, <2>4 DEF Claim
    <2>5. CASE Unclaim  BY <2>1, <2>5 DEF Unclaim
    <2>6. CASE Release  BY <2>1, <2>6 DEF Release
    <2>. QED  BY <2>2, <2>3, <2>4, <2>5, <2>6
<1>. QED  BY <1>1, <1>2, CloudStep, RegistrationAssumption

\* A program is killed: what it was writing may be on the card or not.
LEMMA KillStep ==
    ASSUME IdInv, NEW p \in Procs, Kill(p)
    PROVE  IdInv'
<1>1. /\ making' = [making EXCEPT ![p] = "boot"] /\ pk' = [pk EXCEPT ![p] = NoSeed]
      /\ tmp' \in TmpAfter(p) /\ keylock' = IF keylock = p THEN Nobody ELSE keylock
      /\ UNCHANGED <<seed, loose, cloud>>
    BY DEF Kill
<1>2. MakingInv'  BY <1>1 DEF IdInv, MakingInv, CardInv
<1>3. OneIdentity'
    <2>1. CASE making[p] = "write"
        BY <1>1, <2>1 DEF IdInv, MakingInv, CardInv, OneIdentity
    <2>2. CASE making[p] # "write"
        <3>1. OnCard' = OnCard  BY <1>1, <2>2 DEF TmpAfter, OnCard
        <3>. QED  BY <1>1, <3>1 DEF IdInv, CardInv, OneIdentity
    <2>. QED  BY <2>1, <2>2
<1>. QED  BY <1>1, <1>2, <1>3 DEF IdInv, CardInv

\* The power is cut: a rename that was not on the medium is undone, and then the
\* seed is in the temporary file again.
LEMMA PowerCutStep ==
    ASSUME IdInv, PowerCut
    PROVE  IdInv'
<1>1. /\ making' = [p \in Procs |-> "boot"] /\ pk' = [p \in Procs |-> NoSeed]
      /\ loose' = FALSE /\ cloud' = cloud
    BY DEF PowerCut
<1>2. seed' \in Seeds \cup {NoSeed}  BY DEF PowerCut, IdInv, CardInv
<1>3. cloud.pk \in Seeds => OnCard' = OnCard
    <2>. SUFFICES ASSUME cloud.pk \in Seeds PROVE OnCard' = OnCard
        OBVIOUS
    <2>1. cloud.pk = OnCard  BY DEF IdInv, OneIdentity
    <2>2. CASE loose /\ seed' = NoSeed /\ tmp' = seed
        BY <2>2, RegistrationAssumption DEF IdInv, CardInv, OnCard
    <2>3. CASE seed' = seed /\ tmp = "torn"
        BY <2>1, <2>3, RegistrationAssumption DEF OnCard
    <2>4. ASSUME NEW p \in Procs, seed' = seed, tmp' \in TmpAfter(p) PROVE OnCard' = OnCard
        <3>1. making[p] # "write"  BY DEF IdInv, MakingInv
        <3>. QED  BY <2>4, <3>1 DEF TmpAfter, OnCard
    <2>. QED  BY <2>2, <2>3, <2>4 DEF PowerCut
<1>4. OneIdentity'  BY <1>1, <1>3 DEF IdInv, OneIdentity
<1>. QED  BY <1>1, <1>2, <1>4 DEF IdInv, MakingInv, CardInv

\* The invariant is inductive.
LEMMA IdStep == IdInv /\ [Next]_vars => IdInv'
<1>. SUFFICES ASSUME IdInv, [Next]_vars PROVE IdInv'
    OBVIOUS
<1>1. CASE UNCHANGED <<identity, cloud>>
    BY <1>1 DEF identity, IdInv, MakingInv, CardInv, OneIdentity, OnCard
<1>2. ASSUME NEW p \in Procs, Attempts(p) \/ Boot(p) PROVE IdInv'
    BY <1>1, <1>2 DEF Attempts, Record, StoreKey, ConfigKey, MarkRegistered, Boot
<1>3. CASE WorkerAsks \/ KickAsks
    BY <1>3, AskStep DEF WorkerAsks, KickAsks, Procs
<1>4. CASE AttachKey \/ Send \/ Accepted \/ Denied \/ Revokes \/ NtpSteps
    BY <1>1, <1>4 DEF AttachKey, Send, Accepted, Denied, Revokes, ClearFile, ClearConfig, ClearState, NtpSteps
<1>5. CASE Claim \/ Unclaim \/ Release
    BY <1>5, CloudSideStep DEF Procs
<1>6. CASE UNCHANGED vars
    BY <1>1, <1>6 DEF vars
<1>. QED
    BY <1>2, <1>3, <1>4, <1>5, <1>6, MakesStep, CloudSideStep, KillStep, PowerCutStep DEF Next, Runs

\* The identity a program has been given, or the cloud has bound, is the one on
\* the card: whichever program was first, was killed on the way or lost its
\* power, the unit never registers an identity it does not hold
\* (ensure_keypair, sign_bytes).
THEOREM OnlyOneIdentity == Spec => []OneIdentity
<1>1. IdInv => OneIdentity  BY DEF IdInv
<1>. QED  BY IdInit, IdStep, <1>1, PTL DEF Spec

\* The three sets the promise is about.
Held == {s \in Seeds : s = OnCard}
Shown == {pk[p] : p \in Procs} \ {NoSeed}
Bound == {s \in Seeds : s = cloud.pk}

IdentityStep == [Identity!Next]_<<Held, Shown, Bound>>

\* While a seed is being written the temporary file is torn, so that the card
\* holds no identity.
TornInv == \A p \in Procs : making[p] = "write" => tmp = "torn"

\* A step of the read-or-create leaves a half-written file to the one at work.
LEMMA TornMakes ==
    ASSUME TornInv, IdInv, NEW p \in Procs, MakesIdentity(p)
    PROVE  TornInv'
<1>1. CASE ReadIdentity(p)
    <2>1. /\ \A q \in Procs : making[q] \notin {"write", "rename", "sync"}
          /\ making' = [making EXCEPT ![p] = "done"]
        BY <1>1, LockExcludes DEF ReadIdentity
    <2>. QED  BY <2>1 DEF TornInv, IdInv, MakingInv
<1>2. CASE DrawIdentity(p)
    BY <1>2 DEF DrawIdentity, TornInv
<1>3. CASE WriteIdentity(p) \/ RenameIdentity(p)
    <2>1. /\ making[p] \in {"write", "rename"}
          /\ making' = [making EXCEPT ![p] = "rename"] \/ making' = [making EXCEPT ![p] = "sync"]
        BY <1>3 DEF WriteIdentity, RenameIdentity
    <2>2. \A q \in Procs : q # p => making[q] # "write"
        BY <2>1 DEF IdInv, MakingInv
    <2>3. making \in [Procs -> {"boot", "write", "rename", "sync", "done"}]
        BY DEF IdInv, MakingInv
    <2>. QED  BY <2>1, <2>2, <2>3 DEF TornInv
<1>4. CASE SyncIdentity(p)
    BY <1>4 DEF SyncIdentity, TornInv, IdInv, MakingInv
<1>. QED  BY <1>1, <1>2, <1>3, <1>4 DEF MakesIdentity

\* Nobody else writes the temporary file.
LEMMA TornStep == TornInv /\ IdInv /\ [Next]_vars => TornInv'
<1>. SUFFICES ASSUME TornInv, IdInv, [Next]_vars PROVE TornInv'
    OBVIOUS
<1>1. CASE UNCHANGED <<tmp, making>>
    BY <1>1 DEF TornInv
<1>2. ASSUME NEW p \in Procs, CloudAnswers(p) \/ AnswerLost(p) \/ Attempts(p) \/ Boot(p) PROVE TornInv'
    BY <1>1, <1>2
    DEF CloudAnswers, AnswerLost, Attempts, Record, StoreKey, ConfigKey, MarkRegistered, Boot, identity
<1>3. CASE WorkerAsks \/ KickAsks \/ AttachKey \/ Send \/ Accepted \/ Denied
    BY <1>1, <1>3 DEF WorkerAsks, KickAsks, Ask, AttachKey, Send, Accepted, Denied, identity
<1>4. CASE Revokes \/ NtpSteps \/ Claim \/ Unclaim \/ Release \/ UNCHANGED vars
    BY <1>1, <1>4
    DEF Revokes, ClearFile, ClearConfig, ClearState, NtpSteps, Claim, Unclaim, Release, vars, identity
<1>5. ASSUME NEW p \in Procs, Kill(p) PROVE TornInv'
    <2>1. making' = [making EXCEPT ![p] = "boot"] /\ tmp' \in TmpAfter(p)
        BY <1>5 DEF Kill
    <2>2. making[p] = "write" => \A q \in Procs : q # p => making[q] # "write"
        BY DEF IdInv, MakingInv
    <2>3. making[p] # "write" => tmp' = tmp
        BY <2>1 DEF TmpAfter
    <2>. QED  BY <2>1, <2>2, <2>3 DEF TornInv, IdInv, MakingInv
<1>6. CASE PowerCut
    BY <1>6 DEF PowerCut, TornInv
<1>. QED  BY <1>2, <1>3, <1>4, <1>5, <1>6, TornMakes DEF Next, Runs

\* What leaves the card and the cloud alone shows programs what the card holds.
LEMMA ReadingStep ==
    ASSUME IdInv', Held' = Held, cloud'.pk = cloud.pk
    PROVE  IdentityStep
<1>1. Shown' \subseteq Held'
    <2>1. \A p \in Procs : pk'[p] # NoSeed => pk'[p] \in Seeds /\ pk'[p] = OnCard'
        BY DEF IdInv, CardInv, OneIdentity
    <2>. QED  BY <2>1 DEF Shown, Held
<1>2. Bound' = Bound  BY DEF Bound
<1>. QED  BY <1>1, <1>2 DEF IdentityStep, Identity!Next, Identity!Read, Held, Shown, Bound

\* A seed is on the card whole for the first time, or still none is.
LEMMA DrawingStep ==
    ASSUME Held = {}, UNCHANGED <<Shown, Bound>>
    PROVE  IdentityStep
<1>1. CASE Held' = {}
    BY <1>1 DEF IdentityStep
<1>2. CASE \E i \in Seeds : Held' = {i}
    BY <1>2 DEF IdentityStep, Identity!Next, Identity!Draw, Held, Shown, Bound
<1>3. Held' = {} \/ \E i \in Seeds : Held' = {i}
    BY DEF Held
<1>. QED  BY <1>1, <1>2, <1>3

\* At a torn file nobody has been given an identity.
LEMMA TornHoldsNone ==
    ASSUME TornInv, IdInv, NEW p \in Procs, making[p] = "write"
    PROVE  Held = {} /\ Shown = {} /\ \A q \in Procs : pk[q] = NoSeed
<1>1. seed = NoSeed /\ tmp = "torn" /\ \A q \in Procs : pk[q] = NoSeed
    BY DEF TornInv, IdInv, MakingInv
<1>. QED  BY <1>1, RegistrationAssumption DEF Held, Shown, OnCard

\* The read-or-create is the draw of an identity at the write of the temporary
\* file, and shows the card's everywhere else.
LEMMA MakesIsIdentityStep ==
    ASSUME TornInv, IdInv, IdInv', NEW p \in Procs, MakesIdentity(p)
    PROVE  IdentityStep
<1>1. cloud' = cloud
    BY DEF MakesIdentity, ReadIdentity, DrawIdentity, WriteIdentity, RenameIdentity, SyncIdentity
<1>2. CASE WriteIdentity(p)
    <2>1. making[p] = "write" /\ pk' = pk
        BY <1>2 DEF WriteIdentity
    <2>2. Held = {} /\ Shown' = Shown /\ Bound' = Bound
        BY <1>1, <2>1, TornHoldsNone DEF Shown, Bound
    <2>. QED  BY <2>2, DrawingStep
<1>3. CASE ReadIdentity(p)
    <2>1. OnCard' = OnCard
        BY <1>3, RegistrationAssumption DEF ReadIdentity, OnCard
    <2>2. Held' = Held  BY <2>1 DEF Held
    <2>. QED  BY <1>1, <2>2, ReadingStep
<1>4. CASE DrawIdentity(p)
    <2>1. OnCard \notin Seeds /\ OnCard' \notin Seeds
        BY <1>4, RegistrationAssumption DEF DrawIdentity, OnCard
    <2>2. Held' = Held  BY <2>1 DEF Held
    <2>. QED  BY <1>1, <2>2, ReadingStep
<1>5. CASE RenameIdentity(p)
    <2>1. making[p] = "rename" /\ seed' = tmp /\ tmp \in Seeds
        BY <1>5 DEF RenameIdentity
    <2>2. seed = NoSeed  BY <2>1 DEF IdInv, MakingInv
    <2>3. OnCard' = OnCard  BY <2>1, <2>2, RegistrationAssumption DEF OnCard
    <2>4. Held' = Held  BY <2>3 DEF Held
    <2>. QED  BY <1>1, <2>4, ReadingStep
<1>6. CASE SyncIdentity(p)
    <2>1. OnCard' = OnCard  BY <1>6 DEF SyncIdentity, OnCard
    <2>2. Held' = Held  BY <2>1 DEF Held
    <2>. QED  BY <1>1, <2>2, ReadingStep
<1>. QED  BY <1>2, <1>3, <1>4, <1>5, <1>6 DEF MakesIdentity

\* A kill or a power cut in the middle of the write may draw the identity; any
\* other leaves the card's.
LEMMA StopIsIdentityStep ==
    ASSUME TornInv, IdInv, IdInv', (\E p \in Procs : Kill(p)) \/ PowerCut
    PROVE  IdentityStep
<1>1. cloud' = cloud
    BY DEF Kill, PowerCut
<1>2. \A q \in Procs : pk[q] = NoSeed => pk'[q] = NoSeed
    BY DEF Kill, PowerCut, IdInv, CardInv
<1>3. CASE \E p \in Procs : making[p] = "write"
    <2>1. Held = {} /\ Shown = {} /\ \A q \in Procs : pk[q] = NoSeed
        BY <1>3, TornHoldsNone
    <2>2. Shown' = {}
        BY <1>2, <2>1 DEF Shown
    <2>3. Bound' = Bound  BY <1>1 DEF Bound
    <2>. QED  BY <2>1, <2>2, <2>3, DrawingStep
<1>4. CASE \A p \in Procs : making[p] # "write"
    <2>1. \A p \in Procs : TmpAfter(p) = {tmp}
        BY <1>4 DEF TmpAfter
    <2>2. CASE OnCard' = OnCard
        <3>1. Held' = Held  BY <2>2 DEF Held
        <3>. QED  BY <1>1, <3>1, ReadingStep
    <2>3. CASE seed' = seed /\ tmp = "torn" /\ tmp' \in {NoSeed, "torn"}
        <3>1. Held' = Held  BY <2>3, RegistrationAssumption DEF Held, OnCard
        <3>. QED  BY <1>1, <3>1, ReadingStep
    <2>4. CASE seed' = seed /\ tmp' = tmp
        BY <2>2, <2>4 DEF OnCard
    <2>5. CASE loose /\ seed' = NoSeed /\ tmp' = seed
        <3>1. seed \in Seeds  BY <2>5 DEF IdInv, CardInv
        <3>2. OnCard' = OnCard  BY <2>5, <3>1, RegistrationAssumption DEF OnCard
        <3>. QED  BY <2>2, <3>2
    <2>. QED  BY <2>1, <2>3, <2>4, <2>5 DEF Kill, PowerCut
<1>. QED  BY <1>3, <1>4

\* The cloud binds the identity of the program that asked, or leaves it bound.
LEMMA CloudIsIdentityStep ==
    ASSUME IdInv, IdInv', NEW p \in Procs, CloudAnswers(p) \/ AnswerLost(p) \/ Claim \/ Unclaim \/ Release
    PROVE  IdentityStep
<1>1. UNCHANGED identity
    BY DEF CloudAnswers, AnswerLost, Claim, Unclaim, Release
<1>2. Held' = Held /\ Shown' = Shown
    BY <1>1 DEF identity, Held, Shown, OnCard
<1>3. \/ cloud'.pk = cloud.pk
      \/ cloud.pk \notin Seeds /\ cloud'.pk \in {pk[p], NoSeed}
    <2>. USE RegistrationAssumption
    <2>1. cloud = [pk |-> cloud.pk, claimed |-> cloud.claimed, live |-> cloud.live, issued |-> cloud.issued]
        BY DEF IdInv, CardInv
    <2>2. CASE CloudAnswers(p)  BY <2>1, <2>2 DEF CloudAnswers, Judge
    <2>3. CASE AnswerLost(p)  BY <2>1, <2>3 DEF AnswerLost
    <2>4. CASE Claim  BY <2>1, <2>4 DEF Claim
    <2>5. CASE Unclaim  BY <2>1, <2>5 DEF Unclaim
    <2>6. CASE Release  BY <2>1, <2>6 DEF Release
    <2>. QED  BY <2>2, <2>3, <2>4, <2>5, <2>6
<1>4. CASE cloud'.pk = cloud.pk
    BY <1>2, <1>4, ReadingStep
<1>5. CASE cloud.pk \notin Seeds /\ cloud'.pk \notin Seeds
    <2>1. Bound' = Bound  BY <1>5 DEF Bound
    <2>. QED  BY <1>2, <2>1 DEF IdentityStep
<1>6. CASE cloud.pk \notin Seeds /\ cloud'.pk = pk[p] /\ pk[p] \in Seeds
    <2>1. pk[p] \in Shown  BY <1>6, RegistrationAssumption DEF Shown
    <2>2. Bound = {} /\ Bound' = {pk[p]}  BY <1>6 DEF Bound
    <2>. QED  BY <1>2, <1>6, <2>1, <2>2
        DEF IdentityStep, Identity!Next, Identity!Bind, Held, Shown, Bound
<1>. QED  BY <1>3, <1>4, <1>5, <1>6, RegistrationAssumption

\* Every step of the programs, the cloud and the power.
LEMMA RegistrationIsIdentityStep == TornInv /\ IdInv /\ IdInv' /\ [Next]_vars => IdentityStep
<1>. SUFFICES ASSUME TornInv, IdInv, IdInv', [Next]_vars PROVE IdentityStep
    OBVIOUS
<1>1. CASE UNCHANGED <<seed, tmp, cloud>>
    <2>1. Held' = Held  BY <1>1 DEF Held, OnCard
    <2>. QED  BY <1>1, <2>1, ReadingStep
<1>2. ASSUME NEW p \in Procs, Attempts(p) \/ Boot(p) PROVE IdentityStep
    BY <1>1, <1>2 DEF Attempts, Record, StoreKey, ConfigKey, MarkRegistered, Boot, identity
<1>3. CASE WorkerAsks \/ KickAsks \/ AttachKey \/ Send \/ Accepted \/ Denied
    BY <1>1, <1>3 DEF WorkerAsks, KickAsks, Ask, AttachKey, Send, Accepted, Denied, identity
<1>4. CASE Revokes \/ NtpSteps \/ UNCHANGED vars
    BY <1>1, <1>4 DEF Revokes, ClearFile, ClearConfig, ClearState, NtpSteps, vars, identity
<1>5. CASE Claim \/ Unclaim \/ Release
    BY <1>5, CloudIsIdentityStep DEF Procs
<1>. QED
    BY <1>2, <1>3, <1>4, <1>5, MakesIsIdentityStep, CloudIsIdentityStep, StopIsIdentityStep DEF Next, Runs

\* The card's identity is drawn once and kept through every kill and power cut,
\* the programs go by it, and the cloud binds it, for good (ensure_keypair,
\* _read_private_key, sign_bytes).
THEOREM KeepsTheIdentity == Spec => ImplementsIdentity
<1>1. Init => Identity!Init
    BY RegistrationAssumption DEF Init, Identity!Init, OnCard, Procs
<1>2. Init => TornInv
    BY DEF Init, TornInv
<1>3. IdInv /\ IdInv' /\ TornInv /\ [Next]_vars => [Identity!Next]_<<Held, Shown, Bound>>
    BY RegistrationIsIdentityStep DEF IdentityStep
<1>4. Spec => []IdInv
    BY IdInit, IdStep, PTL DEF Spec
<1>5. Spec => []TornInv
    BY <1>2, <1>4, TornStep, PTL DEF Spec
<1>. QED
    BY <1>1, <1>3, <1>4, <1>5, PTL
    DEF Spec, ImplementsIdentity, Identity!Spec, Identity!idVars, Held, Shown, Bound

\* Who keeps that promise has one identity: what a program was given, or the
\* cloud has bound, is the one on the card.
THEOREM IdentityIsWorthIt == ImplementsIdentity => []OneIdentity
<1>. DEFINE Safe == Shown \subseteq Held /\ Bound \subseteq Held
<1>1. Identity!Init => Safe
    BY DEF Identity!Init, Held, Shown, Bound
<1>2. Safe /\ [Identity!Next]_<<Held, Shown, Bound>> => Safe'
    BY DEF Identity!Next, Identity!Read, Identity!Draw, Identity!Bind, Held, Shown, Bound
<1>3. Safe => OneIdentity
    BY DEF Held, Shown, Bound, OneIdentity
<1>. HIDE DEF Safe
<1>. QED
    BY <1>1, <1>2, <1>3, PTL
    DEF ImplementsIdentity, Identity!Spec, Identity!idVars, Held, Shown, Bound

(***************************************************************************)
(* The radio.                                                              *)
(***************************************************************************)
\* Profiles that no step of the running join will take away.
Lasting == {p \in saved : /\ p.name = "try" => join.pc \in Promoting
                          /\ ~(join.pc = "drop" /\ p.name = "aside" /\ p.ssid = join.ssid)}

\* A network NetworkManager may bring up by itself.
Home == \E p \in Lasting : p.auto /\ p.pass

HoldsLock == {"connect", "poll", "aside", "rename", "drop", "settle", "fail", "restore"}

JoinRecord ==
    [pc : {"idle", "asked", "forget"} \cup HoldsLock,
     ssid : Net \cup {NoNet}, pass : BOOLEAN, had : BOOLEAN, window : BOOLEAN]

RadioShape ==
    /\ saved \subseteq Profile /\ link \in saved \cup {NoLink}
    /\ link # NoLink => link.pass
    /\ ap \in BOOLEAN /\ service \in BOOLEAN /\ moved \in BOOLEAN /\ wiped \in BOOLEAN
    /\ carried \in BOOLEAN /\ gap \in BOOLEAN /\ muted \in BOOLEAN
    /\ lock \in {"free", "join", "retry"} /\ retry \in {"idle", "stop", "try", "restore"}
    /\ join \in JoinRecord
    /\ join.pc # "idle" => join.ssid \in Net
    /\ proven \in Net \cup {NoNet}
    /\ boot \in {"hold", "look", "raise", "held", "done", "failed"}
    /\ lock = "join" <=> join.pc \in HoldsLock
    /\ lock = "retry" <=> retry # "idle"

\* The running join has one profile, and it is as it was asked for.
TryIsMine ==
    /\ \A p \in Mine : /\ join.pc \in Promoting \cup {"poll", "fail"}
                       /\ p.ssid = join.ssid /\ p.pass = join.pass
    /\ \A p, q \in Mine : p = q

\* Past its proof: the network is the proven one, and is there to stay.
Promoted ==
    join.pc \in Promoting =>
        /\ proven = join.ssid /\ join.pass /\ ~carried
        /\ ~wiped /\ ~muted => \E p \in Lasting : p.ssid = proven /\ p.pass /\ p.auto
        /\ ~muted => \A p \in Mine : p.auto

ProvenLasts == proven # NoNet /\ ~wiped => \E p \in Lasting : p.ssid = proven /\ p.pass

\* Boot and the retry go by the card as it was when they began.
MovedIsHeld ==
    /\ moved => retry = "idle" /\ boot \notin {"look", "raise"}
    /\ moved /\ carried /\ boot # "hold" =>
          /\ link # NoLink => link.name \in {"try", "left"}
          /\ \A p \in saved : p.auto => p.name \in {"try", "left"}

\* Autoconnect is off only where the network was held.
AutoIsOn ==
    ~wiped /\ ~muted =>
        /\ link # NoLink => link.auto \/ Home
        /\ ~moved => Home \/ \A p \in saved : p.auto

\* Somebody still has to leave the unit reachable, or it is.
Reached ==
    boot = "done" /\ ~gap /\ ~wiped /\ ~muted =>
        \/ ap \/ Home \/ retry # "idle" \/ join.pc # "idle"
        \/ ~service /\ record.state = "joining" /\ record.here

RecordIsHere == join.pc # "idle" => record.here

RadioInv ==
    /\ RadioShape /\ TryIsMine /\ Promoted /\ ProvenLasts /\ MovedIsHeld /\ AutoIsOn
    /\ Reached /\ RecordIsHere

\* The unit starts with no join, no hotspot and what its image has saved.
LEMMA RadioStarts == WifiInit => RadioInv
<1>. SUFFICES ASSUME WifiInit PROVE RadioInv
    OBVIOUS
<1>1. \A p \in saved : p \in Profile /\ p.name = "own" /\ p.pass /\ p.auto
    <2>1. CASE saved = {}
        BY <2>1
    <2>2. CASE \E n \in Net : saved = {[ssid |-> n, name |-> "own", pass |-> TRUE, auto |-> TRUE]}
        <3>1. PICK n \in Net : saved = {[ssid |-> n, name |-> "own", pass |-> TRUE, auto |-> TRUE]}
            BY <2>2
        <3>2. [ssid |-> n, name |-> "own", pass |-> TRUE, auto |-> TRUE] \in Profile
            BY DEF Profile
        <3> DEFINE own == [ssid |-> n, name |-> "own", pass |-> TRUE, auto |-> TRUE]
        <3>3. own.name = "own" /\ own.pass /\ own.auto /\ own \in Profile
            BY <3>2
        <3>4. \A p \in saved : p = own
            BY <3>1
        <3> HIDE DEF own
        <3>. QED  BY <3>3, <3>4
    <2>. QED  BY <2>1, <2>2 DEF WifiInit
<1>2. join \in JoinRecord /\ join.pc = "idle"
    BY DEF WifiInit, IdleJoin, JoinRecord
<1>3. RadioShape
    <2>1. saved \subseteq Profile /\ proven \in Net \cup {NoNet}
        BY <1>1 DEF WifiInit, Profile
    <2>. QED  BY <1>2, <2>1 DEF WifiInit, RadioShape, HoldsLock
<1>4. Lasting = saved /\ Mine = {}
    BY <1>1, <1>2 DEF Lasting, Mine
<1>5. TryIsMine /\ Promoted /\ ProvenLasts
    BY <1>1, <1>2, <1>4 DEF WifiInit, TryIsMine, Promoted, Promoting, ProvenLasts
<1>6. MovedIsHeld /\ AutoIsOn /\ Reached /\ RecordIsHere
    BY <1>1, <1>2 DEF WifiInit, MovedIsHeld, AutoIsOn, Reached, RecordIsHere
<1>. QED  BY <1>3, <1>5, <1>6 DEF RadioInv

\* The properties, from the invariant.
LEMMA RadioIsSafe == RadioInv => ProfilesAreHonoured /\ FailureStaysReachable
<1>. SUFFICES ASSUME RadioInv PROVE ProfilesAreHonoured /\ FailureStaysReachable
    OBVIOUS
<1>1. ProvenNetworkKept
    BY DEF RadioInv, ProvenLasts, Lasting, ProvenNetworkKept
<1>2. MovedCardHolds
    BY DEF RadioInv, MovedIsHeld, MovedCardHolds
<1>3. ASSUME Stranded PROVE gap \/ wiped \/ muted
    BY <1>3 DEF RadioInv, Reached, Stranded, AtRest, Home, Lasting
<1>. QED  BY <1>1, <1>2, <1>3 DEF ProfilesAreHonoured, FailureStaysReachable

\* A step of the join's, on its record.
LEMMA JoinGoesOn ==
    ASSUME join \in JoinRecord, NEW pc, To(pc), pc \in {"idle", "asked", "forget"} \cup HoldsLock
    PROVE  /\ join' \in JoinRecord /\ join'.pc = pc /\ join'.ssid = join.ssid /\ join'.pass = join.pass
           /\ join'.had = join.had /\ join'.window = join.window
BY DEF To, JoinRecord

\* A profile that NetworkManager may use, while no join could take it away.
LEMMA AtHome ==
    ASSUME RadioInv, join.pc \notin {"poll", "fail", "drop"},
           NEW p \in saved, p.auto, p.pass
    PROVE  Home
<1>1. p.name = "try" => join.pc \in Promoting
    BY DEF RadioInv, TryIsMine, Mine
<1>. QED  BY <1>1 DEF Home, Lasting

\* Who is not at the profiles leaves them, and what is known of them, alone.
LEMMA ProfilesStay ==
    ASSUME RadioInv, UNCHANGED <<saved, join, proven, wiped, carried, muted>>
    PROVE  /\ TryIsMine' /\ Promoted' /\ ProvenLasts'
           /\ Home' <=> Home
<1>1. Lasting' = Lasting /\ Mine' = Mine
    BY DEF Lasting, Mine
<1>2. Home' <=> Home
    BY <1>1 DEF Home
<1>3. TryIsMine'
    BY <1>1 DEF RadioInv, TryIsMine
<1>4. Promoted'
    BY <1>1 DEF RadioInv, Promoted
<1>5. ProvenLasts'
    BY <1>1 DEF RadioInv, ProvenLasts
<1>. QED  BY <1>2, <1>3, <1>4, <1>5

\* The hotspot is up, or could not be started.
LEMMA Raised ==
    ASSUME RadioInv, RaiseAp
    PROVE  /\ ap' \in BOOLEAN /\ gap' \in BOOLEAN /\ link' = NoLink
           /\ (ap' \/ gap') /\ (gap => gap')
BY DEF RaiseAp, RadioInv, RadioShape

\* A network the station is on is one NetworkManager may bring up again.
LEMMA LinkIsHome ==
    ASSUME RadioInv, join.pc = "idle", link # NoLink, ~wiped, ~muted
    PROVE  Home
<1>1. link \in saved /\ link.pass
    BY DEF RadioInv, RadioShape
<1>2. link.auto \/ Home
    BY DEF RadioInv, AutoIsOn
<1>. QED  BY <1>1, <1>2, AtHome

\* Boot, past its look at the card (ensure_reachable).
LEMMA BootKeepsRadio ==
    ASSUME RadioInv, BootStation \/ BootDrive \/ BootGiveUp \/ BootRaise \/ BootAgain
    PROVE  RadioInv'
<1>1. UNCHANGED <<saved, lock, join, record, service, retry, moved, proven, wiped, carried, muted>>
    BY DEF BootStation, BootDrive, BootGiveUp, BootRaise, BootAgain, counters, history, radio
<1>2. TryIsMine' /\ Promoted' /\ ProvenLasts' /\ (Home' <=> Home)
    BY <1>1, ProfilesStay
<1>3. RecordIsHere'
    BY <1>1 DEF RadioInv, RecordIsHere
<1>4. CASE BootStation
    <2>1. link # NoLink /\ boot \in {"look", "raise"} /\ boot' = "done" /\ link' = link /\ ap' = ap /\ gap' = gap
        BY <1>4 DEF BootStation, Usable, radio, counters, history
    <2>2. RadioShape' /\ MovedIsHeld' /\ AutoIsOn'
        BY <1>1, <1>2, <2>1 DEF RadioInv, RadioShape, MovedIsHeld, AutoIsOn
    <2>3. Reached'
        BY <1>1, <1>2, <2>1, LinkIsHome DEF Reached
    <2>. QED  BY <1>2, <1>3, <2>2, <2>3 DEF RadioInv
<1>5. CASE BootDrive
    <2>1. boot = "look" /\ boot' = boot /\ ap' = ap /\ gap' = gap
        BY <1>5 DEF BootDrive, counters, history
    <2>2. PICK p \in saved : link' = IF ~ap /\ Answers(p) THEN p ELSE NoLink
        BY <1>5 DEF BootDrive, Attempt
    <2>3. RadioShape'
        BY <1>1, <2>1, <2>2 DEF RadioInv, RadioShape, Answers
    <2>4. ~moved
        BY <2>1 DEF RadioInv, MovedIsHeld
    <2>5. MovedIsHeld' /\ AutoIsOn' /\ Reached'
        BY <1>1, <1>2, <2>1, <2>2, <2>4 DEF RadioInv, MovedIsHeld, AutoIsOn, Reached
    <2>. QED  BY <1>2, <1>3, <2>3, <2>5 DEF RadioInv
<1>6. CASE BootGiveUp
    <2>1. boot = "look" /\ boot' = "raise" /\ link' = NoLink /\ ap' = ap /\ gap' = gap
        BY <1>6 DEF BootGiveUp, counters, history
    <2>2. RadioShape' /\ MovedIsHeld' /\ AutoIsOn' /\ Reached'
        BY <1>1, <1>2, <2>1 DEF RadioInv, RadioShape, MovedIsHeld, AutoIsOn, Reached
    <2>. QED  BY <1>2, <1>3, <2>2 DEF RadioInv
<1>7. CASE BootRaise
    <2>1. boot' = (IF ap' THEN "done" ELSE "failed") /\ RaiseAp /\ boot \in {"held", "raise"}
        BY <1>7 DEF BootRaise
    <2>2. ap' \in BOOLEAN /\ gap' \in BOOLEAN /\ link' = NoLink
        BY <2>1, Raised
    <2>3. RadioShape' /\ MovedIsHeld' /\ AutoIsOn'
        BY <1>1, <1>2, <2>1, <2>2 DEF RadioInv, RadioShape, MovedIsHeld, AutoIsOn
    <2>4. Reached'
        BY <2>1 DEF Reached
    <2>. QED  BY <1>2, <1>3, <2>3, <2>4 DEF RadioInv
<1>8. CASE BootAgain
    <2>1. boot' = "hold" /\ boot = "failed" /\ link' = link /\ ap' = ap /\ gap' = gap
        BY <1>8 DEF BootAgain, radio, counters, history
    <2>2. RadioShape' /\ MovedIsHeld' /\ AutoIsOn' /\ Reached'
        BY <1>1, <1>2, <2>1 DEF RadioInv, RadioShape, MovedIsHeld, AutoIsOn, Reached
    <2>. QED  BY <1>2, <1>3, <2>2 DEF RadioInv
<1>. QED  BY <1>4, <1>5, <1>6, <1>7, <1>8

\* The retry of a saved network (retry_saved_station).
LEMMA RetryKeepsRadio ==
    ASSUME RadioInv, RetryLook \/ RetryStep
    PROVE  RadioInv'
<1>1. UNCHANGED <<saved, join, record, service, boot, moved, proven, wiped, carried, muted>>
    BY DEF RetryLook, RetryStep, RetryStop, RetryUp, RetryGiveUp, RetryRestore, RetryUnchanged
<1>2. TryIsMine' /\ Promoted' /\ ProvenLasts' /\ (Home' <=> Home)
    BY <1>1, ProfilesStay
<1>3. RecordIsHere'
    BY <1>1 DEF RadioInv, RecordIsHere
<1>4. CASE RetryLook
    <2>1. /\ lock = "free" /\ lock' = "retry" /\ retry' = "stop" /\ ~moved
          /\ link' = link /\ ap' = ap /\ gap' = gap
        BY <1>4 DEF RetryLook, TakesRadio, radio
    <2>2. RadioShape' /\ MovedIsHeld' /\ AutoIsOn' /\ Reached'
        BY <1>1, <1>2, <2>1 DEF RadioInv, RadioShape, MovedIsHeld, AutoIsOn, Reached
    <2>. QED  BY <1>2, <1>3, <2>2 DEF RadioInv
<1>5. CASE RetryStop \/ RetryGiveUp
    <2>1. /\ retry # "idle" /\ retry' \in {"try", "restore"} /\ lock' = lock
          /\ ap' \in BOOLEAN /\ link' = link /\ gap' = gap
        BY <1>5 DEF RetryStop, RetryGiveUp, StopAp, radio, RadioInv, RadioShape
    <2>2. RadioShape' /\ MovedIsHeld' /\ AutoIsOn' /\ Reached'
        BY <1>1, <1>2, <2>1 DEF RadioInv, RadioShape, MovedIsHeld, AutoIsOn, Reached
    <2>. QED  BY <1>2, <1>3, <2>2 DEF RadioInv
<1>6. CASE RetryUp
    <2>1. retry = "try" /\ ap' = ap /\ gap' = gap
        BY <1>6 DEF RetryUp
    <2>2. PICK p \in saved :
              /\ link' = IF ~ap /\ Answers(p) THEN p ELSE NoLink
              /\ IF ~ap /\ Answers(p) /\ air[p.ssid] # "bare"
                 THEN retry' = "idle" /\ lock' = "free"
                 ELSE retry' \in {"try", "restore"} /\ lock' = lock
        BY <1>6 DEF RetryUp, Attempt
    <2>3. ~moved /\ lock = "retry" /\ join.pc \notin {"poll", "fail", "drop"}
        BY <2>1 DEF RadioInv, MovedIsHeld, RadioShape, HoldsLock
    <2>4. RadioShape'
        BY <1>1, <2>1, <2>2, <2>3 DEF RadioInv, RadioShape, Answers
    <2>5. MovedIsHeld' /\ AutoIsOn'
        BY <1>1, <1>2, <2>1, <2>2, <2>3 DEF RadioInv, MovedIsHeld, AutoIsOn
    <2>6. Reached'
        <3>1. ~wiped /\ ~muted => Home \/ p.auto
            BY <2>3 DEF RadioInv, AutoIsOn
        <3>2. retry' = "idle" => p.pass
            BY <2>2 DEF Answers
        <3>3. p.auto /\ p.pass => Home
            BY <2>3, AtHome
        <3>. QED  BY <1>1, <1>2, <2>1, <3>1, <3>2, <3>3 DEF Reached
    <2>. QED  BY <1>2, <1>3, <2>4, <2>5, <2>6 DEF RadioInv
<1>7. CASE RetryRestore
    <2>1. retry = "restore" /\ retry' = "idle" /\ lock' = "free" /\ RaiseAp
        BY <1>7 DEF RetryRestore
    <2>2. ap' \in BOOLEAN /\ gap' \in BOOLEAN /\ link' = NoLink /\ (ap' \/ gap')
        BY <2>1, Raised
    <2>3. RadioShape'
        BY <1>1, <2>1, <2>2 DEF RadioInv, RadioShape
    <2>4. MovedIsHeld' /\ AutoIsOn' /\ Reached'
        BY <1>1, <1>2, <2>1, <2>2 DEF RadioInv, MovedIsHeld, AutoIsOn, Reached
    <2>. QED  BY <1>2, <1>3, <2>3, <2>4 DEF RadioInv
<1>. QED  BY <1>4, <1>5, <1>6, <1>7 DEF RetryStep

\* The root service after a death, phones, the weather, NetworkManager.
LEMMA WorldKeepsRadio ==
    ASSUME RadioInv,
           \/ Recover \/ Phone \/ Autoconnect
           \/ \E n \in Net : \E l \in Levels[n] : Weather(n, l)
    PROVE  RadioInv'
<1>1. UNCHANGED <<saved, lock, join, record, boot, retry, moved, proven, wiped, carried, muted>>
    BY DEF Recover, Phone, Autoconnect, Weather, counters, history
<1>2. TryIsMine' /\ Promoted' /\ ProvenLasts' /\ (Home' <=> Home)
    BY <1>1, ProfilesStay
<1>3. RecordIsHere'
    BY <1>1 DEF RadioInv, RecordIsHere
<1>4. CASE Recover
    <2>1. ~service /\ service' = TRUE
        BY <1>4 DEF Recover
    <2>2. CASE record.state = "joining" /\ record.here /\ join.pc = "idle" /\ ~ap /\ link = NoLink
        <3>1. RaiseAp
            BY <1>4, <2>2 DEF Recover
        <3>2. ap' \in BOOLEAN /\ gap' \in BOOLEAN /\ link' = NoLink /\ (ap' \/ gap')
            BY <3>1, Raised
        <3>3. RadioShape' /\ MovedIsHeld' /\ AutoIsOn' /\ Reached'
            BY <1>1, <1>2, <2>1, <3>2 DEF RadioInv, RadioShape, MovedIsHeld, AutoIsOn, Reached
        <3>. QED  BY <1>2, <1>3, <3>3 DEF RadioInv
    <2>3. CASE ~(record.state = "joining" /\ record.here /\ join.pc = "idle" /\ ~ap /\ link = NoLink)
        <3>1. ap' = ap /\ link' = link /\ gap' = gap
            BY <1>4, <2>3 DEF Recover, LeaveAp, radio
        <3>2. RadioShape' /\ MovedIsHeld' /\ AutoIsOn'
            BY <1>1, <1>2, <2>1, <3>1 DEF RadioInv, RadioShape, MovedIsHeld, AutoIsOn
        <3>3. Reached'
            BY <1>1, <1>2, <2>1, <2>3, <3>1, LinkIsHome DEF RadioInv, Reached
        <3>. QED  BY <1>2, <1>3, <3>2, <3>3 DEF RadioInv
    <2>. QED  BY <2>2, <2>3
<1>5. CASE Phone
    <2>1. ap' = ap /\ link' = link /\ gap' = gap /\ service' = service
        BY <1>5 DEF Phone, counters, history
    <2>2. RadioShape' /\ MovedIsHeld' /\ AutoIsOn' /\ Reached'
        BY <1>1, <1>2, <2>1 DEF RadioInv, RadioShape, MovedIsHeld, AutoIsOn, Reached
    <2>. QED  BY <1>2, <1>3, <2>2 DEF RadioInv
<1>6. CASE Autoconnect
    <2>1. ap' = ap /\ gap' = gap /\ service' = service
        BY <1>6 DEF Autoconnect, counters, history
    <2>2. link' \in saved /\ link'.auto /\ link'.pass
        BY <1>6 DEF Autoconnect, Answers
    <2>3. RadioShape'
        BY <1>1, <2>1, <2>2 DEF RadioInv, RadioShape
    <2>4. MovedIsHeld' /\ AutoIsOn' /\ Reached'
        BY <1>1, <1>2, <2>1, <2>2 DEF RadioInv, MovedIsHeld, AutoIsOn, Reached
    <2>. QED  BY <1>2, <1>3, <2>3, <2>4 DEF RadioInv
<1>7. CASE \E n \in Net : \E l \in Levels[n] : Weather(n, l)
    <2>1. ap' = ap /\ gap' = gap /\ service' = service /\ link' \in {link, NoLink}
        BY <1>7 DEF Weather, counters, history
    <2>2. RadioShape'
        BY <1>1, <2>1 DEF RadioInv, RadioShape
    <2>3. MovedIsHeld' /\ AutoIsOn' /\ Reached'
        BY <1>1, <1>2, <2>1 DEF RadioInv, MovedIsHeld, AutoIsOn, Reached
    <2>. QED  BY <1>2, <1>3, <2>2, <2>3 DEF RadioInv
<1>. QED  BY <1>4, <1>5, <1>6, <1>7

\* What the hold makes of a profile.
LEMMA HeldProfile ==
    ASSUME NEW p \in Profile
    PROVE  LET q == [p EXCEPT !.auto = FALSE]
           IN  q \in Profile /\ q.ssid = p.ssid /\ q.name = p.name /\ q.pass = p.pass /\ ~q.auto
BY DEF Profile

\* Boot looks at the card (_hold_site_wifi).
LEMMA BootHoldKeepsRadio ==
    ASSUME RadioInv, BootHold
    PROVE  RadioInv'
<1>1. UNCHANGED <<ap, lock, join, record, service, retry, moved, proven, wiped, carried, gap>> /\ boot = "hold"
    BY DEF BootHold, counters
<1>2. CASE ~moved
    <2>1. UNCHANGED <<saved, link, muted>> /\ boot' = "look"
        BY <1>2 DEF BootHold
    <2>2. TryIsMine' /\ Promoted' /\ ProvenLasts' /\ (Home' <=> Home)
        BY <1>1, <2>1, ProfilesStay
    <2>3. RadioShape' /\ MovedIsHeld' /\ AutoIsOn' /\ Reached' /\ RecordIsHere'
        BY <1>1, <1>2, <2>1, <2>2 DEF RadioInv, RadioShape, MovedIsHeld, AutoIsOn, Reached, RecordIsHere
    <2>. QED  BY <2>2, <2>3 DEF RadioInv
<1>3. CASE moved
    <2>1. /\ saved' = {[p EXCEPT !.auto = FALSE] : p \in saved} /\ link' = NoLink /\ boot' = "held"
          /\ muted' = (muted \/ join.pc \in Promoting)
        BY <1>3 DEF BootHold
    <2>2. saved \subseteq Profile
        BY DEF RadioInv, RadioShape
    <2>3. ASSUME NEW q \in saved'
          PROVE  \E p \in saved : /\ q = [p EXCEPT !.auto = FALSE] /\ q \in Profile /\ q.ssid = p.ssid
                                  /\ q.name = p.name /\ q.pass = p.pass /\ ~q.auto
        BY <2>1, <2>2, HeldProfile
    <2>4. ASSUME NEW p \in saved
          PROVE  \E q \in saved' : q.ssid = p.ssid /\ q.name = p.name /\ q.pass = p.pass
        BY <2>1, <2>2, HeldProfile
    <2>5. RadioShape'
        <3>1. saved' \subseteq Profile
            BY <2>3
        <3>. QED  BY <1>1, <2>1, <3>1 DEF RadioInv, RadioShape
    <2>6. TryIsMine'
        <3>1. ASSUME NEW q \in Mine'
              PROVE  \E p \in Mine : /\ q = [p EXCEPT !.auto = FALSE]
                                      /\ q.ssid = p.ssid /\ q.pass = p.pass
            BY <2>3 DEF Mine
        <3>2. ASSUME NEW q \in Mine'
              PROVE  /\ join.pc \in Promoting \cup {"poll", "fail"}
                     /\ q.ssid = join.ssid /\ q.pass = join.pass
            BY <3>1 DEF RadioInv, TryIsMine
        <3>3. ASSUME NEW q \in Mine', NEW r \in Mine'
              PROVE  q = r
            <4>1. PICK p \in Mine : q = [p EXCEPT !.auto = FALSE]
                BY <3>1
            <4>2. PICK o \in Mine : r = [o EXCEPT !.auto = FALSE]
                BY <3>1
            <4>3. p = o
                BY DEF RadioInv, TryIsMine
            <4>. QED  BY <4>1, <4>2, <4>3
        <3>. QED  BY <1>1, <3>2, <3>3 DEF TryIsMine
    <2>7. Promoted'
        BY <1>1, <2>1 DEF RadioInv, Promoted
    <2>8. ProvenLasts'
        BY <1>1, <2>4 DEF RadioInv, ProvenLasts, Lasting
    <2>9. MovedIsHeld'
        BY <1>1, <1>3, <2>1, <2>3 DEF RadioInv, MovedIsHeld
    <2>10. AutoIsOn' /\ Reached' /\ RecordIsHere'
        BY <1>1, <1>3, <2>1 DEF RadioInv, AutoIsOn, Reached, RecordIsHere
    <2>. QED  BY <2>5, <2>6, <2>7, <2>8, <2>9, <2>10 DEF RadioInv
<1>4. moved \in BOOLEAN
    BY DEF RadioInv, RadioShape
<1>. QED  BY <1>2, <1>3, <1>4

\* Outside a proof, and with no profile of its own yet, a join has nothing to lose.
LEMMA LastingBefore ==
    ASSUME RadioInv, join.pc \notin Promoting
    PROVE  Lasting = Others
<1>1. join.pc # "drop"
    BY DEF Promoting
<1>. QED  BY <1>1 DEF Lasting, Others, Mine

\* A join is asked for, from the page or the Service Window (start_join).
LEMMA StartKeepsRadio ==
    ASSUME RadioInv, NEW n \in Net, NEW pass \in BOOLEAN, PageAsks(n, pass) \/ WindowAsks(n, pass)
    PROVE  RadioInv'
<1>1. /\ UNCHANGED <<ap, link, saved, lock, service, boot, retry, moved, proven, wiped, carried, gap, muted>>
      /\ join.pc = "idle" /\ record'.here
      /\ \E w \in BOOLEAN :
            join' = [pc |-> "asked", ssid |-> n, pass |-> pass, had |-> FALSE, window |-> w]
    <2>1. PICK w \in BOOLEAN : StartJoin(n, pass, w)
        BY DEF PageAsks, WindowAsks
    <2>2. record' = [state |-> "joining", ssid |-> n, here |-> TRUE]
        BY <2>1 DEF StartJoin, Recorded
    <2>3. record'.here
        BY <2>2
    <2>. QED  BY <2>1, <2>3 DEF StartJoin, radio, history
<1>2. join' \in JoinRecord /\ join'.pc = "asked" /\ join'.ssid \in Net
    BY <1>1 DEF JoinRecord
<1>3. Mine = {} /\ Mine' = {}
    <2>1. Mine = {}
        BY <1>1 DEF RadioInv, TryIsMine, Promoting
    <2>. QED  BY <1>1, <2>1 DEF Mine
<1>4. Lasting = saved /\ Lasting' = saved
    BY <1>1, <1>2, <1>3 DEF Lasting, Mine
<1>5. Home' <=> Home
    BY <1>1, <1>4 DEF Home
<1>6. RadioShape'
    BY <1>1, <1>2 DEF RadioInv, RadioShape, HoldsLock
<1>7. TryIsMine' /\ Promoted' /\ ProvenLasts'
    BY <1>1, <1>2, <1>3, <1>4 DEF RadioInv, TryIsMine, Promoted, Promoting, ProvenLasts
<1>8. MovedIsHeld' /\ AutoIsOn' /\ Reached' /\ RecordIsHere'
    BY <1>1, <1>2, <1>5 DEF RadioInv, MovedIsHeld, AutoIsOn, Reached, RecordIsHere
<1>. QED  BY <1>6, <1>7, <1>8 DEF RadioInv

\* The join up to its verdict (join_network, _connect, reach_bluesignal).
LEMMA AttemptKeepsRadio ==
    ASSUME RadioInv, JoinTake \/ JoinConnect \/ JoinNotProved
    PROVE  RadioInv'
<1>. USE DEF Promoting, HoldsLock
<1>1. UNCHANGED <<record, service, boot, retry, moved, proven, wiped, carried, gap, muted>>
    BY DEF JoinTake, JoinConnect, JoinNotProved, JoinUnchanged, history
<1>2. /\ join' \in JoinRecord /\ join'.ssid = join.ssid /\ join'.pass = join.pass
      /\ JoinTake => join.pc = "asked" /\ join'.pc = "connect" /\ saved' = saved /\ link' = link
                     /\ lock = "free" /\ lock' = "join" /\ ap' \in BOOLEAN
      /\ JoinConnect => join.pc = "connect" /\ join'.pc = "poll" /\ lock' = lock /\ ap' = ap
      /\ JoinNotProved => join.pc = "poll" /\ join'.pc = "fail" /\ saved' = saved /\ link' = link
                          /\ lock' = lock /\ ap' = ap
    <2>1. join \in JoinRecord
        BY DEF RadioInv, RadioShape
    <2>2. CASE JoinTake
        <3>1. join' = [join EXCEPT !.pc = "connect", !.had = ap] /\ ap \in BOOLEAN
            BY <2>2 DEF JoinTake, RadioInv, RadioShape
        <3>2. join' \in JoinRecord /\ join'.ssid = join.ssid /\ join'.pass = join.pass /\ join'.pc = "connect"
            BY <2>1, <3>1 DEF JoinRecord
        <3>. QED  BY <2>2, <3>2 DEF JoinTake, TakesRadio, StopAp, JoinConnect, JoinNotProved
    <2>3. CASE JoinConnect
        BY <2>1, <2>3, JoinGoesOn DEF JoinConnect, JoinTake, JoinNotProved
    <2>4. CASE JoinNotProved
        BY <2>1, <2>4, JoinGoesOn DEF JoinNotProved, JoinTake, JoinConnect, radio
    <2>. QED  BY <2>2, <2>3, <2>4
<1>3. JoinConnect =>
          \/ saved' = saved /\ link' = link
          \/ \E p \in Profile :
                 /\ saved' = saved \cup {p} /\ link' \in {p, NoLink} /\ (link' # NoLink => p.pass)
                 /\ p.ssid = join.ssid /\ p.name = "try" /\ p.pass = join.pass /\ p.auto
    <2>. SUFFICES ASSUME JoinConnect PROVE
          \/ saved' = saved /\ link' = link
          \/ \E p \in Profile :
                 /\ saved' = saved \cup {p} /\ link' \in {p, NoLink} /\ (link' # NoLink => p.pass)
                 /\ p.ssid = join.ssid /\ p.name = "try" /\ p.pass = join.pass /\ p.auto
        OBVIOUS
    <2> DEFINE p == [ssid |-> join.ssid, name |-> "try", pass |-> join.pass, auto |-> TRUE]
    <2>1. p \in Profile
        BY DEF JoinConnect, RadioInv, RadioShape, JoinRecord, Profile
    <2>2. p.ssid = join.ssid /\ p.name = "try" /\ p.pass = join.pass /\ p.auto
        OBVIOUS
    <2>3. (saved' = saved /\ link' = link) \/ (saved' = saved \cup {p} /\ Attempt(p))
        BY DEF JoinConnect
    <2> HIDE DEF p
    <2>4. Attempt(p) => link' \in {p, NoLink} /\ (link' # NoLink => p.pass)
        BY DEF Attempt, Answers
    <2>. QED  BY <2>1, <2>2, <2>3, <2>4
<1>4. Lasting' = Lasting /\ (Home' <=> Home)
    <2>1. Lasting = Others
        BY <1>2, LastingBefore
    <2>2. Lasting' = Others
        BY <1>2, <1>3 DEF Lasting, Others, Mine
    <2>. QED  BY <2>1, <2>2 DEF Home
<1>5. RadioShape'
    BY <1>1, <1>2, <1>3 DEF RadioInv, RadioShape
<1>6. TryIsMine'
    BY <1>2, <1>3 DEF RadioInv, TryIsMine, Mine
<1>7. Promoted' /\ ProvenLasts' /\ RecordIsHere' /\ Reached'
    BY <1>1, <1>2, <1>4 DEF RadioInv, Promoted, ProvenLasts, RecordIsHere, Reached
<1>8. MovedIsHeld' /\ AutoIsOn'
    <2>1. CASE saved' = saved /\ link' = link
        BY <1>1, <1>4, <2>1 DEF RadioInv, MovedIsHeld, AutoIsOn
    <2>2. CASE ~(saved' = saved /\ link' = link)
        <3>1. PICK p \in Profile : saved' = saved \cup {p} /\ link' \in {p, NoLink} /\ p.name = "try" /\ p.auto
            BY <1>2, <1>3, <2>2
        <3>. QED  BY <1>1, <1>4, <3>1 DEF RadioInv, MovedIsHeld, AutoIsOn
    <2>. QED  BY <2>1, <2>2
<1>. QED  BY <1>5, <1>6, <1>7, <1>8 DEF RadioInv

\* BlueSignal answers through the network that was asked for.
LEMMA ProvedKeepsRadio ==
    ASSUME RadioInv, JoinProved
    PROVE  RadioInv'
<1>. USE DEF Promoting, HoldsLock
<1>1. /\ UNCHANGED <<ap, link, saved, lock, record, service, boot, retry, moved, gap>>
      /\ proven' = join.ssid /\ ~wiped' /\ wiped' = FALSE /\ carried' = FALSE /\ muted' = ~link.auto
      /\ join.pc = "poll" /\ link # NoLink /\ link.name = "try"
    BY DEF JoinProved, JoinUnchanged, radio, OnTarget
<1>2. join' \in JoinRecord /\ join'.pc = "aside" /\ join'.ssid = join.ssid /\ join'.pass = join.pass
    BY JoinGoesOn DEF JoinProved, RadioInv, RadioShape
<1>3. link \in Mine /\ link \in saved /\ link.ssid = join.ssid /\ link.pass /\ join.pass /\ link \in Profile
    <2>1. link \in Mine /\ link.pass /\ link \in saved /\ link \in Profile
        BY <1>1 DEF RadioInv, RadioShape, Mine
    <2>. QED  BY <2>1 DEF RadioInv, TryIsMine
<1>4. Lasting' = saved
    BY <1>1, <1>2 DEF Lasting
<1>5. RadioShape'
    <2>1. muted' \in BOOLEAN /\ carried' \in BOOLEAN /\ wiped' \in BOOLEAN
        BY <1>1
    <2>2. join.ssid \in Net
        BY <1>1 DEF RadioInv, RadioShape
    <2>. QED  BY <1>1, <1>2, <2>1, <2>2 DEF RadioInv, RadioShape
<1>6. TryIsMine'
    BY <1>1, <1>2 DEF RadioInv, TryIsMine, Mine
<1>7. Promoted' /\ ProvenLasts'
    <2>1. \A p \in Mine' : p = link
        BY <1>1, <1>3 DEF RadioInv, TryIsMine, Mine
    <2>. QED  BY <1>1, <1>2, <1>3, <1>4, <2>1 DEF Promoted, ProvenLasts
<1>8. MovedIsHeld'
    BY <1>1 DEF RadioInv, MovedIsHeld
<1>9. AutoIsOn'
    <2>1. ~muted' => Home'
        BY <1>1, <1>3, <1>4 DEF Home
    <2>. QED  BY <2>1 DEF AutoIsOn
<1>10. Reached' /\ RecordIsHere'
    BY <1>1, <1>2 DEF RadioInv, Reached, RecordIsHere
<1>. QED  BY <1>5, <1>6, <1>7, <1>8, <1>9, <1>10 DEF RadioInv

\* The attempt's profile goes, and the hotspot comes back (_fail_join, _restore_ap).
LEMMA FailKeepsRadio ==
    ASSUME RadioInv, JoinFail \/ JoinRestore
    PROVE  RadioInv'
<1>. USE DEF Promoting, HoldsLock
<1>1. CASE JoinFail
    <2>1. /\ UNCHANGED <<ap, lock, service, boot, retry, moved, proven, wiped, carried, gap, muted>>
          /\ saved' = Others /\ link' = (IF link \in Others THEN link ELSE NoLink)
          /\ join.pc = "fail" /\ record'.here
        BY <1>1 DEF JoinFail, JoinUnchanged, history, Recorded
    <2>2. join' \in JoinRecord /\ join'.pc = "restore" /\ join'.ssid = join.ssid
        BY <1>1, JoinGoesOn DEF JoinFail, RadioInv, RadioShape
    <2>3. Lasting = Others /\ Lasting' = Others /\ Mine' = {} /\ Others \subseteq saved
        BY <2>1, <2>2, LastingBefore DEF Lasting, Others, Mine
    <2>4. Home' <=> Home
        BY <2>3 DEF Home
    <2>5. RadioShape'
        BY <2>1, <2>2, <2>3 DEF RadioInv, RadioShape
    <2>6. TryIsMine' /\ Promoted' /\ ProvenLasts'
        BY <2>1, <2>2, <2>3 DEF RadioInv, TryIsMine, Promoted, ProvenLasts
    <2>7. MovedIsHeld' /\ AutoIsOn'
        BY <2>1, <2>3, <2>4 DEF RadioInv, MovedIsHeld, AutoIsOn
    <2>8. Reached' /\ RecordIsHere'
        BY <2>1, <2>2 DEF RadioInv, Reached, RecordIsHere
    <2>. QED  BY <2>5, <2>6, <2>7, <2>8 DEF RadioInv
<1>2. CASE JoinRestore
    <2>1. /\ UNCHANGED <<saved, record, service, boot, retry, moved, proven, wiped, carried, muted>>
          /\ join.pc = "restore" /\ join' = IdleJoin /\ lock' = "free"
        BY <1>2 DEF JoinRestore, JoinUnchanged
    <2>2. ap' \in BOOLEAN /\ gap' \in BOOLEAN /\ link' \in {link, NoLink} /\ (ap' \/ gap')
        <3>1. CASE join.had
            BY <1>2, <3>1, Raised DEF JoinRestore, RestoreAp
        <3>2. CASE ~join.had
            BY <1>2, <3>2 DEF JoinRestore, RestoreAp, radio, RadioInv, RadioShape
        <3>. QED  BY <3>1, <3>2
    <2>3. join' \in JoinRecord /\ join'.pc = "idle"
        BY <2>1 DEF IdleJoin, JoinRecord
    <2>4. Mine = {} /\ Mine' = {} /\ Lasting' = saved /\ Lasting = saved
        <3>1. Mine = {}
            BY <2>1 DEF RadioInv, TryIsMine
        <3>. QED  BY <2>1, <2>3, <3>1 DEF Mine, Lasting
    <2>5. Home' <=> Home
        BY <2>4 DEF Home
    <2>6. RadioShape'
        BY <2>1, <2>2, <2>3 DEF RadioInv, RadioShape
    <2>7. TryIsMine' /\ Promoted' /\ ProvenLasts'
        BY <2>1, <2>3, <2>4 DEF RadioInv, TryIsMine, Promoted, ProvenLasts
    <2>8. MovedIsHeld' /\ AutoIsOn' /\ Reached' /\ RecordIsHere'
        BY <2>1, <2>2, <2>3, <2>5 DEF RadioInv, MovedIsHeld, AutoIsOn, Reached, RecordIsHere
    <2>. QED  BY <2>6, <2>7, <2>8 DEF RadioInv
<1>. QED  BY <1>1, <1>2

\* A profile under another name.
LEMMA NamedProfile ==
    ASSUME NEW p \in Profile, NEW name \in {"try", "left", "aside", "own"}
    PROVE  LET q == Named(p, name)
           IN  /\ q \in Profile /\ q.name = name /\ q.ssid = p.ssid /\ q.pass = p.pass
               /\ q.auto = p.auto
BY DEF Profile, Named

\* Renaming loses no profile, and the station stays on its own (_promote_try_profile).
LEMMA Renamed ==
    ASSUME RadioInv, NEW P, P \subseteq saved,
           NEW name \in {"try", "left", "aside", "own"}, Rename(P, name)
    PROVE  /\ saved' \subseteq Profile /\ link' \in saved' \cup {NoLink}
           /\ link' # NoLink => link'.pass
           /\ \A q \in saved' : q \in saved \ P \/ q.name = name
           /\ \A p \in P : \E q \in saved' : /\ q.name = name /\ q.ssid = p.ssid
                                              /\ q.pass = p.pass /\ q.auto = p.auto
           /\ saved \ P \subseteq saved'
<1>1. saved \subseteq Profile /\ link \in saved \cup {NoLink} /\ (link # NoLink => link.pass)
    BY DEF RadioInv, RadioShape
<1>2. /\ saved' = (saved \ P) \cup {Named(p, name) : p \in P}
      /\ link' = IF link \in P THEN Named(link, name) ELSE link
    BY DEF Rename
<1>3. \A p \in P : /\ Named(p, name) \in Profile /\ Named(p, name).name = name
                   /\ Named(p, name).ssid = p.ssid /\ Named(p, name).pass = p.pass
                   /\ Named(p, name).auto = p.auto
    BY <1>1, NamedProfile
<1>4. saved' \subseteq Profile
    BY <1>1, <1>2, <1>3
<1>5. link' \in saved' \cup {NoLink} /\ (link' # NoLink => link'.pass)
    <2>1. CASE link \in P
        <3>1. link # NoLink => link.pass
            BY <1>1
        <3>2. link' = Named(link, name) /\ Named(link, name) \in saved'
            BY <1>2, <2>1
        <3>3. link = NoLink => ~(link \in Profile)
            BY DEF NoLink, Profile
        <3>. QED  BY <1>1, <1>3, <2>1, <3>1, <3>2, <3>3
    <2>2. CASE link \notin P
        BY <1>1, <1>2, <2>2
    <2>. QED  BY <2>1, <2>2
<1>6. \A q \in saved' : q \in saved \ P \/ q.name = name
    BY <1>2, <1>3
<1>7. \A p \in P : \E q \in saved' : /\ q.name = name /\ q.ssid = p.ssid
                                      /\ q.pass = p.pass /\ q.auto = p.auto
    BY <1>2, <1>3
<1>. QED  BY <1>2, <1>4, <1>5, <1>6, <1>7

\* A step past the proof: the network is still there, whatever it is called.
LEMMA PromotionGoesOn ==
    ASSUME RadioInv, join.pc \in Promoting \ {"forget"},
           UNCHANGED <<ap, record, service, boot, retry, proven, wiped, carried, gap, muted>>,
           moved' \in {moved, FALSE},
           join' \in JoinRecord, join'.pc \in Promoting \ {"aside"},
           join'.ssid = join.ssid, join'.pass = join.pass,
           lock' = IF join'.pc = "forget" THEN "free" ELSE "join",
           saved' \subseteq Profile, link' \in saved' \cup {NoLink}, link' # NoLink => link'.pass,
           Mine' \subseteq Mine,
           ~wiped /\ ~muted => \E p \in Lasting' : p.ssid = proven /\ p.pass /\ p.auto,
           ~wiped => \E p \in Lasting' : p.ssid = proven /\ p.pass
    PROVE  RadioInv'
<1>1. lock = "join" /\ retry = "idle"
    BY DEF RadioInv, RadioShape, HoldsLock, Promoting
<1>2. RadioShape'
    <2>1. join.ssid \in Net
        BY DEF RadioInv, RadioShape, Promoting
    <2>2. moved' \in BOOLEAN
        BY DEF RadioInv, RadioShape
    <2>3. (lock' = "join" <=> join'.pc \in HoldsLock) /\ lock' \in {"free", "join"}
        BY DEF HoldsLock, Promoting
    <2>. QED  BY <1>1, <2>1, <2>2, <2>3 DEF RadioInv, RadioShape
<1>3. TryIsMine'
    BY DEF RadioInv, TryIsMine
<1>4. Promoted' /\ ProvenLasts'
    BY DEF RadioInv, Promoted, ProvenLasts
<1>5. ~carried' /\ (~wiped' /\ ~muted' => Home')
    BY DEF RadioInv, Promoted, Home
<1>6. MovedIsHeld' /\ AutoIsOn'
    <2>1. moved' => moved
        OBVIOUS
    <2>2. MovedIsHeld'
        BY <1>5, <2>1 DEF RadioInv, MovedIsHeld
    <2>3. AutoIsOn'
        BY <1>5 DEF AutoIsOn
    <2>. QED  BY <2>2, <2>3
<1>7. Reached' /\ RecordIsHere'
    BY DEF RadioInv, Reached, RecordIsHere, Promoting
<1>. QED  BY <1>2, <1>3, <1>4, <1>6, <1>7 DEF RadioInv

\* Older profiles of the network step aside, or the rename fails.
LEMMA AsideKeepsRadio ==
    ASSUME RadioInv, PromoteAside
    PROVE  RadioInv'
<1>1. /\ UNCHANGED <<ap, record, service, boot, retry, proven, wiped, carried, gap, muted, moved, lock>>
      /\ join.pc = "aside"
      /\ \/ Rename(Older, "aside") /\ To("rename")
         \/ To("settle") /\ UNCHANGED <<saved, link>>
    BY DEF PromoteAside, JoinUnchanged, history
<1>2. /\ join' \in JoinRecord /\ join'.ssid = join.ssid /\ join'.pass = join.pass
      /\ join'.pc \in {"rename", "settle"}
    <2>1. join \in JoinRecord
        BY DEF RadioInv, RadioShape
    <2>. QED  BY <1>1, <2>1, JoinGoesOn DEF HoldsLock
<1>3. lock = "join" /\ Lasting = saved /\ Lasting' = saved'
    BY <1>1, <1>2 DEF RadioInv, RadioShape, HoldsLock, Lasting, Promoting
<1>4. /\ saved' \subseteq Profile /\ link' \in saved' \cup {NoLink} /\ (link' # NoLink => link'.pass)
      /\ Mine' \subseteq Mine
      /\ \A p \in saved : \E q \in saved' : q.ssid = p.ssid /\ q.pass = p.pass /\ q.auto = p.auto
    <2>1. CASE Rename(Older, "aside")
        <3>1. Older \subseteq saved
            BY DEF Older, Others
        <3>2. /\ saved' \subseteq Profile /\ link' \in saved' \cup {NoLink}
              /\ link' # NoLink => link'.pass
              /\ \A q \in saved' : q \in saved \ Older \/ q.name = "aside"
              /\ \A p \in Older : \E q \in saved' : /\ q.name = "aside" /\ q.ssid = p.ssid
                                                     /\ q.pass = p.pass /\ q.auto = p.auto
              /\ saved \ Older \subseteq saved'
            BY <2>1, <3>1, Renamed
        <3>3. Mine' \subseteq Mine
            BY <3>2 DEF Mine
        <3>. QED  BY <3>2, <3>3
    <2>2. CASE UNCHANGED <<saved, link>>
        BY <2>2 DEF RadioInv, RadioShape, Mine
    <2>. QED  BY <1>1, <2>1, <2>2
<1>5. ~wiped /\ ~muted => \E p \in Lasting' : p.ssid = proven /\ p.pass /\ p.auto
    BY <1>1, <1>3, <1>4 DEF RadioInv, Promoted, Promoting
<1>6. ~wiped => \E p \in Lasting' : p.ssid = proven /\ p.pass
    <2>1. proven # NoNet
        BY <1>1, WifiAssumption DEF RadioInv, RadioShape, Promoted, Promoting
    <2>2. ~wiped => \E p \in saved : p.ssid = proven /\ p.pass
        BY <1>3, <2>1 DEF RadioInv, ProvenLasts
    <2>. QED  BY <1>3, <1>4, <2>2
<1>. QED  BY <1>1, <1>2, <1>3, <1>4, <1>5, <1>6, PromotionGoesOn DEF Promoting

\* The new profile takes the name, or the older ones get theirs back.
LEMMA RenameKeepsRadio ==
    ASSUME RadioInv, PromoteRename
    PROVE  RadioInv'
<1>1. /\ UNCHANGED <<ap, record, service, boot, retry, proven, wiped, carried, gap, muted, moved, lock>>
      /\ join.pc = "rename"
      /\ \/ Mine # {} /\ Rename(Mine, "own") /\ To("drop")
         \/ Rename(Older, "own") /\ To("settle")
    BY DEF PromoteRename, JoinUnchanged, history
<1>2. join \in JoinRecord /\ lock = "join" /\ Lasting = saved
    BY <1>1 DEF RadioInv, RadioShape, HoldsLock, Lasting, Promoting
<1>3. proven = join.ssid /\ join.pass /\ (~muted => \A p \in Mine : p.auto)
    BY <1>1 DEF RadioInv, Promoted, Promoting
<1>4. CASE Mine # {} /\ Rename(Mine, "own") /\ To("drop")
    <2>1. /\ join' \in JoinRecord /\ join'.ssid = join.ssid /\ join'.pass = join.pass /\ join'.pc = "drop"
        BY <1>2, <1>4, JoinGoesOn DEF HoldsLock
    <2>2. Mine \subseteq saved
        BY DEF Mine
    <2>3. /\ saved' \subseteq Profile /\ link' \in saved' \cup {NoLink}
          /\ link' # NoLink => link'.pass
          /\ \A q \in saved' : q \in saved \ Mine \/ q.name = "own"
          /\ \A p \in Mine : \E q \in saved' : /\ q.name = "own" /\ q.ssid = p.ssid
                                                /\ q.pass = p.pass /\ q.auto = p.auto
        BY <1>4, <2>2, Renamed
    <2>4. Mine' = {}
        BY <2>3 DEF Mine
    <2>5. PICK p \in Mine : p.ssid = join.ssid /\ p.pass
        BY <1>3, <1>4 DEF RadioInv, TryIsMine
    <2>6. PICK q \in saved' : q.name = "own" /\ q.ssid = p.ssid /\ q.pass = p.pass /\ q.auto = p.auto
        BY <2>3
    <2>7. q \in Lasting' /\ q.ssid = proven /\ q.pass
        BY <1>3, <2>1, <2>5, <2>6 DEF Lasting
    <2>8. ~muted => q.auto
        BY <1>3, <2>6
    <2>. QED  BY <1>1, <1>2, <2>1, <2>3, <2>4, <2>7, <2>8, PromotionGoesOn DEF Promoting
<1>5. CASE Rename(Older, "own") /\ To("settle")
    <2>1. /\ join' \in JoinRecord /\ join'.ssid = join.ssid /\ join'.pass = join.pass /\ join'.pc = "settle"
        BY <1>2, <1>5, JoinGoesOn DEF HoldsLock
    <2>2. Older \subseteq saved
        BY DEF Older, Others
    <2>3. /\ saved' \subseteq Profile /\ link' \in saved' \cup {NoLink}
          /\ link' # NoLink => link'.pass
          /\ \A q \in saved' : q \in saved \ Older \/ q.name = "own"
          /\ \A p \in Older : \E q \in saved' : /\ q.name = "own" /\ q.ssid = p.ssid
                                                 /\ q.pass = p.pass /\ q.auto = p.auto
          /\ saved \ Older \subseteq saved'
        BY <1>5, <2>2, Renamed
    <2>4. Mine' \subseteq Mine /\ Lasting' = saved'
        BY <2>1, <2>3 DEF Mine, Lasting, Promoting
    <2>5. ~wiped /\ ~muted => \E p \in Lasting' : p.ssid = proven /\ p.pass /\ p.auto
        BY <1>1, <1>2, <2>3, <2>4 DEF RadioInv, Promoted, Promoting
    <2>6. proven # NoNet
        BY <1>1, <1>3, WifiAssumption DEF RadioInv, RadioShape
    <2>7. ~wiped => \E p \in Lasting' : p.ssid = proven /\ p.pass
        BY <1>2, <2>3, <2>4, <2>6 DEF RadioInv, ProvenLasts
    <2>. QED  BY <1>1, <1>2, <2>1, <2>3, <2>4, <2>5, <2>7, PromotionGoesOn DEF Promoting
<1>. QED  BY <1>1, <1>4, <1>5

\* The older profiles are deleted, and join_network returns.
LEMMA DropKeepsRadio ==
    ASSUME RadioInv, PromoteDrop \/ JoinSettle
    PROVE  RadioInv'
<1>1. /\ UNCHANGED <<ap, record, service, boot, retry, proven, wiped, carried, gap, muted>>
      /\ join.pc \in {"drop", "settle"}
    BY DEF PromoteDrop, JoinSettle, JoinUnchanged, history, radio
<1>2. join \in JoinRecord /\ lock = "join" /\ proven = join.ssid
    BY <1>1 DEF RadioInv, RadioShape, HoldsLock, Promoted, Promoting
<1>3. proven # NoNet
    BY <1>1, <1>2, WifiAssumption DEF RadioInv, RadioShape
<1>4. /\ ~wiped /\ ~muted => \E p \in Lasting : p.ssid = proven /\ p.pass /\ p.auto
      /\ ~wiped => \E p \in Lasting : p.ssid = proven /\ p.pass
    BY <1>1, <1>3 DEF RadioInv, Promoted, Promoting, ProvenLasts
<1>5. CASE PromoteDrop
    <2>1. /\ join' \in JoinRecord /\ join'.ssid = join.ssid /\ join'.pass = join.pass
          /\ join'.pc = "settle" /\ join.pc = "drop"
        BY <1>2, <1>5, JoinGoesOn DEF PromoteDrop, HoldsLock
    <2>2. /\ saved' = {p \in saved : ~(p.ssid = join.ssid /\ p.name = "aside")}
          /\ link' = IF link \in saved' THEN link ELSE NoLink
          /\ moved' = moved /\ lock' = lock
        BY <1>5 DEF PromoteDrop
    <2>3. Lasting' = saved' /\ Lasting = saved'
        BY <2>1, <2>2 DEF Lasting, Promoting
    <2>4. saved' \subseteq Profile /\ link' \in saved' \cup {NoLink} /\ (link' # NoLink => link'.pass)
        BY <2>2 DEF RadioInv, RadioShape
    <2>5. Mine' \subseteq Mine
        BY <2>2 DEF Mine
    <2>. QED  BY <1>1, <1>2, <1>4, <2>1, <2>2, <2>3, <2>4, <2>5, PromotionGoesOn DEF Promoting
<1>6. CASE JoinSettle
    <2>1. /\ join' \in JoinRecord /\ join'.ssid = join.ssid /\ join'.pass = join.pass
          /\ join'.pc = "forget" /\ join.pc = "settle"
        BY <1>2, <1>6, JoinGoesOn DEF JoinSettle, HoldsLock
    <2>2. saved' = saved /\ link' = link /\ moved' = FALSE /\ lock' = "free"
        BY <1>6 DEF JoinSettle, Confirm, radio
    <2>3. Lasting' = Lasting /\ Mine' = Mine
        BY <2>1, <2>2 DEF Lasting, Mine, Promoting
    <2>4. saved' \subseteq Profile /\ link' \in saved' \cup {NoLink} /\ (link' # NoLink => link'.pass)
        BY <2>2 DEF RadioInv, RadioShape
    <2>. QED  BY <1>1, <1>2, <1>4, <2>1, <2>2, <2>3, <2>4, PromotionGoesOn DEF Promoting
<1>. QED  BY <1>5, <1>6

\* What a death makes of the profile of its join.
LEMMA OrphanedProfiles ==
    ASSUME NEW P, P \subseteq Profile
    PROVE  /\ Orphaned(P) \subseteq Profile
           /\ \A q \in Orphaned(P) :
                 /\ q.name # "try"
                 /\ \E p \in P : /\ q.ssid = p.ssid /\ q.pass = p.pass /\ q.auto = p.auto
                                 /\ q.name = IF p.name = "try" THEN "left" ELSE p.name
           /\ \A p \in P : \E q \in Orphaned(P) :
                 q.ssid = p.ssid /\ q.pass = p.pass /\ q.auto = p.auto
<1>1. ASSUME NEW p \in P
      PROVE  LET q == IF p.name = "try" THEN [p EXCEPT !.name = "left"] ELSE p
             IN  /\ q \in Profile /\ q.ssid = p.ssid /\ q.pass = p.pass /\ q.auto = p.auto
                 /\ q.name = (IF p.name = "try" THEN "left" ELSE p.name) /\ q.name # "try"
    <2>1. p \in Profile
        OBVIOUS
    <2>2. CASE p.name = "try"
        BY <2>1, <2>2 DEF Profile
    <2>3. CASE p.name # "try"
        BY <2>1, <2>3
    <2>. QED  BY <2>2, <2>3
<1>. QED  BY <1>1 DEF Orphaned

\* The station stays on a profile that was renamed by a death.
LEMMA OrphanedLinks ==
    ASSUME RadioInv
    PROVE  /\ OrphanedLink \in Orphaned(saved) \cup {NoLink}
           /\ OrphanedLink # NoLink => /\ link # NoLink /\ OrphanedLink.pass
                                       /\ OrphanedLink.auto = link.auto
                                       /\ OrphanedLink.name # "try"
                                       /\ OrphanedLink.name = "left" \/ OrphanedLink = link
<1>1. link \in saved \cup {NoLink} /\ (link # NoLink => link.pass) /\ saved \subseteq Profile
    BY DEF RadioInv, RadioShape
<1>2. CASE link # NoLink /\ link.name = "try"
    <2>1. link \in saved /\ OrphanedLink = [link EXCEPT !.name = "left"]
        BY <1>1, <1>2 DEF OrphanedLink
    <2>2. OrphanedLink \in Orphaned(saved)
        BY <1>2, <2>1 DEF Orphaned
    <2>3. /\ OrphanedLink.pass = link.pass /\ OrphanedLink.auto = link.auto
          /\ OrphanedLink.name = "left"
        BY <1>1, <2>1 DEF Profile
    <2>. QED  BY <1>1, <1>2, <2>2, <2>3
<1>3. CASE ~(link # NoLink /\ link.name = "try")
    <2>1. OrphanedLink = link
        BY <1>3 DEF OrphanedLink
    <2>2. link # NoLink => link \in Orphaned(saved)
        BY <1>1, <1>3 DEF Orphaned
    <2>. QED  BY <1>1, <1>3, <2>1, <2>2
<1>. QED  BY <1>2, <1>3

\* No join runs any more: everything that is saved lasts.
LEMMA Alone ==
    ASSUME RadioInv, join' = IdleJoin, \A p \in saved' : p.name # "try"
    PROVE  /\ join' \in JoinRecord /\ join'.pc = "idle" /\ Mine' = {} /\ Lasting' = saved'
           /\ TryIsMine' /\ Promoted' /\ RecordIsHere'
<1>1. join' \in JoinRecord /\ join'.pc = "idle"
    BY DEF IdleJoin, JoinRecord
<1>2. Mine' = {} /\ Lasting' = saved'
    BY <1>1 DEF Mine, Lasting
<1>3. TryIsMine' /\ Promoted' /\ RecordIsHere'
    BY <1>1, <1>2 DEF TryIsMine, Promoted, Promoting, RecordIsHere
<1>. QED  BY <1>1, <1>2, <1>3

\* The other networks are forgotten, the record says joined.
LEMMA ForgetKeepsRadio ==
    ASSUME RadioInv, JoinForget
    PROVE  RadioInv'
<1> DEFINE P == {p \in saved : p.ssid = join.ssid}
<1>1. /\ UNCHANGED <<ap, lock, moved, service, boot, retry, proven, wiped, carried, gap, muted>>
      /\ join.pc = "forget" /\ join' = IdleJoin /\ saved' = Orphaned(P)
      /\ link' = IF OrphanedLink \in saved' THEN OrphanedLink ELSE NoLink
    BY DEF JoinForget, JoinUnchanged, history
<1>2. P \subseteq Profile /\ P \subseteq saved
    BY DEF RadioInv, RadioShape
<1>3. /\ saved' \subseteq Profile
      /\ \A q \in saved' : q.name # "try"
      /\ \A p \in P : \E q \in saved' : q.ssid = p.ssid /\ q.pass = p.pass /\ q.auto = p.auto
    <2> HIDE DEF P
    <2>. QED  BY <1>1, <1>2, OrphanedProfiles
<1>4. /\ join' \in JoinRecord /\ join'.pc = "idle" /\ Lasting' = saved'
      /\ TryIsMine' /\ Promoted' /\ RecordIsHere'
    BY <1>1, <1>3, Alone
<1>5. /\ proven = join.ssid /\ ~carried /\ Lasting \subseteq saved
      /\ ~wiped /\ ~muted => \E p \in Lasting : p.ssid = proven /\ p.pass /\ p.auto
    BY <1>1 DEF RadioInv, Promoted, Promoting, Lasting
<1>6. ~wiped /\ ~muted => Home'
    <2>1. ~wiped /\ ~muted => \E p \in P : p.pass /\ p.auto
        BY <1>5
    <2> HIDE DEF P
    <2>. QED  BY <1>3, <1>4, <2>1 DEF Home
<1>7. ProvenLasts'
    <2>1. proven # NoNet /\ ~wiped => \E p \in P : p.ssid = proven /\ p.pass
        BY <1>5 DEF RadioInv, ProvenLasts
    <2> HIDE DEF P
    <2>. QED  BY <1>1, <1>3, <1>4, <2>1 DEF ProvenLasts
<1>8. RadioShape'
    <2>1. link' \in saved' \cup {NoLink} /\ (link' # NoLink => link'.pass)
        BY <1>1, OrphanedLinks
    <2>. QED  BY <1>1, <1>3, <1>4, <2>1 DEF RadioInv, RadioShape, HoldsLock
<1>9. MovedIsHeld' /\ AutoIsOn' /\ Reached'
    BY <1>1, <1>5, <1>6 DEF RadioInv, MovedIsHeld, AutoIsOn, Reached
<1>. QED  BY <1>4, <1>7, <1>8, <1>9 DEF RadioInv

\* The process of a join dies.
LEMMA DeathKeepsRadio ==
    ASSUME RadioInv, JoinDies
    PROVE  RadioInv'
<1>1. /\ UNCHANGED <<ap, record, boot, retry, moved, proven, wiped, carried, muted>>
      /\ join.pc # "idle" /\ join' = IdleJoin /\ saved' = Orphaned(saved) /\ link' = OrphanedLink
      /\ lock' = (IF lock = "join" THEN "free" ELSE lock)
      /\ service' = (service /\ join.window)
      /\ gap' = (gap \/ join.window \/ record.state # "joining")
    BY DEF JoinDies
<1>2. saved \subseteq Profile /\ join \in JoinRecord /\ service \in BOOLEAN /\ gap \in BOOLEAN
    BY DEF RadioInv, RadioShape
<1>3. join.window \in BOOLEAN
    BY <1>2 DEF JoinRecord
<1>4. /\ saved' \subseteq Profile
      /\ \A q \in saved' :
            /\ q.name # "try"
            /\ \E p \in saved : /\ q.auto = p.auto
                                /\ q.name = IF p.name = "try" THEN "left" ELSE p.name
      /\ \A p \in saved : \E q \in saved' : q.ssid = p.ssid /\ q.pass = p.pass /\ q.auto = p.auto
    BY <1>1, <1>2, OrphanedProfiles
<1>5. /\ join' \in JoinRecord /\ join'.pc = "idle" /\ Lasting' = saved'
      /\ TryIsMine' /\ Promoted' /\ RecordIsHere'
    BY <1>1, <1>4, Alone
<1>6. Lasting \subseteq saved
    BY DEF Lasting
<1>7. (Home => Home') /\ ProvenLasts'
    BY <1>1, <1>4, <1>5, <1>6 DEF RadioInv, ProvenLasts, Home
<1>8. /\ link' \in saved' \cup {NoLink}
      /\ link' # NoLink => link # NoLink /\ link'.pass /\ link'.auto = link.auto
                           /\ (link'.name = "left" \/ link' = link)
    BY <1>1, OrphanedLinks
<1>9. RadioShape'
    <2>1. service' \in BOOLEAN /\ gap' \in BOOLEAN
        BY <1>1, <1>2, <1>3
    <2>. QED  BY <1>1, <1>4, <1>5, <1>8, <2>1 DEF RadioInv, RadioShape, HoldsLock
<1>10. MovedIsHeld'
    <2>1. moved /\ carried /\ boot # "hold" => \A q \in saved' : q.auto => q.name \in {"try", "left"}
        BY <1>4 DEF RadioInv, MovedIsHeld
    <2>. QED  BY <1>1, <1>8, <2>1 DEF RadioInv, MovedIsHeld
<1>11. AutoIsOn'
    <2>1. (\A p \in saved : p.auto) => \A q \in saved' : q.auto
        BY <1>4
    <2>. QED  BY <1>1, <1>7, <1>8, <2>1 DEF RadioInv, AutoIsOn
<1>12. Reached'
    <2>1. ~gap' => ~service' /\ record'.state = "joining" /\ record'.here
        BY <1>1 DEF RadioInv, RecordIsHere
    <2>. QED  BY <2>1 DEF Reached
<1>. QED  BY <1>5, <1>7, <1>9, <1>10, <1>11, <1>12 DEF RadioInv

\* Power is lost; the card may be in another Pi when it comes back.
LEMMA PowerKeepsRadio ==
    ASSUME RadioInv, PowerLost
    PROVE  RadioInv'
<1>1. /\ UNCHANGED <<proven, wiped, muted>> /\ ap' = FALSE /\ link' = NoLink
      /\ join' = IdleJoin /\ saved' = Orphaned(saved) /\ lock' = "free" /\ service' = TRUE
      /\ retry' = "idle" /\ boot' = "hold" /\ gap' = FALSE
      /\ moved' \in {moved, TRUE} /\ carried' \in {carried, TRUE} /\ (moved' = FALSE => moved = FALSE)
    BY DEF PowerLost, Observe
<1>2. saved \subseteq Profile
    BY DEF RadioInv, RadioShape
<1>3. /\ saved' \subseteq Profile
      /\ \A q \in saved' : q.name # "try" /\ \E p \in saved : q.auto = p.auto
      /\ \A p \in saved : \E q \in saved' : q.ssid = p.ssid /\ q.pass = p.pass /\ q.auto = p.auto
    BY <1>1, <1>2, OrphanedProfiles
<1>4. /\ join' \in JoinRecord /\ join'.pc = "idle" /\ Lasting' = saved'
      /\ TryIsMine' /\ Promoted' /\ RecordIsHere'
    BY <1>1, <1>3, Alone
<1>5. Lasting \subseteq saved
    BY DEF Lasting
<1>6. (Home => Home') /\ ProvenLasts'
    BY <1>1, <1>3, <1>4, <1>5 DEF RadioInv, ProvenLasts, Home
<1>7. RadioShape'
    <2>1. moved' \in BOOLEAN /\ carried' \in BOOLEAN
        BY <1>1 DEF RadioInv, RadioShape
    <2>. QED  BY <1>1, <1>3, <1>4, <2>1 DEF RadioInv, RadioShape, HoldsLock
<1>8. AutoIsOn'
    <2>1. (\A p \in saved : p.auto) => \A q \in saved' : q.auto
        BY <1>3
    <2>2. ~moved' => ~moved
        BY <1>1 DEF RadioInv, RadioShape
    <2>. QED  BY <1>1, <1>6, <2>1, <2>2 DEF RadioInv, AutoIsOn
<1>9. MovedIsHeld' /\ Reached'
    BY <1>1 DEF MovedIsHeld, Reached
<1>. QED  BY <1>4, <1>6, <1>7, <1>8, <1>9 DEF RadioInv

\* The Service Window's Keep and Finish, which may take the proven network away.
LEMMA ButtonsKeepRadio ==
    ASSUME RadioInv, Keep \/ Finish
    PROVE  RadioInv'
<1>1. /\ UNCHANGED <<ap, lock, join, record, service, boot, retry, proven, carried, gap, muted>>
      /\ Wipes /\ moved' = FALSE
      /\ \E keep : ForgetAllBut(keep)
    BY DEF Keep, Finish, Confirm, counters
<1>2. PICK keep : ForgetAllBut(keep)
    BY <1>1
<1>3. /\ saved' = {p \in saved : p.ssid = keep} /\ link' \in saved' \cup {NoLink}
      /\ link' \in {link, NoLink}
    BY <1>2 DEF ForgetAllBut
<1>4. wiped' \in BOOLEAN /\ (~wiped' => /\ ~wiped /\ keep = proven
                                        /\ \A p \in saved' : p.auto
                                        /\ \E p \in saved' : p.ssid = proven /\ p.pass)
    <2>1. wiped' = \/ wiped \/ \E p \in saved' : ~p.auto
                   \/ ~\E p \in saved' : p.ssid = proven /\ p.pass
        BY <1>1 DEF Wipes
    <2>. QED  BY <1>3, <2>1
<1>5. saved' \subseteq saved /\ Mine' \subseteq Mine
    BY <1>3 DEF Mine
<1>6. ~wiped' => Lasting' = {p \in Lasting : p.ssid = proven}
    BY <1>1, <1>3, <1>4 DEF Lasting
<1>7. RadioShape' /\ TryIsMine' /\ RecordIsHere'
    <2>1. RadioShape'
        <3>1. link' # NoLink => link'.pass
            BY <1>3 DEF RadioInv, RadioShape
        <3>2. saved' \subseteq Profile /\ link' \in saved' \cup {NoLink}
            BY <1>3, <1>5 DEF RadioInv, RadioShape
        <3>3. wiped' \in BOOLEAN /\ moved' \in BOOLEAN
            BY <1>1, <1>4
        <3>. QED  BY <1>1, <3>1, <3>2, <3>3 DEF RadioInv, RadioShape
    <2>2. TryIsMine'
        BY <1>1, <1>5 DEF RadioInv, TryIsMine
    <2>3. RecordIsHere'
        BY <1>1 DEF RadioInv, RecordIsHere
    <2>. QED  BY <2>1, <2>2, <2>3
<1>8. Promoted'
    BY <1>1, <1>4, <1>5, <1>6 DEF RadioInv, Promoted
<1>9. ProvenLasts'
    BY <1>1, <1>4, <1>6 DEF RadioInv, ProvenLasts
<1>10. MovedIsHeld' /\ AutoIsOn'
    BY <1>1, <1>3, <1>4, <1>5 DEF RadioInv, MovedIsHeld, AutoIsOn
<1>11. Reached'
    <2>1. join.pc = "idle" => Lasting' = saved'
        BY <1>1, <1>5 DEF RadioInv, TryIsMine, Promoting, Mine, Lasting
    <2>2. join.pc = "idle" /\ ~wiped' => Home'
        BY <1>4, <2>1 DEF Home
    <2>. QED  BY <1>1, <2>2 DEF Reached
<1>. QED  BY <1>7, <1>8, <1>9, <1>10, <1>11 DEF RadioInv

\* Every step keeps the invariant.
LEMMA RadioGoesOn == RadioInv /\ [WifiNext]_wifiVars => RadioInv'
<1>. SUFFICES ASSUME RadioInv, [WifiNext]_wifiVars PROVE RadioInv'
    OBVIOUS
<1>1. CASE BootStep
    BY <1>1, BootHoldKeepsRadio, BootKeepsRadio DEF BootStep
<1>2. CASE RetryLook \/ RetryStep
    BY <1>2, RetryKeepsRadio
<1>3. CASE JoinStep
    BY <1>3, AttemptKeepsRadio, ProvedKeepsRadio, AsideKeepsRadio, RenameKeepsRadio,
       DropKeepsRadio, ForgetKeepsRadio, FailKeepsRadio DEF JoinStep
<1>4. CASE \E n \in Net, pass \in BOOLEAN : PageAsks(n, pass) \/ WindowAsks(n, pass)
    BY <1>4, StartKeepsRadio
<1>5. CASE \/ Recover \/ Phone \/ Autoconnect
           \/ \E n \in Net : \E l \in Levels[n] : Weather(n, l)
    BY <1>5, WorldKeepsRadio
<1>6. CASE JoinDies \/ PowerLost \/ Keep \/ Finish
    BY <1>6, DeathKeepsRadio, PowerKeepsRadio, ButtonsKeepRadio
<1>7. CASE UNCHANGED wifiVars
    <2>1. UNCHANGED <<saved, join, proven, wiped, carried, muted, ap, link, lock, record, service,
                      boot, retry, moved, gap>>
        BY <1>7 DEF wifiVars, radio, history
    <2>2. TryIsMine' /\ Promoted' /\ ProvenLasts' /\ (Home' <=> Home)
        BY <2>1, ProfilesStay
    <2>3. RadioShape' /\ MovedIsHeld' /\ AutoIsOn' /\ Reached' /\ RecordIsHere'
        BY <2>1, <2>2 DEF RadioInv, RadioShape, MovedIsHeld, AutoIsOn, Reached, RecordIsHere
    <2>. QED  BY <2>2, <2>3 DEF RadioInv
<1>. QED  BY <1>1, <1>2, <1>3, <1>4, <1>5, <1>6, <1>7 DEF WifiNext

\* A network that has reached BlueSignal is deleted by nothing the unit does
\* until another one has, whatever fails, dies or loses power on the way, and a
\* card in another Pi is left alone until setup (netctl.py join_network,
\* _promote_try_profile, _fail_join; utils.cardmove).
THEOREM ProvenNetworksAreKept == WifiSpec => []ProfilesAreHonoured
<1>1. WifiInit => RadioInv
    BY RadioStarts
<1>2. RadioInv /\ [WifiNext]_wifiVars => RadioInv'
    BY RadioGoesOn
<1>3. RadioInv => ProfilesAreHonoured
    BY RadioIsSafe
<1>. QED  BY <1>1, <1>2, <1>3, PTL DEF WifiSpec

\* When everybody who drives the radio is done, the unit is on a network, has
\* one it may join or shows its hotspot, but for the gaps FailureStaysReachable
\* names (netctl.py ensure_reachable, retry_saved_station, _restore_ap;
\* join_service.recover_interrupted_join).
THEOREM UnitStaysReachable == WifiSpec => []FailureStaysReachable
<1>1. WifiInit => RadioInv
    BY RadioStarts
<1>2. RadioInv /\ [WifiNext]_wifiVars => RadioInv'
    BY RadioGoesOn
<1>3. RadioInv => FailureStaysReachable
    BY RadioIsSafe
<1>. QED  BY <1>1, <1>2, <1>3, PTL DEF WifiSpec

=============================================================================
