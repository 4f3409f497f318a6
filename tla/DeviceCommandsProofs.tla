------------------------- MODULE DeviceCommandsProofs -------------------------
(***************************************************************************)
(* The device acts once on a command, and Cloud's record of it is what      *)
(* happened: for every set of commands, every capacity and any number of    *)
(* restarts and of caches that are not written.  The smart breaker, which    *)
(* some of them switch, keeps its last word and its compressor's rest.       *)
(***************************************************************************)
EXTENDS DeviceCommands, SmartBreaker, TLAPS

BooksShape ==
    /\ effects \in [Cmd -> Nat]
    /\ handled \in [Cmd -> Answer \cup {"none"}]
    /\ saved \in [Cmd -> Answer \cup {"none"}]
    /\ pc = "store" => cur.id \in Cmd /\ cur.out \in Answer

\* What took effect is on the books or is being put there, unless the memory of
\* it was lost or may be dropped.
Remembered ==
    \A c \in Cmd : effects[c] > 0 =>
        \/ c \in torn \cup expired
        \/ handled[c] # "none"
        \/ pc = "store" /\ cur.id = c

BooksInv == BooksShape /\ Remembered /\ AppliedAtMostOnce

\* The books are empty at the start.
LEMMA BooksInit == Init => BooksInv
BY DEF Init, BooksInv, BooksShape, Remembered, AppliedAtMostOnce, Answer

\* Eviction drops commands that expired and no other.
LEMMA UnexpiredKeeps ==
    ASSUME NEW h \in [Cmd -> Answer \cup {"none"}]
    PROVE  /\ Unexpired(h) \in [Cmd -> Answer \cup {"none"}]
           /\ \A c \in Cmd : Unexpired(h)[c] = IF c \in expired THEN "none" ELSE h[c]
BY DEF Unexpired

\* A handler runs for a command that is on no book and has not expired.
LEMMA ApplyStep ==
    ASSUME BooksInv, NEW c \in Cmd, Apply(c)
    PROVE  BooksInv'
<1>1. /\ pc = "apply" /\ handled' = Unexpired(handled)
      /\ UNCHANGED <<expired, saved, torn>>
    BY DEF Apply, cloudVars
<1>2. /\ handled' \in [Cmd -> Answer \cup {"none"}]
      /\ \A d \in Cmd : handled'[d] = IF d \in expired THEN "none" ELSE handled[d]
    BY <1>1, UnexpiredKeeps DEF BooksInv, BooksShape
<1>3. CASE UNCHANGED effects /\ (pc' = "store" => cur'.id \in Cmd /\ cur'.out \in Answer)
    BY <1>1, <1>2, <1>3 DEF BooksInv, BooksShape, Remembered, AppliedAtMostOnce
<1>4. CASE handled'[c] = "none" /\ c \notin expired /\ Handler(c)
    <2>1. PICK took \in BOOLEAN, out \in Answer : Ran(c, took, out)
        BY <1>4 DEF Handler, Answer
    <2>2. pc' = "store" /\ cur'.id = c /\ cur'.out = out
        BY <2>1 DEF Ran
    <2>3. CASE effects' = effects
        BY <1>3, <2>2, <2>3
    <2>4. CASE effects' = [effects EXCEPT ![c] = @ + 1]
        <3>1. effects[c] > 0 => c \in torn
            BY <1>1, <1>2, <1>4 DEF BooksInv, Remembered
        <3>2. effects' \in [Cmd -> Nat]
            BY <2>4 DEF BooksInv, BooksShape
        <3>3. \A d \in Cmd : effects'[d] = IF d = c THEN effects[c] + 1 ELSE effects[d]
            BY <2>4 DEF BooksInv, BooksShape
        <3>4. Remembered'
            BY <1>1, <1>2, <2>2, <3>3 DEF BooksInv, Remembered
        <3>5. AppliedAtMostOnce'
            BY <1>1, <3>1, <3>3 DEF BooksInv, BooksShape, AppliedAtMostOnce
        <3>. QED  BY <1>1, <1>2, <2>2, <3>2, <3>4, <3>5 DEF BooksInv, BooksShape
    <2>. QED  BY <2>1, <2>3, <2>4 DEF Ran
<1>5. CASE handled'[c] # "none" /\ pc' = "post" /\ UNCHANGED effects
    BY <1>3, <1>5
<1>6. CASE c \in expired /\ cur' = [id |-> c, out |-> "rejected"] /\ UNCHANGED effects
    BY <1>3, <1>6 DEF Answer
<1>. QED  BY <1>4, <1>5, <1>6 DEF Apply

\* The answer goes into the books, on disk or only in memory.
LEMMA StoreStep ==
    ASSUME BooksInv, Store
    PROVE  BooksInv'
<1>. DEFINE h == Unexpired(handled)
<1>1. /\ pc = "store" /\ pc' = "post" /\ handled' = [h EXCEPT ![cur.id] = cur.out]
      /\ saved' \in {saved, handled'}
      /\ UNCHANGED <<expired, effects, torn>>
    BY DEF Store, cloudVars, histVars
<1>2. /\ h \in [Cmd -> Answer \cup {"none"}]
      /\ \A d \in Cmd : h[d] = IF d \in expired THEN "none" ELSE handled[d]
    BY UnexpiredKeeps DEF BooksInv, BooksShape
<1>. HIDE DEF h
<1>3. cur.id \in Cmd /\ cur.out \in Answer  BY <1>1 DEF BooksInv, BooksShape
<1>4. /\ handled' \in [Cmd -> Answer \cup {"none"}]
      /\ \A d \in Cmd : handled'[d] = IF d = cur.id THEN cur.out ELSE h[d]
    BY <1>1, <1>2, <1>3
<1>5. cur.out # "none"  BY <1>3 DEF Answer
<1>6. Remembered'  BY <1>1, <1>2, <1>4, <1>5 DEF BooksInv, Remembered
<1>. QED  BY <1>1, <1>4, <1>6 DEF BooksInv, BooksShape, AppliedAtMostOnce

\* A restart keeps what is on disk.
LEMMA RestartStep ==
    ASSUME BooksInv, Restart
    PROVE  BooksInv'
<1>1. /\ handled' = saved /\ pc' = "idle"
      /\ torn' = torn \cup {c \in Cmd : effects[c] > 0 /\ saved[c] = "none"}
      /\ UNCHANGED <<expired, effects, saved>>
    BY DEF Restart, cloudVars
<1>. QED  BY <1>1 DEF BooksInv, BooksShape, Remembered, AppliedAtMostOnce

\* The invariant is inductive.
LEMMA BooksStep == BooksInv /\ [Next]_vars => BooksInv'
<1>. SUFFICES ASSUME BooksInv, [Next]_vars PROVE BooksInv'
    OBVIOUS
<1>1. CASE StepBegins
    BY <1>1 DEF StepBegins, cloudVars, histVars, BooksInv, BooksShape, Remembered, AppliedAtMostOnce
<1>2. CASE Fetch
    BY <1>2 DEF Fetch, cloudVars, histVars, BooksInv, BooksShape, Remembered, AppliedAtMostOnce
<1>3. CASE PostResult
    BY <1>3 DEF PostResult, histVars, BooksInv, BooksShape, Remembered, AppliedAtMostOnce
<1>4. CASE RetryResult
    BY <1>4 DEF RetryResult, histVars, BooksInv, BooksShape, Remembered, AppliedAtMostOnce
<1>5. ASSUME NEW c \in Cmd, Expire(c) PROVE BooksInv'
    BY <1>5 DEF Expire, histVars, BooksInv, BooksShape, Remembered, AppliedAtMostOnce
<1>6. CASE UNCHANGED vars
    BY <1>6 DEF vars, cloudVars, histVars, BooksInv, BooksShape, Remembered, AppliedAtMostOnce
<1>. QED
    BY <1>1, <1>2, <1>3, <1>4, <1>5, <1>6, ApplyStep, StoreStep, RestartStep DEF Next, WorkerStep

\* The device does not act twice on a command, however often the worker died,
\* the cloud redelivered or the results were lost, unless it died between the
\* act and the cache, or could not write the cache (DeviceCommandDispatcher).
THEOREM AppliedOnce == Spec => []AppliedAtMostOnce
<1>1. BooksInv => AppliedAtMostOnce  BY DEF BooksInv
<1>. QED  BY BooksInit, BooksStep, <1>1, PTL DEF Spec

(***************************************************************************)
(* What Cloud has on record.  An answer travels long after it was given: it *)
(* waits, is repeated, read back from disk.  It stays true because nothing  *)
(* that has an answer on its way, in the books or on record is run again.   *)
(***************************************************************************)
Result == [id : Cmd, out : Answer]

\* An answer of `out` to c is what happened, or one of the exceptions.
Vouched(c, out) ==
    /\ out = "applied" => effects[c] > 0
    /\ out = "rejected" => effects[c] = 0 \/ c \in torn \cup partial \cup forgotten

\* c will not be run any more.
Settled(c) == handled[c] # "none" \/ c \in expired

WorkerShape ==
    /\ effects \in [Cmd -> Nat]
    /\ cloud \in [Cmd -> Answer \cup {"pending", "gone"}]
    /\ handled \in [Cmd -> Answer \cup {"none"}] /\ saved \in [Cmd -> Answer \cup {"none"}]
    /\ unposted \in Seq(Result) /\ retries \in Seq(Result)
    /\ pc \in {"idle", "retry", "fetch", "apply", "store", "post"}
    /\ pc \in {"store", "post"} => cur \in Result /\ cur.id \notin batch
    /\ pc = "retry" => retries # <<>>

\* What was fetched has no answer on record: only its own would put one there.
FetchedIsPending ==
    /\ pc \in {"idle", "retry", "fetch"} => batch = {}
    /\ batch \subseteq {c \in Cmd : cloud[c] = "pending"}

\* Every answer on its way, in the books or on record is vouched for, and no
\* later run of the command can make it false.
AnswersAreVouched ==
    /\ \A s \in {unposted, retries} : \A i \in DOMAIN s :
          Settled(s[i].id) /\ Vouched(s[i].id, s[i].out)
    /\ pc \in {"store", "post"} => Vouched(cur.id, cur.out)
    /\ pc = "post" => Settled(cur.id)
    /\ \A c \in Cmd :
          /\ Vouched(c, handled[c]) /\ Vouched(c, saved[c]) /\ Vouched(c, cloud[c])
          /\ saved[c] # "none" => Settled(c)

\* What took effect and is still asked for is on the books, or is an exception.
EffectIsKnown ==
    \A c \in Cmd : effects[c] > 0 =>
        \/ c \in torn \cup forgotten
        \/ handled[c] # "none"
        \/ pc = "store" /\ cur.id = c
        \/ cloud[c] # "pending"

TruthInv == WorkerShape /\ FetchedIsPending /\ AnswersAreVouched /\ EffectIsKnown

\* The same of the state after a step, for an answer of the state before or after.
VouchedNext(c, out) ==
    /\ out = "applied" => effects'[c] > 0
    /\ out = "rejected" => effects'[c] = 0 \/ c \in torn' \cup partial' \cup forgotten'

\* An answer to c that is vouched for stays so while c is not run.
LEMMA VouchedStays ==
    ASSUME NEW c \in Cmd, NEW out, effects'[c] = effects[c],
           torn \subseteq torn', partial \subseteq partial', forgotten \subseteq forgotten',
           Vouched(c, out)
    PROVE  VouchedNext(c, out)
BY DEF Vouched, VouchedNext

\* Taking a result out leaves some of the others.
LEMMA WithoutKeeps ==
    ASSUME NEW id, unposted \in Seq(Result)
    PROVE  /\ Without(id) \in Seq(Result)
           /\ \A i \in DOMAIN Without(id) : \E j \in DOMAIN unposted : Without(id)[i] = unposted[j]
<1>1. CASE id \in Ids(unposted)
    <2>. DEFINE k == CHOOSE i \in DOMAIN unposted : unposted[i].id = id
    <2>1. k \in 1..Len(unposted)
        BY <1>1 DEF Ids
    <2>2. Without(id) = SubSeq(unposted, 1, k - 1) \o SubSeq(unposted, k + 1, Len(unposted))
        BY <1>1 DEF Without, RemoveAt
    <2>. HIDE DEF k
    <2>. DEFINE a == SubSeq(unposted, 1, k - 1)
                b == SubSeq(unposted, k + 1, Len(unposted))
    <2>3. /\ a \in Seq(Result) /\ Len(a) = k - 1
          /\ \A i \in 1..(k - 1) : a[i] = unposted[i]
        BY <2>1
    <2>4. /\ b \in Seq(Result) /\ Len(b) = Len(unposted) - k
          /\ \A i \in 1..(Len(unposted) - k) : b[i] = unposted[i + k]
        BY <2>1
    <2>. HIDE DEF a, b
    <2>5. a \o b \in Seq(Result) /\ Len(a \o b) = Len(unposted) - 1
        <3>1. a \in Seq(Result) /\ b \in Seq(Result)
            BY <2>3, <2>4
        <3>2. a \o b \in Seq(Result) /\ Len(a \o b) = Len(a) + Len(b)
            BY <3>1
        <3>3. Len(unposted) \in Nat /\ Len(a) = k - 1 /\ Len(b) = Len(unposted) - k
            BY <2>3, <2>4
        <3>. QED  BY <2>1, <3>2, <3>3
    <2>6. ASSUME NEW i \in 1..(Len(unposted) - 1)
          PROVE  (a \o b)[i] = IF i < k THEN unposted[i] ELSE unposted[i + 1]
        <3>1. CASE i < k
            BY <2>1, <2>3, <2>4, <3>1
        <3>2. CASE ~(i < k)
            <4>1. (a \o b)[i] = b[i - (k - 1)] /\ i - (k - 1) \in 1..(Len(unposted) - k)
                BY <2>1, <2>3, <2>4, <3>2
            <4>2. b[i - (k - 1)] = unposted[i - (k - 1) + k]
                BY <2>4, <4>1
            <4>3. i - (k - 1) + k = i + 1
                BY <2>1
            <4>. QED  BY <3>2, <4>1, <4>2, <4>3
        <3>. QED  BY <3>1, <3>2
    <2>7. Without(id) = a \o b
        BY <2>2 DEF a, b
    <2>8. \A i \in 1..(Len(unposted) - 1) : i \in DOMAIN unposted /\ i + 1 \in DOMAIN unposted
        BY <2>1
    <2>9. DOMAIN (a \o b) = 1..(Len(unposted) - 1)
        BY <2>5
    <2>10. \A i \in DOMAIN (a \o b) : \E j \in DOMAIN unposted : (a \o b)[i] = unposted[j]
        BY <2>6, <2>8, <2>9
    <2>. QED  BY <2>5, <2>7, <2>10
<1>2. CASE id \notin Ids(unposted)
    BY <1>2 DEF Without
<1>. QED  BY <1>1, <1>2

\* Keeping a result adds no other.
LEMMA KeepKeeps ==
    ASSUME NEW r \in Result, unposted \in Seq(Result), Cap \in Nat \ {0}
    PROVE  /\ Keep(r) \in Seq(Result)
           /\ \A i \in DOMAIN Keep(r) :
                 Keep(r)[i] = r \/ \E j \in DOMAIN unposted : Keep(r)[i] = unposted[j]
<1>1. CASE r.id \in Ids(unposted)
    BY <1>1 DEF Keep
<1>2. CASE r.id \notin Ids(unposted)
    <2>. DEFINE u == IF Len(unposted) >= Cap THEN Tail(unposted) ELSE unposted
    <2>1. /\ u \in Seq(Result)
          /\ \A i \in DOMAIN u : \E j \in DOMAIN unposted : u[i] = unposted[j]
        <3>1. CASE Len(unposted) >= Cap
            <4>1. unposted # <<>>
                BY <3>1
            <4>2. u = Tail(unposted) /\ \A i \in 1..(Len(unposted) - 1) : Tail(unposted)[i] = unposted[i + 1]
                BY <3>1, <4>1
            <4>. QED  BY <4>1, <4>2
        <3>2. CASE ~(Len(unposted) >= Cap)
            BY <3>2
        <3>. QED  BY <3>1, <3>2
    <2>2. Keep(r) = Append(u, r)
        BY <1>2 DEF Keep
    <2>. HIDE DEF u
    <2>. QED  BY <2>1, <2>2
<1>. QED  BY <1>1, <1>2

\* The results that wait are vouched for.
WaitVouched(s) == \A i \in DOMAIN s : Settled(s[i].id) /\ Vouched(s[i].id, s[i].out)

\* A delivery leaves results that wait, and on record what was there or the answer.
LEMMA DeliverKeeps ==
    ASSUME TruthInv, NEW r \in Result, Deliver(r), Settled(r.id), Vouched(r.id, r.out)
    PROVE  /\ unposted' \in Seq(Result) /\ WaitVouched(unposted')
           /\ cloud' \in [Cmd -> Answer \cup {"pending", "gone"}]
           /\ \A c \in Cmd : /\ c # r.id => cloud'[c] = cloud[c]
                             /\ cloud[c] # "pending" => cloud'[c] # "pending"
                             /\ Vouched(c, cloud'[c])
<1>1. WaitVouched(unposted) /\ unposted \in Seq(Result) /\ Cap \in Nat \ {0}
    BY CommandsAssumption DEF TruthInv, AnswersAreVouched, WorkerShape, WaitVouched
<1>2. unposted' \in {Without(r.id), Keep(r)}
    BY DEF Deliver
<1>3. unposted' \in Seq(Result) /\ WaitVouched(unposted')
    <2>1. CASE unposted' = Without(r.id)
        BY <1>1, <2>1, WithoutKeeps DEF WaitVouched
    <2>2. CASE unposted' = Keep(r)
        BY <1>1, <2>2, KeepKeeps DEF WaitVouched
    <2>. QED  BY <1>2, <2>1, <2>2
<1>4. /\ cloud \in [Cmd -> Answer \cup {"pending", "gone"}] /\ r.id \in Cmd /\ r.out \in Answer
      /\ \A c \in Cmd : Vouched(c, cloud[c])
    BY DEF TruthInv, WorkerShape, AnswersAreVouched, Result
<1>5. \E v \in {r.out, "gone", "pending"} :
          cloud' = [cloud EXCEPT ![r.id] = IF @ = "pending" THEN v ELSE @]
    <2>1. [cloud EXCEPT ![r.id] = IF @ = "pending" THEN "pending" ELSE @] = cloud
        BY <1>4
    <2>. QED  BY <2>1 DEF Deliver
<1>6. Vouched(r.id, "gone") /\ Vouched(r.id, "pending")
    BY DEF Vouched
<1>7. PICK v \in {r.out, "gone", "pending"} :
          cloud' = [cloud EXCEPT ![r.id] = IF @ = "pending" THEN v ELSE @]
    BY <1>5
<1>8. v \in Answer \cup {"pending", "gone"} /\ Vouched(r.id, v)
    BY <1>4, <1>6, <1>7
<1>9. \A c \in Cmd : cloud'[c] = IF c = r.id /\ cloud[c] = "pending" THEN v ELSE cloud[c]
    BY <1>4, <1>7
<1>10. cloud' \in [Cmd -> Answer \cup {"pending", "gone"}]
    BY <1>4, <1>7, <1>8
<1>. QED  BY <1>3, <1>4, <1>8, <1>9, <1>10

\* Nothing happened yet.
LEMMA TruthInit == Init => TruthInv
<1>. SUFFICES ASSUME Init PROVE TruthInv
    OBVIOUS
<1>1. unposted = <<>> /\ retries = <<>> /\ <<>> \in Seq(Result) /\ DOMAIN <<>> = {}
    BY DEF Init
<1>. QED  BY <1>1 DEF Init, TruthInv, WorkerShape, FetchedIsPending, AnswersAreVouched,
                     EffectIsKnown, Vouched, Settled, Answer

\* What the eviction leaves: a command once settled stays settled, and what is
\* dropped while Cloud still asks is noted.
LEMMA EvictionKeeps ==
    ASSUME TruthInv, Evicts, UNCHANGED expired, handled' \in [Cmd -> Answer \cup {"none"}],
           \A d \in Cmd : handled'[d] = "none" => d \in expired \/ handled[d] = "none"
    PROVE  /\ forgotten \subseteq forgotten'
           /\ \A d \in Cmd : Settled(d) => Settled(d)'
           /\ \A d \in Cmd : handled[d] # "none" /\ cloud[d] = "pending" =>
                  handled'[d] # "none" \/ d \in forgotten'
BY DEF Evicts, Settled

\* How an answer to c comes about, in an Apply.
AnswerOf(c) ==
    /\ effects' \in [Cmd -> Nat] /\ partial \subseteq partial'
    /\ \A d \in Cmd : d # c => effects'[d] = effects[d]
    /\ effects'[c] = effects[c] \/ (effects'[c] = effects[c] + 1 /\ ~Settled(c))
    /\ cur' \in Result /\ cur'.id = c
    /\ pc' \in {"store", "post"}
    /\ pc' = "post" => Settled(c)' /\ effects' = effects
    /\ VouchedNext(c, cur'.out)

\* The handler's answer is what it did, or c is noted as an exception.
LEMMA HandlerAnswers ==
    ASSUME TruthInv, NEW c \in Cmd, Handler(c), cloud[c] = "pending", ~Settled(c), pc = "apply",
           torn' = torn, forgotten \subseteq forgotten'
    PROVE  AnswerOf(c)
<1>1. PICK took \in BOOLEAN, out \in Answer : Ran(c, took, out) /\ (took \/ out = "rejected")
    BY DEF Handler, Answer
<1>2. cur' = [id |-> c, out |-> out] /\ pc' = "store" /\ partial \subseteq partial'
    BY <1>1 DEF Ran
<1>3. effects \in [Cmd -> Nat] /\ (effects[c] > 0 => c \in torn \cup forgotten)
    BY DEF TruthInv, WorkerShape, EffectIsKnown, Settled
<1>4. CASE took
    <2>1. effects' = [effects EXCEPT ![c] = @ + 1] /\ (out = "rejected" => c \in partial')
        BY <1>1, <1>4 DEF Ran
    <2>2. effects' \in [Cmd -> Nat] /\ effects'[c] = effects[c] + 1 /\ effects'[c] > 0
          /\ \A d \in Cmd : d # c => effects'[d] = effects[d]
        BY <1>3, <2>1
    <2>. QED  BY <1>2, <2>1, <2>2 DEF AnswerOf, VouchedNext, Result
<1>5. CASE ~took
    <2>1. effects' = effects /\ out = "rejected"
        BY <1>1, <1>5 DEF Ran
    <2>. QED  BY <1>2, <1>3, <2>1 DEF AnswerOf, VouchedNext, Result
<1>. QED  BY <1>4, <1>5

\* A fetched command is answered.
LEMMA ApplyAnswers ==
    ASSUME TruthInv, NEW c \in Cmd, Apply(c), cloud[c] = "pending",
           handled' \in [Cmd -> Answer \cup {"none"}],
           \A d \in Cmd : handled'[d] = IF d \in expired THEN "none" ELSE handled[d],
           forgotten \subseteq forgotten',
           \A d \in Cmd : handled[d] # "none" /\ cloud[d] = "pending" =>
                  handled'[d] # "none" \/ d \in forgotten'
    PROVE  AnswerOf(c)
<1>1. pc = "apply" /\ torn' = torn /\ UNCHANGED expired
    BY DEF Apply, cloudVars
<1>2. effects \in [Cmd -> Nat] /\ handled \in [Cmd -> Answer \cup {"none"}]
    BY DEF TruthInv, WorkerShape
<1>3. CASE /\ handled'[c] # "none"
           /\ cur' = [id |-> c, out |-> handled'[c]] /\ pc' = "post" /\ UNCHANGED <<effects, partial>>
    <2>1. handled'[c] = handled[c] /\ handled'[c] \in Answer
        BY <1>2, <1>3
    <2>2. Vouched(c, handled[c])
        BY DEF TruthInv, AnswersAreVouched
    <2>3. VouchedNext(c, handled'[c])
        BY <1>1, <1>3, <2>1, <2>2 DEF Vouched, VouchedNext
    <2>. QED  BY <1>2, <1>3, <2>1, <2>3 DEF AnswerOf, Settled, Result
<1>4. CASE /\ handled'[c] = "none" /\ c \in expired
           /\ cur' = [id |-> c, out |-> "rejected"] /\ pc' = "store" /\ UNCHANGED <<effects, partial>>
    <2>1. effects[c] > 0 => c \in torn \cup forgotten'
        BY <1>1, <1>4 DEF TruthInv, EffectIsKnown
    <2>2. VouchedNext(c, "rejected")
        BY <1>1, <1>2, <1>4, <2>1 DEF Vouched, VouchedNext
    <2>. QED  BY <1>2, <1>4, <2>2 DEF AnswerOf, Result, Answer
<1>5. CASE handled'[c] = "none" /\ c \notin expired /\ Handler(c)
    <2>1. ~Settled(c)
        BY <1>5 DEF Settled
    <2>. QED  BY <1>1, <1>5, <2>1, HandlerAnswers
<1>. QED  BY <1>3, <1>4, <1>5 DEF Apply

\* Only a command that nothing answers yet is run.
LEMMA TruthApply == ASSUME TruthInv, NEW c \in Cmd, Apply(c) PROVE TruthInv'
<1>1. /\ pc = "apply" /\ c \in batch /\ batch' = batch \ {c} /\ handled' = Unexpired(handled)
      /\ Evicts /\ UNCHANGED <<cloud, expired, unposted, saved, retries, torn>>
    BY DEF Apply, cloudVars
<1>2. /\ handled' \in [Cmd -> Answer \cup {"none"}]
      /\ \A d \in Cmd : handled'[d] = IF d \in expired THEN "none" ELSE handled[d]
    BY <1>1, UnexpiredKeeps DEF TruthInv, WorkerShape
<1>3. /\ forgotten \subseteq forgotten'
      /\ \A d \in Cmd : Settled(d) => Settled(d)'
      /\ \A d \in Cmd : handled[d] # "none" /\ cloud[d] = "pending" =>
             handled'[d] # "none" \/ d \in forgotten'
    BY <1>1, <1>2, EvictionKeeps
<1>4. cloud[c] = "pending"
    BY <1>1 DEF TruthInv, FetchedIsPending
<1>5. AnswerOf(c)
    BY <1>2, <1>3, <1>4, ApplyAnswers
<1>6. ASSUME NEW d \in Cmd, NEW out, Vouched(d, out), d = c /\ out \in Answer => Settled(c)
      PROVE  VouchedNext(d, out)
    <2>1. CASE effects'[d] = effects[d]
        BY <1>1, <1>3, <1>5, <1>6, <2>1, VouchedStays DEF AnswerOf
    <2>2. CASE effects'[d] # effects[d]
        <3>1. out \notin Answer
            BY <1>5, <1>6, <2>2 DEF AnswerOf
        <3>. QED  BY <3>1 DEF VouchedNext, Answer
    <2>. QED  BY <2>1, <2>2
<1>7. ASSUME NEW s \in {unposted, retries}, NEW i \in DOMAIN s
      PROVE  Settled(s[i].id)' /\ VouchedNext(s[i].id, s[i].out)
    <2>1. s[i] \in Result /\ Settled(s[i].id) /\ Vouched(s[i].id, s[i].out)
        BY <1>7 DEF TruthInv, WorkerShape, AnswersAreVouched
    <2>2. s[i].id \in Cmd /\ s[i].out \in Answer
        BY <2>1 DEF Result
    <2>3. \A d \in Cmd, out \in Answer :
              Settled(d) /\ Vouched(d, out) => Settled(d)' /\ VouchedNext(d, out)
        <3>. SUFFICES ASSUME NEW d \in Cmd, NEW out \in Answer, Settled(d), Vouched(d, out)
                      PROVE  Settled(d)' /\ VouchedNext(d, out)
            OBVIOUS
        <3>1. VouchedNext(d, out)
            BY <1>6
        <3>. QED  BY <1>3, <3>1
    <2>. QED  BY <2>1, <2>2, <2>3
<1>8. ASSUME NEW d \in Cmd
      PROVE  /\ VouchedNext(d, handled'[d]) /\ VouchedNext(d, saved[d]) /\ VouchedNext(d, cloud[d])
             /\ saved[d] # "none" => Settled(d)'
    <2>1. /\ Vouched(d, handled[d]) /\ Vouched(d, saved[d]) /\ Vouched(d, cloud[d])
          /\ saved[d] # "none" => Settled(d)
        BY DEF TruthInv, AnswersAreVouched
    <2>2. VouchedNext(d, handled[d])
        <3>1. d = c /\ handled[d] \in Answer => Settled(c)
            BY DEF Settled, Answer
        <3>. QED  BY <1>6, <2>1, <3>1
    <2>3. VouchedNext(d, "none")
        BY DEF Vouched, VouchedNext
    <2>4. VouchedNext(d, handled'[d])
        <3>1. CASE handled'[d] = handled[d]
            BY <2>2, <3>1 DEF Vouched, VouchedNext
        <3>2. CASE handled'[d] = "none"
            BY <2>3, <3>2 DEF Vouched, VouchedNext
        <3>. QED  BY <1>2, <3>1, <3>2
    <2>5. VouchedNext(d, saved[d])
        <3>1. d = c /\ saved[d] \in Answer => Settled(c)
            BY <2>1 DEF Answer
        <3>. QED  BY <1>1, <1>6, <2>1, <3>1 DEF Vouched, VouchedNext
    <2>6. VouchedNext(d, cloud[d])
        <3>1. d = c => cloud[d] \notin Answer
            BY <1>4 DEF Answer
        <3>. QED  BY <1>1, <1>6, <2>1, <3>1 DEF Vouched, VouchedNext
    <2>. QED  BY <1>3, <2>1, <2>4, <2>5, <2>6
<1>9. AnswersAreVouched'
    <2>1. /\ \A d \in Cmd : /\ Vouched(d, handled[d])' /\ Vouched(d, saved[d])' /\ Vouched(d, cloud[d])'
                            /\ (saved[d] # "none" => Settled(d))'
        BY <1>1, <1>8 DEF Vouched, VouchedNext
    <2>2. /\ (\A i \in DOMAIN unposted : Settled(unposted[i].id) /\ Vouched(unposted[i].id, unposted[i].out))'
          /\ (\A i \in DOMAIN retries : Settled(retries[i].id) /\ Vouched(retries[i].id, retries[i].out))'
        BY <1>1, <1>7 DEF Vouched, VouchedNext, Settled
    <2>3. (pc = "post" => Settled(cur.id))' /\ (pc \in {"store", "post"} => Vouched(cur.id, cur.out))'
        BY <1>5 DEF Vouched, VouchedNext, AnswerOf, Settled
    <2>. QED  BY <2>1, <2>2, <2>3 DEF AnswersAreVouched
<1>10. WorkerShape'
    BY <1>1, <1>2, <1>5 DEF TruthInv, WorkerShape, AnswerOf
<1>11. FetchedIsPending'
    BY <1>1, <1>5 DEF TruthInv, FetchedIsPending, AnswerOf
<1>12. EffectIsKnown'
    <2>1. ASSUME NEW d \in Cmd, effects'[d] > 0
          PROVE  \/ d \in torn \cup forgotten'
                 \/ handled'[d] # "none"
                 \/ pc' = "store" /\ cur'.id = d
                 \/ cloud[d] # "pending"
        <3>1. CASE effects'[d] = effects[d]
            BY <1>1, <1>3, <2>1, <3>1 DEF TruthInv, EffectIsKnown
        <3>2. CASE effects'[d] # effects[d]
            BY <1>5, <3>2 DEF AnswerOf
        <3>. QED  BY <3>1, <3>2
    <2>. QED  BY <1>1, <2>1 DEF EffectIsKnown
<1>. QED  BY <1>9, <1>10, <1>11, <1>12 DEF TruthInv

\* The answer goes into the books.
LEMMA TruthStore == ASSUME TruthInv, Store PROVE TruthInv'
<1>. DEFINE h == Unexpired(handled)
<1>1. /\ pc = "store" /\ pc' = "post" /\ handled' = [h EXCEPT ![cur.id] = cur.out]
      /\ saved' \in {saved, handled'} /\ Evicts
      /\ UNCHANGED <<cloud, expired, unposted, retries, batch, cur, effects, torn, partial>>
    BY DEF Store, cloudVars, histVars
<1>2. /\ h \in [Cmd -> Answer \cup {"none"}]
      /\ \A d \in Cmd : h[d] = IF d \in expired THEN "none" ELSE handled[d]
    BY UnexpiredKeeps DEF TruthInv, WorkerShape
<1>. HIDE DEF h
<1>3. cur.id \in Cmd /\ cur.out \in Answer /\ cur.out # "none" /\ Vouched(cur.id, cur.out)
    BY <1>1 DEF TruthInv, WorkerShape, AnswersAreVouched, Result, Answer
<1>4. /\ handled' \in [Cmd -> Answer \cup {"none"}]
      /\ \A d \in Cmd : handled'[d] = IF d = cur.id THEN cur.out ELSE h[d]
    BY <1>1, <1>2, <1>3
<1>5. /\ forgotten \subseteq forgotten'
      /\ \A d \in Cmd : Settled(d) => Settled(d)'
      /\ \A d \in Cmd : handled[d] # "none" /\ cloud[d] = "pending" =>
             handled'[d] # "none" \/ d \in forgotten'
    BY <1>1, <1>2, <1>3, <1>4, EvictionKeeps
<1>6. ASSUME NEW d \in Cmd, NEW out, Vouched(d, out) PROVE VouchedNext(d, out)
    BY <1>1, <1>5, <1>6, VouchedStays
<1>7. ASSUME NEW s \in {unposted, retries}, NEW i \in DOMAIN s
      PROVE  Settled(s[i].id)' /\ VouchedNext(s[i].id, s[i].out)
    <2>1. s[i] \in Result /\ Settled(s[i].id) /\ Vouched(s[i].id, s[i].out)
        BY <1>7 DEF TruthInv, WorkerShape, AnswersAreVouched
    <2>2. s[i].id \in Cmd /\ s[i].out \in Answer
        BY <2>1 DEF Result
    <2>3. ASSUME NEW d \in Cmd, NEW out \in Answer, Settled(d), Vouched(d, out)
          PROVE  Settled(d)' /\ VouchedNext(d, out)
        BY <1>5, <1>6, <2>3
    <2>. QED  BY <2>1, <2>2, <2>3
<1>8. ASSUME NEW d \in Cmd
      PROVE  /\ VouchedNext(d, handled'[d]) /\ VouchedNext(d, saved'[d]) /\ VouchedNext(d, cloud[d])
             /\ saved'[d] # "none" => Settled(d)'
    <2>1. /\ Vouched(d, handled[d]) /\ Vouched(d, saved[d]) /\ Vouched(d, cloud[d])
          /\ saved[d] # "none" => Settled(d)
        BY DEF TruthInv, AnswersAreVouched
    <2>2. VouchedNext(d, handled[d]) /\ VouchedNext(d, saved[d]) /\ VouchedNext(d, cloud[d])
        BY <1>6, <2>1
    <2>3. VouchedNext(d, "none")
        BY DEF VouchedNext
    <2>4. VouchedNext(cur.id, cur.out)
        BY <1>3, <1>6
    <2>5. VouchedNext(d, handled'[d])
        BY <1>2, <1>4, <2>2, <2>3, <2>4
    <2>6. saved'[d] # "none" => Settled(d)'
        BY <1>1, <1>5, <2>1 DEF Settled
    <2>. QED  BY <1>1, <2>2, <2>5, <2>6
<1>9. AnswersAreVouched'
    <2>1. \A d \in Cmd : /\ Vouched(d, handled[d])' /\ Vouched(d, saved[d])' /\ Vouched(d, cloud[d])'
                         /\ (saved[d] # "none" => Settled(d))'
        BY <1>1, <1>8 DEF Vouched, VouchedNext
    <2>2. /\ (\A i \in DOMAIN unposted : Settled(unposted[i].id) /\ Vouched(unposted[i].id, unposted[i].out))'
          /\ (\A i \in DOMAIN retries : Settled(retries[i].id) /\ Vouched(retries[i].id, retries[i].out))'
        BY <1>1, <1>7 DEF Vouched, VouchedNext, Settled
    <2>3. Settled(cur.id)' /\ Vouched(cur.id, cur.out)'
        <3>1. handled'[cur.id] # "none" /\ VouchedNext(cur.id, cur.out)
            BY <1>3, <1>4, <1>6
        <3>. QED  BY <1>1, <3>1 DEF Settled, Vouched, VouchedNext
    <2>. QED  BY <2>1, <2>2, <2>3 DEF AnswersAreVouched
<1>10. WorkerShape' /\ FetchedIsPending'
    <2>1. saved' \in [Cmd -> Answer \cup {"none"}]
        BY <1>1, <1>4 DEF TruthInv, WorkerShape
    <2>2. WorkerShape'
        BY <1>1, <1>4, <2>1 DEF TruthInv, WorkerShape
    <2>3. FetchedIsPending'
        BY <1>1 DEF TruthInv, FetchedIsPending
    <2>. QED  BY <2>2, <2>3
<1>11. EffectIsKnown'
    BY <1>1, <1>3, <1>4, <1>5 DEF TruthInv, EffectIsKnown
<1>. QED  BY <1>9, <1>10, <1>11 DEF TruthInv

\* What a delivery leaves alone: the books and what happened.
LEMMA TruthDelivered ==
    ASSUME TruthInv, NEW r \in Result, Deliver(r), Settled(r.id), Vouched(r.id, r.out),
           UNCHANGED <<expired, handled, saved, effects, torn, partial, forgotten, batch>>,
           r.id \notin batch, pc # "store", pc' \in {"idle", "retry", "fetch", "apply"},
           pc' \in {"idle", "retry", "fetch"} => batch = {},
           pc' = "retry" => retries' # <<>>,
           retries' \in Seq(Result), WaitVouched(retries')
    PROVE  TruthInv'
<1>1. /\ unposted' \in Seq(Result) /\ WaitVouched(unposted')
      /\ cloud' \in [Cmd -> Answer \cup {"pending", "gone"}]
      /\ \A c \in Cmd : /\ c # r.id => cloud'[c] = cloud[c]
                        /\ cloud[c] # "pending" => cloud'[c] # "pending"
                        /\ Vouched(c, cloud'[c])
    BY DeliverKeeps
<1>2. WorkerShape'
    BY <1>1 DEF TruthInv, WorkerShape
<1>3. FetchedIsPending'
    BY <1>1 DEF TruthInv, FetchedIsPending
<1>4. EffectIsKnown'
    BY <1>1 DEF TruthInv, EffectIsKnown
<1>5. AnswersAreVouched'
    <2>1. \A c \in Cmd : /\ Vouched(c, handled[c])' /\ Vouched(c, saved[c])' /\ Vouched(c, cloud[c])'
                         /\ (saved[c] # "none" => Settled(c))'
        BY <1>1 DEF TruthInv, AnswersAreVouched, Vouched, Settled
    <2>2. /\ (\A i \in DOMAIN unposted : Settled(unposted[i].id) /\ Vouched(unposted[i].id, unposted[i].out))'
          /\ (\A i \in DOMAIN retries : Settled(retries[i].id) /\ Vouched(retries[i].id, retries[i].out))'
        BY <1>1 DEF WaitVouched, Vouched, Settled
    <2>. QED  BY <2>1, <2>2 DEF AnswersAreVouched
<1>. QED  BY <1>2, <1>3, <1>4, <1>5 DEF TruthInv

\* The answer at hand is delivered, or waits.
LEMMA TruthPost == ASSUME TruthInv, PostResult PROVE TruthInv'
<1>1. /\ pc = "post" /\ Deliver(cur) /\ pc' = (IF batch = {} THEN "idle" ELSE "apply")
      /\ UNCHANGED <<expired, handled, saved, effects, torn, partial, forgotten, batch, retries>>
    BY DEF PostResult, histVars
<1>2. cur \in Result /\ cur.id \notin batch /\ Settled(cur.id) /\ Vouched(cur.id, cur.out)
    BY <1>1 DEF TruthInv, WorkerShape, AnswersAreVouched
<1>3. retries' \in Seq(Result) /\ WaitVouched(retries')
    BY <1>1 DEF TruthInv, WorkerShape, AnswersAreVouched, WaitVouched
<1>4. pc' \in {"idle", "retry", "fetch", "apply"} /\ (pc' \in {"idle", "retry", "fetch"} => batch = {})
      /\ pc' # "retry"
    BY <1>1
<1>. QED  BY <1>1, <1>2, <1>3, <1>4, TruthDelivered

\* An older answer is delivered, or goes on waiting.
LEMMA TruthRetry == ASSUME TruthInv, RetryResult PROVE TruthInv'
<1>. DEFINE r == Head(retries)
<1>1. /\ pc = "retry" /\ Deliver(r) /\ retries' = Tail(retries)
      /\ pc' = (IF Len(retries) = 1 THEN "fetch" ELSE "retry")
      /\ UNCHANGED <<expired, handled, saved, effects, torn, partial, forgotten, batch>>
    BY DEF RetryResult, histVars
<1>2. /\ retries \in Seq(Result) /\ retries # <<>> /\ WaitVouched(retries) /\ batch = {}
    BY <1>1 DEF TruthInv, WorkerShape, AnswersAreVouched, FetchedIsPending, WaitVouched
<1>3. r = retries[1] /\ 1 \in DOMAIN retries /\ r \in Result
    BY <1>2
<1>4. /\ Tail(retries) \in Seq(Result) /\ Len(Tail(retries)) = Len(retries) - 1
      /\ \A i \in 1..(Len(retries) - 1) : Tail(retries)[i] = retries[i + 1] /\ i + 1 \in DOMAIN retries
    BY <1>2
<1>. HIDE DEF r
<1>5. Settled(r.id) /\ Vouched(r.id, r.out)
    BY <1>2, <1>3 DEF WaitVouched
<1>6. WaitVouched(retries')
    BY <1>1, <1>2, <1>4 DEF WaitVouched
<1>7. retries' \in Seq(Result) /\ (pc' = "retry" => retries' # <<>>)
    <2>1. CASE Len(retries) = 1
        BY <1>1, <1>4, <2>1
    <2>2. CASE Len(retries) # 1
        <3>1. Len(retries) \in Nat /\ Len(retries) # 0
            BY <1>2
        <3>2. Len(Tail(retries)) # 0
            BY <1>4, <2>2, <3>1
        <3>3. Len(<<>>) = 0
            OBVIOUS
        <3>4. Tail(retries) # <<>>
            BY ONLY <3>2, <3>3
        <3>. QED  BY <1>1, <1>4, <3>4
    <2>. QED  BY <2>1, <2>2
<1>. QED  BY <1>1, <1>2, <1>3, <1>5, <1>6, <1>7, TruthDelivered

\* A restart answers from the disk what the disk has, and notes what it lost.
LEMMA TruthRestart == ASSUME TruthInv, Restart PROVE TruthInv'
<1>1. /\ handled' = saved /\ unposted' = <<>> /\ retries' = <<>> /\ pc' = "idle" /\ batch' = {}
      /\ torn' = torn \cup {c \in Cmd : effects[c] > 0 /\ saved[c] = "none"}
      /\ UNCHANGED <<cloud, expired, saved, effects, partial, forgotten>>
    BY DEF Restart, cloudVars
<1>2. <<>> \in Seq(Result) /\ DOMAIN <<>> = {}
    OBVIOUS
<1>3. WorkerShape' /\ FetchedIsPending' /\ EffectIsKnown'
    BY <1>1, <1>2 DEF TruthInv, WorkerShape, FetchedIsPending, EffectIsKnown
<1>4. AnswersAreVouched'
    BY <1>1, <1>2 DEF TruthInv, AnswersAreVouched, Vouched, Settled
<1>. QED  BY <1>3, <1>4 DEF TruthInv

\* The invariant is inductive.
LEMMA TruthStep == TruthInv /\ [Next]_vars => TruthInv'
<1>. SUFFICES ASSUME TruthInv, [Next]_vars PROVE TruthInv'
    OBVIOUS
<1>. USE DEF cloudVars, histVars
<1>1. CASE StepBegins
    BY <1>1 DEF StepBegins, TruthInv, WorkerShape, FetchedIsPending, AnswersAreVouched, EffectIsKnown,
                Vouched, Settled
<1>2. CASE Fetch
    BY <1>2 DEF Fetch, TruthInv, WorkerShape, FetchedIsPending, AnswersAreVouched, EffectIsKnown,
                Vouched, Settled
<1>3. ASSUME NEW c \in Cmd, Expire(c) PROVE TruthInv'
    BY <1>3 DEF Expire, TruthInv, WorkerShape, FetchedIsPending, AnswersAreVouched, EffectIsKnown,
                Vouched, Settled
<1>4. CASE UNCHANGED vars
    BY <1>4 DEF vars, TruthInv, WorkerShape, FetchedIsPending, AnswersAreVouched, EffectIsKnown,
                Vouched, Settled
<1>. QED
    BY <1>1, <1>2, <1>3, <1>4, TruthApply, TruthStore, TruthPost, TruthRetry, TruthRestart
       DEF Next, WorkerStep

\* What Cloud has on record of a command is what happened, whatever results were
\* lost, repeated, pushed out or told of by another process than the one that
\* acted, unless the handler raised after it had acted, or the memory of the act
\* was lost with the process or with the command's expiry
\* (CommandWorker, DeviceCommandDispatcher).
THEOREM RecordIsTruth == Spec => []CloudKnowsTheTruth
<1>1. TruthInv => CloudKnowsTheTruth
    BY DEF TruthInv, AnswersAreVouched, Vouched, CloudKnowsTheTruth
<1>. QED  BY TruthInit, TruthStep, <1>1, PTL DEF Spec

(***************************************************************************)
(* The worker keeps the promise of CommandLedger: each of its steps is a    *)
(* step of the ledger or leaves the ledger alone.                           *)
(***************************************************************************)
LedgerStep == [Ledger!Next]_<<cloud, effects, expired, torn, partial, forgotten>>

\* What an eviction drops has lapsed, and is still asked for.
LEMMA EvictionDrops == Evicts => Ledger!Drops
BY DEF Evicts, Ledger!Drops

\* A handler acts for a command that is asked for, in time and on no book; the
\* rest of an Apply only evicts.
LEMMA ApplyIsLedgerStep ==
    ASSUME TruthInv, BooksInv, NEW c \in Cmd, Apply(c)
    PROVE  LedgerStep
<1>1. /\ pc = "apply" /\ c \in batch /\ handled' = Unexpired(handled) /\ Ledger!Drops
      /\ UNCHANGED <<cloud, expired, torn>>
    BY EvictionDrops DEF Apply, cloudVars
<1>2. CASE UNCHANGED <<effects, partial>>
    <2>1. Ledger!Drop
        BY <1>1, <1>2 DEF Ledger!Drop
    <2>. QED  BY <2>1 DEF LedgerStep, Ledger!Next
<1>3. CASE handled'[c] = "none" /\ c \notin expired /\ Handler(c)
    <2>1. PICK took \in BOOLEAN, out \in Answer : Ran(c, took, out) /\ (took \/ out = "rejected")
        BY <1>3 DEF Handler, Answer
    <2>2. CASE ~took
        BY <1>2, <2>1, <2>2 DEF Ran
    <2>3. CASE took
        <3>1. effects' = [effects EXCEPT ![c] = @ + 1] /\ partial' \in {partial, partial \cup {c}}
            BY <2>1, <2>3 DEF Ran
        <3>2. c \in Ledger!Asked
            BY <1>1 DEF TruthInv, FetchedIsPending, Ledger!Asked
        <3>3. handled[c] = "none"
            BY <1>1, <1>3, UnexpiredKeeps DEF BooksInv, BooksShape
        <3>4. effects[c] = 0 \/ c \in torn
            BY <1>1, <1>3, <3>3 DEF BooksInv, BooksShape, Remembered
        <3>5. Ledger!Act(c)
            BY <1>1, <1>3, <3>1, <3>2, <3>4 DEF Ledger!Act
        <3>. QED  BY <3>5 DEF LedgerStep, Ledger!Next
    <2>. QED  BY <2>2, <2>3
<1>. QED  BY <1>2, <1>3 DEF Apply

\* A delivery puts the truth on record, once, or nothing.
LEMMA DeliveryIsLedgerStep ==
    ASSUME TruthInv, NEW r \in Result, Deliver(r), Vouched(r.id, r.out),
           UNCHANGED <<effects, expired, torn, partial, forgotten>>
    PROVE  LedgerStep
<1>1. r.id \in Cmd /\ r.out \in Answer /\ cloud \in [Cmd -> Answer \cup {"pending", "gone"}]
    BY DEF Result, TruthInv, WorkerShape
<1>2. CASE cloud' = cloud
    BY <1>2 DEF LedgerStep
<1>3. CASE cloud' # cloud
    <2>1. PICK answer \in {r.out, "gone"} :
              /\ cloud' = [cloud EXCEPT ![r.id] = IF @ = "pending" THEN answer ELSE @]
              /\ answer = "gone" => r.id \in expired
        BY <1>1, <1>3 DEF Deliver, Answer
    <2>2. cloud[r.id] = "pending" /\ cloud' = [cloud EXCEPT ![r.id] = answer]
        BY <1>1, <1>3, <2>1
    <2>3. Ledger!True(r.id, answer)
        <3>1. CASE answer = "gone"
            BY <2>1, <3>1 DEF Ledger!True
        <3>2. CASE answer = r.out
            BY <1>1, <3>2 DEF Ledger!True, Vouched, Answer
        <3>. QED  BY <3>1, <3>2
    <2>4. Ledger!Answer(r.id, answer)
        BY <1>1, <2>2, <2>3 DEF Ledger!Answer, Ledger!Asked
    <2>. QED  BY <1>1, <2>4 DEF LedgerStep, Ledger!Next, Answer
<1>. QED  BY <1>2, <1>3

\* A restart forgets only what was done.
LEMMA RestartIsLedgerStep ==
    ASSUME Restart
    PROVE  LedgerStep
<1>1. Ledger!Forget
    BY DEF Restart, cloudVars, Ledger!Forget
<1>. QED  BY <1>1 DEF LedgerStep, Ledger!Next

\* The command path keeps the promise of CommandLedger: an answer on record is
\* the end of a command, no act of the unit comes after it or a second time, and
\* the answer is the truth, but for the licences the ledger names (CommandWorker,
\* DeviceCommandDispatcher.apply, post_command_result).
THEOREM KeepsTheLedger == Spec => ImplementsLedger
<1>1. Init => Ledger!Init
    BY DEF Init, Ledger!Init
<1>2. TruthInv /\ BooksInv /\ [Next]_vars => LedgerStep
    <2>. SUFFICES ASSUME TruthInv, BooksInv, [Next]_vars PROVE LedgerStep
        OBVIOUS
    <2>1. CASE StepBegins \/ Fetch \/ UNCHANGED vars
        BY <2>1 DEF StepBegins, Fetch, vars, cloudVars, histVars, LedgerStep
    <2>2. CASE Store
        <3>1. Ledger!Drop
            BY <2>2, EvictionDrops DEF Store, cloudVars, histVars, Ledger!Drop
        <3>. QED  BY <3>1 DEF LedgerStep, Ledger!Next
    <2>3. CASE PostResult
        <3>1. cur \in Result /\ Vouched(cur.id, cur.out)
            BY <2>3 DEF PostResult, TruthInv, WorkerShape, AnswersAreVouched
        <3>. QED  BY <2>3, <3>1, DeliveryIsLedgerStep DEF PostResult, histVars
    <2>4. CASE RetryResult
        <3>. DEFINE r == Head(retries)
        <3>1. pc = "retry" /\ Deliver(r) /\ UNCHANGED <<effects, expired, torn, partial, forgotten>>
            BY <2>4 DEF RetryResult, histVars
        <3>2. retries \in Seq(Result) /\ retries # <<>>
            BY <3>1 DEF TruthInv, WorkerShape
        <3>3. r = retries[1] /\ 1 \in DOMAIN retries /\ r \in Result
            BY <3>2
        <3>. HIDE DEF r
        <3>4. Vouched(r.id, r.out)
            BY <3>3 DEF TruthInv, AnswersAreVouched
        <3>. QED  BY <3>1, <3>3, <3>4, DeliveryIsLedgerStep
    <2>5. ASSUME NEW c \in Cmd, Expire(c) PROVE LedgerStep
        <3>1. Ledger!Lapse(c)
            BY <2>5 DEF Expire, histVars, Ledger!Lapse
        <3>. QED  BY <3>1 DEF LedgerStep, Ledger!Next
    <2>. QED  BY <2>1, <2>2, <2>3, <2>4, <2>5, ApplyIsLedgerStep, RestartIsLedgerStep
              DEF Next, WorkerStep
<1>. QED  BY TruthInit, TruthStep, BooksInit, BooksStep, <1>1, <1>2, PTL
          DEF Spec, ImplementsLedger, Ledger!Spec, LedgerStep, Ledger!ledgerVars

\* What every step of the ledger keeps.
LedgerInv ==
    /\ effects \in [Cmd -> Nat] /\ DOMAIN cloud = Cmd
    /\ AppliedAtMostOnce /\ CloudKnowsTheTruth

\* An act comes before the answer, and what licenses an answer is never taken back.
LEMMA LedgerKeepsInv ==
    ASSUME LedgerInv, LedgerStep
    PROVE  LedgerInv'
<1>1. ASSUME NEW c \in Cmd, Ledger!Act(c) PROVE LedgerInv'
    <2>1. /\ effects' = [effects EXCEPT ![c] = @ + 1] /\ (effects[c] = 0 \/ c \in torn)
          /\ cloud[c] = "pending" /\ UNCHANGED <<cloud, torn>>
          /\ partial \subseteq partial' /\ forgotten \subseteq forgotten'
        BY <1>1 DEF Ledger!Act, Ledger!Asked, Ledger!Drops
    <2>2. effects' \in [Cmd -> Nat] /\ effects'[c] = effects[c] + 1
          /\ \A d \in Cmd : d # c => effects'[d] = effects[d]
        BY <2>1 DEF LedgerInv
    <2>3. AppliedAtMostOnce'
        BY <2>1, <2>2 DEF LedgerInv, AppliedAtMostOnce
    <2>4. CloudKnowsTheTruth'
        BY <2>1, <2>2 DEF LedgerInv, CloudKnowsTheTruth
    <2>. QED  BY <2>1, <2>2, <2>3, <2>4 DEF LedgerInv
<1>2. ASSUME NEW c \in Cmd, NEW answer \in {"applied", "rejected", "gone"}, Ledger!Answer(c, answer)
      PROVE  LedgerInv'
    <2>1. /\ cloud' = [cloud EXCEPT ![c] = answer] /\ Ledger!True(c, answer)
          /\ UNCHANGED <<effects, torn, partial, forgotten>>
        BY <1>2 DEF Ledger!Answer
    <2>2. CloudKnowsTheTruth'
        BY <2>1 DEF LedgerInv, CloudKnowsTheTruth, Ledger!True
    <2>. QED  BY <2>1, <2>2 DEF LedgerInv, AppliedAtMostOnce
<1>3. CASE \/ \E c \in Cmd : Ledger!Lapse(c)
           \/ Ledger!Forget \/ Ledger!Drop
           \/ UNCHANGED <<cloud, effects, expired, torn, partial, forgotten>>
    <2>1. /\ UNCHANGED <<cloud, effects>>
          /\ torn \subseteq torn' /\ partial \subseteq partial' /\ forgotten \subseteq forgotten'
        BY <1>3 DEF Ledger!Lapse, Ledger!Forget, Ledger!Drop, Ledger!Drops
    <2>. QED  BY <2>1 DEF LedgerInv, AppliedAtMostOnce, CloudKnowsTheTruth
<1>. QED  BY <1>1, <1>2, <1>3 DEF LedgerStep, Ledger!Next

\* The promise is worth both: whatever keeps the ledger acts once on a command
\* and has the truth on record, so whoever reads Cloud's record need not know how
\* the worker, its cache and its retries work (cloud/device_commands.py).
THEOREM LedgerIsWorthIt == ImplementsLedger => [](AppliedAtMostOnce /\ CloudKnowsTheTruth)
<1>1. Ledger!Init => LedgerInv
    BY DEF Ledger!Init, LedgerInv, AppliedAtMostOnce, CloudKnowsTheTruth
<1>2. LedgerInv => AppliedAtMostOnce /\ CloudKnowsTheTruth
    BY DEF LedgerInv
<1>. QED  BY LedgerKeepsInv, <1>1, <1>2, PTL DEF ImplementsLedger, Ledger!Spec, LedgerStep, Ledger!ledgerVars

(***************************************************************************)
(* The smart breaker.  Commands, timers and the poll reach it through one   *)
(* controller: what it has queued is the last word, and its count of the    *)
(* time since an OFF never runs ahead of the load's.                       *)
(***************************************************************************)
Memory ==
    [desired : {Unasked, Off, On}, pending : BOOLEAN, down : {Linked} \cup 0..Grace,
     failSafe : {"none", Off, HoldLast, On}, sinceOff : 0..MinOff]

BreakerShape ==
    /\ file \in Binding /\ live \in Binding
    /\ ctl \in Memory /\ coil \in [Channel -> BOOLEAN] /\ breaker \in BOOLEAN
    /\ mixed \in BOOLEAN /\ rest \in 0..MinOff /\ ordered \in BOOLEAN

\* Until a reload changes it, the vendor is the one the controller was built for.
VendorStands == ~mixed => built \in {"none", live.vendor}

\* A queued open is the breaker's, and the last word.
QueueIsLast == ctl.pending /\ ~mixed => ctl.desired = Off /\ built = "ableedge"

\* Once a load was stopped on order, the controller's last OFF is no older than
\* the load's rest.
RestIsCounted == ordered => rest >= ctl.sinceOff

BreakerInv == BreakerShape /\ VendorStands /\ QueueIsLast /\ RestIsCounted

\* The controller of boot knows of no command; no coil is on.
LEMMA BreakerStarts == BreakerInit => BreakerInv
<1>. SUFFICES ASSUME BreakerInit PROVE BreakerInv
    OBVIOUS
<1>1. ctl \in Memory /\ ~ctl.pending /\ ctl.sinceOff = MinOff
    BY SmartBreakerAssumption DEF BreakerInit, FreshCtl, Memory
<1>2. built \in {"none", live.vendor}
    BY DEF BreakerInit, Built
<1>3. BreakerShape
    <2>1. rest \in 0..MinOff
        BY SmartBreakerAssumption DEF BreakerInit
    <2>2. coil \in [Channel -> BOOLEAN]
        BY DEF BreakerInit
    <2>3. /\ mixed \in BOOLEAN /\ file \in Binding /\ live \in Binding /\ breaker \in BOOLEAN
          /\ ordered \in BOOLEAN
        BY DEF BreakerInit
    <2>. QED  BY <1>1, <2>1, <2>2, <2>3 DEF BreakerShape
<1>4. RestIsCounted
    BY <1>1, SmartBreakerAssumption DEF BreakerInit, RestIsCounted
<1>. QED  BY <1>1, <1>2, <1>3, <1>4 DEF BreakerInv, VendorStands, QueueIsLast

\* The interlock moves one channel, or none.
LEMMA Interlocked ==
    ASSUME NEW c \in [Channel -> BOOLEAN], NEW on \in BOOLEAN
    PROVE  /\ Interlock(c, on) \in [Channel -> BOOLEAN]
           /\ \A k \in Channel : Interlock(c, on)[k] \in {c[k], on}
BY DEF Interlock

\* Memory and relays after a failed call: the fail-safe may have had its say
\* (_mark_fail, _evaluate_fail_safe).
LEMMA AfterFailed ==
    ASSUME NEW m \in Memory, NEW c \in [Channel -> BOOLEAN], live \in Binding
    PROVE  /\ MarkFail(m) \in Memory /\ AfterFail(m, c) \in [Channel -> BOOLEAN]
           /\ MarkFail(m).sinceOff \in {0, m.sinceOff}
           /\ MarkFail(m).desired \in {m.desired, Off}
           /\ MarkFail(m).pending => m.pending \/ MarkFail(m).desired = Off
           /\ \A k \in Channel : c[k] /\ ~AfterFail(m, c)[k] => MarkFail(m).sinceOff = 0
           /\ \A k \in Channel : ~c[k] /\ AfterFail(m, c)[k] =>
                 MarkFail(m).failSafe = On /\ m.failSafe = "none"
<1> DEFINE f == Failed(m)
<1>1. /\ f \in Memory /\ f.sinceOff = m.sinceOff /\ f.desired = m.desired /\ f.pending = m.pending
      /\ f.failSafe = m.failSafe
    <2>1. 0 \in 0..Grace
        BY SmartBreakerAssumption
    <2>. QED  BY <2>1 DEF Failed, Memory
<1>2. live.mode \in {Off, HoldLast, On}
    BY SmartBreakerAssumption
<1> HIDE DEF f
<1>3. CASE FailSafeDue(f) /\ live.mode = Off
    <2>1. MarkFail(m) = [f EXCEPT !.failSafe = Off, !.sinceOff = 0, !.desired = Off, !.pending = TRUE]
        BY <1>3 DEF MarkFail, FailSafe, f
    <2>2. 0 \in 0..MinOff
        BY SmartBreakerAssumption
    <2>3. MarkFail(m) \in Memory /\ MarkFail(m).sinceOff = 0 /\ MarkFail(m).desired = Off
        BY <1>1, <2>1, <2>2 DEF Memory
    <2>4. AfterFail(m, c) = Interlock(c, FALSE)
        BY <1>3 DEF AfterFail, f, Off, HoldLast, On
    <2>. QED  BY <2>3, <2>4, Interlocked
<1>4. CASE FailSafeDue(f) /\ live.mode # Off
    <2>1. MarkFail(m) = [f EXCEPT !.failSafe = live.mode]
        BY <1>4 DEF MarkFail, FailSafe, f
    <2>2. /\ MarkFail(m) \in Memory /\ MarkFail(m).sinceOff = f.sinceOff /\ MarkFail(m).desired = f.desired
          /\ MarkFail(m).pending = f.pending /\ MarkFail(m).failSafe = live.mode
        BY <1>1, <1>2, <2>1 DEF Memory
    <2>3. AfterFail(m, c) = IF live.mode = On THEN Interlock(c, TRUE) ELSE c
        BY <1>2, <1>4 DEF AfterFail, f, Off, HoldLast, On
    <2>4. /\ Interlock(c, TRUE) \in [Channel -> BOOLEAN]
          /\ \A k \in Channel : Interlock(c, TRUE)[k] \in {c[k], TRUE}
        BY Interlocked
    <2>5. /\ AfterFail(m, c) \in [Channel -> BOOLEAN]
          /\ \A k \in Channel : c[k] => AfterFail(m, c)[k]
          /\ \A k \in Channel : ~c[k] /\ AfterFail(m, c)[k] => live.mode = On
        BY <2>3, <2>4
    <2>6. m.failSafe = "none"
        BY <1>1, <1>4 DEF FailSafeDue
    <2>. QED  BY <1>1, <2>2, <2>5, <2>6
<1>5. CASE ~FailSafeDue(f)
    BY <1>1, <1>5 DEF MarkFail, AfterFail, f
<1>. QED  BY <1>2, <1>3, <1>4, <1>5

\* What any call of the controller leaves behind: a coil falls with an OFF that
\* counts from now, and rises when the last one is long enough ago or by the
\* fail-safe that was asked for.
Obeyed ==
    /\ ctl' \in Memory /\ coil' \in [Channel -> BOOLEAN] /\ breaker' \in BOOLEAN
    /\ ctl'.pending /\ ~mixed => ctl'.desired = Off /\ built = "ableedge"
    /\ ctl'.sinceOff \in {0, ctl.sinceOff}
    /\ \A k \in Channel : coil[k] /\ ~coil'[k] => ctl'.sinceOff = 0
    /\ \A k \in Channel : ~coil[k] /\ coil'[k] => ctl.sinceOff >= MinOff \/ Energises
    /\ ~breaker /\ breaker' => ctl.sinceOff >= MinOff

\* A request that opens the breaker has counted its OFF.
Counted == breaker /\ ~breaker' => ctl'.sinceOff = 0

\* A call that the vendor has answered.
LEMMA Marked ==
    ASSUME NEW m \in Memory
    PROVE  /\ MarkOk(m) \in Memory /\ MarkOk(m).sinceOff = m.sinceOff
           /\ MarkOk(m).desired = m.desired /\ MarkOk(m).pending = m.pending
           /\ \A on \in BOOLEAN :
                 /\ Confirmed(m, on) \in Memory /\ Confirmed(m, on).sinceOff = m.sinceOff
                 /\ ~Confirmed(m, on).pending
BY DEF MarkOk, Confirmed, Memory

\* Moving the breaker is not up to the controller.
LEMMA BreakerMoves ==
    ASSUME breaker \in BOOLEAN, breaker' = (breaker /\ ~Moves) \/ breaker' = (breaker \/ Moves)
    PROVE  breaker' \in BOOLEAN
BY DEF Moves

\* OFF: the relay first, then the breaker, or the queue (request).
LEMMA OffObeys ==
    ASSUME BreakerInv, RequestOff
    PROVE  Obeyed /\ Counted
<1> DEFINE m == [ctl EXCEPT !.sinceOff = 0, !.desired = Off]
<1>1. ctl \in Memory /\ coil \in [Channel -> BOOLEAN] /\ breaker \in BOOLEAN /\ live \in Binding
    BY DEF BreakerInv, BreakerShape
<1>2. m \in Memory /\ m.sinceOff = 0 /\ m.desired = Off /\ m.failSafe = ctl.failSafe
    <2>1. 0 \in 0..MinOff
        BY SmartBreakerAssumption
    <2>. QED  BY <1>1, <2>1 DEF Memory
<1>3. /\ ctl' = IF Answers(token) THEN Confirmed(m, FALSE) ELSE [MarkFail(m) EXCEPT !.pending = TRUE]
      /\ coil' = IF Answers(token) THEN First(coil) ELSE AfterFail(m, First(coil))
      /\ built = "ableedge" /\ breaker' = (breaker /\ ~Moves)
    BY DEF RequestOff, Smart
<1>4. breaker' \in BOOLEAN /\ (breaker' => breaker)
    <2>1. breaker' => breaker
        BY <1>3
    <2>. QED  BY <1>1, <1>3, <2>1, BreakerMoves
<1>5. First(coil) \in [Channel -> BOOLEAN] /\ \A k \in Channel : First(coil)[k] \in {coil[k], FALSE}
    BY <1>1, Interlocked DEF First
<1> HIDE DEF m
<1>6. CASE Answers(token)
    <2>1. ctl' \in Memory /\ ctl'.sinceOff = 0 /\ ~ctl'.pending
        BY <1>2, <1>3, <1>6, Marked
    <2>. QED  BY <1>3, <1>4, <1>5, <1>6, <2>1 DEF Obeyed, Counted
<1>7. CASE ~Answers(token)
    <2>1. /\ MarkFail(m) \in Memory /\ AfterFail(m, First(coil)) \in [Channel -> BOOLEAN]
          /\ MarkFail(m).sinceOff \in {0, m.sinceOff} /\ MarkFail(m).desired \in {m.desired, Off}
          /\ \A k \in Channel : ~First(coil)[k] /\ AfterFail(m, First(coil))[k] =>
                MarkFail(m).failSafe = On /\ ctl.failSafe = "none"
        BY <1>1, <1>2, <1>5, AfterFailed
    <2>2. ctl' = [MarkFail(m) EXCEPT !.pending = TRUE]
        BY <1>3, <1>7
    <2>3. /\ ctl' \in Memory /\ ctl'.sinceOff = 0 /\ ctl'.desired = Off
          /\ ctl'.failSafe = MarkFail(m).failSafe
        BY <1>2, <2>1, <2>2 DEF Memory
    <2>4. \A k \in Channel : ~coil[k] /\ coil'[k] => Energises
        BY <1>3, <1>5, <1>7, <2>1, <2>3 DEF Energises
    <2>. QED  BY <1>3, <1>4, <1>7, <2>1, <2>3, <2>4 DEF Obeyed, Counted
<1>. QED  BY <1>6, <1>7

\* ON: not before the relay has rested, and the breaker first (request).
LEMMA OnObeys ==
    ASSUME BreakerInv, RequestOn
    PROVE  Obeyed /\ Counted
<1>1. ctl \in Memory /\ coil \in [Channel -> BOOLEAN] /\ breaker \in BOOLEAN /\ live \in Binding
    BY DEF BreakerInv, BreakerShape
<1>2. /\ ctl' = IF Answers(token) THEN Confirmed(ctl, TRUE) ELSE MarkFail(ctl)
      /\ coil' = IF Answers(token) THEN Interlock(coil, TRUE) ELSE AfterFail(ctl, coil)
      /\ built = "ableedge" /\ breaker' = (breaker \/ Moves) /\ ctl.sinceOff >= MinOff
    BY DEF RequestOn, Smart, OnAllowed
<1>3. breaker' \in BOOLEAN /\ (breaker => breaker')
    <2>1. breaker => breaker'
        BY <1>2
    <2>. QED  BY <1>1, <1>2, <2>1, BreakerMoves
<1>4. CASE Answers(token)
    <2>1. ctl' \in Memory /\ ctl'.sinceOff = ctl.sinceOff /\ ~ctl'.pending
        BY <1>1, <1>2, <1>4, Marked
    <2>2. coil' \in [Channel -> BOOLEAN] /\ \A k \in Channel : coil'[k] \in {coil[k], TRUE}
        BY <1>1, <1>2, <1>4, Interlocked
    <2>. QED  BY <1>2, <1>3, <2>1, <2>2 DEF Obeyed, Counted
<1>5. CASE ~Answers(token)
    <2>1. /\ ctl' \in Memory /\ coil' \in [Channel -> BOOLEAN]
          /\ ctl'.sinceOff \in {0, ctl.sinceOff} /\ ctl'.desired \in {ctl.desired, Off}
          /\ ctl'.pending => ctl.pending \/ ctl'.desired = Off
          /\ \A k \in Channel : coil[k] /\ ~coil'[k] => ctl'.sinceOff = 0
        BY <1>1, <1>2, <1>5, AfterFailed
    <2>2. ctl'.pending /\ ~mixed => ctl'.desired = Off
        BY <2>1 DEF BreakerInv, QueueIsLast
    <2>. QED  BY <1>2, <1>3, <2>1, <2>2 DEF Obeyed, Counted
<1>. QED  BY <1>4, <1>5

\* The relay alone, and a refused OFF (request).
LEMMA OthersObey ==
    ASSUME BreakerInv, (\E on \in BOOLEAN : RequestRelayOnly(on)) \/ RequestRefused
    PROVE  Obeyed /\ Counted
<1>1. ctl \in Memory /\ coil \in [Channel -> BOOLEAN] /\ breaker \in BOOLEAN /\ 0 \in 0..MinOff
    BY SmartBreakerAssumption DEF BreakerInv, BreakerShape
<1>2. CASE RequestRefused
    <2>1. ctl' = [ctl EXCEPT !.sinceOff = 0] /\ coil' = coil /\ breaker' = breaker
        BY <1>2 DEF RequestRefused
    <2>2. ctl' \in Memory /\ ctl'.sinceOff = 0 /\ ctl'.pending = ctl.pending /\ ctl'.desired = ctl.desired
        BY <1>1, <2>1 DEF Memory
    <2>3. ctl'.pending /\ ~mixed => ctl'.desired = Off /\ built = "ableedge"
        BY <2>2 DEF BreakerInv, QueueIsLast
    <2>. QED  BY <1>1, <2>1, <2>2, <2>3 DEF Obeyed, Counted
<1>3. ASSUME NEW on \in BOOLEAN, RequestRelayOnly(on) PROVE Obeyed /\ Counted
    <2>1. /\ ctl' = [ctl EXCEPT !.desired = IF on THEN On ELSE Off, !.sinceOff = IF on THEN ctl.sinceOff ELSE 0]
          /\ coil' = Interlock(coil, on) /\ breaker' = breaker
          /\ built # "none" /\ live.vendor = "relay_only" /\ (on => ctl.sinceOff >= MinOff)
        BY <1>3 DEF RequestRelayOnly, RelayOnly, OnAllowed
    <2>2. /\ ctl' \in Memory /\ ctl'.pending = ctl.pending
          /\ ctl'.sinceOff = IF on THEN ctl.sinceOff ELSE 0
        BY <1>1, <2>1 DEF Memory
    <2>3. coil' \in [Channel -> BOOLEAN] /\ \A k \in Channel : coil'[k] \in {coil[k], on}
        BY <1>1, <2>1, Interlocked
    <2>4. ~(ctl.pending /\ ~mixed)
        BY <2>1 DEF BreakerInv, QueueIsLast, VendorStands
    <2>. QED  BY <1>1, <2>1, <2>2, <2>3, <2>4 DEF Obeyed, Counted
<1>. QED  BY <1>2, <1>3

\* A poll sends what is queued, or asks for the position (poll).
LEMMA PollObeys ==
    ASSUME BreakerInv, PollFlushes \/ PollSamples
    PROVE  Obeyed
<1>1. ctl \in Memory /\ coil \in [Channel -> BOOLEAN] /\ breaker \in BOOLEAN /\ live \in Binding
    BY DEF BreakerInv, BreakerShape
<1>2. /\ built = "ableedge"
      /\ \/ coil' = coil /\ \/ ctl' = MarkOk(ctl)
                            \/ ctl' = [MarkOk(ctl) EXCEPT !.pending = FALSE]
         \/ coil' = AfterFail(ctl, coil) /\ ctl' = MarkFail(ctl)
    BY DEF PollFlushes, PollSamples, Flushed, Smart
<1>3. breaker' \in BOOLEAN /\ (breaker' => breaker)
    <2>1. breaker' => breaker
        BY DEF PollFlushes, PollSamples
    <2>. QED  BY <1>1, <2>1, BreakerMoves DEF PollFlushes, PollSamples
<1>4. CASE coil' = coil /\ \/ ctl' = MarkOk(ctl)
                           \/ ctl' = [MarkOk(ctl) EXCEPT !.pending = FALSE]
    <2>1. /\ ctl' \in Memory /\ ctl'.sinceOff = ctl.sinceOff /\ ctl'.desired = ctl.desired
          /\ ctl'.pending => ctl.pending
        BY <1>1, <1>4 DEF MarkOk, Memory
    <2>2. ctl'.pending /\ ~mixed => ctl'.desired = Off
        BY <2>1 DEF BreakerInv, QueueIsLast
    <2>. QED  BY <1>1, <1>2, <1>3, <1>4, <2>1, <2>2 DEF Obeyed
<1>5. CASE coil' = AfterFail(ctl, coil) /\ ctl' = MarkFail(ctl)
    <2>1. /\ ctl' \in Memory /\ coil' \in [Channel -> BOOLEAN]
          /\ ctl'.sinceOff \in {0, ctl.sinceOff} /\ ctl'.desired \in {ctl.desired, Off}
          /\ ctl'.pending => ctl.pending \/ ctl'.desired = Off
          /\ \A k \in Channel : coil[k] /\ ~coil'[k] => ctl'.sinceOff = 0
          /\ \A k \in Channel : ~coil[k] /\ coil'[k] => Energises
        BY <1>1, <1>5, AfterFailed DEF Energises
    <2>2. ctl'.pending /\ ~mixed => ctl'.desired = Off
        BY <2>1 DEF BreakerInv, QueueIsLast
    <2>. QED  BY <1>2, <1>3, <2>1, <2>2 DEF Obeyed
<1>. QED  BY <1>2, <1>4, <1>5

\* Every step of the controller leaves that behind, and changes no settings; what
\* it notes of a stop of the load is an OFF that counts from now.
LEMMA ControllerObeys ==
    ASSUME BreakerInv, ControllerStep
    PROVE  /\ Obeyed /\ UNCHANGED settingsVars
           /\ \/ UNCHANGED <<rest, ordered>>
              \/ rest' = 0 /\ ordered' = FALSE
              \/ rest' = 0 /\ ctl'.sinceOff = 0 /\ ordered' = TRUE
<1>1. UNCHANGED settingsVars
    BY DEF ControllerStep, Command, TimedOn, TimerFires, Poll
<1>2. ASSUME TurnOn \/ TurnOff PROVE Obeyed /\ Counted
    BY <1>2, OffObeys, OnObeys, OthersObey DEF TurnOn, TurnOff
<1>3. ASSUME UNCHANGED <<ctl, coil, breaker>> PROVE Obeyed /\ Counted
    <2>1. ctl \in Memory /\ coil \in [Channel -> BOOLEAN] /\ breaker \in BOOLEAN
        BY DEF BreakerInv, BreakerShape
    <2>2. ctl.pending /\ ~mixed => ctl.desired = Off /\ built = "ableedge"
        BY DEF BreakerInv, QueueIsLast
    <2>. QED  BY <1>3, <2>1, <2>2 DEF Obeyed, Counted
<1>4. CASE Command \/ (\E d \in Duration : TimedOn(d)) \/ TimerFires
    <2>1. Obeyed /\ Counted /\ Rested(TRUE)
        BY <1>2, <1>3, <1>4 DEF Command, TimedOn, TimerFires
    <2>2. CASE ~(Load /\ ~Load')
        BY <1>1, <2>1, <2>2 DEF Rested
    <2>3. CASE Load /\ ~Load'
        <3>1. (breaker /\ ~breaker') \/ \E c \in Channel : coil[c] /\ ~coil'[c]
            BY <2>3 DEF Load, Raised
        <3>2. ctl'.sinceOff = 0
            BY <2>1, <3>1 DEF Obeyed, Counted
        <3>. QED  BY <1>1, <2>1, <2>3, <3>2 DEF Rested
    <2>. QED  BY <2>2, <2>3
<1>5. CASE Poll
    <2>1. Obeyed
        BY <1>5, PollObeys DEF Poll
    <2>2. Rested(Raised /\ ~Raised')
        BY <1>5 DEF Poll
    <2>3. Raised /\ ~Raised' => ctl'.sinceOff = 0
        BY <2>1 DEF Obeyed, Raised
    <2>4. (Raised /\ ~Raised') \in BOOLEAN
        BY DEF Raised
    <2>5. \/ UNCHANGED <<rest, ordered>>
          \/ rest' = 0 /\ ordered' = (Raised /\ ~Raised')
        BY <2>2 DEF Rested
    <2>. QED  BY <1>1, <2>1, <2>3, <2>4, <2>5
<1>. QED  BY <1>4, <1>5 DEF ControllerStep

\* And it keeps the invariant.
LEMMA ControllerKeeps ==
    ASSUME BreakerInv, ControllerStep
    PROVE  BreakerInv'
<1>1. /\ Obeyed /\ UNCHANGED <<file, live, built, mixed>>
      /\ \/ UNCHANGED <<rest, ordered>>
         \/ rest' = 0 /\ ordered' = FALSE
         \/ rest' = 0 /\ ctl'.sinceOff = 0 /\ ordered' = TRUE
    BY ControllerObeys DEF settingsVars
<1>2. 0 \in 0..MinOff
    BY SmartBreakerAssumption
<1>3. BreakerShape'
    BY <1>1, <1>2 DEF Obeyed, BreakerInv, BreakerShape
<1>4. VendorStands' /\ QueueIsLast'
    BY <1>1 DEF Obeyed, BreakerInv, VendorStands, QueueIsLast
<1>5. RestIsCounted'
    <2>1. rest \in Int /\ ctl.sinceOff \in Int /\ ctl.sinceOff >= 0
        <3>1. rest \in 0..MinOff /\ ctl.sinceOff \in 0..MinOff
            BY DEF BreakerInv, BreakerShape, Memory
        <3>. QED  BY <3>1, SmartBreakerAssumption
    <2>2. CASE UNCHANGED <<rest, ordered>>
        <3>1. ctl'.sinceOff \in {0, ctl.sinceOff}
            BY <1>1 DEF Obeyed
        <3>2. rest >= 0
            BY SmartBreakerAssumption DEF BreakerInv, BreakerShape
        <3>3. ordered => rest >= ctl.sinceOff
            BY DEF BreakerInv, RestIsCounted
        <3>. QED  BY <2>1, <2>2, <3>1, <3>2, <3>3 DEF RestIsCounted
    <2>3. CASE rest' = 0 /\ ordered' = FALSE
        BY <2>3 DEF RestIsCounted
    <2>4. CASE rest' = 0 /\ ctl'.sinceOff = 0 /\ ordered' = TRUE
        BY <2>4 DEF RestIsCounted
    <2>. QED  BY <1>1, <2>2, <2>3, <2>4
<1>. QED  BY <1>3, <1>4, <1>5 DEF BreakerInv

\* Time passes alike for the controller and for the load.
LEMMA TickKeeps ==
    ASSUME BreakerInv, Tick
    PROVE  BreakerInv'
<1>1. /\ ctl' = [ctl EXCEPT !.sinceOff = AtMost(ctl.sinceOff + 1, MinOff),
                            !.down = IF ctl.down = Linked THEN ctl.down ELSE AtMost(ctl.down + 1, Grace)]
      /\ rest' = AtMost(rest + 1, MinOff)
      /\ UNCHANGED <<coil, breaker, ordered, file, live, built, mixed>>
    BY DEF Tick, settingsVars
<1>2. /\ ctl \in Memory /\ rest \in 0..MinOff
    BY DEF BreakerInv, BreakerShape
<1>3. /\ ctl.sinceOff \in 0..MinOff /\ ctl.down \in {Linked} \cup 0..Grace
      /\ MinOff \in Nat /\ Grace \in Nat
    BY <1>2, SmartBreakerAssumption DEF Memory
<1>4. /\ AtMost(ctl.sinceOff + 1, MinOff) \in 0..MinOff /\ AtMost(rest + 1, MinOff) \in 0..MinOff
      /\ ctl.down # Linked => AtMost(ctl.down + 1, Grace) \in 0..Grace
      /\ rest >= ctl.sinceOff => AtMost(rest + 1, MinOff) >= AtMost(ctl.sinceOff + 1, MinOff)
    BY <1>2, <1>3 DEF AtMost
<1>5. /\ ctl' \in Memory /\ ctl'.sinceOff = AtMost(ctl.sinceOff + 1, MinOff)
      /\ ctl'.pending = ctl.pending /\ ctl'.desired = ctl.desired
    BY <1>1, <1>2, <1>3, <1>4 DEF Memory
<1>6. BreakerShape'
    BY <1>1, <1>4, <1>5 DEF BreakerInv, BreakerShape
<1>7. VendorStands' /\ QueueIsLast'
    BY <1>1, <1>5 DEF BreakerInv, VendorStands, QueueIsLast
<1>8. RestIsCounted'
    BY <1>1, <1>4, <1>5 DEF BreakerInv, RestIsCounted
<1>. QED  BY <1>6, <1>7, <1>8 DEF BreakerInv

\* Settings, the panel, other writers, the vendor and a restart: a stop of the load
\* in them is not on order.
LEMMA AroundKeeps ==
    ASSUME BreakerInv,
           \/ OtherWrites \/ RelayFault \/ PanelHandle \/ Bind \/ Reload
           \/ ServiceRestart \/ VendorChanges \/ TokenDies
    PROVE  BreakerInv'
<1> USE DEF BreakerInv, BreakerShape, VendorStands, QueueIsLast, RestIsCounted
<1>1. 0 \in 0..MinOff
    BY SmartBreakerAssumption
<1>2. CASE OtherWrites \/ PanelHandle
    <2>1. /\ UNCHANGED <<ctl, file, live, built, mixed>>
          /\ coil' \in [Channel -> BOOLEAN] /\ breaker' \in BOOLEAN
        BY <1>2 DEF OtherWrites, PanelHandle, settingsVars
    <2>2. \/ UNCHANGED <<rest, ordered>>
          \/ rest' = 0 /\ ordered' = FALSE
        BY <1>2 DEF OtherWrites, PanelHandle, Rested
    <2>3. rest' \in 0..MinOff /\ ordered' \in BOOLEAN
        BY <1>1, <2>2
    <2>4. ordered' => rest' >= ctl'.sinceOff
        BY <2>1, <2>2
    <2>. QED  BY <2>1, <2>3, <2>4
<1>3. CASE Bind
    BY <1>3 DEF Bind, loadVars
<1>4. CASE Reload
    <2>1. /\ live' = file /\ mixed' = (mixed \/ file.vendor # live.vendor)
          /\ UNCHANGED <<file, built, ctl, coil, breaker, rest, ordered>>
        BY <1>4 DEF Reload, loadVars
    <2>2. mixed \in BOOLEAN
        OBVIOUS
    <2>3. mixed' \in BOOLEAN /\ (~mixed' => ~mixed /\ live'.vendor = live.vendor)
        BY <2>1, <2>2
    <2>. QED  BY <2>1, <2>3
<1>5. CASE ServiceRestart
    <2>1. /\ live' = file /\ built' = Built(file) /\ ctl' = FreshCtl
          /\ mixed' = FALSE /\ file' = file /\ breaker' = breaker /\ ordered' = FALSE
          /\ coil' = [c \in Channel |-> FALSE] /\ rest' \in {0, rest}
        BY <1>5 DEF ServiceRestart
    <2>2. ctl' \in Memory /\ ~ctl'.pending
        BY <2>1, SmartBreakerAssumption DEF FreshCtl, Memory
    <2>3. built' \in {"none", live'.vendor}
        BY <2>1 DEF Built
    <2>4. coil' \in [Channel -> BOOLEAN]
        BY <2>1
    <2>5. mixed' \in BOOLEAN
        BY <2>1
    <2>. QED  BY <1>1, <2>1, <2>2, <2>3, <2>4, <2>5
<1>6. CASE RelayFault \/ VendorChanges \/ TokenDies
    BY <1>6 DEF RelayFault, VendorChanges, TokenDies, settingsVars, loadVars
<1>. QED  BY <1>2, <1>3, <1>4, <1>5, <1>6

\* Every step keeps the invariant.
LEMMA BreakerGoesOn == BreakerInv /\ [BreakerNext]_breakerVars => BreakerInv'
<1>. SUFFICES ASSUME BreakerInv, [BreakerNext]_breakerVars PROVE BreakerInv'
    OBVIOUS
<1>1. CASE ControllerStep
    BY <1>1, ControllerKeeps
<1>2. CASE Tick
    BY <1>2, TickKeeps
<1>3. CASE \/ OtherWrites \/ RelayFault \/ PanelHandle \/ Bind \/ Reload
           \/ ServiceRestart \/ VendorChanges \/ TokenDies
    BY <1>3, AroundKeeps
<1>4. CASE UNCHANGED breakerVars
    BY <1>4 DEF breakerVars, settingsVars, loadVars, BreakerInv, BreakerShape, VendorStands, QueueIsLast, RestIsCounted
<1>. QED  BY <1>1, <1>2, <1>3, <1>4 DEF BreakerNext, ControllerStep

\* A queued open is never left over after a later ON was carried out: what the
\* flush sends when the link returns is still what was asked for last, whatever
\* failed in between (controller.py request, poll).
THEOREM QueueIsTheLastWord == BreakerSpec => []QueuedOffIsWanted
<1>1. BreakerInv => QueuedOffIsWanted
    BY DEF BreakerInv, QueueIsLast, QueuedOffIsWanted
<1>. QED  BY BreakerStarts, BreakerGoesOn, <1>1, PTL DEF BreakerSpec

\* The controller starts the load, by its relay or by the breaker, only when MinOff
\* has passed since a request, a timer or the fail-safe stopped it, with or
\* without an interlock wire and for every history of commands, outages, relays
\* that cannot be written, other writers, bindings and reloads; but for fail-safe
\* ON (controller.py short_cycle_remaining_s).
THEOREM NeverShortCycled == BreakerSpec => NoShortCycle
<1>1. BreakerInv /\ [BreakerNext]_breakerVars => [ControllerStep => RestsFirst]_breakerVars
    <2>. SUFFICES ASSUME BreakerInv, ControllerStep, ~Load, Load', ordered
                  PROVE  rest >= MinOff \/ Energises
        BY DEF RestsFirst
    <2>1. Obeyed
        BY ControllerObeys
    <2>2. (~breaker /\ breaker') \/ \E c \in Channel : ~coil[c] /\ coil'[c]
        BY DEF Load, Raised
    <2>3. ctl.sinceOff >= MinOff \/ Energises
        BY <2>1, <2>2 DEF Obeyed
    <2>4. rest >= ctl.sinceOff
        BY DEF BreakerInv, RestIsCounted
    <2>5. rest \in Int /\ ctl.sinceOff \in Int /\ MinOff \in Int
        <3>1. rest \in 0..MinOff /\ ctl.sinceOff \in 0..MinOff /\ MinOff \in Nat
            BY SmartBreakerAssumption DEF BreakerInv, BreakerShape, Memory
        <3>. QED  BY <3>1
    <2>. QED  BY <2>3, <2>4, <2>5
<1>. QED  BY BreakerStarts, BreakerGoesOn, <1>1, PTL DEF BreakerSpec, NoShortCycle

=============================================================================
