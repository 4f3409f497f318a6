------------------------------- MODULE OTAProofs ------------------------------
(***************************************************************************)
(* The link the services start from, and what the state file says of it, for *)
(* every set of releases, every number of releases kept and any order of     *)
(* deaths and failed calls.                                                *)
(***************************************************************************)
EXTENDS OTAAgent, TLAPS

OnTrial   == {"restart", "mark", "test", "prune"}
Replacing == {"clear", "place", "record", "flip"}
UnderWay  == {"flip", "restart", "mark", "test", "unflip", "rerestart", "undone"}

\* What an update under way goes by.
JobInv ==
    /\ current \in Version
    /\ rel \in [Version -> {"absent", "partial", "whole"}]
    /\ target \in Version \cup {None}
    /\ job = [version |-> job.version, previous |-> job.previous]
    /\ pc \in Replacing \cup OnTrial => job.version \in Version
    /\ pc \in OnTrial => current = job.version
    /\ pc \in UnderWay => job.previous \in Version
    /\ pc \in {"rerestart", "undone"} => current = job.previous
    /\ Interrupted => record.previous \in Version

\* The service on trial was started from the release on trial, and a release
\* that never gets active is never active.
ServiceInv ==
    /\ pc \in {"mark", "test"} => svc.ver = current
    /\ svc.up => health[svc.ver] \notin {"down", "dead"}

\* Where the release in use, and the one to go back to, are kept from harm.
LinkInv ==
    /\ rel[current] = "whole"
    /\ pc \in Replacing => job.version # current
    /\ pc \in {"record", "flip"} => rel[job.version] = "whole"
    /\ pc \in {"flip", "restart", "mark", "test", "unflip"} => rel[job.previous] = "whole"

\* The state file, while it is what the agent meant it to be.
RecordInv ==
    /\ Interrupted => rel[record.previous] = "whole"
    /\ pc \in {"idle", "clear", "place", "record", "prune"} => ~Interrupted
    /\ pc \in UnderWay =>
          Interrupted /\ record.version = job.version /\ record.previous = job.previous
    /\ record.phase = "success" => current = record.version
    /\ record.phase = "rolled_back" => current = record.previous
    /\ record.phase = "failed" => current # record.version

OTAInv ==
    /\ JobInv /\ ServiceInv /\ DeadReleaseNeverPasses
    /\ misled \/ (LinkInv /\ (stale \/ RecordInv))

\* The unit starts with one whole release, and no update under way.
LEMMA OTAInit == Init => OTAInv
BY UpdateAssumption DEF Init, OTAInv, JobInv, ServiceInv, DeadReleaseNeverPasses, LinkInv, RecordInv,
   OnTrial, Replacing, UnderWay, Interrupted, Incomplete, NoJob

\* A service is started from the release that `current` leads to.
LEMMA StartedFromCurrent ==
    ASSUME ServiceStarts
    PROVE  /\ svc'.ver = current
           /\ svc'.up => health[current] \notin {"down", "dead"}
<1>1. svc'.ver = current /\ svc'.up \in Active(current)  BY DEF ServiceStarts
<1>. QED  BY <1>1 DEF Active

\* An update: the old copy away, the new tree in its place, the record, the flip.
LEMMA ApplyKeepsOTAInv ==
    ASSUME OTAInv, Fetch \/ Clear \/ Place \/ Record \/ Flip
    PROVE  OTAInv'
<1>1. CASE Fetch
    <2>1. rel[current] = "whole" => job'.version # current
        BY <1>1 DEF Fetch, Installed
    <2>2. job'.version \in Version /\ job' = [version |-> job'.version, previous |-> job'.previous]
        BY <1>1 DEF Fetch, OTAInv, JobInv
    <2>. QED  BY <1>1, <2>1, <2>2 DEF Fetch, histVars, OTAInv, JobInv, ServiceInv,
              DeadReleaseNeverPasses, LinkInv, RecordInv, OnTrial, Replacing, UnderWay, Interrupted
<1>2. CASE Clear
    BY <1>2 DEF Clear, histVars, OTAInv, JobInv, ServiceInv, DeadReleaseNeverPasses, LinkInv,
       RecordInv, OnTrial, Replacing, UnderWay, Interrupted
<1>3. CASE Place
    BY <1>3 DEF Place, histVars, OTAInv, JobInv, ServiceInv, DeadReleaseNeverPasses, LinkInv,
       RecordInv, OnTrial, Replacing, UnderWay, Interrupted
<1>4. CASE Record
    <2>1. job' = [version |-> job.version, previous |-> current]
        BY <1>4 DEF Record, OTAInv, JobInv
    <2>2. CASE record' = [phase |-> "applying", version |-> job.version, previous |-> current]
        BY <1>4, <2>1, <2>2 DEF Record, OTAInv, JobInv, ServiceInv, DeadReleaseNeverPasses,
           LinkInv, RecordInv, OnTrial, Replacing, UnderWay, Interrupted, Incomplete
    <2>3. CASE stale' = TRUE /\ UNCHANGED record
        BY <1>4, <2>1, <2>3 DEF Record, OTAInv, JobInv, ServiceInv, DeadReleaseNeverPasses,
           LinkInv, OnTrial, Replacing, UnderWay, Interrupted
    <2>. QED  BY <1>4, <2>2, <2>3 DEF Record, Write
<1>5. CASE Flip
    BY <1>5 DEF Flip, histVars, OTAInv, JobInv, ServiceInv, DeadReleaseNeverPasses, LinkInv,
       RecordInv, OnTrial, Replacing, UnderWay, Interrupted, Incomplete
<1>. QED  BY <1>1, <1>2, <1>3, <1>4, <1>5

\* The trial of a release, and what is thrown away after it.
LEMMA TrialKeepsOTAInv ==
    ASSUME OTAInv, RestartServices \/ MarkSelfTest \/ SelfTestPasses \/ SelfTestTimesOut \/ Prune
    PROVE  OTAInv'
<1>1. CASE RestartServices
    BY <1>1, StartedFromCurrent DEF RestartServices, histVars, OTAInv, JobInv, ServiceInv,
       DeadReleaseNeverPasses, LinkInv, RecordInv, OnTrial, Replacing, UnderWay, Interrupted
<1>2. CASE MarkSelfTest
    <2>1. CASE record' = [phase |-> "self_test", version |-> job.version, previous |-> job.previous]
        BY <1>2, <2>1 DEF MarkSelfTest, OTAInv, JobInv, ServiceInv, DeadReleaseNeverPasses,
           LinkInv, RecordInv, OnTrial, Replacing, UnderWay, Interrupted, Incomplete
    <2>2. CASE stale' = TRUE /\ UNCHANGED record
        BY <1>2, <2>2 DEF MarkSelfTest, OTAInv, JobInv, ServiceInv, DeadReleaseNeverPasses,
           LinkInv, OnTrial, Replacing, UnderWay, Interrupted
    <2>. QED  BY <1>2, <2>1, <2>2 DEF MarkSelfTest, Write
<1>3. CASE SelfTestPasses
    <2>1. health[job.version] \notin {"down", "dead"}
        BY <1>3 DEF SelfTestPasses, Alive, OTAInv, JobInv, ServiceInv, OnTrial
    <2>2. CASE record' = [phase |-> "success", version |-> job.version, previous |-> None]
        BY <1>3, <2>1, <2>2 DEF SelfTestPasses, OTAInv, JobInv, ServiceInv, DeadReleaseNeverPasses,
           LinkInv, RecordInv, OnTrial, Replacing, UnderWay, Interrupted, Incomplete
    <2>3. CASE stale' = TRUE /\ UNCHANGED record
        BY <1>3, <2>3 DEF SelfTestPasses, OTAInv, JobInv, ServiceInv, DeadReleaseNeverPasses,
           LinkInv, OnTrial, Replacing, UnderWay, Interrupted
    <2>. QED  BY <1>3, <2>2, <2>3 DEF SelfTestPasses, Write
<1>4. CASE SelfTestTimesOut
    BY <1>4 DEF SelfTestTimesOut, histVars, OTAInv, JobInv, ServiceInv, DeadReleaseNeverPasses,
       LinkInv, RecordInv, OnTrial, Replacing, UnderWay, Interrupted
<1>5. CASE Prune
    <2>1. /\ rel' \in [Version -> {"absent", "partial", "whole"}]
          /\ rel'[job.version] = rel[job.version]
        BY <1>5 DEF Prune, Protected, OTAInv, JobInv, OnTrial
    <2>2. job' = [version |-> job'.version, previous |-> job'.previous]
        BY <1>5 DEF Prune, NoJob
    <2>. QED  BY <1>5, <2>1, <2>2 DEF Prune, histVars, OTAInv, JobInv, ServiceInv,
              DeadReleaseNeverPasses, LinkInv, RecordInv, OnTrial, Replacing, UnderWay, Interrupted
<1>. QED  BY <1>1, <1>2, <1>3, <1>4, <1>5

\* The way back, of a trial that failed and of an agent that finds one cut short.
LEMMA RollbackKeepsOTAInv ==
    ASSUME OTAInv, Unflip \/ RestartPrevious \/ RolledBack \/ Recover
    PROVE  OTAInv'
<1>1. CASE Unflip
    BY <1>1 DEF Unflip, histVars, OTAInv, JobInv, ServiceInv, DeadReleaseNeverPasses, LinkInv,
       RecordInv, OnTrial, Replacing, UnderWay, Interrupted, Incomplete
<1>2. CASE RestartPrevious
    BY <1>2, StartedFromCurrent DEF RestartPrevious, histVars, OTAInv, JobInv, ServiceInv,
       DeadReleaseNeverPasses, LinkInv, RecordInv, OnTrial, Replacing, UnderWay, Interrupted
<1>3. CASE RolledBack
    <2>1. job' = [version |-> job'.version, previous |-> job'.previous]
        BY <1>3 DEF RolledBack, NoJob
    <2>2. CASE record' = [phase |-> "rolled_back", version |-> job.version, previous |-> job.previous]
        BY <1>3, <2>1, <2>2 DEF RolledBack, OTAInv, JobInv, ServiceInv, DeadReleaseNeverPasses,
           LinkInv, RecordInv, OnTrial, Replacing, UnderWay, Interrupted, Incomplete
    <2>3. CASE stale' = TRUE /\ UNCHANGED record
        BY <1>3, <2>1, <2>3 DEF RolledBack, OTAInv, JobInv, ServiceInv, DeadReleaseNeverPasses,
           LinkInv, OnTrial, Replacing, UnderWay, Interrupted
    <2>. QED  BY <1>3, <2>2, <2>3 DEF RolledBack, Write
<1>4. CASE Recover
    <2>1. CASE Interrupted /\ current = record.version
        <3>1. job' = [version |-> record.version, previous |-> record.previous] /\ pc' = "unflip"
              /\ misled' = (misled \/ stale)
              /\ UNCHANGED <<health, rel, current, record, target, svc, stale>>
            BY <1>4, <2>1 DEF Recover
        <3>. QED  BY <1>4, <2>1, <3>1 DEF Recover, OTAInv, JobInv, ServiceInv,
                  DeadReleaseNeverPasses, LinkInv, RecordInv, OnTrial, Replacing, UnderWay, Interrupted
    <2>2. CASE /\ Interrupted /\ current # record.version
               /\ record' = [phase |-> "failed", version |-> record.version, previous |-> None]
        BY <1>4, <2>2 DEF Recover, OTAInv, JobInv, ServiceInv, DeadReleaseNeverPasses, LinkInv,
           RecordInv, OnTrial, Replacing, UnderWay, Interrupted, Incomplete
    <2>3. CASE /\ Interrupted /\ current # record.version
               /\ stale' = TRUE /\ UNCHANGED record
        BY <1>4, <2>3 DEF Recover, OTAInv, JobInv, ServiceInv, DeadReleaseNeverPasses, LinkInv,
           OnTrial, Replacing, UnderWay, Interrupted
    <2>4. CASE ~Interrupted
        BY <1>4, <2>4 DEF Recover, OTAInv, JobInv, ServiceInv, DeadReleaseNeverPasses, LinkInv,
           RecordInv, OnTrial, Replacing, UnderWay, Interrupted
    <2>. QED  BY <1>4, <2>1, <2>2, <2>3, <2>4 DEF Recover, Write
<1>. QED  BY <1>1, <1>2, <1>3, <1>4

\* A call that raises, an agent that dies or starts, a service that restarts or
\* beats, and the operator.
LEMMA WorldKeepsOTAInv ==
    ASSUME OTAInv,
           StepRaises \/ AgentDies \/ AgentStarts \/ ServiceRestarts \/ Beats \/ Assign \/ UNCHANGED vars
    PROVE  OTAInv'
<1>1. CASE StepRaises
    <2>1. job' = [version |-> job'.version, previous |-> job'.previous]
        BY <1>1 DEF StepRaises, NoJob
    <2>. QED  BY <1>1, <2>1 DEF StepRaises, OTAInv, JobInv, ServiceInv, DeadReleaseNeverPasses,
              LinkInv, RecordInv, OnTrial, Replacing, UnderWay, Interrupted
<1>2. CASE AgentDies
    <2>1. job' = [version |-> job'.version, previous |-> job'.previous]
        BY <1>2 DEF AgentDies, NoJob
    <2>. QED  BY <1>2, <2>1 DEF AgentDies, histVars, OTAInv, JobInv, ServiceInv,
              DeadReleaseNeverPasses, LinkInv, RecordInv, OnTrial, Replacing, UnderWay, Interrupted
<1>3. CASE AgentStarts
    BY <1>3 DEF AgentStarts, histVars, OTAInv, JobInv, ServiceInv, DeadReleaseNeverPasses, LinkInv,
       RecordInv, OnTrial, Replacing, UnderWay, Interrupted
<1>4. CASE ServiceRestarts
    BY <1>4, StartedFromCurrent DEF ServiceRestarts, agentVars, histVars, OTAInv, JobInv, ServiceInv,
       DeadReleaseNeverPasses, LinkInv, RecordInv, OnTrial, Replacing, UnderWay, Interrupted
<1>5. CASE Beats
    BY <1>5 DEF Beats, agentVars, histVars, OTAInv, JobInv, ServiceInv, DeadReleaseNeverPasses,
       LinkInv, RecordInv, OnTrial, Replacing, UnderWay, Interrupted
<1>6. CASE Assign
    BY <1>6 DEF Assign, agentVars, histVars, OTAInv, JobInv, ServiceInv, DeadReleaseNeverPasses,
       LinkInv, RecordInv, OnTrial, Replacing, UnderWay, Interrupted
<1>7. CASE UNCHANGED vars
    BY <1>7 DEF vars, agentVars, histVars, OTAInv, JobInv, ServiceInv, DeadReleaseNeverPasses,
       LinkInv, RecordInv, OnTrial, Replacing, UnderWay, Interrupted
<1>. QED  BY <1>1, <1>2, <1>3, <1>4, <1>5, <1>6, <1>7

\* The invariant is inductive.
LEMMA OTAStep == OTAInv /\ [Next]_vars => OTAInv'
BY ApplyKeepsOTAInv, TrialKeepsOTAInv, RollbackKeepsOTAInv, WorldKeepsOTAInv DEF Next, UpdateStep

\* At every instant, whatever dies between which steps, the link that the
\* services and the agent start from leads to a complete release, unless a
\* recovery went by a state file that was not written (UpdateAgent._apply).
THEOREM CurrentStaysWhole == Spec => []CurrentIsWhole
<1>1. OTAInv => CurrentIsWhole  BY DEF OTAInv, LinkInv, CurrentIsWhole
<1>. QED  BY OTAInit, OTAStep, <1>1, PTL DEF Spec

\* The state file tells what became of an update: a release that never gets
\* active is not on record as a success, and between updates the file agrees
\* with the link (UpdateAgent._write_state).
THEOREM RecordIsTrue == Spec => []RecordTellsTheTruth
<1>1. OTAInv => RecordTellsTheTruth
    BY DEF OTAInv, RecordInv, RecordTellsTheTruth, StateTellsTheTruth, Interrupted
<1>. QED  BY OTAInit, OTAStep, <1>1, PTL DEF Spec

(***************************************************************************)
(* The agent keeps the promise of ReleaseTrial.  The note that survives it   *)
(* names the release on trial and the one that was in use before: the two    *)
(* differ, and the second is the one the way back leads to.                  *)
(***************************************************************************)
Whole == {v \in Version : rel[v] = "whole"}
Fit   == {v \in Version : health[v] \notin {"down", "dead"}}
Back  == IF Interrupted /\ current = record.version THEN {record.previous} ELSE {}

TrialStep == [Trial!Next]_<<current, Whole, Fit, Back, stale, misled>>

WayBack ==
    /\ pc = "flip" => job.previous = current
    /\ pc = "unflip" => current = job.version
    /\ misled \/ (pc \in UnderWay => job.version # job.previous)
    /\ misled \/ stale \/ (Interrupted => record.version # record.previous)

Licences == stale \in BOOLEAN /\ misled \in BOOLEAN

TrialInv == WayBack /\ Licences

\* No update is under way at first.
LEMMA TrialInit == Init => TrialInv
<1>1. Init => WayBack
    BY DEF Init, WayBack, UnderWay, Interrupted, Incomplete
<1>2. Init => Licences
    BY DEF Init, Licences
<1>. QED  BY <1>1, <1>2 DEF TrialInv

\* A licence is taken or not.
LEMMA LicencesStep == Licences /\ [Next]_vars => Licences'
<1>. SUFFICES ASSUME Licences, [Next]_vars PROVE Licences'
    OBVIOUS
<1>1. \/ stale' = stale \/ stale' = TRUE \/ stale' = FALSE \/ stale' = (stale \/ Interrupted)
    BY DEF Next, UpdateStep, Fetch, Clear, Place, Record, Flip, RestartServices, MarkSelfTest,
           SelfTestPasses, SelfTestTimesOut, Prune, Unflip, RestartPrevious, RolledBack, Recover,
           StepRaises, AgentDies, AgentStarts, ServiceRestarts, Beats, Assign, vars, histVars, Write
<1>2. \/ misled' = misled \/ misled' = (misled \/ (Interrupted /\ stale))
    BY DEF Next, UpdateStep, Fetch, Clear, Place, Record, Flip, RestartServices, MarkSelfTest,
           SelfTestPasses, SelfTestTimesOut, Prune, Unflip, RestartPrevious, RolledBack, Recover,
           StepRaises, AgentDies, AgentStarts, ServiceRestarts, Beats, Assign, vars, histVars
<1>3. stale' \in BOOLEAN
    BY <1>1 DEF Licences
<1>4. misled' \in BOOLEAN
    BY <1>2 DEF Licences
<1>. QED  BY <1>3, <1>4 DEF Licences

\* Every step goes back, if at all, to another release than the one it leaves.
LEMMA WayBackStep == OTAInv /\ WayBack /\ [Next]_vars => WayBack'
<1>. SUFFICES ASSUME OTAInv, WayBack, [Next]_vars PROVE WayBack'
    OBVIOUS
<1>. USE DEF histVars, agentVars, Write
<1>1. CASE Fetch \/ Clear \/ Place \/ Flip \/ RestartServices \/ SelfTestTimesOut \/ Prune \/ Unflip
           \/ RestartPrevious
    BY <1>1 DEF Fetch, Clear, Place, Flip, RestartServices, SelfTestTimesOut, Prune, Unflip,
                RestartPrevious, OTAInv, JobInv, OnTrial, WayBack, UnderWay, Interrupted
<1>2. CASE Record
    <2>1. /\ job' = [version |-> job.version, previous |-> current]
          /\ pc' = "flip" /\ UNCHANGED <<current, misled>>
          /\ misled \/ job.version # current
        BY <1>2 DEF Record, OTAInv, JobInv, LinkInv, Replacing
    <2>2. \/ record' = [phase |-> "applying", version |-> job.version, previous |-> current]
          \/ stale'
        BY <1>2 DEF Record, Write
    <2>. QED  BY <2>1, <2>2 DEF WayBack, UnderWay, Interrupted, Incomplete
<1>3. CASE MarkSelfTest
    <2>1. /\ pc = "mark" /\ pc' = "test" /\ UNCHANGED <<current, job, misled>>
        BY <1>3 DEF MarkSelfTest
    <2>2. \/ record' = [phase |-> "self_test", version |-> job.version, previous |-> job.previous]
          \/ stale'
        BY <1>3 DEF MarkSelfTest, Write
    <2>. QED  BY <2>1, <2>2 DEF WayBack, UnderWay, Interrupted, Incomplete
<1>4. CASE SelfTestPasses \/ RolledBack
    <2>1. pc' \in {"prune", "idle"} /\ UNCHANGED <<current, misled>>
        BY <1>4 DEF SelfTestPasses, RolledBack
    <2>2. \/ record'.phase \in {"success", "rolled_back"}
          \/ stale'
        BY <1>4 DEF SelfTestPasses, RolledBack, Write
    <2>. QED  BY <2>1, <2>2 DEF WayBack, UnderWay, Interrupted, Incomplete
<1>5. CASE Recover
    <2>1. CASE Interrupted /\ current = record.version
        <3>1. /\ job' = [version |-> record.version, previous |-> record.previous] /\ pc' = "unflip"
              /\ misled' = (misled \/ stale) /\ UNCHANGED <<record, stale, current>>
            BY <1>5, <2>1 DEF Recover
        <3>2. job'.version = current /\ job'.previous = record.previous
            BY <2>1, <3>1
        <3>3. misled' \/ record.version # record.previous
            BY <2>1, <3>1 DEF WayBack
        <3>. QED  BY <2>1, <3>1, <3>2, <3>3 DEF WayBack, UnderWay, Interrupted
    <2>2. CASE ~(Interrupted /\ current = record.version)
        <3>1. pc' = "idle" /\ misled' = (misled \/ (Interrupted /\ stale))
            BY <1>5, <2>2 DEF Recover
        <3>2. record'.phase = "failed" \/ stale' \/ (~Interrupted /\ record' = record)
            BY <1>5, <2>2 DEF Recover, Write
        <3>. QED  BY <3>1, <3>2 DEF WayBack, UnderWay, Interrupted, Incomplete
    <2>. QED  BY <2>1, <2>2
<1>6. CASE StepRaises \/ AgentDies \/ AgentStarts \/ ServiceRestarts \/ Beats \/ Assign \/ UNCHANGED vars
    BY <1>6 DEF StepRaises, AgentDies, AgentStarts, ServiceRestarts, Beats, Assign, vars, WayBack,
                UnderWay, Interrupted
<1>. QED  BY <1>1, <1>2, <1>3, <1>4, <1>5, <1>6 DEF Next, UpdateStep

\* The invariant is inductive.
LEMMA TrialInvStep == OTAInv /\ TrialInv /\ [Next]_vars => TrialInv'
BY WayBackStep, LicencesStep DEF TrialInv

\* While the note can be trusted, a step that moves neither the link nor what is
\* on trial only changes the stock of releases.
LEMMA StockStep ==
    ASSUME LinkInv', RecordInv', JobInv', current' = current, Back' = Back, ~stale,
           UNCHANGED <<health, stale, misled>>
    PROVE  TrialStep
<1>1. current' \in Whole'
    BY DEF LinkInv, JobInv, Whole
<1>2. Back' \subseteq Whole'
    BY DEF RecordInv, JobInv, Back, Whole
<1>3. Fit' = Fit
    BY DEF Fit
<1>4. Trial!Stock
    BY <1>1, <1>2, <1>3 DEF Trial!Stock, Whole, Back, Fit
<1>. QED  BY <1>4 DEF TrialStep, Trial!Next

\* While the note can be trusted, every step keeps the rules of a trial.
LEMMA TrustedStep ==
    ASSUME OTAInv, OTAInv', TrialInv, TrialInv', UpdateStep, ~misled, ~misled', ~stale, ~stale', health' = health
    PROVE  TrialStep
<1>1. /\ LinkInv /\ RecordInv /\ JobInv /\ ServiceInv /\ LinkInv' /\ RecordInv' /\ JobInv'
      /\ UNCHANGED <<stale, misled>> /\ Fit' = Fit
    BY DEF OTAInv, TrialInv, Licences, Fit
<1>2. ASSUME current' = current, record' = record PROVE TrialStep
    <2>1. Back' = Back
        BY <1>2 DEF Back, Interrupted
    <2>. QED  BY <1>1, <1>2, <2>1, StockStep
<1>3. CASE Record
    <2>1. /\ pc = "record" /\ job.version # current /\ current' = current
          /\ record' = [phase |-> "applying", version |-> job.version, previous |-> current]
        BY <1>1, <1>3 DEF Record, Write, LinkInv, Replacing
    <2>2. Back = {} /\ Back' = {}
        BY <1>1, <2>1 DEF RecordInv, Back
    <2>. QED  BY <1>1, <2>1, <2>2, StockStep
<1>4. CASE MarkSelfTest
    <2>1. /\ pc = "mark" /\ current' = current
          /\ record' = [phase |-> "self_test", version |-> job.version, previous |-> job.previous]
        BY <1>1, <1>4 DEF MarkSelfTest, Write
    <2>2. Interrupted /\ record.version = job.version /\ record.previous = job.previous
        BY <1>1, <2>1 DEF RecordInv, UnderWay
    <2>3. Back' = Back
        BY <2>1, <2>2 DEF Back, Interrupted, Incomplete
    <2>. QED  BY <1>1, <2>1, <2>3, StockStep
<1>5. CASE SelfTestPasses
    <2>1. /\ pc = "test" /\ svc.up /\ UNCHANGED <<current, rel>>
          /\ record' = [phase |-> "success", version |-> job.version, previous |-> None]
        BY <1>1, <1>5 DEF SelfTestPasses, Write, Alive
    <2>2. Back = {record.previous} /\ Back' = {}
        BY <1>1, <2>1 DEF RecordInv, JobInv, UnderWay, OnTrial, Back, Interrupted, Incomplete
    <2>3. current \in Fit
        BY <1>1, <2>1 DEF ServiceInv, JobInv, Fit
    <2>4. Trial!Accept
        BY <1>1, <2>1, <2>2, <2>3 DEF Trial!Accept, Whole, Back, Fit
    <2>. QED  BY <2>4 DEF TrialStep, Trial!Next
<1>6. CASE RolledBack
    <2>1. /\ pc = "undone" /\ current' = current
          /\ record' = [phase |-> "rolled_back", version |-> job.version, previous |-> job.previous]
        BY <1>1, <1>6 DEF RolledBack, Write
    <2>2. Back = {}
        BY <1>1, <2>1 DEF RecordInv, JobInv, UnderWay, TrialInv, WayBack, Back
    <2>3. Back' = {}
        BY <2>1 DEF Back, Interrupted, Incomplete
    <2>. QED  BY <1>1, <2>1, <2>2, <2>3, StockStep
<1>7. CASE Recover
    <2>1. CASE Interrupted /\ current # record.version
        <3>1. current' = current /\ record' = [phase |-> "failed", version |-> record.version, previous |-> None]
            BY <1>1, <1>7, <2>1 DEF Recover, Write
        <3>2. Back = {} /\ Back' = {}
            BY <2>1, <3>1 DEF Back, Interrupted, Incomplete
        <3>. QED  BY <1>1, <3>1, <3>2, StockStep
    <2>2. CASE ~(Interrupted /\ current # record.version)
        BY <1>2, <1>7, <2>2 DEF Recover
    <2>. QED  BY <2>1, <2>2
<1>8. CASE Flip
    <2>1. /\ pc = "flip" /\ current' = job.version /\ UNCHANGED <<rel, record>>
        BY <1>8 DEF Flip
    <2>2. /\ job.version \in Version /\ rel[job.version] = "whole" /\ job.version # current
          /\ Interrupted /\ record.version = job.version /\ record.previous = current
        BY <1>1, <2>1 DEF JobInv, LinkInv, RecordInv, Replacing, UnderWay, TrialInv, WayBack
    <2>3. Back = {} /\ Back' = {current} /\ job.version \in Whole \ {current} /\ Whole' = Whole
        BY <2>1, <2>2 DEF Back, Whole, Interrupted
    <2>4. Trial!Try(job.version)
        BY <1>1, <2>1, <2>3 DEF Trial!Try, Whole, Back, Fit
    <2>. QED  BY <2>3, <2>4 DEF TrialStep, Trial!Next, Whole
<1>9. CASE Unflip
    <2>1. /\ pc = "unflip" /\ current' = job.previous /\ UNCHANGED <<rel, record>>
        BY <1>9 DEF Unflip
    <2>2. /\ current = job.version /\ job.version # job.previous
          /\ Interrupted /\ record.version = job.version /\ record.previous = job.previous
        BY <1>1, <2>1 DEF RecordInv, UnderWay, TrialInv, WayBack
    <2>3. Back = {job.previous} /\ Back' = {} /\ Whole' = Whole
        BY <2>1, <2>2 DEF Back, Whole, Interrupted
    <2>4. Trial!Undo
        BY <1>1, <2>1, <2>3 DEF Trial!Undo, Whole, Back, Fit
    <2>. QED  BY <2>4 DEF TrialStep, Trial!Next
<1>10. CASE Fetch \/ Clear \/ Place \/ RestartServices \/ SelfTestTimesOut \/ Prune \/ RestartPrevious
    BY <1>2, <1>10 DEF Fetch, Clear, Place, RestartServices, SelfTestTimesOut, Prune, RestartPrevious
<1>. QED  BY <1>3, <1>4, <1>5, <1>6, <1>7, <1>8, <1>9, <1>10 DEF UpdateStep

\* Whatever dies, raises or restarts, the update agent keeps the promise of
\* ReleaseTrial: a release taken into use is accepted if its service got active,
\* or the unit is back on the very release it ran from before (UpdateAgent._apply,
\* _rollback, recover_incomplete_apply).
THEOREM KeepsTheTrial == Spec => ImplementsTrial
<1>1. Init => Trial!Init
    BY DEF Init, Trial!Init, Interrupted, Incomplete
<1>2. OTAInv /\ OTAInv' /\ TrialInv /\ TrialInv' /\ [Next]_vars => TrialStep
    <2>. SUFFICES ASSUME OTAInv, OTAInv', TrialInv, TrialInv', [Next]_vars PROVE TrialStep
        OBVIOUS
    <2>1. health' = health /\ Fit' = Fit
        BY DEF Next, UpdateStep, Fit, Fetch, Clear, Place, Record, Flip, RestartServices,
               MarkSelfTest, SelfTestPasses, SelfTestTimesOut, Prune, Unflip, RestartPrevious,
               RolledBack, Recover, StepRaises, AgentDies, AgentStarts, ServiceRestarts, Beats,
               Assign, vars
    <2>2. CASE misled'
        <3>1. misled \/ stale
            BY <2>2 DEF Next, UpdateStep, Fetch, Clear, Place, Record, Flip, RestartServices,
                   MarkSelfTest, SelfTestPasses, SelfTestTimesOut, Prune, Unflip, RestartPrevious,
                   RolledBack, Recover, StepRaises, AgentDies, AgentStarts, ServiceRestarts, Beats,
                   Assign, vars, histVars
        <3>2. Trial!Stray
            BY <2>2, <3>1 DEF Trial!Stray
        <3>. QED  BY <3>2 DEF TrialStep, Trial!Next
    <2>3. CASE ~misled' /\ (stale \/ stale')
        <3>1. ~misled
            BY <2>3 DEF Next, UpdateStep, Fetch, Clear, Place, Record, Flip, RestartServices,
                   MarkSelfTest, SelfTestPasses, SelfTestTimesOut, Prune, Unflip, RestartPrevious,
                   RolledBack, Recover, StepRaises, AgentDies, AgentStarts, ServiceRestarts, Beats,
                   Assign, vars, histVars
        <3>2. current' \in Whole'
            BY <2>3 DEF OTAInv, LinkInv, JobInv, Whole
        <3>3. Back' \subseteq Whole' \/ stale'
            BY <2>3 DEF OTAInv, RecordInv, JobInv, Back, Whole
        <3>4. misled' = misled
            BY <2>3, <3>1 DEF TrialInv, Licences
        <3>5. Trial!Muddle
            BY <2>1, <2>3, <3>2, <3>3, <3>4 DEF Trial!Muddle, Whole, Back, Fit
        <3>. QED  BY <3>5 DEF TrialStep, Trial!Next
    <2>4. CASE ~misled' /\ ~stale /\ ~stale'
        <3>1. ~misled
            BY <2>4 DEF Next, UpdateStep, Fetch, Clear, Place, Record, Flip, RestartServices,
                   MarkSelfTest, SelfTestPasses, SelfTestTimesOut, Prune, Unflip, RestartPrevious,
                   RolledBack, Recover, StepRaises, AgentDies, AgentStarts, ServiceRestarts, Beats,
                   Assign, vars, histVars
        <3>2. UNCHANGED <<stale, misled>>
            BY <2>4, <3>1 DEF TrialInv, Licences
        <3>3. CASE UpdateStep
            BY <2>1, <2>4, <3>1, <3>3, TrustedStep
        <3>4. CASE UNCHANGED <<current, record>>
            <4>1. Back' = Back
                BY <3>4 DEF Back, Interrupted
            <4>. QED  BY <2>1, <2>4, <3>2, <3>4, <4>1, StockStep DEF OTAInv
        <3>. QED  BY <3>3, <3>4 DEF Next, StepRaises, AgentDies, AgentStarts, ServiceRestarts, Beats,
                                    Assign, vars
    <2>. QED  BY <2>2, <2>3, <2>4
<1>. QED  BY OTAInit, OTAStep, TrialInit, TrialInvStep, <1>1, <1>2, PTL
          DEF Spec, ImplementsTrial, Trial!Spec, TrialStep, Trial!trialVars, Whole, Fit, Back

\* What every step of a trial keeps.
SafeTrial ==
    /\ misled \/ current \in Whole
    /\ misled \/ stale \/ Back \subseteq Whole

\* A trial starts from a complete release and leads to one, or back to it.
LEMMA TrialKeepsSafe ==
    ASSUME SafeTrial, TrialStep
    PROVE  SafeTrial'
<1>. USE DEF SafeTrial
<1>1. CASE ~stale /\ Trial!Stock
    <2>1. {current} \cup Back \subseteq Whole' /\ current' = current /\ Back' = Back
        BY <1>1 DEF Trial!Stock, Whole, Back
    <2>. QED  BY <2>1
<1>2. ASSUME NEW v \in Whole, ~stale, Trial!Try(v) PROVE SafeTrial'
    <2>1. current' = v /\ Back' = {current} /\ Whole' = Whole /\ misled' = misled
        BY <1>2 DEF Trial!Try, Whole, Back
    <2>. QED  BY <2>1
<1>3. CASE ~stale /\ Trial!Accept
    <2>1. current' = current /\ Back' = {} /\ Whole' = Whole /\ misled' = misled
        BY <1>3 DEF Trial!Accept, Whole, Back
    <2>. QED  BY <2>1
<1>4. CASE ~stale /\ Trial!Undo
    <2>1. current' \in Back /\ Back' = {} /\ Whole' = Whole /\ misled' = misled
        BY <1>4 DEF Trial!Undo, Whole, Back
    <2>. QED  BY <1>4, <2>1
<1>5. CASE Trial!Muddle
    <2>1. current' \in Whole' /\ (Back' \subseteq Whole' \/ stale')
        BY <1>5 DEF Trial!Muddle, Whole, Back
    <2>. QED  BY <2>1
<1>6. CASE Trial!Stray
    BY <1>6 DEF Trial!Stray
<1>7. CASE UNCHANGED <<current, Whole, Fit, Back, stale, misled>>
    BY <1>7
<1>. QED  BY <1>1, <1>2, <1>3, <1>4, <1>5, <1>6, <1>7 DEF TrialStep, Trial!Next, Whole

\* The promise is worth it: whoever keeps the rules of a trial runs, at every
\* instant, from a complete release (ota/agent.py, "apply atomically").
THEOREM TrialIsWorthIt == ImplementsTrial => []CurrentIsWhole
<1>1. Trial!Init => SafeTrial
    BY DEF Trial!Init, SafeTrial, Whole, Back
<1>2. SafeTrial => CurrentIsWhole
    BY DEF SafeTrial, CurrentIsWhole, Whole
<1>3. SafeTrial /\ TrialStep => SafeTrial'
    BY TrialKeepsSafe
<1>. QED  BY <1>1, <1>2, <1>3, PTL
          DEF ImplementsTrial, Trial!Spec, TrialStep, Trial!trialVars, Whole, Fit, Back
=============================================================================
