------------------------------- MODULE OTAAgent -------------------------------
(***************************************************************************)
(* The update agent (ota/agent.py): it fetches the assigned release, puts   *)
(* it beside the installed one, flips the `current` link, restarts the      *)
(* services, waits for signs of life and flips back if there are none.  The *)
(* state file is for an agent that died in between.  Beside it run the main *)
(* service, the agent's operator, and systemd, which restarts either one    *)
(* from whatever `current` points at.                                       *)
(*                                                                         *)
(* Abstracted: the poll, the download and the verification change nothing   *)
(* but the download directory and the staging tree, and an update that      *)
(* fails there is one that never left "idle".  Compilation of the tree and  *)
(* the reports to the cloud are left out.  There is always a `current`      *)
(* (setup.sh), so an apply has a release to go back to.                     *)
(***************************************************************************)
EXTENDS Naturals, FiniteSets

CONSTANTS
    Version,        \* releases
    None,           \* no version
    Keep,           \* ota_keep_releases
    MaxAssigned,    \* bound: targets the operator assigns
    MaxDeaths,      \* bound: deaths of the agent
    MaxFaults       \* bound: file and systemctl calls that raise

ASSUME UpdateAssumption ==
    /\ IsFiniteSet(Version) /\ None \notin Version
    /\ Keep \in Nat \ {0}
    /\ MaxAssigned \in Nat /\ MaxDeaths \in Nat /\ MaxFaults \in Nat

VARIABLES
    health,         \* what a release is worth: "good"; "mute": its service gets
                    \* active and does no work; "down": never active; "dead": not
                    \* even the agent in it starts
    rel,            \* releases/<version>
    current,        \* target of the `current` link
    record,         \* the state file
    target,         \* the release assigned in the cloud
    pc,             \* where the agent is
    agent,          \* the release the agent's code is from
    job,            \* its locals: the version at hand and the previous one
    svc,            \* the main service: its release, and whether it is active
    seen,           \* releases that stored a reading or touched the liveness
                    \* file since the apply time
    assigned, deaths, faults,
    stale,          \* history: the state file is not what the agent meant it to be
    misled          \* history: and a recovery went by it

agentVars == <<pc, agent, job>>
boundVars == <<assigned, deaths, faults>>
histVars  == <<stale, misled>>
vars == <<health, rel, current, record, target, agentVars, svc, seen, boundVars, histVars>>

NoJob == [version |-> None, previous |-> None]
Incomplete == {"applying", "self_test"}
Present == {v \in Version : rel[v] # "absent"}

\* What "active" may be said of a service started from release v.
Active(v) ==
    IF rel[v] # "whole" \/ health[v] \in {"down", "dead"} THEN {FALSE} ELSE {TRUE}

Init ==
    /\ health \in [Version -> {"good", "mute", "down", "dead"}]
    /\ current \in {v \in Version : health[v] = "good"}
    /\ rel = [v \in Version |-> IF v = current THEN "whole" ELSE "absent"]
    /\ record = [phase |-> "none", version |-> None, previous |-> None]
    /\ target = None
    /\ pc = "idle" /\ agent = current /\ job = NoJob
    /\ svc = [ver |-> current, up |-> TRUE]
    /\ seen = {}
    /\ assigned = 0 /\ deaths = 0 /\ faults = 0
    /\ stale = FALSE /\ misled = FALSE
-----------------------------------------------------------------------------
(* The state file                                                          *)

\* _write_state: atomic, and an error is logged.
Write(phase, version, previous) ==
    \/ /\ record' = [phase |-> phase, version |-> version, previous |-> previous]
       /\ stale' = FALSE
       /\ UNCHANGED faults
    \/ /\ faults < MaxFaults
       /\ faults' = faults + 1
       /\ stale' = TRUE
       /\ UNCHANGED record
-----------------------------------------------------------------------------
(* check_and_apply                                                         *)

\* installed_version reads the VERSION file of `current`, else the agent's own.
Installed == IF rel[current] = "whole" THEN {current} ELSE {current, agent}

\* Poll, download and verify; the new tree is in staging.
Fetch ==
    /\ pc = "idle"
    /\ target # None
    /\ \E v \in Installed : v # target
    /\ job' = [version |-> target, previous |-> None]
    /\ pc' = "clear"
    /\ UNCHANGED <<health, rel, current, record, target, agent, svc, seen, boundVars, histVars>>

\* rmtree of an older copy of the release.
Clear ==
    /\ pc = "clear"
    /\ rel' = [rel EXCEPT ![job.version] = IF @ = "absent" THEN @ ELSE "partial"]
    /\ pc' = "place"
    /\ UNCHANGED <<health, current, record, target, agent, job, svc, seen, boundVars, histVars>>

\* staging.rename(final)
Place ==
    /\ pc = "place"
    /\ rel' = [rel EXCEPT ![job.version] = "whole"]
    /\ pc' = "record"
    /\ UNCHANGED <<health, current, record, target, agent, job, svc, seen, boundVars, histVars>>

\* Note the release to go back to, and the time; write the state file.
Record ==
    /\ pc = "record"
    /\ job' = [job EXCEPT !.previous = current]
    /\ Write("applying", job.version, current)
    /\ seen' = {}
    /\ pc' = "flip"
    /\ UNCHANGED <<health, rel, current, target, agent, svc, assigned, deaths, misled>>

\* _flip_current
Flip ==
    /\ pc = "flip"
    /\ current' = job.version
    /\ pc' = "restart"
    /\ UNCHANGED <<health, rel, record, target, agent, job, svc, seen, boundVars, histVars>>

ServiceStarts == svc' \in [ver : {current}, up : Active(current)]

\* _restart_services
RestartServices ==
    /\ pc = "restart"
    /\ ServiceStarts
    /\ pc' = "mark"
    /\ UNCHANGED <<health, rel, current, record, target, agent, job, seen, boundVars, histVars>>

MarkSelfTest ==
    /\ pc = "mark"
    /\ Write("self_test", job.version, job.previous)
    /\ pc' = "test"
    /\ UNCHANGED <<health, rel, current, target, agent, job, svc, seen, assigned, deaths, misled>>

\* Fault: signs of life are enough.
AliveFault == seen # {}

\* The service is active and something is fresh.
Alive == svc.up /\ seen # {}

\* _self_test, then the reports: the cloud takes the target back on a success
\* it hears of.
SelfTestPasses ==
    /\ pc = "test"
    /\ Alive
    /\ target' \in {target, None}
    /\ Write("success", job.version, None)
    /\ pc' = "prune"
    /\ UNCHANGED <<health, rel, current, agent, job, svc, seen, assigned, deaths, misled>>

SelfTestTimesOut ==
    /\ pc = "test"
    /\ ~Alive
    /\ pc' = "unflip"
    /\ UNCHANGED <<health, rel, current, record, target, agent, job, svc, seen, boundVars, histVars>>

\* Fault: the release that was left is protected, the one in use is not.
ProtectedFault == {job.previous}

Protected == {job.version, job.previous}

\* _prune_releases; K is the newest ones.  A removal that fails half way is
\* ignored.
Prune ==
    /\ pc = "prune"
    /\ \E K \in SUBSET Present :
          /\ Cardinality(K) = IF Cardinality(Present) < Keep THEN Cardinality(Present) ELSE Keep
          /\ rel' \in [Version -> {"absent", "partial", "whole"}]
          /\ \A v \in Version :
                IF v \in Present \ (K \cup Protected)
                THEN rel'[v] \in {"absent", "partial"}
                ELSE rel'[v] = rel[v]
    /\ pc' = "idle" /\ job' = NoJob
    /\ UNCHANGED <<health, current, record, target, agent, svc, seen, boundVars, histVars>>
-----------------------------------------------------------------------------
(* _rollback, and recover_incomplete_apply                                 *)

Unflip ==
    /\ pc = "unflip"
    /\ current' = job.previous
    /\ pc' = "rerestart"
    /\ UNCHANGED <<health, rel, record, target, agent, job, svc, seen, boundVars, histVars>>

RestartPrevious ==
    /\ pc = "rerestart"
    /\ ServiceStarts
    /\ pc' = "undone"
    /\ UNCHANGED <<health, rel, current, record, target, agent, job, seen, boundVars, histVars>>

RolledBack ==
    /\ pc = "undone"
    /\ Write("rolled_back", job.version, job.previous)
    /\ pc' = "idle" /\ job' = NoJob
    /\ UNCHANGED <<health, rel, current, target, agent, svc, seen, assigned, deaths, misled>>

\* Fault: only an apply cut short before its self-test counts.
InterruptedFault == record.phase = "applying"

Interrupted == record.phase \in Incomplete

\* The agent starts.  An update cut short is rolled back if `current` points at
\* it, and has failed if it does not.
Recover ==
    /\ pc = "boot"
    /\ misled' = (misled \/ (Interrupted /\ stale))
    /\ IF Interrupted /\ current = record.version
       THEN /\ job' = [version |-> record.version, previous |-> record.previous]
            /\ pc' = "unflip"
            /\ UNCHANGED <<record, stale, faults>>
       ELSE /\ IF Interrupted
               THEN Write("failed", record.version, None)
               ELSE UNCHANGED <<record, stale, faults>>
            /\ pc' = "idle" /\ UNCHANGED job
    /\ UNCHANGED <<health, rel, current, target, agent, svc, seen, assigned, deaths>>
-----------------------------------------------------------------------------
(* What goes wrong                                                         *)

\* A call of _apply or _rollback raises, and the cycle is over.  What was done
\* stays done, and the state file stays as it is.
StepRaises ==
    /\ pc \in {"clear", "place", "flip", "restart", "unflip", "rerestart"}
    /\ faults < MaxFaults
    /\ faults' = faults + 1
    /\ stale' = (stale \/ Interrupted)
    /\ pc' = "idle" /\ job' = NoJob
    /\ UNCHANGED <<health, rel, current, record, target, agent, svc, seen, assigned, deaths, misled>>

\* Killed, or the power is cut.
AgentDies ==
    /\ pc # "down"
    /\ deaths < MaxDeaths
    /\ deaths' = deaths + 1
    /\ pc' = "down" /\ job' = NoJob
    /\ UNCHANGED <<health, rel, current, record, target, agent, svc, seen, assigned, faults, histVars>>

\* Restart=always, from the release `current` points at.
AgentStarts ==
    /\ pc = "down"
    /\ rel[current] = "whole" /\ health[current] # "dead"
    /\ agent' = current
    /\ pc' = "boot"
    /\ UNCHANGED <<health, rel, current, record, target, job, svc, seen, boundVars, histVars>>

\* The main service is restarted for another reason.
ServiceRestarts ==
    /\ ServiceStarts
    /\ UNCHANGED <<health, rel, current, record, target, agentVars, seen, boundVars, histVars>>

\* A reading is stored or the liveness file touched.  A service told to stop
\* still finishes the step it is in.
Beats ==
    /\ svc.up /\ health[svc.ver] = "good"
    /\ seen' = seen \cup {svc.ver}
    /\ UNCHANGED <<health, rel, current, record, target, agentVars, svc, boundVars, histVars>>

\* The operator assigns a release, or takes the assignment back.
Assign ==
    /\ assigned < MaxAssigned
    /\ assigned' = assigned + 1
    /\ target' \in (Version \cup {None}) \ {target}
    /\ UNCHANGED <<health, rel, current, record, agentVars, svc, seen, deaths, faults, histVars>>

UpdateStep == \/ Fetch \/ Clear \/ Place \/ Record \/ Flip \/ RestartServices \/ MarkSelfTest
              \/ SelfTestPasses \/ SelfTestTimesOut \/ Prune
              \/ Unflip \/ RestartPrevious \/ RolledBack \/ Recover

Next == \/ UpdateStep \/ StepRaises \/ AgentDies \/ AgentStarts
        \/ ServiceRestarts \/ Beats \/ Assign

Spec == Init /\ [][Next]_vars

\* The agent runs, systemd starts it again, a live service beats.
Fairness == WF_vars(UpdateStep) /\ WF_vars(AgentStarts) /\ WF_vars(Beats)

FairSpec == Spec /\ Fairness
-----------------------------------------------------------------------------
\* The types, and: an update under way has another release to go back to.
TypeOK ==
    /\ health \in [Version -> {"good", "mute", "down", "dead"}]
    /\ rel \in [Version -> {"absent", "partial", "whole"}]
    /\ current \in Version /\ agent \in Version
    /\ record \in [phase : Incomplete \cup {"none", "success", "failed", "rolled_back"},
                   version : Version \cup {None}, previous : Version \cup {None}]
    /\ record.phase \in Incomplete => record.version # record.previous \/ misled
    /\ target \in Version \cup {None}
    /\ pc \in {"idle", "clear", "place", "record", "flip", "restart", "mark", "test", "prune",
               "unflip", "rerestart", "undone", "down", "boot"}
    /\ job \in [version : Version \cup {None}, previous : Version \cup {None}]
    /\ job = NoJob <=> pc \in {"idle", "down", "boot"}
    /\ svc \in [ver : Version, up : BOOLEAN] /\ seen \subseteq Version
    /\ assigned \in 0..MaxAssigned /\ deaths \in 0..MaxDeaths /\ faults \in 0..MaxFaults
    /\ stale \in BOOLEAN /\ misled \in BOOLEAN

\* "Apply atomically" (ota/agent.py): at every instant, whatever dies between
\* which steps, the link the services and the agent start from leads to a
\* complete release.  Replaced copies, pruning and rollbacks keep away from it,
\* but for a recovery that went by a state file left over from an update that
\* raised, or whose state could not be written.
CurrentIsWhole == rel[current] = "whole" \/ misled

\* A release whose service never gets active is never taken for good, whatever
\* the service it replaced has left behind.
DeadReleaseNeverPasses ==
    record.phase = "success" => health[record.version] \notin {"down", "dead"}

\* Between updates the state file and the link tell the same story, through
\* rollbacks and recoveries that died themselves.
StateTellsTheTruth ==
    pc = "idle" /\ ~stale /\ ~misled =>
        /\ record.phase \notin Incomplete
        /\ record.phase = "success" => current = record.version
        /\ record.phase = "rolled_back" => current = record.previous
        /\ record.phase = "failed" => current # record.version

\* What the agent has on record of an update is what became of it (ota/agent.py,
\* _write_state).
RecordTellsTheTruth == DeadReleaseNeverPasses /\ StateTellsTheTruth

\* The agent, through its deaths and those of its rollbacks, keeps the promise of
\* ReleaseTrial.  What is on trial is in the state file: it survives the agent.
Trial == INSTANCE ReleaseTrial WITH
    used    <- current,
    whole   <- {v \in Version : rel[v] = "whole"},
    fit     <- {v \in Version : health[v] \notin {"down", "dead"}},
    back    <- IF Interrupted /\ current = record.version THEN {record.previous} ELSE {},
    muddled <- stale,
    astray  <- misled

ImplementsTrial == Trial!Spec

\* A release whose service never gets active is left again, though the agent may
\* die in the middle: unless the update raised, or the agent died and cannot
\* start from that release either.
BadReleaseIsLeft ==
    \A v \in Version :
        current = v /\ health[v] \in {"down", "dead"} ~>
            \/ current # v
            \/ stale \/ misled
            \/ pc = "down" /\ health[v] = "dead"

\* "The self-test is the real gate" (docs/ota-runbook.md); a fresh beat means
\* that "the new firmware booted and every worker is beating" (ota/agent.py): an
\* update succeeds on signs of life of the new release.
SelfTestIsTheGate ==
    record.phase = "success" /\ pc = "prune" => job.version \in seen

\* "If the agent dies mid-apply, the boot-time safety net in the agent detects
\* the interrupted state file and rolls back on next start"
\* (docs/ota-runbook.md): an update does not stay half done.
InterruptedApplyIsUndone ==
    Interrupted ~> ~Interrupted
=============================================================================
