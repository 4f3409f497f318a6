---------------------------- MODULE Configuration ---------------------------
(* Where a running unit's settings come from, and when a change to them is in *)
(* force.  config.yaml is written by the setup pages and by registration,     *)
(* each by reading the whole file and replacing it; the overlay is written by *)
(* the command worker from the document the owner publishes in the cloud; the *)
(* firmware layers the two, copies the hot values where they are used, and    *)
(* builds its components from the rest once, at start.  A restart is asked    *)
(* for over the command socket, which a thread started before the run serves. *)
EXTENDS Naturals, Sequences, SequencesExt

CONSTANTS Docs,      \* the documents the owner publishes, in order: key -> value
          Remote,    \* the keys a cloud document may set
          Hot,       \* the keys that apply without a restart
          Local,     \* keys set on the unit only: "fit" by the pages, "key" by registration
          Range0,    \* the values the schema accepts
          QueueCap,  \* capacity of the event queue
          DrainMax,  \* events a poll takes from it
          Findings,  \* bound: events of the other producers
          Faults     \* bound: lost posts, failed overlay writes, kills

Keys == Remote \cup Local
Writers == {"pages", "register"}
Writes == [pages |-> "fit", register |-> "key"]

ASSUME ConfigurationAssumption ==
    /\ Len(Docs) \in Nat
    /\ Hot \subseteq Remote /\ Local = {"fit", "key"} /\ Local \cap Remote = {}
    /\ \A v \in 1 .. Len(Docs) : DOMAIN Docs[v] \subseteq Keys
    /\ {0, 1} \subseteq Range0 /\ {QueueCap, Findings, Faults} \subseteq Nat /\ DrainMax \in Nat \ {0}

VARIABLES desired,   \* the version of the owner's document
          told,      \* the versions whose refusal the owner has been told
          beat,      \* the version in the last heartbeat
          base,      \* config.yaml
          writer,    \* per writer of config.yaml: [pc, snap]
          overlay,   \* config.d/remote.yaml: [version, values]
          phase,     \* the firmware: down, built (start() is over), running
          settings,  \* ConfigManager: [version, values]
          built,     \* the values the components were built from
          applied,   \* the hot values last handed to their consumers
          flag,      \* a restart has been requested
          listener,  \* the thread of the command socket
          worker,    \* the command worker: [pc, doc]
          events,    \* the event queue: the version refused, or Other for another event
          findings,  \* events the other producers may still have
          finish,    \* the Finish button was pressed
          faults

cloudvars == <<desired, told, beat>>
disk == <<base, overlay>>
vars == <<cloudvars, disk, writer, phase, settings, built, applied, flag, listener, worker,
          events, findings, finish, faults>>

-----------------------------------------------------------------------------
(* The schema.                                                                *)
Acceptable(k, x) == k \in Remote /\ x \in Range0
\* As it would be with the bad keys dropped and the rest kept.
ValidAnyway(doc) == TRUE
Valid(doc) == \A k \in DOMAIN doc : Acceptable(k, doc[k])
\* As it would be with every key taken for a hot one.
NeedsNothing(doc) == FALSE
NeedsRestart(doc) == DOMAIN doc \ Hot # {}

\* What validate_values accepts of a document, and the layers, later ones winning.
Accepted(doc) == [k \in {j \in DOMAIN doc : Acceptable(j, doc[j])} |-> doc[k]]
Layered == [version |-> overlay.version,
            values |-> [k \in Keys |-> IF k \in DOMAIN overlay.values THEN overlay.values[k]
                                       ELSE base[k]]]

Defaults == [k \in Keys |-> 0]
Part(f, S) == [k \in S |-> f[k]]
Cold == Keys \ Hot
NoDoc == [k \in {} |-> 0]
Asleep == [pc |-> "idle", doc |-> 0]

Init ==
    /\ desired = 0 /\ told = {} /\ beat = 0
    /\ base = Defaults /\ writer = [w \in Writers |-> [pc |-> "new", snap |-> Defaults]]
    /\ overlay = [version |-> 0, values |-> NoDoc]
    /\ phase = "down" /\ settings = Layered /\ built = Part(Defaults, Cold) /\ applied = Part(Defaults, Hot)
    /\ flag = FALSE /\ listener = "none" /\ worker = Asleep /\ events = <<>> /\ findings = Findings
    /\ finish = "none" /\ faults = Faults

-----------------------------------------------------------------------------
(* The owner, and the writers of config.yaml.                                 *)
Publish ==
    /\ desired < Len(Docs) /\ desired' = desired + 1
    /\ UNCHANGED <<told, beat, disk, writer, phase, settings, built, applied, flag, listener, worker,
                   events, findings, finish, faults>>

WriterReads(w) ==
    /\ writer[w].pc = "new" /\ writer' = [writer EXCEPT ![w] = [pc |-> "read", snap |-> base]]
    /\ UNCHANGED <<cloudvars, disk, phase, settings, built, applied, flag, listener, worker, events, findings,
                   finish, faults>>

WriterReplaces(w) ==
    /\ writer[w].pc = "read" /\ writer' = [writer EXCEPT ![w].pc = "done"]
    /\ base' = [writer[w].snap EXCEPT ![Writes[w]] = 1]
    /\ UNCHANGED <<cloudvars, overlay, phase, settings, built, applied, flag, listener, worker,
                   events, findings, finish, faults>>

\* Finish asks for a restart and says so when the listener answers.
Finish ==
    /\ writer["pages"].pc = "done" /\ finish = "none"
    /\ finish' = "asked"
    /\ flag' = (flag \/ listener = "serving")
    /\ UNCHANGED <<cloudvars, disk, writer, phase, settings, built, applied, listener, worker, events, findings,
                   faults>>

\* A page, or the cloud, asks for a reload.
ReloadCommand ==
    /\ listener = "serving" /\ settings' = Layered /\ applied' = Part(settings'.values, Hot)
    /\ UNCHANGED <<cloudvars, disk, writer, phase, built, flag, listener, worker, events, findings, finish, faults>>

-----------------------------------------------------------------------------
(* The firmware's life.                                                       *)
Start ==
    /\ phase = "down" /\ phase' = "built"
    /\ settings' = Layered /\ built' = Part(settings'.values, Cold)
    /\ applied' = Part(settings'.values, Hot)
    /\ listener' = "starting"
    /\ UNCHANGED <<cloudvars, disk, writer, flag, worker, events, findings, finish, faults>>

Run ==
    /\ phase = "built" /\ phase' = "running"
    /\ UNCHANGED <<cloudvars, disk, writer, settings, built, applied, flag, listener, worker, events, findings,
                   finish, faults>>

\* The listener loops while _running, which is set by run().
Listen ==
    /\ listener = "starting" /\ listener' = IF phase = "running" THEN "serving" ELSE "gone"
    /\ UNCHANGED <<cloudvars, disk, writer, phase, settings, built, applied, flag, worker, events, findings,
                   finish, faults>>

Ends ==
    /\ phase' = "down" /\ flag' = FALSE /\ listener' = "none" /\ worker' = Asleep /\ events' = <<>>
    /\ UNCHANGED <<cloudvars, disk, writer, settings, built, applied, finish, findings>>

Restart == phase = "running" /\ flag /\ Ends /\ UNCHANGED faults
Kill == phase # "down" /\ faults > 0 /\ faults' = faults - 1 /\ Ends

\* Every sampling cycle hands the settings to the hold and the two publishers.
Sample ==
    /\ phase = "running" /\ applied' = Part(settings.values, Hot)
    /\ UNCHANGED <<cloudvars, disk, writer, phase, settings, built, flag, listener, worker, events, findings,
                   finish, faults>>

Other == 0
\* As it would be with a put that waits for room: the drainer is a producer.
EmitWaits(e) == Len(events) < QueueCap /\ events' = Append(events, e)
Emit(e) == events' = IF Len(events) < QueueCap THEN Append(events, e) ELSE events

\* The sensor monitor (in the sampling worker) and the smart breaker (in its own)
\* have an event for the owner.
OtherEvent ==
    /\ phase = "running" /\ findings > 0 /\ findings' = findings - 1 /\ Emit(Other)
    /\ UNCHANGED <<cloudvars, disk, writer, phase, settings, built, applied, flag, listener, worker,
                   finish, faults>>

Heartbeat ==
    /\ phase = "running" /\ beat' = settings.version
    /\ UNCHANGED <<desired, told, disk, writer, phase, settings, built, applied, flag, listener, worker,
                   events, findings, finish, faults>>

-----------------------------------------------------------------------------
(* The command worker: one poll, and what it leads to.                        *)
WorkerAt(pc) == phase = "running" /\ worker.pc = pc
Goes(pc) == worker' = [worker EXCEPT !.pc = pc]
Poll ==
    /\ WorkerAt("idle")
    /\ Goes(IF desired # 0 /\ desired # settings.version THEN "fetch" ELSE "drain")
    /\ UNCHANGED <<cloudvars, disk, writer, phase, settings, built, applied, flag, listener, events, findings,
                   finish, faults>>

\* The document may be newer than the poll; a failed fetch waits for the next poll.
Fetch ==
    /\ WorkerAt("fetch")
    /\ \/ worker' = [pc |-> "apply", doc |-> desired] /\ UNCHANGED faults
       \/ faults > 0 /\ faults' = faults - 1 /\ Goes("drain")
    /\ UNCHANGED <<cloudvars, disk, writer, phase, settings, built, applied, flag, listener, events, findings,
                   finish>>

\* A document with one bad key is refused whole; so is one the card does not take.
Refuse ==
    /\ WorkerAt("apply")
    /\ \/ ~Valid(Docs[worker.doc]) /\ UNCHANGED faults
       \/ Valid(Docs[worker.doc]) /\ faults > 0 /\ faults' = faults - 1
    /\ Emit(worker.doc) /\ Goes("drain")
    /\ UNCHANGED <<cloudvars, disk, writer, phase, settings, built, applied, flag, listener, finish,
                   findings>>

Persist ==
    /\ WorkerAt("apply") /\ Valid(Docs[worker.doc])
    /\ overlay' = [version |-> worker.doc, values |-> Accepted(Docs[worker.doc])]
    /\ Goes("reload")
    /\ UNCHANGED <<cloudvars, base, writer, phase, settings, built, applied, flag, listener, events, findings,
                   finish, faults>>

Reload ==
    /\ WorkerAt("reload") /\ settings' = Layered /\ Goes("announce")
    /\ UNCHANGED <<cloudvars, disk, writer, phase, built, applied, flag, listener, events, findings, finish, faults>>

\* The event first, then the hot values, then the restart the others need.
Announce ==
    /\ WorkerAt("announce") /\ Emit(Other)
    /\ applied' = IF DOMAIN Docs[worker.doc] \cap Hot # {} THEN Part(settings.values, Hot) ELSE applied
    /\ flag' = (flag \/ NeedsRestart(Docs[worker.doc]))
    /\ Goes("drain")
    /\ UNCHANGED <<cloudvars, disk, writer, phase, settings, built, listener, finish, findings,
                   faults>>

\* The oldest events are taken, up to the limit, and each is posted once: a post
\* that fails is the end of its event.
Drain ==
    LET some == IF Len(events) < DrainMax THEN Len(events) ELSE DrainMax
        taken == ToSet(SubSeq(events, 1, some)) \ {Other}
    IN  /\ WorkerAt("drain") /\ worker' = Asleep
        /\ events' = SubSeq(events, some + 1, Len(events))
        /\ \/ told' = told \cup taken /\ UNCHANGED faults
           \/ /\ faults > 0 /\ faults' = faults - 1
              /\ \E arrived \in SUBSET taken : told' = told \cup arrived
        /\ UNCHANGED <<desired, beat, disk, writer, phase, settings, built, applied, flag, listener, finish,
                       findings>>

CommandStep == Poll \/ Fetch \/ Refuse \/ Persist \/ Reload \/ Announce \/ Drain
Writing(w) == WriterReads(w) \/ WriterReplaces(w)
Lifecycle == Start \/ Run \/ Restart

Next ==
    \/ Publish \/ (\E w \in Writers : Writing(w)) \/ Finish \/ ReloadCommand
    \/ Lifecycle \/ Listen \/ Kill \/ Sample \/ OtherEvent \/ Heartbeat \/ CommandStep

Spec == Init /\ [][Next]_vars

(* Fairness: threads of a running program go on, a requested restart comes    *)
(* (the supervisor polls the flag each second, systemd starts the unit again) *)
(* and a write that was begun ends.  The owner, the pages' Finish, reloads    *)
(* and faults are free.                                                       *)
FairSpec ==
    /\ Spec
    /\ WF_vars(CommandStep) /\ WF_vars(Lifecycle) /\ WF_vars(Listen)
    /\ WF_vars(Sample) /\ WF_vars(Heartbeat)
    /\ \A w \in Writers : WF_vars(Writing(w))
-----------------------------------------------------------------------------
(* ReportedVersionIsInForce: the version a heartbeat would report is of a     *)
(* document that passed whole, every value of it is what the firmware reads,  *)
(* and a key set on the unit only is as it was saved there: at every step of  *)
(* a poll, after any reload by somebody else, and after a kill between the    *)
(* write of the overlay and the reload (apply_remote_config: last-known-good).*)
ReportedVersionIsInForce ==
    /\ settings.version # 0 =>
         LET doc == Docs[settings.version]
         IN  Valid(doc) /\ \A k \in DOMAIN doc : settings.values[k] = doc[k]
    /\ \A w \in Writers : settings.values[Writes[w]] = 1 => writer[w].pc = "done"

(* ImplementsSettings: stronger, the writers, the polls, the reloads and the  *)
(* kills keep the promise of SettingsInForce: what is kept, read and reported *)
(* moves from version to later version, and never back.                       *)
InForce == INSTANCE SettingsInForce WITH
    Sound     <- {v \in 1 .. Len(Docs) : Valid(Docs[v])},
    published <- desired,
    saved     <- {w \in Writers : writer[w].pc = "done"},
    kept      <- overlay.version,
    inForce   <- settings.version,
    values    <- settings.values,
    own       <- {w \in Writers : settings.values[Writes[w]] = 1},
    reported  <- beat

ImplementsSettings == InForce!Spec

Running(doc) ==
    /\ phase = "running"
    /\ \A k \in DOMAIN doc : doc[k] = IF k \in Hot THEN applied[k] ELSE built[k]

(* DesiredRuns: the last document the owner publishes, if it is valid, comes  *)
(* to be what the unit runs with, the hot values where they are used and the  *)
(* others in the components built from them: through failed fetches, failed   *)
(* writes, and a kill after the overlay was written and before the restart    *)
(* was asked for (_reconcile_remote_config).                                  *)
DesiredRuns ==
    <>[](desired # 0 /\ Valid(Docs[desired]) => Running(Docs[desired]))

(* VerdictReachesOwner: the owner learns what became of the last document:    *)
(* the heartbeat reports its version, or the refusal is told, although the    *)
(* queue is shared with the monitor and the smart breaker, a verdict that     *)
(* finds it full is dropped, a poll takes only so many events and a lost post *)
(* is not repeated: a refused document is refused again at every poll, and no *)
(* producer waits for room (emit_event: "never blocks a worker").             *)
VerdictReachesOwner ==
    []<>(desired # 0 => beat = desired \/ desired \in told)

(* What the documents say and the code does not do.                           *)

(* SavedStaysSaved: a value saved in config.yaml is not undone by a write of  *)
(* another key ("Merge updates into config file with atomic write").          *)
SavedStaysSaved == [][\A w \in Writers : base[Writes[w]] = 1 => base'[Writes[w]] = 1]_vars

(* SocketIsServed: a firmware that runs serves its command socket (the        *)
(* listener is started "for service window commands"; Finish restarts the     *)
(* firmware through it).                                                      *)
SocketIsServed == phase = "running" => listener # "gone"
=============================================================================
