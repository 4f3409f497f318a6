-------------------------- MODULE ConfigurationProofs -------------------------
(***************************************************************************)
(* The settings the firmware reads, for every sequence of documents, every  *)
(* split of the keys and any number of failed writes and kills.             *)
(***************************************************************************)
EXTENDS Configuration, TLAPS

\* The overlay on the card is a document that passed, whole.
OverlayInv ==
    /\ DOMAIN overlay.values \subseteq Remote
    /\ overlay.version # 0 =>
         LET doc == Docs[overlay.version]
         IN  /\ Valid(doc)
             /\ \A k \in DOMAIN doc : k \in DOMAIN overlay.values /\ overlay.values[k] = doc[k]

\* A value of config.yaml, or of a copy somebody is about to write back, was
\* saved by the writer it belongs to.
BaseInv ==
    /\ base \in [Keys -> {0, 1}]
    /\ writer = [w \in Writers |-> [pc |-> writer[w].pc, snap |-> writer[w].snap]]
    /\ \A w \in Writers : writer[w].snap \in [Keys -> {0, 1}]
    /\ \A v \in Writers :
          /\ base[Writes[v]] = 1 => writer[v].pc = "done"
          /\ \A w \in Writers : writer[w].snap[Writes[v]] = 1 => writer[v].pc = "done"

ConfigInv == OverlayInv /\ BaseInv /\ ReportedVersionIsInForce

\* The keys of the writers are set on the unit only.
LEMMA WritesLocal ==
    /\ \A w \in Writers : Writes[w] \in Keys /\ Writes[w] \notin Remote
    /\ \A v, w \in Writers : Writes[v] = Writes[w] => v = w
BY ConfigurationAssumption DEF Writers, Writes, Keys

\* A document that passes the schema is accepted as it is.
LEMMA AcceptedWhole ==
    ASSUME NEW doc
    PROVE  /\ DOMAIN Accepted(doc) \subseteq Remote
           /\ Valid(doc) => \A k \in DOMAIN doc : k \in DOMAIN Accepted(doc) /\ Accepted(doc)[k] = doc[k]
BY DEF Accepted, Acceptable, Valid

\* What a reload reads is in force.
LEMMA LayeredFits ==
    ASSUME OverlayInv, BaseInv
    PROVE  /\ Layered.version # 0 =>
                LET doc == Docs[Layered.version]
                IN  Valid(doc) /\ \A k \in DOMAIN doc : Layered.values[k] = doc[k]
           /\ \A w \in Writers : Layered.values[Writes[w]] = 1 => writer[w].pc = "done"
<1>. DEFINE values == [k \in Keys |-> IF k \in DOMAIN overlay.values THEN overlay.values[k] ELSE base[k]]
<1>1. Layered.version = overlay.version /\ Layered.values = values
    BY DEF Layered
<1>2. \A k \in Remote : k \in Keys  BY DEF Keys
<1>3. ASSUME overlay.version # 0
      PROVE  LET doc == Docs[overlay.version]
             IN  Valid(doc) /\ \A k \in DOMAIN doc : values[k] = doc[k]
    BY <1>2, <1>3 DEF OverlayInv
<1>4. \A w \in Writers : values[Writes[w]] = base[Writes[w]]
    BY WritesLocal DEF OverlayInv
<1>. HIDE DEF values
<1>. QED  BY <1>1, <1>3, <1>4 DEF BaseInv

\* The unit starts with the settings of its file.
LEMMA ConfigInit == Init => ConfigInv
<1>. SUFFICES ASSUME Init PROVE ConfigInv
    OBVIOUS
<1>1. OverlayInv  BY DEF Init, OverlayInv, NoDoc
<1>2. BaseInv  BY WritesLocal DEF Init, BaseInv, Defaults
<1>3. settings = Layered  BY DEF Init
<1>. QED  BY <1>1, <1>2, <1>3, LayeredFits DEF ConfigInv, ReportedVersionIsInForce

\* A writer of config.yaml: it reads the whole file, and replaces it.
LEMMA WriterStep ==
    ASSUME ConfigInv, NEW u \in Writers, Writing(u)
    PROVE  ConfigInv'
<1>1. UNCHANGED <<overlay, settings>>  BY DEF Writing, WriterReads, WriterReplaces, disk
<1>2. CASE WriterReads(u)
    <2>1. /\ writer[u].pc = "new" /\ base' = base
          /\ writer' = [writer EXCEPT ![u] = [pc |-> "read", snap |-> base]]
        BY <1>2 DEF WriterReads, disk
    <2>2. \A w \in Writers : /\ writer'[w].pc = IF w = u THEN "read" ELSE writer[w].pc
                             /\ writer'[w].snap = IF w = u THEN base ELSE writer[w].snap
                             /\ writer'[w] = [pc |-> writer'[w].pc, snap |-> writer'[w].snap]
        BY <2>1 DEF ConfigInv, BaseInv
    <2>3. \A w \in Writers : writer[w].pc = "done" => writer'[w].pc = "done"
        BY <2>1, <2>2
    <2>4. writer' = [w \in Writers |-> [pc |-> writer'[w].pc, snap |-> writer'[w].snap]]
        BY <2>1, <2>2 DEF ConfigInv, BaseInv
    <2>5. BaseInv'  BY <2>1, <2>2, <2>3, <2>4 DEF ConfigInv, BaseInv
    <2>. QED  BY <1>1, <2>3, <2>5 DEF ConfigInv, OverlayInv, ReportedVersionIsInForce
<1>3. CASE WriterReplaces(u)
    <2>1. /\ base' = [writer[u].snap EXCEPT ![Writes[u]] = 1]
          /\ writer' = [writer EXCEPT ![u].pc = "done"]
        BY <1>3 DEF WriterReplaces
    <2>2. \A w \in Writers : /\ writer'[w].pc = IF w = u THEN "done" ELSE writer[w].pc
                             /\ writer'[w].snap = writer[w].snap
                             /\ writer'[w] = [pc |-> writer'[w].pc, snap |-> writer'[w].snap]
        BY <2>1 DEF ConfigInv, BaseInv
    <2>3. writer' = [w \in Writers |-> [pc |-> writer'[w].pc, snap |-> writer'[w].snap]]
        BY <2>1, <2>2 DEF ConfigInv, BaseInv
    <2>4. /\ base' \in [Keys -> {0, 1}]
          /\ \A v \in Writers : v # u => base'[Writes[v]] = writer[u].snap[Writes[v]]
        BY <2>1, WritesLocal DEF ConfigInv, BaseInv
    <2>5. BaseInv'  BY <2>2, <2>3, <2>4 DEF ConfigInv, BaseInv
    <2>. QED  BY <1>1, <2>2, <2>5 DEF ConfigInv, OverlayInv, ReportedVersionIsInForce
<1>. QED  BY <1>2, <1>3 DEF Writing

\* Whoever asks for it, a reload reads the layers as they are.
LEMMA ReloadStep ==
    ASSUME ConfigInv, ReloadCommand \/ Start \/ Reload
    PROVE  ConfigInv'
<1>1. settings' = Layered /\ UNCHANGED <<base, overlay, writer>>
    BY DEF ReloadCommand, Start, Reload, disk
<1>2. OverlayInv' /\ BaseInv'  BY <1>1 DEF ConfigInv, OverlayInv, BaseInv
<1>3. ReportedVersionIsInForce'
    BY <1>1, LayeredFits DEF ConfigInv, ReportedVersionIsInForce
<1>. QED  BY <1>2, <1>3 DEF ConfigInv

\* A document that passed becomes the overlay.
LEMMA PersistStep ==
    ASSUME ConfigInv, Persist
    PROVE  ConfigInv'
<1>1. /\ Valid(Docs[worker.doc])
      /\ overlay' = [version |-> worker.doc, values |-> Accepted(Docs[worker.doc])]
      /\ UNCHANGED <<base, settings, writer>>
    BY DEF Persist
<1>2. OverlayInv'  BY <1>1, AcceptedWhole DEF OverlayInv
<1>. QED  BY <1>1, <1>2 DEF ConfigInv, BaseInv, ReportedVersionIsInForce

\* The invariant is inductive.
LEMMA ConfigStep == ConfigInv /\ [Next]_vars => ConfigInv'
<1>. SUFFICES ASSUME ConfigInv, [Next]_vars PROVE ConfigInv'
    OBVIOUS
<1>1. CASE UNCHANGED <<base, overlay, settings, writer>>
    BY <1>1 DEF ConfigInv, OverlayInv, BaseInv, ReportedVersionIsInForce
<1>2. CASE Publish \/ Finish \/ Heartbeat \/ Sample \/ OtherEvent
    BY <1>1, <1>2 DEF Publish, Finish, Heartbeat, Sample, OtherEvent, disk
<1>3. CASE Run \/ Restart \/ Listen \/ Kill
    BY <1>1, <1>3 DEF Run, Restart, Listen, Kill, Ends, disk
<1>4. CASE Poll \/ Fetch \/ Refuse \/ Announce \/ Drain
    BY <1>1, <1>4 DEF Poll, Fetch, Refuse, Announce, Drain, disk
<1>5. CASE UNCHANGED vars
    BY <1>1, <1>5 DEF vars, disk
<1>. QED
    BY <1>2, <1>3, <1>4, <1>5, WriterStep, ReloadStep, PersistStep DEF Next, Lifecycle, CommandStep

\* The version the heartbeat reports is of a document that passed whole and is
\* what the firmware reads, and what is set on the unit stays the unit's: at
\* every step of a poll, after anybody's reload, and after a kill between the
\* write of the overlay and the reload (apply_remote_config).
THEOREM ReportedInForce == Spec => []ReportedVersionIsInForce
<1>1. ConfigInv => ReportedVersionIsInForce  BY DEF ConfigInv
<1>. QED  BY ConfigInit, ConfigStep, <1>1, PTL DEF Spec

(***************************************************************************)
(* The promise of SettingsInForce.                                         *)
(***************************************************************************)
Good == {v \in 1 .. Len(Docs) : Valid(Docs[v])}
Saved == {w \in Writers : writer[w].pc = "done"}
OwnOf(read) == {w \in Writers : read[Writes[w]] = 1}
Own == OwnOf(settings.values)

SettingsStep ==
    [InForce!Next]_<<desired, Saved, overlay.version, settings.version, settings.values, Own, beat>>

\* The document in hand is a published one, and never older than the overlay:
\* the worker alone writes the overlay, and a kill forgets what it had in hand.
VersionInv ==
    /\ desired \in 0 .. Len(Docs)
    /\ overlay.version \in Nat /\ overlay.version <= desired
    /\ worker = [pc |-> worker.pc, doc |-> worker.doc]
    /\ worker.pc = "fetch" => desired # 0
    /\ worker.pc = "apply" =>
          worker.doc \in 1 .. Len(Docs) /\ overlay.version <= worker.doc /\ worker.doc <= desired

\* No document yet.
LEMMA VersionInit == Init => VersionInv
BY ConfigurationAssumption DEF Init, VersionInv, Asleep

\* The steps of one poll.
LEMMA VersionWorker ==
    ASSUME VersionInv, CommandStep
    PROVE  VersionInv'
<1>. USE ConfigurationAssumption
<1>1. CASE Poll
    <2>1. /\ worker' = [worker EXCEPT !.pc = IF desired # 0 /\ desired # settings.version THEN "fetch" ELSE "drain"]
          /\ UNCHANGED <<desired, overlay>>
        BY <1>1 DEF Poll, Goes, cloudvars, disk
    <2>2. worker' = [pc |-> worker'.pc, doc |-> worker'.doc] /\ worker'.pc \in {"fetch", "drain"}
          /\ (worker'.pc = "fetch" => desired # 0)
        BY <2>1 DEF VersionInv
    <2>. QED  BY <2>1, <2>2 DEF VersionInv
<1>2. CASE Fetch
    <2>1. CASE worker' = [pc |-> "apply", doc |-> desired]
        BY <1>2, <2>1 DEF Fetch, WorkerAt, cloudvars, disk, VersionInv
    <2>2. CASE Goes("drain")
        <3>1. worker' = [pc |-> worker'.pc, doc |-> worker'.doc] /\ worker'.pc = "drain"
            BY <2>2 DEF Goes, VersionInv
        <3>. QED  BY <1>2, <3>1 DEF Fetch, cloudvars, disk, VersionInv
    <2>. QED  BY <1>2, <2>1, <2>2 DEF Fetch
<1>3. CASE Persist
    <2>1. /\ worker.pc = "apply" /\ overlay'.version = worker.doc /\ desired' = desired
          /\ worker' = [worker EXCEPT !.pc = "reload"]
        BY <1>3 DEF Persist, WorkerAt, Goes, cloudvars
    <2>2. worker' = [pc |-> worker'.pc, doc |-> worker'.doc] /\ worker'.pc = "reload"
        BY <2>1 DEF VersionInv
    <2>. QED  BY <2>1, <2>2 DEF VersionInv
<1>4. CASE Refuse \/ Reload \/ Announce \/ Drain
    <2>1. UNCHANGED <<desired, overlay>> /\ (worker' = Asleep \/ \E pc \in {"drain", "announce"} : Goes(pc))
        BY <1>4 DEF Refuse, Reload, Announce, Drain, cloudvars, disk
    <2>2. worker' = [pc |-> worker'.pc, doc |-> worker'.doc] /\ worker'.pc \in {"drain", "announce", "idle"}
        BY <2>1 DEF Goes, Asleep, VersionInv
    <2>. QED  BY <2>1, <2>2 DEF VersionInv
<1>. QED  BY <1>1, <1>2, <1>3, <1>4 DEF CommandStep

\* Nobody else has a document in hand.
LEMMA VersionStep == VersionInv /\ [Next]_vars => VersionInv'
<1>. SUFFICES ASSUME VersionInv, [Next]_vars PROVE VersionInv'
    OBVIOUS
<1>1. CASE UNCHANGED <<desired, overlay, worker>>
    BY <1>1 DEF VersionInv
<1>2. CASE Publish
    BY <1>2, ConfigurationAssumption DEF Publish, disk, VersionInv
<1>3. ASSUME NEW w \in Writers, Writing(w) PROVE VersionInv'
    BY <1>1, <1>3 DEF Writing, WriterReads, WriterReplaces, cloudvars, disk
<1>4. CASE Finish \/ ReloadCommand \/ Listen \/ Sample \/ OtherEvent \/ Heartbeat
    BY <1>1, <1>4 DEF Finish, ReloadCommand, Listen, Sample, OtherEvent, Heartbeat, cloudvars, disk
<1>5. CASE Start \/ Run \/ UNCHANGED vars
    BY <1>1, <1>5 DEF Start, Run, vars, cloudvars, disk
<1>6. CASE Restart \/ Kill
    <2>1. UNCHANGED <<desired, overlay>> /\ worker' = Asleep
        BY <1>6 DEF Restart, Kill, Ends, cloudvars, disk
    <2>. QED  BY <2>1 DEF VersionInv, Asleep
<1>. QED  BY <1>2, <1>3, <1>4, <1>5, <1>6, VersionWorker DEF Next, Lifecycle

\* Whoever asks for it, a reload reads what is kept, whole, and of the unit's own
\* settings only what was saved.
LEMMA ReloadIsSettingsStep ==
    ASSUME ConfigInv, VersionInv, ReloadCommand \/ Start \/ Reload
    PROVE  SettingsStep
<1>1. settings' = Layered /\ UNCHANGED <<desired, beat, overlay, writer>>
    BY DEF ReloadCommand, Start, Reload, cloudvars, disk
<1>2. settings'.version = overlay.version
    BY <1>1 DEF Layered
<1>3. overlay.version # 0 =>
        /\ overlay.version \in Good
        /\ \A k \in DOMAIN Docs[overlay.version] : settings'.values[k] = Docs[overlay.version][k]
    <2>1. overlay.version # 0 => overlay.version \in 1 .. Len(Docs)
        BY ConfigurationAssumption DEF VersionInv
    <2>. QED  BY <1>1, <1>2, <2>1, LayeredFits DEF ConfigInv, Good
<1>4. Own' \subseteq Saved
    BY <1>1, LayeredFits DEF ConfigInv, Own, OwnOf, Saved
<1>5. Saved' = Saved  BY <1>1 DEF Saved
<1>. QED
    BY <1>1, <1>2, <1>3, <1>4, <1>5
    DEF SettingsStep, InForce!Next, InForce!Read, InForce!Fits, Good, Own, OwnOf, Saved

\* The overlay moves to a later document that passed.
LEMMA PersistIsSettingsStep ==
    ASSUME VersionInv, Persist
    PROVE  SettingsStep
<1>1. /\ overlay'.version = worker.doc /\ worker.doc \in Good
      /\ overlay.version <= worker.doc /\ worker.doc <= desired
      /\ UNCHANGED <<desired, beat, settings, writer>>
    BY DEF Persist, WorkerAt, cloudvars, VersionInv, Good
<1>2. Saved' = Saved /\ Own' = Own  BY <1>1 DEF Saved, Own, OwnOf
<1>. QED
    BY <1>1, <1>2 DEF SettingsStep, InForce!Next, InForce!Keep, Good, Own, OwnOf, Saved

\* A writer that is done has saved its setting.
LEMMA WriterIsSettingsStep ==
    ASSUME ConfigInv, NEW u \in Writers, Writing(u)
    PROVE  SettingsStep
<1>1. UNCHANGED <<desired, beat, overlay, settings>>
    BY DEF Writing, WriterReads, WriterReplaces, cloudvars, disk
<1>2. Saved \subseteq Saved'
    <2>1. \/ writer[u].pc = "new" /\ writer' = [writer EXCEPT ![u] = [pc |-> "read", snap |-> base]]
          \/ writer' = [writer EXCEPT ![u].pc = "done"]
        BY DEF Writing, WriterReads, WriterReplaces
    <2>2. \A w \in Writers : writer[w].pc = "done" => writer'[w].pc = "done"
        BY <2>1 DEF ConfigInv, BaseInv
    <2>. QED  BY <2>2 DEF Saved
<1>3. Own' = Own  BY <1>1 DEF Own, OwnOf
<1>. QED
    BY <1>1, <1>2, <1>3 DEF SettingsStep, InForce!Next, InForce!Save, Own, OwnOf, Saved

\* Every step of the owner, the pages, the firmware and the worker.
LEMMA ConfigurationIsSettingsStep == ConfigInv /\ VersionInv /\ [Next]_vars => SettingsStep
<1>. SUFFICES ASSUME ConfigInv, VersionInv, [Next]_vars PROVE SettingsStep
    OBVIOUS
<1>1. CASE UNCHANGED <<desired, beat, overlay, settings, writer>>
    BY <1>1 DEF SettingsStep, Own, OwnOf, Saved
<1>2. CASE Publish
    <2>1. desired' = desired + 1 /\ UNCHANGED <<beat, overlay, settings, writer>>
        BY <1>2 DEF Publish, disk
    <2>. QED  BY <2>1 DEF SettingsStep, InForce!Next, InForce!Publish, Own, OwnOf, Saved
<1>3. CASE Heartbeat
    <2>1. beat' = settings.version /\ UNCHANGED <<desired, overlay, settings, writer>>
        BY <1>3 DEF Heartbeat, disk
    <2>. QED  BY <2>1 DEF SettingsStep, InForce!Next, InForce!Report, Own, OwnOf, Saved
<1>4. CASE Finish \/ Sample \/ OtherEvent \/ Run \/ Restart \/ Listen \/ Kill
    BY <1>1, <1>4 DEF Finish, Sample, OtherEvent, Run, Restart, Listen, Kill, Ends, cloudvars, disk
<1>5. CASE Poll \/ Fetch \/ Refuse \/ Announce \/ Drain \/ UNCHANGED vars
    BY <1>1, <1>5 DEF Poll, Fetch, Refuse, Announce, Drain, vars, cloudvars, disk
<1>. QED
    BY <1>2, <1>3, <1>4, <1>5, ReloadIsSettingsStep, PersistIsSettingsStep, WriterIsSettingsStep
    DEF Next, Lifecycle, CommandStep

\* What the unit keeps, reads and reports of the owner's documents moves from
\* version to later version, through polls, reloads by anybody, failed writes
\* and kills (apply_remote_config, _reconcile_remote_config, ConfigManager).
THEOREM KeepsTheSettings == Spec => ImplementsSettings
<1>1. Init => InForce!Init
    <2>1. Init => Own = {}
        <3>. SUFFICES ASSUME Init PROVE Own = {}
            OBVIOUS
        <3>1. \A w \in Writers : settings.values[Writes[w]] = 1 => writer[w].pc = "done"
            BY ConfigInit DEF ConfigInv, ReportedVersionIsInForce
        <3>2. \A w \in Writers : writer[w].pc = "new"
            BY DEF Init
        <3>. QED  BY <3>1, <3>2 DEF Own, OwnOf
    <2>2. Init => settings.version = 0 /\ Saved = {}
        BY DEF Init, Layered, Saved
    <2>. QED  BY <2>1, <2>2 DEF Init, InForce!Init, Own, OwnOf, Saved
<1>2. Spec => []ConfigInv  BY ConfigInit, ConfigStep, PTL DEF Spec
<1>3. Spec => []VersionInv  BY VersionInit, VersionStep, PTL DEF Spec
<1>4. ConfigInv /\ VersionInv /\ [Next]_vars =>
        [InForce!Next]_<<desired, Saved, overlay.version, settings.version, settings.values, Own, beat>>
    BY ConfigurationIsSettingsStep DEF SettingsStep
<1>. QED
    BY <1>1, <1>2, <1>3, <1>4, PTL
    DEF Spec, ImplementsSettings, InForce!Spec, InForce!settingsVars, Own, OwnOf, Saved

\* The versions are in order: what is reported was read, what is read was kept
\* or is older, and what is kept was published.
InOrder ==
    /\ desired \in Nat /\ overlay.version \in Nat /\ settings.version \in Nat /\ beat \in Nat
    /\ beat <= settings.version /\ settings.version <= overlay.version /\ overlay.version <= desired

\* What the owner sees of a unit: neither the settings nor the reports go back.
NeverBack == [][beat' >= beat /\ settings.version' >= settings.version]_<<beat, settings.version>>

\* The promise is worth it: who keeps it reads only documents that passed, whole,
\* and saved settings, and neither reads nor reports an earlier version again.
THEOREM SettingsAreWorthIt == ImplementsSettings => [](ReportedVersionIsInForce /\ InOrder) /\ NeverBack
<1>. DEFINE Sees == InForce!Fits(settings.version, settings.values) /\ Own \subseteq Saved
<1>1. InForce!Init => Sees /\ InOrder
    BY ConfigurationAssumption DEF InForce!Init, InForce!Fits, InOrder, Own, OwnOf, Saved
<1>2. Sees /\ SettingsStep => Sees'
    BY DEF SettingsStep, InForce!Next, InForce!Publish, InForce!Save, InForce!Keep, InForce!Read,
           InForce!Report, InForce!Fits, Own, OwnOf, Saved
<1>3. InOrder /\ SettingsStep =>
        InOrder' /\ [beat' >= beat /\ settings.version' >= settings.version]_<<beat, settings.version>>
    BY ConfigurationAssumption
    DEF SettingsStep, InForce!Next, InForce!Publish, InForce!Save, InForce!Keep, InForce!Read,
        InForce!Report, InOrder
<1>4. Sees => ReportedVersionIsInForce
    BY DEF InForce!Fits, ReportedVersionIsInForce, Own, OwnOf, Saved
<1>. HIDE DEF Sees
<1>. QED
    BY <1>1, <1>2, <1>3, <1>4, PTL
    DEF SettingsStep, ImplementsSettings, InForce!Spec, InForce!settingsVars, Own, OwnOf, Saved, NeverBack
=============================================================================
