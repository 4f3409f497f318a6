----------------------------- MODULE WifiSetup -----------------------------
(***************************************************************************)
(* The one radio of the unit and everybody who drives it: the boot fallback *)
(* (ensure_reachable), the five-minute retry of a saved network, the joins  *)
(* an installer starts from the setup page or the Service Window, and       *)
(* NetworkManager's own autoconnect.  The join and the retry take a file    *)
(* lock around the radio; the boot fallback does not.                       *)
(*                                                                         *)
(* A step of a process is what it does between two waits.  The join, its    *)
(* root service and the unit itself may die between any two of them.        *)
(***************************************************************************)
EXTENDS Naturals, FiniteSets

CONSTANTS
    Net,            \* networks an installer may choose
    Levels,         \* Net -> SUBSET Reach: what each network can be
    Asks,           \* bound: joins asked for
    Faults,         \* bound: crashes, renames and hotspot starts that fail
    PowerCuts       \* bound: reboots

\* "gone": not in range.  "bare": associates, no address.  "dud": an address,
\* BlueSignal does not answer.  "ok": BlueSignal answers.
Reach == {"gone", "bare", "dud", "ok"}

NoNet == "no network"

ASSUME WifiAssumption ==
    /\ NoNet \notin Net
    /\ Levels \in [Net -> (SUBSET Reach) \ {{}}]
    /\ Asks \in Nat /\ Faults \in Nat /\ PowerCuts \in Nat

\* NetworkManager profiles: "try" of the running join, "left" by one that died
\* or could not rename it, "aside" while it is replaced, "own" named as its SSID.
Profile == [ssid : Net, name : {"try", "left", "aside", "own"}, pass : BOOLEAN, auto : BOOLEAN]

NoLink == [ssid |-> NoNet, name |-> "none", pass |-> FALSE, auto |-> FALSE]

VARIABLES
    air,        \* what each network is now: the world
    ap, phone,  \* the setup hotspot is up; a phone is on it
    link,       \* the profile the station is associated with
    saved,      \* NetworkManager's profiles
    lock,       \* wifi.lock: "free", "join", "retry"
    join,       \* the worker that holds join.lock
    record,     \* join-state.json
    service,    \* the root join service runs
    boot,       \* the boot fallback
    retry,      \* the retry timer's unit
    moved,      \* card-binding: wifi_reconfirm
    asked, faults, cuts,
    proven,     \* history: the last network that reached BlueSignal
    wiped,      \* history: the Service Window forgot it, or confirmed a held one
    carried,    \* history: in another Pi, no network has been proven since
    gap,        \* history: a failure nothing recovers from, see Stranded
    muted       \* history: the last proven network lost its autoconnect to boot

radio == <<ap, phone, link>>
counters == <<asked, faults, cuts>>
history == <<proven, wiped, carried, gap, muted>>
wifiVars == <<air, radio, saved, lock, join, record, service, boot, retry, moved, counters, history>>

Weathers == {w \in [Net -> Reach] : \A n \in Net : w[n] \in Levels[n]}

IdleJoin == [pc |-> "idle", ssid |-> NoNet, pass |-> FALSE, had |-> FALSE, window |-> FALSE]

WifiTypeOK ==
    /\ air \in Weathers /\ ap \in BOOLEAN /\ phone \in BOOLEAN
    /\ saved \subseteq Profile /\ link \in saved \cup {NoLink}
    /\ lock \in {"free", "join", "retry"}
    /\ join \in [pc : {"idle", "asked", "connect", "poll", "aside", "rename", "drop",
                       "settle", "forget", "fail", "restore"},
                 ssid : Net \cup {NoNet}, pass : BOOLEAN, had : BOOLEAN, window : BOOLEAN]
    /\ record \in [state : {"idle", "joining", "joined", "failed"},
                   ssid : Net \cup {NoNet}, here : BOOLEAN]
    /\ {service, moved, wiped, carried, gap, muted} \subseteq BOOLEAN
    /\ boot \in {"hold", "look", "raise", "held", "done", "failed"}
    /\ retry \in {"idle", "stop", "try", "restore"}
    /\ proven \in Net \cup {NoNet}

\* A unit on its bench, with at most one network saved by hand in the image, or
\* one that was commissioned.
WifiInit ==
    /\ air \in Weathers
    /\ ap = FALSE /\ phone = FALSE /\ link = NoLink
    /\ saved \in {{}} \cup {{[ssid |-> n, name |-> "own", pass |-> TRUE, auto |-> TRUE]} : n \in Net}
    /\ lock = "free" /\ join = IdleJoin /\ service = TRUE
    /\ record = [state |-> "idle", ssid |-> NoNet, here |-> TRUE]
    /\ boot = "hold" /\ retry = "idle" /\ moved = FALSE
    /\ asked = 0 /\ faults = 0 /\ cuts = 0
    /\ proven \in {NoNet} \cup {p.ssid : p \in saved} /\ wiped = FALSE /\ carried = FALSE /\ gap = FALSE
    /\ muted = FALSE

-----------------------------------------------------------------------------
(* What the processes do with the radio.                                    *)

\* read_iface_net: a usable IPv4 address, from DHCP or static.
Addressed(n) == air[n] \in {"dud", "ok"}

\* _station_ready: associated, with an address; nothing is asked of the network.
Usable(l) == l # NoLink /\ Addressed(l.ssid)

\* reach_bluesignal: what proves a network.
Proof(n) == air[n] = "ok"

\* A profile NetworkManager can bring up.
Answers(p) == p.pass /\ air[p.ssid] # "gone"

Attempt(p) == link' = IF ~ap /\ Answers(p) THEN p ELSE NoLink

\* Profiles P get another name; the station keeps the one it is on.
Named(p, name) == [p EXCEPT !.name = name]
Rename(P, name) ==
    /\ saved' = (saved \ P) \cup {Named(p, name) : p \in P}
    /\ link' = IF link \in P THEN Named(link, name) ELSE link

\* start_ap, all its attempts: it is up, or every one failed and wlan0 is
\* NetworkManager's again.
RaiseAp ==
    /\ link' = NoLink /\ phone' = (phone /\ ap)
    /\ \/ ap' = TRUE /\ UNCHANGED <<faults, gap>>
       \/ ap = FALSE /\ faults < Faults /\ faults' = faults + 1
          /\ ap' = FALSE /\ gap' = TRUE

LeaveAp == UNCHANGED <<radio, faults, gap>>

\* stop_ap and _disarm_portal: the phone loses its network.
StopAp == ap' = FALSE /\ phone' = FALSE

\* forget_saved_wifi(keep).
ForgetAllBut(keep) ==
    LET left == {p \in saved : p.ssid = keep}
    IN /\ saved' = left
       /\ link' = IF link \in left THEN link ELSE NoLink

\* A process that dies leaves the try profile of its join behind.
Orphaned(P) == {IF p.name = "try" THEN [p EXCEPT !.name = "left"] ELSE p : p \in P}
OrphanedLink ==
    IF link # NoLink /\ link.name = "try" THEN [link EXCEPT !.name = "left"] ELSE link

\* confirm_binding: setup put this card on a network of this Pi.
Confirm == moved' = FALSE

\* The card may come back in another Pi: with a site network saved, first boot
\* latches wifi_reconfirm.
Observe ==
    \/ UNCHANGED <<moved, carried>>
    \/ saved # {} /\ moved' = TRUE /\ carried' = TRUE

-----------------------------------------------------------------------------
(* The boot fallback: scripts/wqm1-ap-fallback.py, ensure_reachable.        *)

\* Past its proof, a join only renames and forgets.
Promoting == {"aside", "rename", "drop", "settle", "forget"}

\* A card moved to another Pi holds the site network it carries, and boot goes
\* by that to its end; the profile of a join that runs by then is held too.
BootHold ==
    /\ boot = "hold"
    /\ IF moved
       THEN /\ boot' = "held"
            /\ saved' = {[p EXCEPT !.auto = FALSE] : p \in saved}
            /\ link' = NoLink
            /\ muted' = (muted \/ join.pc \in Promoting)
       ELSE boot' = "look" /\ UNCHANGED <<saved, link, muted>>
    /\ UNCHANGED <<air, ap, phone, lock, join, record, service, retry, moved, counters,
                   proven, wiped, carried, gap>>

BootStation ==
    /\ boot \in {"look", "raise"} /\ Usable(link)
    /\ boot' = "done"
    /\ UNCHANGED <<air, radio, saved, lock, join, record, service, retry, moved, counters, history>>

\* The grace period: only for a unit with a saved network.
BootDrive ==
    /\ boot = "look" /\ link = NoLink
    /\ \E p \in saved : Attempt(p)
    /\ UNCHANGED <<air, ap, phone, saved, lock, join, record, service, boot, retry, moved,
                   counters, history>>

\* The grace is over; a station without an address is released.
BootGiveUp ==
    /\ boot = "look" /\ ~Usable(link)
    /\ boot' = "raise"
    /\ link' = NoLink
    /\ UNCHANGED <<air, ap, phone, saved, lock, join, record, service, retry, moved, counters, history>>

BootRaise ==
    /\ boot = "held" \/ (boot = "raise" /\ ~Usable(link))
    /\ RaiseAp /\ boot' = IF ap' THEN "done" ELSE "failed"
    /\ UNCHANGED <<air, saved, lock, join, record, service, retry, moved, asked, cuts, proven, wiped, carried, muted>>

\* Restart=on-failure.
BootAgain ==
    /\ boot = "failed" /\ boot' = "hold"
    /\ UNCHANGED <<air, radio, saved, lock, join, record, service, retry, moved, counters, history>>

-----------------------------------------------------------------------------
(* The retry timer: retry_saved_station.                                    *)

\* wifi_radio_lock: the retry skips when it is held, a join waits for it.
TakesRadio(who) == lock = "free" /\ lock' = who

RetryUnchanged == UNCHANGED <<air, join, record, service, boot, moved, asked, cuts, proven, wiped, carried, muted>>

\* The lock, the hotspot, its clients counted twice, the profiles, the card.
RetryLook ==
    /\ retry = "idle" /\ boot = "done" /\ TakesRadio("retry")
    /\ ap /\ ~phone /\ saved # {} /\ ~moved
    /\ retry' = "stop"
    /\ UNCHANGED <<radio, saved, faults, gap>> /\ RetryUnchanged

RetryStop ==
    /\ retry = "stop" /\ retry' = "try"
    /\ StopAp
    /\ UNCHANGED <<link, saved, lock, faults, gap>> /\ RetryUnchanged

\* One saved profile is brought up; an address ends the retry.
RetryUp ==
    /\ retry = "try"
    /\ \E p \in saved :
        /\ Attempt(p)
        /\ IF ~ap /\ Answers(p) /\ air[p.ssid] # "bare"
           THEN retry' = "idle" /\ lock' = "free"
           ELSE retry' \in {"try", "restore"} /\ UNCHANGED lock
    /\ UNCHANGED <<ap, phone, saved, faults, gap>> /\ RetryUnchanged

\* No profile came up in the time there is, or systemd's SIGTERM.
RetryGiveUp ==
    /\ retry = "try" /\ retry' = "restore"
    /\ UNCHANGED <<radio, saved, lock, faults, gap>> /\ RetryUnchanged

\* Fault: an exit that does not go through the lock's finally.
RetryRestoreHolds ==
    /\ retry = "restore" /\ retry' = "idle"
    /\ RaiseAp
    /\ UNCHANGED <<saved, lock>> /\ RetryUnchanged

\* The finally: disconnect, and the hotspot comes back.
RetryRestore ==
    /\ retry = "restore" /\ retry' = "idle" /\ lock' = "free"
    /\ RaiseAp
    /\ UNCHANGED saved /\ RetryUnchanged

-----------------------------------------------------------------------------
(* A join: utils/join.py start_join, its worker, and netctl.join_network.   *)

JoinUnchanged == UNCHANGED <<air, service, boot, retry, asked, cuts>>
To(pc) == join' = [join EXCEPT !.pc = pc]

\* _write_state, with the kernel's boot id.
Recorded(state, n) == record' = [state |-> state, ssid |-> n, here |-> TRUE]

\* The profile of the running join, unless the Service Window forgot it.
Mine == {p \in saved : p.name = "try"}
Others == saved \ Mine
Older == {p \in Others : p.ssid = join.ssid}

\* start_join: one at a time; a second one is told "busy".
StartJoin(n, pass, window) ==
    /\ join.pc = "idle" /\ asked < Asks
    /\ join' = [pc |-> "asked", ssid |-> n, pass |-> pass, had |-> FALSE, window |-> window]
    /\ Recorded("joining", n)
    /\ asked' = asked + 1
    /\ UNCHANGED <<air, radio, saved, lock, service, boot, retry, moved, faults, cuts, history>>

\* The setup page listens while the hotspot is armed.
PortalOpen == ap

\* A phone on the hotspot asks the root service through the page.
PageAsks(n, pass) == PortalOpen /\ phone /\ service /\ StartJoin(n, pass, FALSE)

\* Somebody on a cable or on the site's network uses the Service Window (not
\* before the fallback's first lines).
WindowAsks(n, pass) == boot # "hold" /\ StartJoin(n, pass, TRUE)

\* The radio's lock; had_ap is read under it, and the hotspot goes down.
JoinTake ==
    /\ join.pc = "asked" /\ TakesRadio("join")
    /\ join' = [join EXCEPT !.pc = "connect", !.had = ap]
    /\ StopAp
    /\ UNCHANGED <<link, saved, record, moved, faults, history>> /\ JoinUnchanged

\* _connect: a network that is not there leaves no profile behind; nothing
\* connects while the hotspot has the radio.
JoinConnect ==
    LET p == [ssid |-> join.ssid, name |-> "try", pass |-> join.pass, auto |-> TRUE]
    IN /\ join.pc = "connect" /\ To("poll")
       /\ IF ap \/ air[join.ssid] = "gone"
          THEN UNCHANGED <<saved, link>>
          ELSE saved' = saved \cup {p} /\ Attempt(p)
       /\ UNCHANGED <<ap, phone, lock, record, moved, faults, history>> /\ JoinUnchanged

\* On the network that was asked for, its gateway and BlueSignal answer.
OnTarget == link # NoLink /\ link.name = "try" /\ Proof(link.ssid)

JoinProved ==
    /\ join.pc = "poll" /\ OnTarget /\ To("aside")
    /\ proven' = join.ssid /\ wiped' = FALSE /\ carried' = FALSE /\ muted' = ~link.auto
    /\ UNCHANGED <<radio, saved, lock, record, moved, faults, gap>> /\ JoinUnchanged

JoinNotProved ==
    /\ join.pc = "poll" /\ ~OnTarget /\ To("fail")
    /\ UNCHANGED <<radio, saved, lock, record, moved, faults, history>> /\ JoinUnchanged

\* _promote_try_profile: older profiles of the network step aside, ...
PromoteAside ==
    /\ join.pc = "aside"
    /\ \/ Rename(Older, "aside") /\ To("rename") /\ UNCHANGED faults
       \/ /\ Older # {} /\ faults < Faults /\ faults' = faults + 1
          /\ To("settle") /\ UNCHANGED <<saved, link>>
    /\ UNCHANGED <<ap, phone, lock, record, moved, history>> /\ JoinUnchanged

\* ... the new one takes the name, or they get theirs back, ...
PromoteRename ==
    /\ join.pc = "rename"
    /\ \/ Mine # {} /\ Rename(Mine, "own") /\ To("drop") /\ UNCHANGED faults
       \/ Mine # {} /\ faults < Faults /\ faults' = faults + 1
          /\ Rename(Older, "own") /\ To("settle")
       \/ Mine = {} /\ Rename(Older, "own") /\ To("settle") /\ UNCHANGED faults
    /\ UNCHANGED <<ap, phone, lock, record, moved, history>> /\ JoinUnchanged

\* ... and only then are they deleted.
PromoteDrop ==
    /\ join.pc = "drop" /\ To("settle")
    /\ saved' = {p \in saved : ~(p.ssid = join.ssid /\ p.name = "aside")}
    /\ link' = IF link \in saved' THEN link ELSE NoLink
    /\ UNCHANGED <<ap, phone, lock, record, moved, faults, history>> /\ JoinUnchanged

\* The rest of join_network: the card belongs to this Pi, the lock is free.
JoinSettle ==
    /\ join.pc = "settle" /\ To("forget")
    /\ Confirm /\ lock' = "free"
    /\ UNCHANGED <<radio, saved, record, faults, history>> /\ JoinUnchanged

\* The worker: the other networks are forgotten, the record says joined.
JoinForget ==
    /\ join.pc = "forget" /\ join' = IdleJoin
    /\ LET kept == Orphaned({p \in saved : p.ssid = join.ssid})
       IN saved' = kept /\ link' = IF OrphanedLink \in kept THEN OrphanedLink ELSE NoLink
    /\ Recorded("joined", join.ssid)
    /\ UNCHANGED <<ap, phone, lock, moved, faults, history>> /\ JoinUnchanged

\* Fault: the network's own profile goes with the attempt's.
JoinFailBySsid ==
    /\ join.pc = "fail" /\ To("restore")
    /\ saved' = {p \in saved : p.ssid # join.ssid}
    /\ link' = IF link \in saved' THEN link ELSE NoLink
    /\ Recorded("failed", join.ssid)
    /\ UNCHANGED <<ap, phone, lock, moved, faults, history>> /\ JoinUnchanged

\* _fail_join: the attempt's profile goes, the record says so at once.
JoinFail ==
    /\ join.pc = "fail" /\ To("restore")
    /\ saved' = Others
    /\ link' = IF link \in Others THEN link ELSE NoLink
    /\ Recorded("failed", join.ssid)
    /\ UNCHANGED <<ap, phone, lock, moved, faults, history>> /\ JoinUnchanged

\* Fault: the hotspot comes back only for the setup page's joins.
JoinRestorePageOnly ==
    /\ join.pc = "restore" /\ join' = IdleJoin /\ lock' = "free"
    /\ IF join.had /\ ~join.window THEN RaiseAp ELSE LeaveAp
    /\ UNCHANGED <<saved, record, moved, proven, wiped, carried, muted>> /\ JoinUnchanged

\* _restore_ap: the hotspot comes back if this join took it down.
RestoreAp == IF join.had THEN RaiseAp ELSE UNCHANGED <<radio, faults>> /\ gap' = TRUE

JoinRestore ==
    /\ join.pc = "restore" /\ join' = IdleJoin /\ lock' = "free"
    /\ RestoreAp
    /\ UNCHANGED <<saved, record, moved, proven, wiped, carried, muted>> /\ JoinUnchanged

-----------------------------------------------------------------------------
(* Deaths and restarts.                                                     *)

\* The process of the join dies; so does its lock on the radio.
JoinDies ==
    /\ join.pc # "idle" /\ faults < Faults /\ faults' = faults + 1
    /\ join' = IdleJoin /\ lock' = IF lock = "join" THEN "free" ELSE lock
    /\ saved' = Orphaned(saved) /\ link' = OrphanedLink
    /\ service' = (service /\ join.window)
    \* Nobody looks at a join of the Service Window, or at one that has failed.
    /\ gap' = (gap \/ join.window \/ record.state # "joining")
    /\ UNCHANGED <<air, ap, phone, record, boot, retry, moved, asked, cuts, proven, wiped, carried, muted>>

\* Restart=always, and recover_interrupted_join.
Recover ==
    /\ ~service /\ service' = TRUE
    /\ IF record.state = "joining" /\ record.here /\ join.pc = "idle" /\ ~ap /\ link = NoLink
       THEN RaiseAp ELSE LeaveAp
    /\ UNCHANGED <<air, saved, lock, join, record, boot, retry, moved, asked, cuts, proven, wiped, carried, muted>>

\* Power is lost.
PowerLost ==
    /\ cuts < PowerCuts /\ cuts' = cuts + 1
    /\ ap' = FALSE /\ phone' = FALSE /\ link' = NoLink
    /\ saved' = Orphaned(saved)
    /\ lock' = "free" /\ join' = IdleJoin /\ service' = TRUE /\ retry' = "idle"
    /\ record' = [record EXCEPT !.here = FALSE]
    /\ boot' = "hold" /\ gap' = FALSE
    /\ Observe
    /\ UNCHANGED <<air, asked, faults, proven, wiped, muted>>

-----------------------------------------------------------------------------
(* The Service Window's other buttons, and the world.                       *)

\* What the proven network is left with: nobody turns autoconnect on again.
Wipes ==
    wiped' = \/ wiped \/ \E p \in saved' : ~p.auto
             \/ ~\E p \in saved' : p.ssid = proven /\ p.pass

\* "Keep this network": it needs an address, nothing more.
Keep ==
    /\ ~ap /\ Usable(link)
    /\ ForgetAllBut(link.ssid) /\ Wipes
    /\ Confirm
    /\ UNCHANGED <<air, ap, phone, lock, join, record, service, boot, retry, counters, proven, carried, gap, muted>>

\* "Finish" at a Wi-Fi site: keeps the network the unit is on, none otherwise.
Finish ==
    /\ proven # NoNet
    /\ ForgetAllBut(IF ~ap /\ link # NoLink THEN link.ssid ELSE NoNet) /\ Wipes
    /\ Confirm
    /\ UNCHANGED <<air, ap, phone, lock, join, record, service, boot, retry, counters, proven, carried, gap, muted>>

\* A phone comes to the hotspot, and leaves it.
PhoneOn == ap /\ ~phone /\ phone' = TRUE
PhoneOff == phone /\ phone' = FALSE

Phone ==
    /\ PhoneOn \/ PhoneOff
    /\ UNCHANGED <<air, ap, link, saved, lock, join, record, service, boot, retry, moved,
                   counters, history>>

\* A network comes, goes or changes what it can do.
Weather(n, l) ==
    /\ air[n] # l /\ air' = [air EXCEPT ![n] = l]
    /\ link' = IF link # NoLink /\ link.ssid = n /\ l = "gone" THEN NoLink ELSE link
    /\ UNCHANGED <<ap, phone, saved, lock, join, record, service, boot, retry, moved,
                   counters, history>>

\* NetworkManager, on a managed radio that is idle.
Autoconnect ==
    /\ ~ap /\ link = NoLink
    /\ \E p \in saved : p.auto /\ Answers(p) /\ link' = p
    /\ UNCHANGED <<air, ap, phone, saved, lock, join, record, service, boot, retry, moved,
                   counters, history>>

-----------------------------------------------------------------------------
BootStep == BootHold \/ BootStation \/ BootDrive \/ BootGiveUp \/ BootRaise \/ BootAgain
RetryStep == RetryStop \/ RetryUp \/ RetryGiveUp \/ RetryRestore
JoinStep ==
    \/ JoinTake \/ JoinConnect \/ JoinProved \/ JoinNotProved
    \/ PromoteAside \/ PromoteRename \/ PromoteDrop \/ JoinSettle \/ JoinForget
    \/ JoinFail \/ JoinRestore

WifiNext ==
    \/ BootStep \/ RetryLook \/ RetryStep \/ JoinStep
    \/ \E n \in Net, pass \in BOOLEAN : PageAsks(n, pass) \/ WindowAsks(n, pass)
    \/ JoinDies \/ Recover \/ PowerLost \/ Keep \/ Finish \/ Phone \/ Autoconnect
    \/ \E n \in Net : \E l \in Levels[n] : Weather(n, l)

WifiSpec == WifiInit /\ [][WifiNext]_wifiVars

\* systemd restarts its units and the timer fires; a step that was begun ends;
\* the grace period ends; NetworkManager tries a profile it may use.  The retry
\* ends its first attempt well before systemd stops it (RETRY_BUDGET_S 110,
\* TimeoutStartSec 150), so it is not cut short for ever.
FairWifiSpec ==
    /\ WifiSpec
    /\ WF_wifiVars(BootHold) /\ WF_wifiVars(BootStation) /\ WF_wifiVars(BootGiveUp)
    /\ WF_wifiVars(BootRaise) /\ WF_wifiVars(BootAgain)
    /\ WF_wifiVars(RetryLook) /\ WF_wifiVars(RetryStop) /\ SF_wifiVars(RetryUp)
    /\ WF_wifiVars(RetryGiveUp \/ RetryRestore)
    /\ WF_wifiVars(JoinStep) /\ SF_wifiVars(JoinTake)
    /\ WF_wifiVars(Recover) /\ WF_wifiVars(Autoconnect)

-----------------------------------------------------------------------------
(* What the radio's drivers promise together.                               *)

\* A network that has reached BlueSignal is never deleted by the unit until
\* another one has: not by a wrong password typed for it, a rename that fails
\* or a join that dies (netctl.py, docs/install-build-plan.md I3).  The Service
\* Window's Finish and Keep are the exception, see NeverDeleted.
ProvenNetworkKept ==
    proven # NoNet /\ ~wiped => \E p \in saved : p.ssid = proven /\ p.pass

\* A card in another Pi joins the network it carries only through setup:
\* boot, the timer and NetworkManager's autoconnect all hold it (utils.cardmove).
MovedCardHolds ==
    moved /\ carried /\ boot # "hold" /\ link # NoLink => link.name \in {"try", "left"}

\* The profiles on the card are honoured: the one proven here is kept, and the
\* ones proven in another Pi are left alone until setup (netctl.py, cardmove.py).
ProfilesAreHonoured == ProvenNetworkKept /\ MovedCardHolds

\* The plan's I3 as it is written, Finish and Keep included.
NeverDeleted == proven # NoNet => \E p \in saved : p.ssid = proven /\ p.pass

AtRest == boot = "done" /\ retry = "idle" /\ join.pc = "idle" /\ service

\* No hotspot, no network and nothing NetworkManager may bring up by itself.
Stranded == AtRest /\ ~ap /\ link = NoLink /\ ~\E p \in saved : p.auto /\ p.pass

\* Whatever fails, is killed or loses power on the way, the unit is reachable
\* when everybody is done, but for the gaps: a hotspot that cannot start, a
\* join killed after it recorded its failure or in the Service Window, a join
\* that found no hotspot; and but for a network that was proven while boot held
\* the card's (I6, join_service.recover_interrupted_join).
FailureStaysReachable == Stranded => gap \/ wiped \/ muted

\* I6 without the gaps.
NeverStranded == ~Stranded

SiteIsBack ==
    /\ proven # NoNet /\ air[proven] = "ok" /\ ~phone /\ ~moved /\ boot = "done"
    /\ saved # {} /\ \A p \in saved : p.ssid = proven /\ p.pass /\ p.auto
    /\ join.pc = "idle"

\* Power comes back and the unit boots faster than the router: when its
\* network is back for good and nobody is on the hotspot, the unit is on it
\* again (netctl.py retry_saved_station).
SiteNetworkReturns == <>[]SiteIsBack => <>[]Usable(link)

=============================================================================
