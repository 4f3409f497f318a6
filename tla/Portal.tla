------------------------------- MODULE Portal -------------------------------
(***************************************************************************)
(* The setup page on port 80 (utils/captive_portal.py): a loop that listens  *)
(* while the hotspot is armed and has its address, one thread for each       *)
(* client, and the registration that follows a join asked for at the page.   *)
(*                                                                         *)
(* netctl arms and disarms it through a file in /run/bluesignal.  Three      *)
(* units name that directory as theirs (RuntimeDirectory=), so systemd        *)
(* removes it whenever one of them stops (bluesignal-wqm.service,            *)
(* bluesignal-service-window.service, bluesignal-captive-portal.service).    *)
(***************************************************************************)
EXTENDS Naturals, FiniteSets

CONSTANTS
    MaxClients,     \* MAX_CLIENTS: permits of one server's semaphore
    Slots,          \* bound: the threads there may be, of all servers
    Ssid,           \* networks a phone may ask for
    Silent,         \* no network: nothing is watched, asked or joined
    PortalFaults    \* bound: binds, accepts and writes that fail, threads not
                    \* started, services that stop

ASSUME PortalAssumption ==
    IsFiniteSet(Slots) /\ MaxClients \in Nat /\ Silent \notin Ssid /\ PortalFaults \in Nat

VARIABLES
    mode,           \* captive-portal.mode: up, or down
    addr,           \* 192.168.4.1 is configured
    hotspot,        \* netctl raised the hotspot and has not taken it down
    sock,           \* port 80 is open
    loop,           \* where run_loop is: check, clear, bind, serve
    taken,          \* permits of the server's semaphore that are out
    unreturned,     \* those of them that no thread will return
    client,         \* what each thread serves, and whether for this server
    join,           \* the join of the state file
    watch,          \* the join _watching names, Silent for none
    seen,           \* what check_watched_join has read
    kicked,         \* joins that were followed by a registration
    faults

portalVars == <<mode, addr, hotspot, sock, loop, taken, unreturned, client, join, watch, seen, kicked,
                faults>>
slotVars == <<taken, unreturned, client>>

JoinStates == {"idle", "joining", "joined", "failed"}
Kinds == {"none", "page", "join", "asked"}
NoPhone == [kind |-> "none", ssid |-> Silent, ours |-> FALSE]
NoView == [state |-> "idle", ssid |-> Silent, watched |-> Silent]

PortalTypeOK ==
    /\ mode \in {"up", "down"}
    /\ addr \in BOOLEAN /\ hotspot \in BOOLEAN /\ sock \in BOOLEAN
    /\ loop \in {"check", "clear", "bind", "serve"}
    /\ taken \in 0..MaxClients /\ unreturned \in 0..MaxClients
    /\ client \in [Slots -> [kind : Kinds, ssid : Ssid \cup {Silent}, ours : BOOLEAN]]
    /\ join \in [state : JoinStates, ssid : Ssid \cup {Silent}]
    /\ watch \in Ssid \cup {Silent} /\ kicked \subseteq Ssid
    /\ seen \in [state : JoinStates, ssid : Ssid \cup {Silent}, watched : Ssid \cup {Silent}]
    /\ faults \in 0..PortalFaults

PortalInit ==
    /\ mode = "down" /\ addr = FALSE /\ hotspot = FALSE /\ sock = FALSE /\ loop = "check"
    /\ taken = 0 /\ unreturned = 0 /\ client = [s \in Slots |-> NoPhone]
    /\ join = [state |-> "idle", ssid |-> Silent] /\ watch = Silent /\ seen = NoView
    /\ kicked = {} /\ faults = 0

Fault == faults < PortalFaults /\ faults' = faults + 1

LoopStays == UNCHANGED <<sock, loop, seen>>
RadioStays == UNCHANGED <<mode, addr, hotspot, join>>

(***************************************************************************)
(* The loop.                                                               *)
(***************************************************************************)
\* check_watched_join: the state file is read, under no lock.  That it is read
\* every JOIN_WATCH_S only, and not after JOIN_WATCH_FOR_S, is left out: a join
\* is over long before.
ReadsJoin ==
    /\ loop = "check"
    /\ \/ /\ watch # Silent /\ join.state # "joining"
          /\ seen' = [state |-> join.state, ssid |-> join.ssid, watched |-> watch]
          /\ loop' = "clear"
       \/ /\ watch = Silent \/ join.state = "joining"
          /\ loop' = "bind" /\ UNCHANGED seen
    /\ UNCHANGED <<sock, slotVars, watch, kicked, faults>> /\ RadioStays

\* _kick_register: one attempt, in a thread of its own.
Kicks(n) == kicked' = kicked \cup {n}

\* The watch is cleared, whoever's it is now; a proven join is registered.
ClearsWatch ==
    /\ loop = "clear" /\ loop' = "bind"
    /\ watch' = Silent /\ seen' = NoView
    /\ IF seen.state = "joined" /\ seen.ssid = seen.watched
       THEN Kicks(seen.watched) ELSE UNCHANGED kicked
    /\ UNCHANGED <<sock, slotVars, faults>> /\ RadioStays

\* portal_should_bind, by the mode file alone.
ShouldBindByMode == mode = "up"

\* portal_should_bind: armed, and the address is there.
ShouldBind == mode = "up" /\ addr

\* The server is closed.  The next one has a semaphore of its own, and nobody
\* waits for the threads of this one (block_on_close).
Closes ==
    /\ sock' = FALSE /\ taken' = 0 /\ unreturned' = 0
    /\ client' = [s \in Slots |-> [client[s] EXCEPT !.ours = FALSE]]

\* Open, unless that fails; or closed; the loop turns.
OpensOrCloses ==
    /\ loop = "bind"
    /\ \/ ShouldBind /\ sock' = TRUE /\ loop' = "serve" /\ UNCHANGED <<slotVars, faults>>
       \/ ShouldBind /\ ~sock /\ Fault /\ loop' = "check" /\ UNCHANGED <<sock, slotVars>>
       \/ ~ShouldBind /\ sock /\ Closes /\ loop' = "check" /\ UNCHANGED faults
       \/ ~ShouldBind /\ ~sock /\ loop' = "check" /\ UNCHANGED <<sock, slotVars, faults>>
    /\ UNCHANGED <<seen, watch, kicked>> /\ RadioStays

\* classify_request: what each request is answered with.
Answered(probe, own, verb, path) ==
    CASE probe \/ ~own -> "redirect"
      [] own /\ ~probe /\ path = "page" /\ verb # "POST" -> "page"
      [] own /\ ~probe /\ path \in {"networks", "state"} /\ verb # "POST" -> "api"
      [] own /\ ~probe /\ path \in {"join", "rescan"} /\ verb = "POST" -> path
      [] OTHER -> "not found"

\* What a thread has to do for it: a join is asked for when the body is small, the
\* page's own, and validate_join finds nothing.  Any other answer, a rescan and a
\* client that says nothing take the thread for as long as they like.
Work(answer, own, valid) ==
    IF answer = "join" /\ own /\ valid THEN "join" ELSE "page"

PageRequests == {Work(Answered(probe, own, verb, path), site, valid) :
                probe \in BOOLEAN, own \in BOOLEAN, site \in BOOLEAN, valid \in BOOLEAN,
                verb \in {"GET", "POST"},
                path \in {"page", "networks", "state", "join", "rescan", "other"}}

\* handle_request: a client gets a thread if a permit is left, else the door;
\* nobody came within the poll; or accept fails and the server is closed.  The
\* permit of a thread that cannot be started is not given back.
Serves ==
    /\ loop = "serve" /\ loop' = "check"
    /\ \/ UNCHANGED <<sock, slotVars, faults>>
       \/ Fault /\ Closes
       \/ /\ addr /\ taken < MaxClients /\ taken' = taken + 1
          /\ \/ \E s \in Slots, n \in Ssid, k \in PageRequests :
                    /\ client[s] = NoPhone
                    /\ client' = [client EXCEPT ![s] =
                          [kind |-> k, ssid |-> IF k = "join" THEN n ELSE Silent, ours |-> TRUE]]
                    /\ UNCHANGED <<unreturned, faults>>
             \/ Fault /\ unreturned' = unreturned + 1 /\ UNCHANGED client
          /\ UNCHANGED sock
    /\ UNCHANGED <<seen, watch, kicked>> /\ RadioStays

(***************************************************************************)
(* A client's thread.                                                      *)
(***************************************************************************)
\* It returns the permit to the server it was started by.
Leaves(s) ==
    /\ client' = [client EXCEPT ![s] = NoPhone]
    /\ taken' = IF client[s].ours THEN taken - 1 ELSE taken

\* A page or an answer; a rescan; a client that says nothing is dropped after
\* CLIENT_TIMEOUT_S.
Answer80(s) ==
    /\ client[s].kind = "page"
    /\ Leaves(s)
    /\ UNCHANGED <<unreturned, watch, kicked, faults>> /\ LoopStays /\ RadioStays

\* POST /api/join reaches the join service: joining, or busy.
AsksJoin(s) ==
    /\ client[s].kind = "join"
    /\ \/ /\ join.state # "joining"
          /\ join' = [state |-> "joining", ssid |-> client[s].ssid]
          /\ client' = [client EXCEPT ![s].kind = "asked"] /\ UNCHANGED taken
       \/ Leaves(s) /\ UNCHANGED join
    /\ UNCHANGED <<mode, addr, hotspot, unreturned, watch, kicked, faults>> /\ LoopStays

\* watch_join, once the service has answered.
Watches(s) ==
    /\ client[s].kind = "asked"
    /\ watch' = client[s].ssid
    /\ Leaves(s)
    /\ UNCHANGED <<unreturned, kicked, faults>> /\ LoopStays /\ RadioStays

(***************************************************************************)
(* netctl and systemd.                                                     *)
(***************************************************************************)
\* _write_mode, whose failure is only logged.
Writes(m) == \/ mode' = m /\ UNCHANGED faults
             \/ mode' = mode /\ Fault

\* start_ap: the address, then arm_portal; it is done again after a failed join.
RaisesAp ==
    /\ ~hotspot /\ hotspot' = TRUE /\ addr' = TRUE /\ Writes("up")
    /\ UNCHANGED <<slotVars, join, watch, kicked>> /\ LoopStays

\* A join takes the radio, or a station is up: disarm_portal, then the address.
LowersAp ==
    /\ hotspot /\ hotspot' = FALSE /\ addr' = FALSE /\ Writes("down")
    /\ UNCHANGED <<slotVars, join, watch, kicked>> /\ LoopStays

\* The join is over; it took the hotspot down, and a failed one raises it again.
JoinDone ==
    /\ join.state = "joining" /\ ~hotspot
    /\ \/ hotspot' = TRUE /\ addr' = TRUE /\ Writes("up")
       \/ UNCHANGED <<mode, addr, hotspot, faults>>
    /\ join' = [join EXCEPT !.state = IF hotspot' THEN "failed" ELSE "joined"]
    /\ UNCHANGED <<slotVars, watch, kicked>> /\ LoopStays

\* One of the units that share /run/bluesignal stops: the mode file is gone.
DirectoryRemoved ==
    /\ mode = "up" /\ mode' = "down" /\ Fault
    /\ UNCHANGED <<addr, hotspot, slotVars, join, watch, kicked>> /\ LoopStays

LoopTurns == ReadsJoin \/ ClearsWatch \/ OpensOrCloses \/ Serves

PortalNext ==
    \/ LoopTurns
    \/ \E s \in Slots : Answer80(s)
    \/ \E s \in Slots : AsksJoin(s)
    \/ \E s \in Slots : Watches(s)
    \/ RaisesAp \/ LowersAp \/ JoinDone \/ DirectoryRemoved

\* The loop turns on; nobody else is trusted to do anything.
PortalSpec == PortalInit /\ [][PortalNext]_portalVars
              /\ WF_portalVars(LoopTurns)

(***************************************************************************)
(* What the page promises.                                                 *)
(***************************************************************************)
\* Port 80 opens for an armed hotspot and closes when the hotspot has gone,
\* whatever its clients do and whether or not the mode file could be written
\* (run_loop, "Bind while the hotspot is armed, and close the socket otherwise").
PortalFollowsTheHotspot ==
    /\ (mode = "up" /\ addr) ~> (sock \/ mode = "down" \/ ~addr)
    /\ (~addr) ~> (~sock \/ addr)

\* The threads of this server; those of earlier ones may still be running.
Ours == {s \in Slots : client[s].ours}

\* The permits that are out are exactly those of the threads that run for this
\* server and of those that could not be started, whatever the threads of earlier
\* servers return; so no more than MAX_CLIENTS run for it
\* (PortalServer.process_request, process_request_thread).
PermitsAreThreads ==
    taken = Cardinality(Ours) + unreturned /\ taken <= MaxClients

(***************************************************************************)
(* What the documents say and the code does not do.                        *)
(***************************************************************************)
\* bluesignal-captive-portal.service:4-5 "Binds 192.168.4.1:80 while the setup
\* AP is armed and closes that socket when the mode file says the station
\* joined": the mode file goes with the directory when any unit of three stops.
OpenInTheEnd == hotspot ~> (sock \/ ~hotspot)

\* captive_portal.py, PortalServer: "One thread per request, at most MAX_CLIENTS at
\* once": a server that is opened again starts from a full semaphore while threads
\* of the old one still run.
AtMostMaxClients == Cardinality({s \in Slots : client[s] # NoPhone}) <= MaxClients

\* captive_portal.py, _kick_register: "the attempt that makes Cloud see the unit
\* right after the join": a watch set between the read and the clear is lost.
EveryProofKicks ==
    (join.state = "joined" /\ watch = join.ssid) ~> (join.ssid \in kicked \/ join.state # "joined")
=============================================================================
