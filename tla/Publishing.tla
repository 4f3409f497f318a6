----------------------------- MODULE Publishing -----------------------------
(***************************************************************************)
(* What leaves the unit on the local network: the MQTT publisher for Home  *)
(* Assistant and the HomeKit accessory.  Both are configured from the      *)
(* settings on every sampling cycle and on every reload, are handed one    *)
(* reading per cycle, and take nothing back.  The broker keeps the         *)
(* retained availability of the unit and publishes the unit's will when    *)
(* the connection is lost; paho reconnects on its own thread.              *)
(*                                                                         *)
(* One probe stands for the channels of a reading.                         *)
(***************************************************************************)
EXTENDS Naturals

CONSTANTS
    Level,          \* the numbers a probe can read
    NoValue,        \* no number: None in the code, unknown in Home Assistant
    Conn            \* broker settings an owner may enter (host, credentials)

ASSUME NoValueAssumption == NoValue \notin Level

Off == "off"                    \* mqtt_enabled false

VARIABLES
    mqtt,       \* the mqtt_* settings in force: Off or a member of Conn
    homekit,    \* apple_home_enabled in force
    ha,         \* HomeAssistantPublisher: the settings its client was built with
                \* (Off: no client), whether the client is connected, whether
                \* discovery was announced, whether a start failed
    broker,     \* availability retained by the broker, and the number the
                \* dashboard shows
    home,       \* AppleHomeBridge: advertising, start failed, and the number
                \* a phone reads
    told        \* the last reading handed to both: the number and whether
                \* the monitor had suspended the probe; a phone reads
                \* StatusActive and StatusFault off the same snapshot

pubVars == <<mqtt, homekit, ha, broker, home, told>>

Reading == Level \cup {NoValue}
\* A client that was just built, or could not be.
Client(conn, failed) == [conn |-> conn, up |-> FALSE, announced |-> FALSE, failed |-> failed]
NoClient == Client(Off, FALSE)

PubTypeOK ==
    /\ mqtt \in Conn \cup {Off}
    /\ homekit \in BOOLEAN
    /\ ha \in [conn : Conn \cup {Off}, up : BOOLEAN, announced : BOOLEAN, failed : BOOLEAN]
    /\ broker \in [avail : {"none", "online", "offline"}, shown : Reading]
    /\ home \in [on : BOOLEAN, failed : BOOLEAN, value : Reading]
    /\ told \in [value : Reading, suspended : BOOLEAN]

PubInit ==
    /\ mqtt \in Conn \cup {Off}
    /\ homekit \in BOOLEAN
    /\ ha = NoClient
    /\ broker = [avail |-> "none", shown |-> NoValue]
    /\ home = [on |-> FALSE, failed |-> FALSE, value |-> NoValue]
    /\ told = [value |-> NoValue, suspended |-> FALSE]

(***************************************************************************)
(* Home Assistant.                                                         *)
(***************************************************************************)
\* A client that just goes away.
StoppedSilently(b, h) == b

\* What the broker retains once a connected client has stopped: the client
\* publishes `offline` itself, a clean disconnect discards the will.
Stopped(b, h) == IF h.up THEN [b EXCEPT !.avail = "offline"] ELSE b

\* configure(): start, restart or stop the client to match the settings.  A
\* failed start is not tried again until the owner has switched it off.
HaConfigure(starts) ==
    LET changed == ha.conn # Off /\ ha.conn # mqtt
        wanted == mqtt # Off /\ ~ha.failed /\ (ha.conn = Off \/ changed)
    IN  IF mqtt = Off
        THEN [client |-> NoClient, broker |-> Stopped(broker, ha)]
        ELSE IF wanted
        THEN [client |-> IF starts THEN Client(mqtt, FALSE) ELSE Client(Off, TRUE),
              broker |-> Stopped(broker, ha)]
        ELSE [client |-> ha, broker |-> broker]

\* A start may fail: the library is not installed, the port is taken.
Starts ==
    IF \/ mqtt # Off /\ ha.conn # mqtt /\ ~ha.failed
       \/ homekit /\ ~home.on /\ ~home.failed
    THEN BOOLEAN ELSE {TRUE}

\* The number a reading puts into the state document: a suspended probe is
\* left out, and a key that is missing renders as unknown.
StateOf(v, suspended) == IF suspended THEN NoValue ELSE v

\* update(): announce once per client, then the state document.
HaPush(h, b, v, suspended) ==
    IF ~h.up THEN [client |-> h, broker |-> b]
    ELSE [client |-> [h EXCEPT !.announced = TRUE],
          broker |-> [avail |-> IF h.announced THEN b.avail ELSE "online",
                      shown |-> StateOf(v, suspended)]]

(***************************************************************************)
(* Apple Home.  A characteristic keeps its number when the reading has     *)
(* none; StatusActive, which is the snapshot's, says that it is old.       *)
(***************************************************************************)
HomePush(h, t) ==
    IF ~h.on THEN h
    ELSE [h EXCEPT !.value = IF t.value = NoValue THEN @ ELSE t.value]

\* A start hands the accessory the last reading at once.
HomeConfigure(starts) ==
    CASE homekit /\ ~home.on /\ ~home.failed ->
            IF starts THEN HomePush([home EXCEPT !.on = TRUE], told)
                      ELSE [home EXCEPT !.failed = TRUE]
      [] ~homekit -> [on |-> FALSE, failed |-> FALSE, value |-> NoValue]
      [] OTHER -> home

(***************************************************************************)
(* The two calls the rest of the firmware makes.                           *)
(***************************************************************************)
\* A reload from the command socket configures both.
Reconfigure(starts) ==
    LET c == HaConfigure(starts)
    IN  /\ ha' = c.client
        /\ broker' = c.broker
        /\ home' = HomeConfigure(starts)
        /\ UNCHANGED <<mqtt, homekit, told>>

\* One cycle: configure, then hand over the reading.
Publish(starts, v, suspended) ==
    LET c == HaConfigure(starts)
        p == HaPush(c.client, c.broker, v, suspended)
    IN  /\ told' = [value |-> v, suspended |-> suspended]
        /\ ha' = p.client
        /\ broker' = p.broker
        /\ home' = HomePush(HomeConfigure(starts), told')
        /\ UNCHANGED <<mqtt, homekit>>

\* The owner saves other settings; they are in force before any configure().
Save(m, k) ==
    /\ <<m, k>> # <<mqtt, homekit>>
    /\ mqtt' = m
    /\ homekit' = k
    /\ UNCHANGED <<ha, broker, home, told>>

(***************************************************************************)
(* The network thread and the end of the process.                          *)
(***************************************************************************)
\* on_connect: paho connected, for the first time or again.
Connected ==
    /\ ha.conn # Off
    /\ ~ha.up
    /\ ha' = [ha EXCEPT !.up = TRUE]
    /\ UNCHANGED <<mqtt, homekit, broker, home, told>>

\* on_disconnect: the link broke; the broker publishes the retained will.
Disconnected ==
    /\ ha.up
    /\ ha' = [ha EXCEPT !.up = FALSE]
    /\ broker' = [broker EXCEPT !.avail = "offline"]
    /\ UNCHANGED <<mqtt, homekit, home, told>>

\* A clean stop of the service says `offline` itself; after a kill or a power
\* cut the broker's will does.  Both end at the same retained message.
PublishersEnd ==
    /\ ha' = NoClient
    /\ broker' = Stopped(broker, ha)
    /\ home' = [on |-> FALSE, failed |-> FALSE, value |-> NoValue]
    /\ told' = [value |-> NoValue, suspended |-> FALSE]
    /\ UNCHANGED <<mqtt, homekit>>
=============================================================================
