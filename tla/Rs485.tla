------------------------------- MODULE Rs485 --------------------------------
(***************************************************************************)
(* The RS485 bus (sensors/modbus.py): the firmware and the Service Window   *)
(* are two processes with a port each on one adapter, so they share what    *)
(* arrives.  Inside a process a lock lets one exchange at a time on the     *)
(* bus.  An answer is checked for its length and its CRC, not for who sent  *)
(* it or what was asked.                                                    *)
(*                                                                         *)
(* The probes are read by the sampler, re-addressed by a command from the   *)
(* cloud, and set up one by one in the Service Window.                      *)
(***************************************************************************)
EXTENDS Naturals, Sequences, FiniteSets

CONSTANTS
    Dev,            \* the probes and meters
    Width,          \* Dev -> bytes of the answer with its reading
    Addr,           \* Modbus addresses; new ones all have First
    First,
    BusFaults,      \* bound: frames lost or late, writes of the config that fail
    MaxCalls        \* bound: calls, changes of the wiring

ASSUME BusAssumption ==
    /\ Width \in [Dev -> Nat] /\ First \in Addr /\ Addr \subseteq Nat \ {0} /\ BusFaults \in Nat
    /\ MaxCalls \in Nat

VARIABLES
    on,             \* the devices wired to the bus
    lives,           \* the address each has
    conf,           \* <type>_addr in config.yaml, Unset while not enabled
    drv,            \* the address of the firmware's driver, Unset without one
    wire,           \* answers on their way
    tty,            \* what has arrived and was not read
    job,            \* the exchange each process is in
    calls,          \* calls and changes of the wiring so far
    bad,            \* frames lost or late and writes failed so far
    warned,           \* devices whose last address change was answered with an error (history)
    crossed,        \* an answer to somebody else was taken (history)
    astray,         \* a change of address reached another device (history)
    doubled         \* two of the devices had one address (history)

busVars == <<on, lives, conf, drv, wire, tty, job, calls, bad, warned, crossed, astray,
             doubled>>

Unset == 0          \* no address
Masters == {"firmware", "window"}
Nobody == "nobody"
NoDev == "no device"

\* What is asked: a reading, an address change, any device at an address, the
\* address of the only device.
Ask(kind, d, to, new) == [kind |-> kind, dev |-> d, to |-> to, new |-> new]
NoAsk == Ask("none", NoDev, Unset, Unset)

\* FC03 and FC04 answer with 5 bytes and the registers, FC06 with an echo.
Bytes485(a) == CASE a.kind = "read" -> Width[a.dev]
                 [] a.kind = "move" -> 8
                 [] OTHER -> 7

Attempts(a) == IF a.kind = "query" THEN 1 ELSE 2

IdleJob == [pc |-> "idle", ask |-> NoAsk, left |-> 0]
Job(a) == [pc |-> "ready", ask |-> a, left |-> Attempts(a)]

\* A frame: who sent it (noise if several did), its length, and who is asking
\* for it (nobody once the call is over).
Frame == [from : Dev \cup {"noise"}, len : Nat, for : Masters \cup {Nobody}]

BusTypeOK ==
    /\ on \subseteq Dev /\ lives \in [Dev -> Addr]
    /\ {conf[d] : d \in Dev} \cup {drv[d] : d \in Dev} \subseteq Addr \cup {Unset}
    /\ \A p \in Masters : job[p].pc \in {"idle", "ready", "wait"} /\ job[p].left \in 0..2
    /\ wire \subseteq Frame /\ \A i \in DOMAIN tty : tty[i] \in Frame
    /\ bad \in 0..BusFaults /\ warned \subseteq Dev

\* Each device has an address of its own, and is read or not enabled.
BusInit ==
    /\ on \in SUBSET Dev /\ lives \in [Dev -> Addr]
    /\ conf \in [Dev -> Addr \cup {Unset}] /\ drv = conf
    /\ \A d \in Dev : conf[d] \in {Unset, lives[d]}
    /\ \A d, e \in Dev : d # e => lives[d] # lives[e]
    /\ wire = {} /\ tty = <<>>
    /\ job = [p \in Masters |-> IdleJob]
    /\ calls = 0 /\ bad = 0 /\ warned = {}
    /\ crossed = FALSE /\ astray = FALSE /\ doubled = FALSE

\* A call or a change of the wiring.
Counted == calls < MaxCalls /\ calls' = calls + 1

Idle485(p) == job[p].pc = "idle"
Rest485 == \A p \in Masters : Idle485(p)

\* Two devices that are wired or enabled have one address, or are enabled at one.
Doubling ==
    LET there == {d \in Dev : d \in on' \/ conf'[d] # Unset}
    IN doubled' = \/ doubled
                  \/ \E d, e \in there : d # e /\ (lives'[d] = lives'[e] \/ (conf'[d] = conf'[e] /\ conf'[d] # Unset))

(***************************************************************************)
(* An exchange: _transact.                                                 *)
(***************************************************************************)
Asked(a) == {d \in on : a.kind = "query" \/ lives[d] = a.to}

Answer(p, ds) ==
    [from |-> IF Cardinality(ds) = 1 THEN CHOOSE d \in ds : TRUE ELSE "noise",
     len |-> Bytes485(job[p].ask), for |-> p]

\* The request goes out.  While the other process waits, both are on the line
\* and the request may be garbled.
WriteOut(p) ==
    LET a == job[p].ask
        other == \E q \in Masters \ {p} : job[q].pc = "wait"
    IN  /\ job[p].pc = "ready"
        /\ job' = [job EXCEPT ![p].pc = "wait"]
        /\ \/ /\ lives' = [d \in Dev |-> IF a.kind = "move" /\ d \in Asked(a) THEN a.new ELSE lives[d]]
              /\ wire' = IF Asked(a) = {} THEN wire ELSE wire \cup {Answer(p, Asked(a))}
              /\ UNCHANGED bad
           \/ /\ other \/ bad < BusFaults
              /\ bad' = IF other THEN bad ELSE bad + 1
              /\ UNCHANGED <<lives, wire>>
        /\ astray' = (astray \/ (a.kind = "move" /\ Asked(a) \ {a.dev} # {}))
        /\ UNCHANGED <<on, conf, drv, calls, warned, crossed>>

\* An attempt: reset_input_buffer - the adapter's, so also what came for the
\* other process - and the request.
Attempt(p) == WriteOut(p) /\ tty' = <<>> /\ Doubling

\* An answer arrives, or is lost.
Arrives ==
    \E f \in wire :
        /\ wire' = wire \ {f}
        /\ \/ tty' = Append(tty, f) /\ UNCHANGED bad
           \/ bad < BusFaults /\ bad' = bad + 1 /\ UNCHANGED tty
        /\ UNCHANGED <<on, lives, conf, drv, job, calls, warned, crossed, astray, doubled>>

\* A failure to save is not told.
SavedQuietly(d, new) ==
    \/ conf' = [conf EXCEPT ![d] = new] /\ warned' = warned \ {d} /\ UNCHANGED bad
    \/ bad < BusFaults /\ bad' = bad + 1 /\ warned' = warned \ {d} /\ UNCHANGED conf

\* What was saved: the driver, then the file; the file may fail, twice.
Saved(d, new) ==
    \/ /\ conf' = [conf EXCEPT ![d] = new]
       /\ warned' = warned \ {d} /\ UNCHANGED bad
    \/ /\ bad < BusFaults /\ bad' = bad + 1
       /\ warned' = warned \cup {d} /\ UNCHANGED conf

NotSaved == UNCHANGED <<conf, bad, warned>>

\* The call has its answer f.
Succeeds(p, f) ==
    LET a == job[p].ask
    IN  \/ /\ a.kind = "read"
           /\ job' = [job EXCEPT ![p] = IdleJob] /\ NotSaved /\ UNCHANGED drv
        \* rs485_set_address
        \/ /\ p = "firmware" /\ a.kind = "move"
           /\ job' = [job EXCEPT ![p] = IdleJob]
           /\ drv' = [drv EXCEPT ![a.dev] = a.new] /\ Saved(a.dev, a.new)
        \* assign: the probe is found, re-addressed, asked again and saved
        \/ /\ a.kind = "query" /\ lives[f.from] # a.new
           /\ job' = [job EXCEPT ![p] = Job(Ask("move", a.dev, lives[f.from], a.new))]
           /\ NotSaved /\ UNCHANGED drv
        \/ /\ p = "window" /\ a.kind = "move"
           /\ job' = [job EXCEPT ![p] = Job(Ask("probe", a.dev, a.new, a.new))]
           /\ NotSaved /\ UNCHANGED drv
        \/ /\ a.kind = "probe" \/ (a.kind = "query" /\ lives[f.from] = a.new)
           /\ job' = [job EXCEPT ![p] = IdleJob]
           /\ Saved(a.dev, a.new) /\ UNCHANGED drv

\* The answers on their way to a call that is over are nobody's.
Given(p) ==
    wire' = IF job'[p].ask = job[p].ask THEN wire
            ELSE {[f EXCEPT !.for = IF @ = p THEN Nobody ELSE @] : f \in wire}

\* The exchange with one attempt less.
Retried(j) == [pc |-> "ready", ask |-> j.ask, left |-> j.left - 1]

\* An attempt brought nothing; after the last one the caller is told.
Fails(p) ==
    LET a == job[p].ask
    IN  /\ job' = [job EXCEPT ![p] = IF @.left > 1 THEN Retried(@) ELSE IdleJob]
        /\ warned' = IF job[p].left = 1 /\ a.kind \in {"move", "probe"} THEN warned \cup {a.dev} ELSE warned
        /\ UNCHANGED <<conf, drv>>

\* Nothing came in time.  If the answer is still on its way it is late.
TimesOut(p) ==
    /\ job[p].pc = "wait"
    /\ LET late == \E f \in wire : f.for = p
       IN  IF late THEN bad < BusFaults /\ bad' = bad + 1 ELSE UNCHANGED bad
    /\ Fails(p) /\ Given(p)
    /\ UNCHANGED <<on, lives, tty, calls, crossed, astray, doubled>>

\* A frame is read: its length and its CRC are right, or not.
Reads(p) ==
    LET f == Head(tty)
        a == job[p].ask
    IN  /\ job[p].pc = "wait" /\ tty # <<>>
        /\ tty' = Tail(tty)
        /\ IF f.from # "noise" /\ f.len = Bytes485(a)
           THEN /\ Succeeds(p, f)
                /\ crossed' = (crossed \/ f.for # p \/ (a.dev # f.from /\ a.kind # "query"))
           ELSE Fails(p) /\ UNCHANGED <<bad, crossed>>
        /\ Given(p)
        /\ UNCHANGED <<on, lives, calls, astray>>
        /\ Doubling

(***************************************************************************)
(* Who uses the bus.                                                       *)
(***************************************************************************)
Start485(p, a) ==
    /\ Idle485(p) /\ Counted
    /\ job' = [job EXCEPT ![p] = Job(a)]
    /\ UNCHANGED <<on, lives, conf, drv, wire, tty, bad, warned, crossed, astray, doubled>>

\* SamplingWorker.step; the calibration pages read too.
Sample(d) == drv[d] # Unset /\ Start485("firmware", Ask("read", d, drv[d], Unset))
PageReads(d) == conf[d] # Unset /\ Start485("window", Ask("read", d, conf[d], Unset))

\* Somebody is re-addressing a probe: the cloud's owner and the installer at
\* the page do not do it at the same time.
ReAddressing == \E p \in Masters : job[p].ask.kind \in {"move", "query", "probe"}

\* An address no enabled probe has in the configuration.
Free(new, d) == \A e \in Dev \ {d} : conf[e] # new

\* The cloud's set_address.
SetAddress(d, new) ==
    /\ drv[d] # Unset /\ Free(new, d) /\ ~ReAddressing
    /\ Start485("firmware", Ask("move", d, drv[d], new))

\* The cloud's add: the owner says where the probe is.
Add(d) ==
    /\ Idle485("firmware") /\ Free(lives[d], d) /\ ~ReAddressing /\ Counted
    /\ Saved(d, lives[d])
    /\ drv' = IF d \in warned' THEN drv ELSE [drv EXCEPT ![d] = lives[d]]
    /\ UNCHANGED <<on, lives, wire, tty, job, crossed, astray>>
    /\ Doubling

\* The page's assign, with one probe wired and an address the page suggests.
Assign(d, new) ==
    /\ on = {d} /\ Free(new, d) /\ ~ReAddressing
    /\ Start485("window", Ask("query", d, Unset, new))

\* An installer wires a device to the bus or takes it off, nobody asking.
Wire ==
    /\ Rest485 /\ Counted
    /\ \E d \in Dev : on' = IF d \in on THEN on \ {d} ELSE on \cup {d}
    /\ UNCHANGED <<lives, conf, drv, wire, tty, job, bad, warned, crossed, astray>>
    /\ Doubling

\* The firmware restarts: its drivers are those of the configuration.
FirmwareStarts ==
    /\ drv # conf \/ ~Idle485("firmware")
    /\ drv' = conf
    /\ job' = [job EXCEPT !["firmware"] = IdleJob]
    /\ LET a == job["firmware"].ask
       IN warned' = IF a.kind = "move" THEN warned \cup {a.dev} ELSE warned
    /\ Given("firmware")
    /\ UNCHANGED <<on, lives, conf, tty, calls, bad, crossed, astray, doubled>>

\* Nothing is claimed of what follows a frame taken for another, a change of
\* address that reached another device, or two devices at one address.
Claimed == ~crossed /\ ~astray /\ ~doubled

BusMoves ==
    \/ \E p \in Masters : Attempt(p)
    \/ \E p \in Masters : TimesOut(p)
    \/ \E p \in Masters : Reads(p)
    \/ Arrives
    \/ \E d \in Dev : Sample(d)
    \/ \E d \in Dev : PageReads(d)
    \/ \E d \in Dev : Add(d)
    \/ \E d \in Dev, new \in Addr : SetAddress(d, new)
    \/ \E d \in Dev, new \in Addr : Assign(d, new)
    \/ Wire
    \/ FirmwareStarts

BusNext == Claimed /\ BusMoves

BusSpec == BusInit /\ [][BusNext]_busVars

(***************************************************************************)
(* What the bus promises.                                                  *)
(***************************************************************************)
\* When nobody is asking, a probe the unit reads has the address of the
\* configuration, or the last one to change it was told that something failed
\* - whichever frames were lost, repeated or late, unless an answer to somebody
\* else was taken or somebody else was moved (rs485_set_address, assign: "Confirm
\* the probe answers at its new home before saving").
MovedOrTold ==
    (Rest485 /\ Claimed) => \A d \in Dev : conf[d] = Unset \/ conf[d] = lives[d] \/ d \in warned

(***************************************************************************)
(* What the documents say and the code does not do.                        *)
(***************************************************************************)
\* routes/rs485.py:10-11 "A collision with a sampling read simply fails CRC and
\* is retried".
AnswerIsItsOwn == ~crossed

\* routes/rs485.py:120 "The firmware picks the probe up on its next restart";
\* until then its driver has an address that may be another probe's.
MoveReachesItsProbe == ~astray
=============================================================================
