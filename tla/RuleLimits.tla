----------------------------- MODULE RuleLimits -----------------------------
(***************************************************************************)
(* The limits of the rules engine (control/rules.py, policies.yaml) on a     *)
(* clock, for one relay and the rules of one probe: the cooldown, the        *)
(* on-time budget of an hour and the timed on-periods.                      *)
(*                                                                         *)
(* Two parties keep time.  The engine has notes of its own - when its timed  *)
(* period is over, since when it has the relay on, when it last let go -     *)
(* which it looks at once a cycle; the relay controller has one timer, that  *)
(* any switching on replaces.  Commands of the owner move the relay and its  *)
(* timer, and the engine is not told; only a downlink sets a note of it.     *)
(*                                                                         *)
(* RelayControl has the interleavings within a cycle; here a cycle is one    *)
(* step, on a relay that the irrigation hold does not own.  Which rules       *)
(* match, and whether the schedule is open, is free.                        *)
(***************************************************************************)
EXTENDS Integers, Sequences

CONSTANTS
    Policy,         \* the rules of the relay, in their order: [on, dur]
    CooldownS,      \* cooldown_seconds
    BudgetS,        \* max_on_minutes_per_hour
    CeilingS,       \* max_continuous_on_minutes, 0 for none
    Asked,          \* durations a command may ask for, 0 for none
    HourS, DayH,    \* the length of an hour, and of a day
    MaxNow, MaxOrders, MaxStarts    \* bounds on the clock, commands, restarts

ASSUME LimitsAssumption ==
    /\ Policy \in Seq([on : BOOLEAN, dur : Nat])
    /\ CooldownS \in Nat \ {0} /\ BudgetS \in Nat \ {0} /\ CeilingS \in Nat
    /\ Asked \subseteq Nat /\ HourS \in Nat \ {0} /\ DayH \in Nat \ {0}
    /\ MaxNow \in Nat /\ MaxOrders \in Nat /\ MaxStarts \in Nat

\* No moment: the clock starts at 1.
Unset == 0

VARIABLES
    now,
    energised, autoOff,     \* the relay, and when the controller will drop it
    notes,                  \* what the engine keeps
    frozen, toDrop,         \* the probe is suspended; its relay is yet to be dropped
    orders, starts,
    (* history *)
    fell, felled,           \* when the relay last dropped, and who did it
    bound,                  \* whose time autoOff is
    ran, counted            \* seconds of this hour: see Counting

limitVars == <<now, energised, autoOff, notes, frozen, toDrop, orders, starts,
               fell, felled, bound, ran, counted>>

Hour == (now \div HourS) % DayH
NoHour == DayH

\* _timers, _on_since, _last_off and _on_time.
NoNotes == [timer |-> Unset, since |-> Unset, off |-> Unset, hour |-> NoHour, secs |-> 0]

LimitsInit ==
    /\ now = 1 /\ energised = FALSE /\ autoOff = Unset /\ notes = NoNotes
    /\ frozen = FALSE /\ toDrop = FALSE /\ orders = 0 /\ starts = 0
    /\ fell = Unset /\ felled = "start" /\ bound = "none"
    /\ ran = -1 /\ counted = 0

-----------------------------------------------------------------------------
(* One cycle of the engine, on its notes n and the switchings it will apply. *)

\* The relay is let go, by the fail-safe or at the end of a timed period.
Released(c) == [n |-> [c.n EXCEPT !.off = now, !.since = Unset, !.timer = Unset],
                sets |-> Append(c.sets, FALSE), dur |-> c.dur]

Due(n) == n.timer # Unset /\ now >= n.timer

\* Fault: the end of a timed period starts no cooldown (the other half of
\* RulesKeepTheirLimits).
SweptFault(c) == IF Due(c.n) THEN [Released(c) EXCEPT !.n.off = c.n.off] ELSE c

Reverted(c) == IF toDrop THEN Released(c) ELSE c
Swept(c) == IF Due(c.n) THEN Released(c) ELSE c

\* Fault: what was charged to this hour before is overwritten.
ChargedFault(n) ==
    IF n.since = Unset THEN n
    ELSE [n EXCEPT !.hour = Hour, !.since = now, !.secs = now - n.since]

\* The seconds since the last open cycle are charged to the hour it is now.
Charged(n) ==
    IF n.since = Unset THEN n
    ELSE [n EXCEPT !.hour = Hour, !.since = now,
                   !.secs = now - n.since + (IF n.hour = Hour THEN @ ELSE 0)]

\* The budget is renewed by being looked at in another hour.
Renewed(n) == IF n.hour = Hour THEN n ELSE [n EXCEPT !.hour = Hour, !.secs = 0]

Resting(n) == n.off # Unset /\ now - n.off < CooldownS

Matched(c, r) ==
    IF ~r.on THEN [n |-> [c.n EXCEPT !.off = now, !.since = Unset],
                   sets |-> Append(c.sets, FALSE), dur |-> c.dur]
    ELSE IF Resting(c.n) THEN c
    ELSE LET n == Renewed(c.n)
         IN  IF n.secs >= BudgetS THEN [c EXCEPT !.n = n]
             ELSE [n |-> [n EXCEPT !.since = IF @ = Unset THEN now ELSE @,
                                   !.timer = IF r.dur > 0 THEN now + r.dur ELSE @],
                   sets |-> Append(c.sets, TRUE),
                   dur |-> IF r.dur > 0 THEN r.dur ELSE c.dur]

\* The turn of the k-th rule, if it is among those that match.
RuleTurn(c, M, k) == IF k \in M THEN Matched(c, Policy[k]) ELSE c

\* What the cycle makes of the notes, if it is open and the rules in M match.
Cycle(open, M) ==
    LET let == Swept(Reverted([n |-> notes, sets |-> <<>>, dur |-> 0]))
        after[k \in 0..Len(Policy)] ==
            IF k = 0 THEN [let EXCEPT !.n = Charged(@)] ELSE RuleTurn(after[k - 1], M, k)
    IN  IF open THEN after[Len(Policy)] ELSE let

Shorter(d) == IF d = 0 \/ (CeilingS > 0 /\ CeilingS < d) THEN CeilingS ELSE d
Until(d) == IF Shorter(d) = 0 THEN Unset ELSE now + Shorter(d)

-----------------------------------------------------------------------------
(* Counting: ran is the current on-period since a rule switched it on (-1:    *)
(* none has), counted the periods that an OFF rule ended; of this hour.       *)

Dropped(who) == fell' = now /\ felled' = who /\ ran' = -1 /\ bound' = "none"

OneCycle(open, M) ==
    LET c == Cycle(open, M)
        byRule == open /\ \E i \in M : ~Policy[i].on
        last == c.sets[Len(c.sets)]
    IN  /\ notes' = c.n /\ toDrop' = FALSE
        /\ IF c.sets = <<>> THEN UNCHANGED <<energised, autoOff, fell, felled, bound, ran, counted>>
           ELSE IF last THEN
                /\ energised' = TRUE /\ autoOff' = Until(c.dur)
                /\ bound' = (IF c.dur # 0 /\ Shorter(c.dur) = c.dur THEN "rule" ELSE "ceiling")
                /\ ran' = (IF ran < 0 THEN 0 ELSE ran)
                /\ UNCHANGED <<fell, felled, counted>>
           ELSE /\ energised' = FALSE /\ autoOff' = Unset
                /\ counted' = counted + (IF byRule /\ ran > 0 /\ Len(c.sets) = 1 THEN ran ELSE 0)
                /\ IF energised \/ (\E j \in DOMAIN c.sets : c.sets[j]) THEN Dropped("rule")
                   ELSE UNCHANGED <<fell, felled, ran, bound>>
        /\ UNCHANGED <<now, frozen, orders, starts>>

\* set_suspended_sensors: a probe freezes, or moves again.
Freeze == ~frozen /\ frozen' = TRUE /\ toDrop' = TRUE
          /\ UNCHANGED <<now, energised, autoOff, notes, orders, starts, fell, felled, bound,
                         ran, counted>>
Thaw == frozen /\ frozen' = FALSE
        /\ UNCHANGED <<now, energised, autoOff, notes, toDrop, orders, starts, fell, felled, bound,
                       ran, counted>>

\* A command switches the relay, from the socket or as a downlink.
Order(on, d, downlink) ==
    /\ orders < MaxOrders /\ orders' = orders + 1
    /\ IF on THEN
            /\ energised' = TRUE /\ autoOff' = Until(d)
            /\ bound' = "command"
            /\ notes' = IF downlink /\ d > 0 THEN [notes EXCEPT !.timer = now + d] ELSE notes
            /\ UNCHANGED <<fell, felled, ran>>
       ELSE /\ energised' = FALSE /\ autoOff' = Unset
            /\ IF energised THEN Dropped("command") ELSE UNCHANGED <<fell, felled, ran, bound>>
            /\ UNCHANGED notes
    /\ UNCHANGED <<now, frozen, toDrop, starts, counted>>

\* _auto_off.
TimeIsUp ==
    /\ autoOff # Unset /\ now >= autoOff
    /\ energised' = FALSE /\ autoOff' = Unset /\ Dropped(bound)
    /\ UNCHANGED <<now, notes, frozen, toDrop, orders, starts, counted>>

\* A restart drops the relay and forgets the notes.
Restart ==
    /\ starts < MaxStarts /\ starts' = starts + 1
    /\ energised' = FALSE /\ autoOff' = Unset /\ notes' = NoNotes /\ Dropped("start")
    /\ frozen' = FALSE /\ toDrop' = FALSE /\ counted' = 0
    /\ UNCHANGED <<now, orders>>

\* Time passes; the controller's timer is on time.
Pass ==
    LET on == IF energised /\ ran >= 0 THEN 1 ELSE 0
        same == (now + 1) \div HourS = now \div HourS
    IN  /\ now < MaxNow /\ (autoOff = Unset \/ now < autoOff) /\ now' = now + 1
        /\ ran' = (IF same THEN ran + on ELSE IF ran < 0 THEN ran ELSE 0)
        /\ counted' = (IF same THEN counted ELSE 0)
        /\ UNCHANGED <<energised, autoOff, notes, frozen, toDrop, orders, starts, fell, felled,
                       bound>>

LimitsNext ==
    \/ \E open \in BOOLEAN : \E M \in SUBSET DOMAIN Policy : (frozen => M = {}) /\ OneCycle(open, M)
    \/ \E on, downlink \in BOOLEAN : \E d \in Asked : Order(on, d, downlink)
    \/ Freeze \/ Thaw \/ TimeIsUp \/ Restart \/ Pass

LimitsSpec == LimitsInit /\ [][LimitsNext]_limitVars

-----------------------------------------------------------------------------
(* Properties.                                                              *)

LimitsTypeOK ==
    /\ now \in 1..MaxNow /\ energised \in BOOLEAN /\ autoOff \in Nat
    /\ notes \in [timer : Nat, since : 0..MaxNow, off : 0..MaxNow, hour : 0..DayH, secs : Nat]
    /\ frozen \in BOOLEAN /\ toDrop \in BOOLEAN
    /\ orders \in 0..MaxOrders /\ starts \in 0..MaxStarts
    /\ fell \in 0..MaxNow /\ felled \in {"start", "rule", "ceiling", "command"}
    /\ bound \in {"none", "rule", "ceiling", "command"}
    /\ ran \in -1..HourS /\ counted \in 0..HourS

\* The engine raises the relay: a command is not its doing.
RuleRaises == ~energised /\ energised' /\ orders' = orders

\* Between two on-periods the engine lets the cooldown pass, wherever its own
\* drop happened: in a cycle, or at the end of its time in the controller; not
\* after a drop by the ceiling or a command, of which it does not know
\* (policies.yaml, cooldown_seconds; rules.py, _is_in_cooldown).
RestsBetween == RuleRaises => fell = Unset \/ felled # "rule" \/ now - fell >= CooldownS

\* Once the periods that its OFF rules ended have used the budget of the hour up,
\* the engine raises the relay no more in that hour, through closed schedules,
\* commands and cycles that come late (policies.yaml, max_on_minutes_per_hour;
\* rules.py, _check_on_time_budget).
KeepsToBudget == RuleRaises => counted < BudgetS

\* Both limits hold of every step.
RulesKeepTheirLimits == [][RestsBetween /\ KeepsToBudget]_limitVars

(* What the documents say and the code does not do.                         *)

\* "Min seconds between relay OFF -> ON" (policies.yaml): after any drop.
EveryDropRests == [][RuleRaises => fell = Unset \/ now - fell >= CooldownS]_limitVars

\* "Max cumulative relay ON time per hour (gates NEW on-actions)" (policies.yaml):
\* when the engine drops the relay, what it ran in this hour has been charged.
PeriodsAreCharged ==
    [][ran > 0 /\ energised /\ ~energised' /\ felled' = "rule" /\ orders' = orders
           => notes'.hour = Hour /\ notes'.secs >= ran]_limitVars

\* The budget is one of the hour that it is: a relay that was not on in it has it
\* left.
BudgetIsOfThisHour ==
    notes.hour = Hour /\ notes.secs >= BudgetS =>
        energised \/ (fell # Unset /\ fell \div HourS = now \div HourS)

\* "Every source now shares the controller's timer, a cloud duration is enforced
\* there (and replaced, not stacked, by a later command)" (launch-audit.md): the cycle
\* drops what a command asked for only when its time is over.
LaterCommandReplaces ==
    energised /\ bound = "command" /\ Due(notes) => now >= autoOff
=============================================================================
