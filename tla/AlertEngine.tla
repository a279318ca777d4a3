---------------------------- MODULE AlertEngine ----------------------------
(***************************************************************************)
(* The alert engine (internal/alerting/engine/engine.go): its three event  *)
(* handlers, each call of which is a goroutine of its own because the bus  *)
(* runs the engine's subscriptions asynchronously; the cooldown map and    *)
(* its cleanup; maintenance mode; and the batch that collects new-device   *)
(* alerts for one notification.                                            *)
(*                                                                         *)
(* Time stamps are ages, as in Registry; maintenanceUntil and the batch    *)
(* timer are the ticks still to go.  An alert is its type and MAC; which   *)
(* channels it goes to, and its text, are left out.                        *)
(***************************************************************************)
EXTENDS Naturals, Sequences

CONSTANTS
    MACs,
    Handlers,        \* goroutines that run a handler
    Enabled,         \* the alert types whose rule is enabled
    Cooldown,        \* alert type -> RuleCfg.Cooldown, in ticks
    CleanupAge,      \* the age at which the cleanup drops an entry
    BatchWindow,     \* newDeviceBatchWindow, in ticks
    BatchLimit,      \* bound: new-device alerts waiting in the batch or just taken
    MaxMute,         \* the longest maintenance, in ticks
    Horizon,         \* the age beyond which ages are not told apart
    None

CooledTypes == {"priority_offline", "service_down", "device_back", "service_back"}
AlertTypes == CooledTypes \cup {"new_device"}

ASSUME EngineAssumption ==
    /\ Enabled \subseteq AlertTypes
    /\ Cooldown \in [CooledTypes -> Nat]
    /\ CleanupAge \in Nat /\ Horizon \in Nat /\ CleanupAge < Horizon
    /\ \A t \in CooledTypes : Cooldown[t] <= Horizon
    /\ BatchWindow \in Nat \ {0} /\ BatchLimit \in Nat \ {0} /\ MaxMute \in Nat
    /\ None \notin Nat \cup MACs

Key == CooledTypes \X MACs
Age == 0 .. Horizon

\* An alert handed to the channels; the summary of a batch names no device.
Alert == [type : AlertTypes \cup {"new_device_batch"}, mac : MACs \cup {None}]

VARIABLES
    handler,      \* Handlers -> the call in progress: the rules it has still to
                  \* apply, in order, and where it is with the first of them
    cooldown,     \* Engine.cooldown: key -> age of the last accepted alert or None
    maintenance,  \* ticks until maintenanceUntil, 0 outside maintenance
    pending,      \* newDeviceBatch.pending: the MACs, in order
    timer,        \* newDeviceBatch.timer: ticks to go, or None
    taken,        \* the alerts flush has taken out of the batch and has still
                  \* to announce
    sent,         \* the alerts the last step handed to the channels
    boots         \* number of starts of the process, modulo 2

vars == <<handler, cooldown, maintenance, pending, timer, taken, sent, boots>>

Free == [pc |-> "free", mac |-> None, rules |-> <<>>]

Init ==
    /\ handler = [h \in Handlers |-> Free]
    /\ cooldown = [k \in Key |-> None]
    /\ maintenance = 0
    /\ pending = <<>>
    /\ timer = None
    /\ taken = <<>>
    /\ sent = {}
    /\ boots = 0

-----------------------------------------------------------------------------

IfEnabled(t, cond) == IF cond /\ t \in Enabled THEN <<t>> ELSE <<>>

\* The rules onDeviceNew, onDeviceLost and onDeviceBack apply to an event.
RulesFor(type, priority, service) ==
    CASE type = "new"  -> IfEnabled("new_device", TRUE)
      [] type = "lost" -> IfEnabled("priority_offline", priority)
                          \o IfEnabled("service_down", service)
      [] type = "back" -> IfEnabled("device_back", priority)
                          \o IfEnabled("service_back", service)

\* The rules of the events some rule applies to.
Events ==
    {RulesFor(type, priority, service) : type \in {"new", "lost", "back"},
                                         priority \in BOOLEAN, service \in BOOLEAN} \ {<<>>}

\* The bus starts a goroutine for an event.
Deliver(h, m, rules) ==
    /\ handler[h].pc = "free"
    /\ handler' = [handler EXCEPT ![h] = [pc |-> "check", mac |-> m, rules |-> rules]]
    /\ sent' = {}
    /\ UNCHANGED <<cooldown, maintenance, pending, timer, taken, boots>>

\* Faulty variant: the call does not end with its last rule.
RestPastEnd(e) == [e EXCEPT !.rules = Tail(@), !.pc = "check"]

\* The call after its first rule is done with.
Rest(e) == IF Len(e.rules) = 1 THEN Free
                               ELSE [e EXCEPT !.rules = Tail(@), !.pc = "check"]

\* Faulty variant: new-device alerts are not checked for maintenance.
CheckAllButNew(h) ==
    LET e == handler[h] IN
    /\ e.pc = "check"
    /\ handler' = [handler EXCEPT ![h] =
           IF Head(e.rules) = "new_device" THEN [e EXCEPT !.pc = "add"]
           ELSE IF maintenance > 0 THEN Rest(e) ELSE [e EXCEPT !.pc = "cool"]]
    /\ sent' = {}
    /\ UNCHANGED <<cooldown, maintenance, pending, timer, taken, boots>>

\* The atomic load of maintenanceUntil with which each rule begins.
CheckMaintenance(h) ==
    LET e == handler[h] IN
    /\ e.pc = "check"
    /\ handler' = [handler EXCEPT ![h] =
           IF maintenance > 0 THEN Rest(e)
           ELSE [e EXCEPT !.pc = IF Head(e.rules) = "new_device" THEN "add" ELSE "cool"]]
    /\ sent' = {}
    /\ UNCHANGED <<cooldown, maintenance, pending, timer, taken, boots>>

KeyOf(e) == <<Head(e.rules), e.mac>>

Cooling(k) == Cooldown[k[1]] > 0 /\ cooldown[k] # None /\ cooldown[k] < Cooldown[k[1]]

\* fire's region: the alert is dropped, or accepted and the cooldown restarted.
Cool(h) ==
    LET e == handler[h] IN
    /\ e.pc = "cool"
    /\ \/ /\ Cooling(KeyOf(e))
          /\ handler' = [handler EXCEPT ![h] = Rest(e)]
          /\ UNCHANGED cooldown
       \/ /\ ~Cooling(KeyOf(e))
          /\ handler' = [handler EXCEPT ![h].pc = "send"]
          /\ cooldown' = [cooldown EXCEPT ![KeyOf(e)] = 0]
    /\ sent' = {}
    /\ UNCHANGED <<maintenance, pending, timer, taken, boots>>

\* persist and dispatchToChannels.
Send(h) ==
    LET e == handler[h] IN
    /\ e.pc = "send"
    /\ sent' = {[type |-> Head(e.rules), mac |-> e.mac]}
    /\ handler' = [handler EXCEPT ![h] = Rest(e)]
    /\ UNCHANGED <<cooldown, maintenance, pending, timer, taken, boots>>

\* newDeviceBatch.add: the first alert of a batch starts its timer.
Add(h) ==
    LET e == handler[h] IN
    /\ e.pc = "add"
    /\ Len(pending) + Len(taken) < BatchLimit
    /\ pending' = Append(pending, e.mac)
    /\ timer' = IF timer = None THEN BatchWindow ELSE timer
    /\ handler' = [handler EXCEPT ![h] = Rest(e)]
    /\ sent' = {}
    /\ UNCHANGED <<cooldown, maintenance, taken, boots>>

\* Faulty variant: only a batch of several alerts is announced.
AnnouncementOfMany(alerts) ==
    IF Len(alerts) > 1 THEN {[type |-> "new_device_batch", mac |-> None]} ELSE {}

\* What a flushed batch is announced as.
Announcement(alerts) ==
    IF alerts = <<>> THEN {}
    ELSE IF Len(alerts) = 1 THEN {[type |-> "new_device", mac |-> Head(alerts)]}
    ELSE {[type |-> "new_device_batch", mac |-> None]}

\* Faulty variant: the timer that ran out stays in place.
FlushKeepsTimer ==
    /\ timer = 0 /\ taken = <<>>
    /\ taken' = pending
    /\ pending' = <<>>
    /\ sent' = {}
    /\ UNCHANGED <<handler, cooldown, maintenance, timer, boots>>

\* newDeviceBatch.flush, when the timer has run out: its region takes the batch.
\* Bound: one batch is announced at a time.  What follows the region writes a
\* history row and starts goroutines; the next timer runs for a minute.
Flush ==
    /\ timer = 0 /\ taken = <<>>
    /\ taken' = pending
    /\ pending' = <<>>
    /\ timer' = None
    /\ sent' = {}
    /\ UNCHANGED <<handler, cooldown, maintenance, boots>>

\* The rest of flush, without the mutex: one alert goes out as it is, several
\* as one summary.
Announce ==
    /\ taken # <<>>
    /\ sent' = Announcement(taken)
    /\ taken' = <<>>
    /\ UNCHANGED <<handler, cooldown, maintenance, pending, timer, boots>>

\* Faulty variant: the cleanup empties the map.
CleanupAll ==
    /\ cooldown' = [k \in Key |-> None]
    /\ sent' = {}
    /\ UNCHANGED <<handler, maintenance, pending, timer, taken, boots>>

\* runCooldownCleanup, whose ticker is not aligned with anything.
Cleanup ==
    /\ cooldown' = [k \in Key |-> IF cooldown[k] # None /\ cooldown[k] > CleanupAge
                                  THEN None ELSE cooldown[k]]
    /\ sent' = {}
    /\ UNCHANGED <<handler, maintenance, pending, timer, taken, boots>>

\* The settings page starts a maintenance of d ticks, or ends it (d = 0).
SetMaintenance(d) ==
    /\ maintenance' = d
    /\ sent' = {}
    /\ UNCHANGED <<handler, cooldown, pending, timer, taken, boots>>

Later(n) == IF n = None \/ n = 0 THEN n ELSE n - 1
Older(a) == IF a = None \/ a = Horizon THEN a ELSE a + 1

Tick ==
    /\ cooldown' = [k \in Key |-> Older(cooldown[k])]
    /\ maintenance' = Later(maintenance)
    /\ timer' = Later(timer)
    /\ sent' = {}
    /\ UNCHANGED <<handler, pending, taken, boots>>

\* The process dies and starts again: NewServer restores maintenanceUntil from
\* the settings file, and everything else starts empty.  What the file holds is
\* Settings' matter, where a save may fail or be overwritten: here, anything.
Restart ==
    /\ handler' = [h \in Handlers |-> Free]
    /\ cooldown' = [k \in Key |-> None]
    /\ pending' = <<>>
    /\ timer' = None
    /\ taken' = <<>>
    /\ sent' = {}
    /\ boots' = 1 - boots
    /\ maintenance' \in 0 .. MaxMute

Handle(h) ==
    CheckMaintenance(h) \/ Cool(h) \/ Send(h) \/ Add(h)

Next ==
    \/ \E h \in Handlers, m \in MACs, rules \in Events : Deliver(h, m, rules)
    \/ \E h \in Handlers : Handle(h)
    \/ Flush \/ Announce \/ Cleanup \/ Tick \/ Restart
    \/ \E d \in 0 .. MaxMute : SetMaintenance(d)

Spec == Init /\ [][Next]_vars

\* Goroutines run, timers fire, time passes.
FairSpec == /\ Spec
            /\ WF_vars(Tick)
            /\ WF_vars(Flush)
            /\ WF_vars(Announce)
            /\ \A h \in Handlers : WF_vars(Handle(h))

-----------------------------------------------------------------------------

Call == [pc : {"check", "cool", "send", "add"}, mac : MACs, rules : Seq(Enabled)]

\* Type invariant; a call in progress always has a rule left to apply, and is
\* on the path of that rule.
TypeOK ==
    /\ handler \in [Handlers -> Call \cup {Free}]
    /\ \A h \in Handlers : handler[h] # Free =>
          /\ handler[h].rules # <<>>
          /\ handler[h].pc \in {"cool", "send"} => Head(handler[h].rules) \in CooledTypes
          /\ handler[h].pc = "add" => Head(handler[h].rules) = "new_device"
    /\ cooldown \in [Key -> Age \cup {None}]
    /\ maintenance \in 0 .. MaxMute
    /\ pending \in Seq(MACs)
    /\ timer \in 0 .. BatchWindow \cup {None}
    /\ taken \in Seq(MACs)
    /\ sent \in SUBSET Alert
    /\ boots \in {0, 1}

\* The batch has a timer exactly while it has alerts: none waits for ever, and
\* the timer of one batch is not left behind for the next.
TimerIffPending == (timer = None) = (pending = <<>>)

InBatch(m) == \E i \in DOMAIN pending : pending[i] = m

\* The summary of a batch names none of its devices and stands for all.
Announces(m) == \E a \in sent : \/ a.type = "new_device" /\ a.mac = m
                                \/ a.type = "new_device_batch"

\* A new-device alert put in the batch goes to the channels, alone or in a
\* summary, unless the process dies.  The two values of boots are alike: the
\* start that is counted 0 stands for any.
BatchIsAnnounced ==
    \A m \in MACs : (InBatch(m) /\ boots = 0) ~> (Announces(m) \/ boots # 0)

\* The promise of the cooldown: docs/alerting.md, "Dedup & Cooldown".  The
\* cooldown still to go is what the age of the map's entry leaves of it.
Remaining(k) ==
    IF cooldown[k] = None \/ cooldown[k] >= Cooldown[k[1]] THEN 0
                                                           ELSE Cooldown[k[1]] - cooldown[k]

Dedup == INSTANCE Throttle WITH
             Types <- CooledTypes,
             remaining <- [k \in Key |-> Remaining(k)]

ThrottleSpec == Dedup!TSpec

\* Maintenance silences the engine: while it stays active, what was under way when
\* it began (handlers past their check, a batch that was waiting) goes out, and
\* after that nothing does, whatever happens to the devices.
MaintenanceSilences == <>[](maintenance > 0) => <>[](sent = {})

=============================================================================
