-------------------------------- MODULE Bus --------------------------------
(***************************************************************************)
(* The event bus (internal/bus/bus.go), the order in which main subscribes *)
(* its components and starts its goroutines, and the registry as far as it *)
(* publishes: under its mutex, r.mu, on the goroutine of a collector or of *)
(* the offline checker.  The registry subscribes to device.seen            *)
(* synchronously; all other subscribers get a goroutine for each event.    *)
(*                                                                         *)
(* Publish holds the bus's own lock only while it copies the list of       *)
(* handlers, so that this is part of the step that publishes.  What the     *)
(* engine's goroutines do is the subject of AlertEngine and left out here.  *)
(***************************************************************************)
EXTENDS Naturals, Sequences

CONSTANTS MACs, IPs,
          Collectors,  \* goroutines that publish device.seen
          Checker,     \* the goroutine of the offline checker
          Crashes,     \* whether the process may die
          None

ASSUME BusAssumption == /\ Crashes \in BOOLEAN
                        /\ Checker \notin Collectors
                        /\ None \notin MACs \cup IPs \cup Collectors \cup {Checker}

VARIABLES
    started,   \* how many steps of Startup main has taken
    handlers,  \* Bus.handlers: event type -> its subscribers
    row,       \* the devices table: MAC -> row or None
    mu,        \* the goroutine that holds r.mu, or None
    thread,    \* Collectors and Checker -> what it is at
    tasks,     \* events for which the web server's goroutine is still to run
    up         \* whether the process runs

busVars == <<started, handlers, row, mu, thread, tasks, up>>

-----------------------------------------------------------------------------

Threads == Collectors \cup {Checker}
Types == {"new", "lost", "back"}
Subscribers == {"registry", "engine", "web"}

Event == [type : Types, mac : MACs, ip : IPs \cup {None}]
Row == [ip : IPs \cup {None}, online : BOOLEAN]

\* What a goroutine is at: waiting for r.mu with a sighting or a candidate;
\* holding it with an event to publish, or with none; or neither.
Rest == [pc |-> "rest"]
Sighting == [pc : {"wait"}, mac : MACs, ip : IPs \cup {None}]
Holding == {[pc |-> "unlock"]} \cup [pc : {"publish"}, event : Event]

Subscribing(who, type) == [do |-> "subscribe", who |-> who, type |-> type]
Starting(T) == [do |-> "start", who |-> T]

\* Faulty variant: the web server is wired up when everything runs.
StartupWiredLast ==
    <<Subscribing("registry", "seen"),
      Subscribing("engine", "new"), Subscribing("engine", "lost"), Subscribing("engine", "back"),
      Starting({Checker}), Starting(Collectors),
      Subscribing("web", "new")>>

\* What main does, in its order: registry.New, Engine.Subscribe, WireEvents, and
\* then the goroutines that publish.
Startup ==
    <<Subscribing("registry", "seen"),
      Subscribing("engine", "new"), Subscribing("engine", "lost"), Subscribing("engine", "back"),
      Subscribing("web", "new"),
      Starting({Checker}), Starting(Collectors)>>

Done(k) == k \in 1 .. started

Running(p) == up /\ \E k \in DOMAIN Startup :
                        Done(k) /\ Startup[k].do = "start" /\ p \in Startup[k].who

BusInit ==
    /\ started = 0
    /\ handlers = [t \in Types \cup {"seen"} |-> {}]
    /\ row = [m \in MACs |-> None]
    /\ mu = None
    /\ thread = [p \in Threads |-> Rest]
    /\ tasks = {}
    /\ up = TRUE

\* main takes its next step.
Main ==
    /\ up /\ started < Len(Startup)
    /\ LET step == Startup[started + 1] IN
       handlers' = IF step.do = "subscribe"
                   THEN [handlers EXCEPT ![step.type] = @ \cup {step.who}] ELSE handlers
    /\ started' = started + 1
    /\ UNCHANGED <<row, mu, thread, tasks, up>>

\* A collector publishes device.seen, which runs handleSeen on its goroutine.
Hear(p, m, i) ==
    /\ p \in Collectors /\ Running(p) /\ thread[p] = Rest
    /\ "registry" \in handlers["seen"]
    /\ thread' = [thread EXCEPT ![p] = [pc |-> "wait", mac |-> m, ip |-> i]]
    /\ UNCHANGED <<started, handlers, row, mu, tasks, up>>

\* The offline checker has found a candidate.
Expire(m) ==
    /\ Running(Checker) /\ thread[Checker] = Rest
    /\ row[m] # None /\ row[m].online
    /\ thread' = [thread EXCEPT ![Checker] = [pc |-> "wait", mac |-> m, ip |-> row[m].ip]]
    /\ UNCHANGED <<started, handlers, row, mu, tasks, up>>

\* The row a region leaves, and the type of the event it has to publish.
Stored(p, d, i) ==
    IF p = Checker THEN IF d = None THEN None ELSE [d EXCEPT !.online = FALSE]
    ELSE IF d = None THEN [ip |-> i, online |-> TRUE]
    ELSE [d EXCEPT !.online = TRUE, !.ip = IF i = None THEN @ ELSE i]

Published(p, d) == IF p = Checker THEN "lost"
                   ELSE IF d = None THEN "new"
                   ELSE IF d.online THEN None ELSE "back"

\* The goroutine gets r.mu and writes; it keeps it to publish.  (Bound: it waits
\* while the same event is still to be handled.)
Region(p) ==
    /\ thread[p].pc = "wait" /\ mu = None
    /\ LET m == thread[p].mac  i == thread[p].ip  type == Published(p, row[m]) IN
       /\ [type |-> type, mac |-> m, ip |-> i] \notin tasks
       /\ row' = [row EXCEPT ![m] = Stored(p, @, i)]
       /\ thread' = [thread EXCEPT ![p] =
              IF type = None THEN [pc |-> "unlock"]
              ELSE [pc |-> "publish", event |-> [type |-> type, mac |-> m, ip |-> i]]]
    /\ mu' = p
    /\ UNCHANGED <<started, handlers, tasks, up>>

\* Publish, with r.mu held: a goroutine for every subscriber.
Publish(p) ==
    /\ thread[p].pc = "publish"
    /\ LET e == thread[p].event IN
       tasks' = IF "web" \in handlers[e.type] THEN tasks \cup {e} ELSE tasks
    /\ thread' = [thread EXCEPT ![p] = [pc |-> "unlock"]]
    /\ UNCHANGED <<started, handlers, row, mu, up>>

\* The deferred Unlock.
Unlock(p) ==
    /\ thread[p].pc = "unlock"
    /\ thread' = [thread EXCEPT ![p] = Rest]
    /\ mu' = None
    /\ UNCHANGED <<started, handlers, row, tasks, up>>

\* registry.Delete.
Delete(m) ==
    /\ up /\ mu = None /\ row[m] # None
    /\ row' = [row EXCEPT ![m] = None]
    /\ UNCHANGED <<started, handlers, mu, thread, tasks, up>>

\* The process dies, and main starts again.
Crash ==
    /\ Crashes /\ up
    /\ up' = FALSE
    /\ started' = 0
    /\ handlers' = [t \in Types \cup {"seen"} |-> {}]
    /\ mu' = None
    /\ thread' = [p \in Threads |-> Rest]
    /\ tasks' = {}
    /\ UNCHANGED row

Boot ==
    /\ ~up
    /\ up' = TRUE
    /\ UNCHANGED <<started, handlers, row, mu, thread, tasks>>

\* Every step but a death.
BusStep ==
    \/ Main \/ Boot
    \/ \E m \in MACs : Expire(m) \/ Delete(m)
    \/ \E p \in Threads :
         \/ \E m \in MACs, i \in IPs \cup {None} : Hear(p, m, i)
         \/ Region(p) \/ Publish(p) \/ Unlock(p)

-----------------------------------------------------------------------------

\* Type invariant; r.mu is held exactly by the goroutine that is in a region.
BusTypeOK ==
    /\ started \in 0 .. Len(Startup)
    /\ handlers \in [Types \cup {"seen"} -> SUBSET Subscribers]
    /\ row \in [MACs -> Row \cup {None}]
    /\ mu \in Threads \cup {None}
    /\ thread \in [Threads -> {Rest} \cup Sighting \cup Holding]
    /\ \A p \in Threads : (mu = p) <=> thread[p] \in Holding
    /\ tasks \subseteq Event
    /\ up \in BOOLEAN

\* Nobody publishes before everybody who will ever subscribe has: an event is
\* copied to the subscribers of that moment and to nobody later, so that a
\* goroutine started too early would hide a new device from the alerts or from
\* the automatic scan.
AllSubscribed ==
    \A p \in Threads, k \in DOMAIN Startup :
        thread[p] # Rest /\ Startup[k].do = "subscribe"
            => Startup[k].who \in handlers[Startup[k].type]

=============================================================================
