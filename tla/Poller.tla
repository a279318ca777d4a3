------------------------------- MODULE Poller -------------------------------
(***************************************************************************)
(* The poller (internal/collectors/ping/ping.go) with the registry: a      *)
(* goroutine that every Interval asks each device in the table for a sign  *)
(* of life, by an ARP request whose reply the ARP collector reads, or by a *)
(* ping from a goroutine of its own.  Most answers are dropped by the      *)
(* registry's debouncing, which was chosen for this case: "a device gets   *)
(* written at least 3x per timeout period".                                *)
(*                                                                         *)
(* A tick is the period of the poller's ticker.  The process stays up and  *)
(* listens, the poller stays enabled, the HTTP checker is off; every device *)
(* that is asked answers, and what goroutines have begun in a tick ends in *)
(* it.                                                                     *)
(***************************************************************************)
EXTENDS Registry

CONSTANT Intervals   \* the intervals the settings page is given, in ticks

VARIABLES
    interval,    \* Collector.interval
    fired,       \* the ticker's channel: a tick the goroutine has not received
    lastPoll,    \* age in ticks, rounded up, of the time the last round ended
    polling,     \* whether a round is under way
    asked,       \* the devices asked and not yet heard: MAC and the address asked
    unwatched    \* history: the devices that have been virtual since they were heard

pvars == <<row, lastWrite, paused, sender, checking, marking, request, lookups,
           up, pub, interval, fired, lastPoll, polling, asked, unwatched>>

poller == <<interval, fired, lastPoll, polling, asked>>

\* A round begins at the latest one tick after the interval, and a row may be a
\* debounce window older than that.  The default of five minutes meets this with
\* room to spare; the page's field takes up to an hour, past the default timeout.
ASSUME PollerAssumption ==
    /\ Intervals \subseteq Nat \ {0}
    /\ DebounceWindow > 0
    /\ \A i \in Intervals : i + 1 + DebounceWindow <= OfflineTimeout + 1

\* run polls before it waits for its ticker for the first time.
PInit ==
    /\ Init /\ ~paused
    /\ interval \in Intervals
    /\ fired = FALSE
    /\ lastPoll = 0
    /\ polling = TRUE
    /\ asked = {}
    /\ unwatched = {}

\* Faulty variant: only priority devices are asked.
PriorityTargets == {m \in MACs : row[m] # None /\ row[m].ip # None
                                 /\ row[m].category # "virtual" /\ row[m].priority}

\* The devices pollAll asks: virtual ones, and those without address, it skips.
Targets == {m \in MACs : row[m] # None /\ row[m].ip # None
                         /\ row[m].category # "virtual"}

\* run receives a tick.  How much of the first tick of its age the last round
\* took decides whether an age of just the interval is enough.
Fire ==
    /\ fired /\ ~polling
    /\ fired' = FALSE
    /\ \/ /\ lastPoll >= interval
          /\ polling' = TRUE
          /\ asked' = {[mac |-> m, ip |-> row[m].ip] : m \in Targets}
       \/ /\ lastPoll <= interval
          /\ UNCHANGED <<polling, asked>>
    /\ pub' = {}
    /\ UNCHANGED <<row, memory, up, interval, lastPoll, unwatched>>

\* A device that was asked answers, and is heard by a goroutine of the poller or
\* by the ARP collector's; the mDNS collector's hears other packets.
Answer(s) ==
    /\ s # MdnsSender
    /\ sender[s].pc = "idle"
    /\ \E a \in asked :
         /\ sender' = [sender EXCEPT ![s] =
                Accepted([mac |-> a.mac, ip |-> a.ip, name |-> None, svcs |-> {}])]
         /\ asked' = asked \ {a}
    /\ pub' = {}
    /\ UNCHANGED <<row, lastWrite, paused, checking, marking, request, lookups, up,
                   interval, fired, lastPoll, polling, unwatched>>

\* pollAll returns when its pings have; replies to ARP requests may come later.
EndRound ==
    /\ polling
    /\ polling' = FALSE
    /\ lastPoll' = 0
    /\ pub' = {}
    /\ UNCHANGED <<row, memory, up, interval, fired, asked, unwatched>>

\* The settings page.
UpdatePoller ==
    /\ \E i \in Intervals : interval' = i
    /\ pub' = {}
    /\ UNCHANGED <<row, memory, up, fired, lastPoll, polling, asked, unwatched>>

\* The registry's steps beside the poller's.
PRunning ==
    /\ \/ \E s \in Senders : HandleSeen(s)
       \/ CheckOffline \/ Write \/ Edit
       \/ \E m \in MACs : LookupDone(m) \/ AddManual(m) \/ Import(m) \/ Delete(m)
    /\ UNCHANGED poller
    /\ unwatched' = {m \in MACs : /\ row'[m] # None
                                  /\ \/ row'[m].category = "virtual"
                                     \/ m \in unwatched /\ row'[m].lastSeen # 0}

PTick ==
    /\ \A s \in Senders : sender[s].pc = "idle"
    /\ checking = {} /\ asked = {} /\ ~polling /\ ~fired
    /\ Tick
    /\ fired' = TRUE
    /\ lastPoll' = lastPoll + 1
    /\ UNCHANGED <<interval, polling, asked, unwatched>>

PNext == \/ PRunning
         \/ PTick \/ Fire \/ EndRound \/ UpdatePoller
         \/ \E s \in Senders : Answer(s)

PSpec == PInit /\ [][PNext]_pvars

-----------------------------------------------------------------------------

\* What the poller does to the registry is what Registry allows: its answers are
\* sightings of collectors, one at a time on each goroutine, while it listens.
WithinRegistry == Spec

\* The checker never takes a device with an address for lost, if it answers when
\* it is asked: although most answers are dropped by the debouncing, ticker and
\* interval of the poller are not aligned, and the checker runs at any moment.
\* Two kinds of devices are not asked: those of which DHCP has told no address,
\* and virtual ones, which are lost at once when they are virtual no longer.
NeverLost ==
    [][\A c \in checking' \ checking : row[c.mac].ip = None \/ c.mac \in unwatched]_pvars

\* Somebody is about to hear m.
Expected(m) == \/ \E a \in asked : a.mac = m
               \/ \E s \in Senders : sender[s].pc # "idle" /\ sender[s].mac = m

\* The poller watches m's row, which is online.
Watched(m) == Online(m) /\ row[m].ip # None /\ m \notin unwatched

\* Why: once a round's answers are in, an online row lags behind the round by
\* less than one debounce window.
LagBounded ==
    \A m \in MACs : Watched(m) /\ ~Expected(m)
                       => row[m].lastSeen < lastPoll + DebounceWindow

=============================================================================
