----------------------------- MODULE HttpCheck -----------------------------
(***************************************************************************)
(* The HTTP checker (internal/collectors/httpcheck/httpcheck.go) with the  *)
(* registry: one goroutine that goes round the devices with a URL, counts  *)
(* the consecutive failures of each, and either publishes a sighting,      *)
(* which the bus runs on the same goroutine, or calls                      *)
(* MarkHttpServiceOffline.  The interval between rounds is left out: a     *)
(* round may begin at any moment.  The URLs are those the settings of a    *)
(* device admit (setHttpUrl), which http.NewRequest accepts.               *)
(***************************************************************************)
EXTENDS Registry

CONSTANTS
    HttpSender,    \* the checker's goroutine, one of Senders
    MaxFailures    \* maxConsecutiveFailures

ASSUME HttpAssumption == HttpSender \in Senders /\ HttpSender # MdnsSender
                         /\ MaxFailures \in Nat \ {0}

VARIABLES
    enabled,     \* Collector.enabled
    failures,    \* Collector.failures: MAC -> count, up to MaxFailures
    targets,     \* the devices the present round has still to probe
    verdict,     \* the MAC whose count has just reached the limit, or None
    reachable,   \* the MACs whose service answers, as the network has it
    misses       \* history: MAC -> failed probes since the last answer, up to MaxFailures

checker == <<enabled, failures, targets, verdict>>
hvars == <<row, lastWrite, paused, sender, checking, marking, request, lookups,
           up, pub, enabled, failures, targets, verdict, reachable, misses>>

HInit ==
    /\ Init
    /\ enabled \in BOOLEAN
    /\ failures = [m \in MACs |-> 0]
    /\ targets = {}
    /\ verdict = None
    /\ reachable = {}
    /\ misses = [m \in MACs |-> 0]

UpTo(n, a) == IF a < n THEN a + 1 ELSE n

HasUrl(m) == row[m] # None /\ row[m].url # None

\* Faulty variant: the next probe does not wait for the sighting's handler.
BusyMarking == verdict # None \/ marking # None

\* The goroutine is inside the registry, or about to call it.
Busy == verdict # None \/ marking # None \/ sender[HttpSender].pc # "idle"

-----------------------------------------------------------------------------

\* Faulty variant: a round leaves out the devices that are offline.
OnlineTargets == {[mac |-> m, ip |-> row[m].ip] : m \in {x \in MACs : HasUrl(x) /\ Online(x)}}

\* Faulty variant: a round leaves out the devices whose count is at the limit.
UnjudgedTargets == {[mac |-> m, ip |-> row[m].ip] :
                        m \in {x \in MACs : HasUrl(x) /\ failures[x] < MaxFailures}}

\* What a round reads of the table when it begins.
HttpServiceDevices == {[mac |-> m, ip |-> row[m].ip] : m \in {x \in MACs : HasUrl(x)}}

StartRound ==
    /\ up /\ enabled
    /\ targets = {} /\ ~Busy
    /\ targets' = HttpServiceDevices
    /\ UNCHANGED <<vars, enabled, failures, verdict, reachable, misses>>

LimitReached(n) == n >= MaxFailures

\* client.Do fails.
ProbeFails(t) ==
    /\ t.mac \notin reachable
    /\ failures' = [failures EXCEPT ![t.mac] = UpTo(MaxFailures, @)]
    /\ verdict' = IF LimitReached(failures'[t.mac]) THEN t.mac ELSE None
    /\ misses' = [misses EXCEPT ![t.mac] = UpTo(MaxFailures, @)]
    /\ UNCHANGED <<vars, enabled, reachable>>

\* Faulty variant: the sighting goes past the listening flag.
SightedAnyway(t) ==
    /\ sender' = [sender EXCEPT ![HttpSender] =
           Accepted([mac |-> t.mac, ip |-> t.ip, name |-> None, svcs |-> {}])]
    /\ pub' = {}
    /\ UNCHANGED <<row, lastWrite, paused, checking, marking, request, lookups, up>>

\* The sighting of an answer; handleSeen returns at once while paused.
Sighted(t) ==
    IF paused THEN UNCHANGED vars
    ELSE /\ sender' = [sender EXCEPT ![HttpSender] =
                Accepted([mac |-> t.mac, ip |-> t.ip, name |-> None, svcs |-> {}])]
         /\ pub' = {}
         /\ UNCHANGED <<row, lastWrite, paused, checking, marking, request, lookups, up>>

\* Faulty variant: an answer does not end the count.
ProbeAnswersUncounted(t) ==
    /\ t.mac \in reachable
    /\ misses' = [misses EXCEPT ![t.mac] = 0]
    /\ Sighted(t)
    /\ UNCHANGED <<enabled, failures, verdict, reachable>>

\* Any HTTP response.
ProbeAnswers(t) ==
    /\ t.mac \in reachable
    /\ failures' = [failures EXCEPT ![t.mac] = 0]
    /\ misses' = [misses EXCEPT ![t.mac] = 0]
    /\ Sighted(t)
    /\ UNCHANGED <<enabled, verdict, reachable>>

Probe ==
    /\ up /\ ~Busy
    /\ \E t \in targets :
         /\ targets' = targets \ {t}
         /\ ProbeFails(t) \/ ProbeAnswers(t)

\* The first region of MarkHttpServiceOffline.
Verdict ==
    /\ up /\ verdict # None
    /\ \/ HttpFailed(verdict)
       \/ ~Online(verdict) /\ UNCHANGED vars
    /\ verdict' = None
    /\ UNCHANGED <<enabled, failures, targets, reachable, misses>>

\* Update, from the settings page.
SetHttpCheck(b) ==
    /\ up
    /\ enabled' = b
    /\ UNCHANGED <<vars, failures, targets, verdict, reachable, misses>>

\* A service starts or stops answering.
ServiceChanges ==
    /\ \E m \in MACs : reachable' = IF m \in reachable THEN reachable \ {m}
                                                       ELSE reachable \cup {m}
    /\ UNCHANGED <<vars, checker, misses>>

\* Everything else the registry does.
RegistryStep ==
    /\ \/ up /\ \/ \E s \in Senders \ {HttpSender} : Hear(s)
                \/ \E s \in Senders : Resolve(s) \/ Lookup(s) \/ Insert(s)
                                      \/ Debounce(s) \/ Update(s)
                \/ \E m \in MACs : LookupDone(m)
                \/ CheckOffline \/ MarkHttp \/ Web
       \/ Tick \/ Boot
    /\ UNCHANGED <<checker, reachable, misses>>

\* The counts are in memory only; the settings file keeps enabled.
HCrash ==
    /\ Crash
    /\ failures' = [m \in MACs |-> 0]
    /\ targets' = {}
    /\ verdict' = None
    /\ UNCHANGED <<enabled, reachable, misses>>

HNext == \/ StartRound \/ Probe \/ Verdict \/ RegistryStep \/ HCrash \/ ServiceChanges
         \/ \E b \in BOOLEAN : SetHttpCheck(b)

HSpec == HInit /\ [][HNext]_hvars

\* The checker's goroutine inside the registry.
Inside ==
    /\ up
    /\ \/ MarkHttp
       \/ Lookup(HttpSender) \/ Insert(HttpSender) \/ Debounce(HttpSender) \/ Update(HttpSender)
    /\ UNCHANGED <<checker, reachable, misses>>

\* The checker's ticker fires for ever and its goroutine, which does one thing
\* after the other, runs.
HFairSpec == HSpec /\ WF_hvars(StartRound \/ Probe \/ Verdict \/ Inside)

-----------------------------------------------------------------------------

\* Type invariant of the checker's state; a verdict and a sighting are never
\* under way at once, since both run on the checker's goroutine.
HTypeOK ==
    /\ enabled \in BOOLEAN
    /\ failures \in [MACs -> 0 .. MaxFailures]
    /\ targets \subseteq [mac : MACs, ip : IPs \cup {None}]
    /\ verdict \in MACs \cup {None}
    /\ reachable \subseteq MACs
    /\ misses \in [MACs -> 0 .. MaxFailures]
    /\ verdict # None \/ marking # None => sender[HttpSender].pc = "idle"

\* The checker does to the registry what Registry allows: its sightings and
\* verdicts are those of one collector and of one checker, one at a time, and it
\* honours the listening flag.
ImplementsRegistry == Spec

\* The checker declares a device lost only when its last MaxFailures probes all
\* failed, whatever rounds, edits, deaths and sightings of other collectors went
\* on between them ("only fires EventDeviceLost after 3 consecutive failed
\* checks", CHANGELOG.md).
LostAfterMisses ==
    [][\A e \in pub' : e.type = "lost" /\ e.source = "http-checker"
          => misses[e.mac] = MaxFailures]_vars

\* With the checker on for good, a service that has stopped answering for good
\* does not stay online, although other collectors may hear its host and bring
\* it back online each time.
DeadServiceGoesOffline ==
    \A m \in MACs :
      <>[](up /\ enabled /\ HasUrl(m) /\ m \notin reachable) => []<>~Online(m)

\* A service that answers for good comes back online again and again, if the
\* registry listens, although the offline checker and old verdicts may turn it
\* offline in between.
LiveServiceComesOnline ==
    \A m \in MACs :
      <>[](up /\ enabled /\ ~paused /\ HasUrl(m) /\ m \in reachable) => []<>Online(m)

=============================================================================
