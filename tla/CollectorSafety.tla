-------------------------- MODULE CollectorSafety --------------------------
(***************************************************************************)
(* Safety of the two collectors that act on their own, the HTTP checker    *)
(* and the poller, for every value of their constants.  The steps of each  *)
(* are steps of Registry, so that all that is proved of Registry holds of  *)
(* it too; the checker declares a device lost only when the last probes    *)
(* failed; and no device that answers the poller is taken for lost.        *)
(***************************************************************************)
EXTENDS HttpCheck, Poller, RegistrySafety

\* A sender is the checker's.
LEMMA HttpSenderFact == HttpSender \in Senders
BY HttpAssumption DEF HttpAssumption

\* Counting stays within its bound.
LEMMA CountFacts ==
    /\ MaxFailures \in Nat \ {0}
    /\ 0 \in 0 .. MaxFailures
    /\ \A a \in 0 .. MaxFailures : UpTo(MaxFailures, a) \in 0 .. MaxFailures
BY HttpAssumption DEF HttpAssumption, UpTo

-----------------------------------------------------------------------------
(* Every step of the checker with the registry is a step of the registry.   *)

\* The sighting of an answer is one that handleSeen may hear.
LEMMA SightedIsHeard ==
    ASSUME HTypeOK, ~Busy, NEW t \in targets, Sighted(t)
    PROVE  UNCHANGED vars \/ Hear(HttpSender)
<1>1. CASE paused
  BY <1>1 DEF Sighted
<1>2. CASE ~paused
  <2> DEFINE e == [mac |-> t.mac, ip |-> t.ip, name |-> None, svcs |-> {}]
  <2>1. t.mac \in MACs /\ t.ip \in IPs \cup {None}
    BY DEF HTypeOK
  <2>2. t.mac # None
    BY <2>1, NoneFacts
  <2>3. Heard(HttpSender, e)
    <3>1. HttpSender # MdnsSender
      BY HttpAssumption DEF HttpAssumption
    <3> QED BY <2>2, <3>1 DEF Heard, FromDhcp
  <2>4. sender[HttpSender].pc = "idle"
    BY DEF Busy
  <2>5. /\ sender' = [sender EXCEPT ![HttpSender] = Accepted(e)]
        /\ pub' = {}
        /\ UNCHANGED <<row, lastWrite, paused, checking, marking, request, lookups, up>>
    BY <1>2 DEF Sighted
  <2>6. /\ None \in Names \cup {None}
        /\ {} \in SUBSET Services
    OBVIOUS
  <2> QED BY <1>2, <2>1, <2>2, <2>3, <2>4, <2>5, <2>6 DEF Hear
<1> QED BY <1>1, <1>2

\* A step of the composition is a step of the registry or leaves it alone.
LEMMA StepImplements ==
    ASSUME HTypeOK, [HNext]_hvars
    PROVE  [Next]_vars
<1>1. CASE UNCHANGED hvars
  BY <1>1 DEF hvars, vars
<1>2. CASE StartRound \/ ServiceChanges \/ \E b \in BOOLEAN : SetHttpCheck(b)
  BY <1>2 DEF StartRound, ServiceChanges, SetHttpCheck
<1>3. CASE Probe
  <2>1. up /\ ~Busy
    BY <1>3 DEF Probe
  <2>2. PICK t \in targets : ProbeFails(t) \/ ProbeAnswers(t)
    BY <1>3 DEF Probe
  <2>3. CASE ProbeFails(t)
    BY <2>3 DEF ProbeFails
  <2>4. CASE ProbeAnswers(t)
    <3>1. UNCHANGED vars \/ Hear(HttpSender)
      BY <2>1, <2>4, SightedIsHeard DEF ProbeAnswers
    <3> QED BY <2>1, <3>1, HttpSenderFact DEF Next, Running, HandleSeen
  <2> QED BY <2>2, <2>3, <2>4
<1>4. CASE Verdict
  <2>1. up /\ verdict \in MACs
    BY <1>4 DEF Verdict, HTypeOK
  <2>2. HttpFailed(verdict) \/ UNCHANGED vars
    BY <1>4 DEF Verdict
  <2> QED BY <2>1, <2>2 DEF Next, Running, HttpChecker
<1>5. CASE RegistryStep
  BY <1>5, HttpSenderFact DEF RegistryStep, Next, Running, HandleSeen, HttpChecker
<1>6. CASE HCrash
  BY <1>6 DEF HCrash, Next
<1> QED BY <1>1, <1>2, <1>3, <1>4, <1>5, <1>6 DEF HNext

-----------------------------------------------------------------------------
(* Types, and that a verdict and a sighting are never under way at once.    *)

\* What the checker's goroutine is inside of, if anything.
Exclusive == verdict # None \/ marking # None => sender[HttpSender].pc = "idle"

\* The types of the checker's own variables.
OwnTypes ==
    /\ enabled \in BOOLEAN
    /\ failures \in [MACs -> 0 .. MaxFailures]
    /\ targets \subseteq [mac : MACs, ip : IPs \cup {None}]
    /\ verdict \in MACs \cup {None}
    /\ reachable \subseteq MACs
    /\ misses \in [MACs -> 0 .. MaxFailures]

\* HTypeOK in two parts.
LEMMA HTypeParts == HTypeOK <=> OwnTypes /\ Exclusive
BY DEF HTypeOK, OwnTypes, Exclusive

\* The checker's variables keep their types.
LEMMA OwnTypesStep ==
    ASSUME TypeOK, HTypeOK, [HNext]_hvars
    PROVE  OwnTypes'
<1> USE DEF OwnTypes, HTypeOK
<1>1. CASE UNCHANGED hvars
  BY <1>1 DEF hvars
<1>2. CASE StartRound
  <2>1. \A m \in MACs : HasUrl(m) => row[m].ip \in IPs \cup {None}
    BY DEF TypeOK, HasUrl, Device
  <2>2. HttpServiceDevices \subseteq [mac : MACs, ip : IPs \cup {None}]
    BY <2>1 DEF HttpServiceDevices
  <2> QED BY <1>2, <2>2 DEF StartRound
<1>3. CASE Probe
  <2>1. PICK t \in targets : targets' = targets \ {t} /\ (ProbeFails(t) \/ ProbeAnswers(t))
    BY <1>3 DEF Probe
  <2>2. t.mac \in MACs
    OBVIOUS
  <2>3. CASE ProbeFails(t)
    <3>1. UpTo(MaxFailures, failures[t.mac]) \in 0 .. MaxFailures
      BY <2>2, CountFacts
    <3>2. UpTo(MaxFailures, misses[t.mac]) \in 0 .. MaxFailures
      BY <2>2, CountFacts
    <3> QED BY <2>1, <2>2, <2>3, <3>1, <3>2 DEF ProbeFails
  <2>4. CASE ProbeAnswers(t)
    BY <2>1, <2>2, <2>4, CountFacts DEF ProbeAnswers
  <2> QED BY <2>1, <2>3, <2>4
<1>4. CASE Verdict
  <2>1. verdict' = None /\ UNCHANGED <<enabled, failures, targets, reachable, misses>>
    BY <1>4 DEF Verdict
  <2> QED BY <2>1
<1>5. CASE RegistryStep
  <2>1. UNCHANGED <<checker, reachable, misses>>
    BY <1>5 DEF RegistryStep
  <2> QED BY <2>1 DEF checker
<1>6. CASE HCrash
  BY <1>6, CountFacts DEF HCrash
<1>7. CASE ServiceChanges
  BY <1>7 DEF ServiceChanges, checker
<1>8. ASSUME NEW b \in BOOLEAN, SetHttpCheck(b) PROVE OwnTypes'
  BY <1>8 DEF SetHttpCheck
<1> QED BY <1>1, <1>2, <1>3, <1>4, <1>5, <1>6, <1>7, <1>8 DEF HNext

\* Apart from the verdict, no step of the registry starts to mark a device.
LEMMA MarkingKept ==
    ASSUME RegistryStep
    PROVE  marking' = marking \/ marking' = None
BY DEF RegistryStep, Hear, Resolve, Lookup, Insert, Debounce, Update, LookupDone,
       CheckOffline, SelectExpired, MarkExpired, MarkHttp, Web, Write, Edit, memory,
       AddManual, Import, Delete, SetListening, Tick, Boot

\* A sender of which the checker waits stays idle.
LEMMA IdleKept ==
    ASSUME TypeOK, RegistryStep, sender[HttpSender].pc = "idle"
    PROVE  sender'[HttpSender].pc = "idle"
<1>1. sender \in [Senders -> Handling] /\ HttpSender \in Senders
  BY HttpSenderFact DEF TypeOK
<1>2. ASSUME NEW s \in Senders \ {HttpSender}, Hear(s)
      PROVE  sender'[HttpSender].pc = "idle"
  BY <1>1, <1>2 DEF Hear
<1>3. ASSUME NEW s \in Senders, Resolve(s) \/ Lookup(s) \/ Insert(s) \/ Debounce(s) \/ Update(s)
      PROVE  sender'[HttpSender].pc = "idle"
  <2>1. s # HttpSender
    BY <1>3 DEF Resolve, Lookup, Insert, Debounce, Update
  <2> QED BY <1>1, <1>3, <2>1 DEF Resolve, Lookup, Insert, Debounce, Update
<1>4. CASE Tick
  BY <1>1, <1>4 DEF Tick
<1>5. CASE Boot \/ CheckOffline \/ MarkHttp \/ Web \/ \E m \in MACs : LookupDone(m)
  BY <1>5 DEF Boot, CheckOffline, SelectExpired, MarkExpired, MarkHttp, Web, Write, Edit,
              memory, AddManual, Import, Delete, SetListening, LookupDone
<1> QED BY <1>2, <1>3, <1>4, <1>5 DEF RegistryStep

\* A probe waits until verdict and sighting are over, and a verdict leaves the
\* senders alone.
LEMMA ExclusiveStep ==
    ASSUME TypeOK, HTypeOK, [HNext]_hvars
    PROVE  Exclusive'
<1>0. Exclusive
  BY HTypeParts
<1>1. CASE UNCHANGED hvars
  BY <1>0, <1>1 DEF hvars, Exclusive
<1>2. CASE StartRound \/ ServiceChanges \/ \E b \in BOOLEAN : SetHttpCheck(b)
  BY <1>0, <1>2 DEF StartRound, ServiceChanges, SetHttpCheck, checker, vars, Exclusive
<1>3. CASE Probe
  <2>1. ~Busy
    BY <1>3 DEF Probe
  <2>2. PICK t \in targets : ProbeFails(t) \/ ProbeAnswers(t)
    BY <1>3 DEF Probe
  <2>3. CASE ProbeFails(t)
    BY <2>1, <2>3 DEF ProbeFails, Busy, vars, Exclusive
  <2>4. CASE ProbeAnswers(t)
    BY <2>1, <2>4 DEF ProbeAnswers, Sighted, Busy, vars, Exclusive
  <2> QED BY <2>2, <2>3, <2>4
<1>4. CASE Verdict
  BY <1>0, <1>4 DEF Verdict, HttpFailed, vars, Exclusive
<1>5. CASE RegistryStep
  <2>1. verdict' = verdict
    BY <1>5 DEF RegistryStep, checker
  <2> QED BY <1>0, <1>5, <2>1, MarkingKept, IdleKept DEF Exclusive
<1>6. CASE HCrash
  BY <1>6 DEF HCrash, Crash, Exclusive
<1> QED BY <1>1, <1>2, <1>3, <1>4, <1>5, <1>6 DEF HNext

\* The checker's state has its types, and its goroutine does one thing at a time.
THEOREM HTypeCorrect == HSpec => []HTypeOK
<1>1. HInit => TypeOK /\ HTypeOK
  <2> SUFFICES ASSUME HInit PROVE TypeOK /\ HTypeOK
    OBVIOUS
  <2>1. TypeOK
    BY InitType DEF HInit
  <2>2. OwnTypes
    BY CountFacts DEF HInit, OwnTypes
  <2>3. Exclusive
    BY DEF HInit, Init, Exclusive
  <2> QED BY <2>1, <2>2, <2>3, HTypeParts
<1>2. TypeOK /\ HTypeOK /\ [HNext]_hvars => (TypeOK /\ HTypeOK)'
  <2> SUFFICES ASSUME TypeOK, HTypeOK, [HNext]_hvars PROVE (TypeOK /\ HTypeOK)'
    OBVIOUS
  <2>1. TypeOK'
    BY StepImplements, NextType
  <2>2. OwnTypes' /\ Exclusive'
    BY OwnTypesStep, ExclusiveStep
  <2> QED BY <2>1, <2>2 DEF HTypeOK, OwnTypes, Exclusive
<1> QED BY <1>1, <1>2, PTL DEF HSpec

\* What the checker does with the registry is a behaviour of Registry.
THEOREM CheckerImplementsRegistry == HSpec => ImplementsRegistry
<1>1. HInit => Init
  BY DEF HInit
<1>2. HTypeOK /\ [HNext]_hvars => [Next]_vars
  BY StepImplements
<1> QED BY <1>1, <1>2, HTypeCorrect, PTL DEF HSpec, Spec, ImplementsRegistry

-----------------------------------------------------------------------------
(* A loss follows MaxFailures failed probes.                                *)

\* The inductive invariant: a count never exceeds the failed probes since the
\* last answer, and what is under way against a device was called for.
Counted ==
    /\ \A m \in MACs : failures[m] <= misses[m]
    /\ verdict # None => misses[verdict] = MaxFailures
    /\ marking # None => misses[marking.mac] = MaxFailures

\* Two counts that both go up by one stay in order.
LEMMA UpToMonotone ==
    ASSUME NEW a \in 0 .. MaxFailures, NEW b \in 0 .. MaxFailures, a <= b
    PROVE  /\ UpTo(MaxFailures, a) <= UpTo(MaxFailures, b)
           /\ LimitReached(UpTo(MaxFailures, a)) => UpTo(MaxFailures, b) = MaxFailures
BY CountFacts DEF UpTo, LimitReached

\* A failed probe.
LEMMA ProbeFailsCounted ==
    ASSUME HTypeOK, Counted, ~Busy, NEW t \in targets, ProbeFails(t)
    PROVE  Counted'
<1> DEFINE n == UpTo(MaxFailures, failures[t.mac])
           k == UpTo(MaxFailures, misses[t.mac])
<1>1. /\ t.mac \in MACs
      /\ failures \in [MACs -> 0 .. MaxFailures] /\ misses \in [MACs -> 0 .. MaxFailures]
  BY DEF HTypeOK
<1>2. failures[t.mac] <= misses[t.mac]
  BY <1>1 DEF Counted
<1>3. n <= k /\ (LimitReached(n) => k = MaxFailures)
  BY <1>1, <1>2, UpToMonotone
<1>4. /\ failures' = [failures EXCEPT ![t.mac] = n]
      /\ misses' = [misses EXCEPT ![t.mac] = k]
      /\ verdict' = IF LimitReached(failures'[t.mac]) THEN t.mac ELSE None
      /\ marking' = marking
  BY DEF ProbeFails, vars
<1>5. marking = None
  BY DEF Busy
<1> HIDE DEF n, k
<1>6. \A m \in MACs : failures'[m] <= misses'[m]
  BY <1>1, <1>3, <1>4 DEF Counted
<1>7. verdict' # None => misses'[verdict'] = MaxFailures
  BY <1>1, <1>3, <1>4
<1> QED BY <1>4, <1>5, <1>6, <1>7 DEF Counted

\* An answered probe: nothing is under way when it resets the counts.
LEMMA ProbeAnswersCounted ==
    ASSUME HTypeOK, Counted, ~Busy, NEW t \in targets, ProbeAnswers(t)
    PROVE  Counted'
<1>1. /\ t.mac \in MACs
      /\ failures \in [MACs -> 0 .. MaxFailures] /\ misses \in [MACs -> 0 .. MaxFailures]
  BY DEF HTypeOK
<1>2. verdict' = None /\ marking' = None
  BY DEF Busy, ProbeAnswers, Sighted, vars
<1>3. failures' = [failures EXCEPT ![t.mac] = 0] /\ misses' = [misses EXCEPT ![t.mac] = 0]
  BY DEF ProbeAnswers
<1>4. \A m \in MACs : failures'[m] <= misses'[m]
  BY <1>1, <1>3 DEF Counted
<1> QED BY <1>2, <1>4 DEF Counted

\* Every step.
LEMMA CountedStep ==
    ASSUME HTypeOK, Counted, [HNext]_hvars
    PROVE  Counted'
<1>1. CASE UNCHANGED hvars
  BY <1>1 DEF hvars, Counted
<1>2. CASE StartRound \/ ServiceChanges \/ \E b \in BOOLEAN : SetHttpCheck(b)
  BY <1>2 DEF StartRound, ServiceChanges, SetHttpCheck, checker, vars, Counted
<1>3. CASE Probe
  BY <1>3, ProbeFailsCounted, ProbeAnswersCounted DEF Probe
<1>4. CASE Verdict
  <2>1. UNCHANGED <<failures, misses>> /\ verdict # None /\ verdict' = None
    BY <1>4 DEF Verdict
  <2>2. CASE HttpFailed(verdict)
    <3>1. marking' = MetaOf(verdict, row[verdict])
      BY <2>2 DEF HttpFailed
    <3>2. marking'.mac = verdict
      BY <3>1 DEF MetaOf
    <3> QED BY <2>1, <3>2 DEF Counted
  <2>3. CASE UNCHANGED vars
    BY <2>1, <2>3 DEF vars, Counted
  <2> QED BY <1>4, <2>2, <2>3 DEF Verdict
<1>5. CASE RegistryStep
  <2>1. UNCHANGED <<failures, misses, verdict>>
    BY <1>5 DEF RegistryStep, checker
  <2> QED BY <1>5, <2>1, MarkingKept DEF Counted
<1>6. CASE HCrash
  <2>1. /\ failures' = [m \in MACs |-> 0] /\ misses' = misses
        /\ verdict' = None /\ marking' = None
    BY <1>6 DEF HCrash, Crash
  <2>2. \A m \in MACs : misses[m] \in 0 .. MaxFailures
    BY DEF HTypeOK
  <2> QED BY <2>1, <2>2, CountFacts DEF Counted
<1> QED BY <1>1, <1>2, <1>3, <1>4, <1>5, <1>6 DEF HNext

\* A loss the checker publishes in this step follows the full number of misses.
LossIsDeserved ==
    \A e \in pub' : e.type = "lost" /\ e.source = "http-checker" => misses[e.mac] = MaxFailures

\* Only the second region of the verdict publishes such a loss.
LEMMA DeservedStep ==
    ASSUME TypeOK, HTypeOK, Counted, [HNext]_hvars
    PROVE  LossIsDeserved \/ UNCHANGED vars
<1> SUFFICES ASSUME NEW e \in pub', e.type = "lost", e.source = "http-checker"
             PROVE  UNCHANGED vars \/ misses[e.mac] = MaxFailures
  BY DEF LossIsDeserved
<1>1. [Next]_vars
  BY StepImplements
<1>2. CASE Quiet \/ Crash \/ Boot \/ Write \/ \E m \in MACs : Delete(m)
  BY <1>2 DEF Quiet, Crash, Boot, Write, Delete
<1>3. ASSUME NEW s \in Senders, Insert(s) PROVE FALSE
  BY <1>3 DEF Insert, EventOf
<1>4. ASSUME NEW s \in Senders, Update(s) PROVE FALSE
  BY <1>4 DEF Update, EventOf
<1>5. CASE MarkExpired
  BY <1>5 DEF MarkExpired, EventOf
<1>6. CASE MarkHttp
  <2>1. marking # None /\ e.mac = marking.mac
    BY <1>6 DEF MarkHttp, EventOf
  <2> QED BY <2>1 DEF Counted
<1> QED BY <1>1, <1>2, <1>3, <1>4, <1>5, <1>6, StepCases

\* The checker declares a device lost only after MaxFailures failed probes in a
\* row, whatever else goes on between them.
THEOREM LostOnlyAfterMisses == HSpec => LostAfterMisses
<1>1. HInit => Counted
  <2> SUFFICES ASSUME HInit PROVE Counted
    OBVIOUS
  <2>1. /\ failures = [m \in MACs |-> 0] /\ misses = [m \in MACs |-> 0]
        /\ verdict = None /\ marking = None
    BY DEF HInit, Init
  <2> QED BY <2>1 DEF Counted
<1>2. HTypeOK /\ Counted /\ [HNext]_hvars => Counted'
  BY CountedStep
<1>3. TypeOK /\ HTypeOK /\ Counted /\ [HNext]_hvars => LossIsDeserved \/ UNCHANGED vars
  BY DeservedStep
<1>4. HSpec => []TypeOK
  BY CheckerImplementsRegistry, TypeCorrect DEF ImplementsRegistry
<1> QED BY <1>1, <1>2, <1>3, <1>4, HTypeCorrect, PTL DEF HSpec, LostAfterMisses, LossIsDeserved

-----------------------------------------------------------------------------
(* The poller: its steps are steps of the registry.                         *)

\* What the poller's variables can hold; the process is up and listens, and the
\* history covers at least the devices that are virtual now.
PollerTypes ==
    /\ up /\ ~paused
    /\ interval \in Intervals
    /\ fired \in BOOLEAN /\ polling \in BOOLEAN
    /\ lastPoll \in Nat
    /\ asked \subseteq [mac : MACs, ip : IPs]
    /\ \A m \in MACs : row[m] # None /\ row[m].category = "virtual" => m \in unwatched

\* The poller's assumption about each of its intervals.
LEMMA IntervalFacts ==
    /\ OfflineTimeout \in Nat /\ DebounceWindow \in Nat /\ DebounceWindow > 0
    /\ Intervals \subseteq Nat
    /\ \A i \in Intervals : i + DebounceWindow <= OfflineTimeout
<1>1. OfflineTimeout \in Nat
  BY RegistryAssumption DEF RegistryAssumption
<1>2. DebounceWindow \in Nat
  BY <1>1 DEF DebounceWindow
<1> QED BY <1>1, <1>2, PollerAssumption DEF PollerAssumption

\* An answer is a sighting that handleSeen may hear.
LEMMA AnswerIsHeard ==
    ASSUME PollerTypes, NEW s \in Senders, Answer(s)
    PROVE  Hear(s)
<1>1. PICK a \in asked :
        sender' = [sender EXCEPT ![s] =
            Accepted([mac |-> a.mac, ip |-> a.ip, name |-> None, svcs |-> {}])]
  BY DEF Answer
<1> DEFINE e == [mac |-> a.mac, ip |-> a.ip, name |-> None, svcs |-> {}]
<1>2. a.mac \in MACs /\ a.ip \in IPs
  BY DEF PollerTypes
<1>3. a.mac # None /\ a.ip # None
  BY <1>2, RegistryAssumption DEF RegistryAssumption
<1>4. s # MdnsSender /\ sender[s].pc = "idle" /\ ~paused
  BY DEF Answer, PollerTypes
<1>5. Heard(s, e)
  BY <1>3, <1>4 DEF Heard, FromArp
<1>6. /\ None \in Names \cup {None}
      /\ {} \in SUBSET Services
  OBVIOUS
<1>7. /\ sender' = [sender EXCEPT ![s] = Accepted(e)]
      /\ pub' = {}
      /\ UNCHANGED <<row, lastWrite, paused, checking, marking, request, lookups, up>>
  BY <1>1 DEF Answer
<1> QED BY <1>2, <1>3, <1>4, <1>5, <1>6, <1>7 DEF Hear

\* Every step of the poller with the registry is a step of the registry, which
\* may also do nothing but forget what it has published: the settings page sets
\* the listening flag to what it is.
LEMMA PollerStepImplements ==
    ASSUME TypeOK, PollerTypes, [PNext]_pvars
    PROVE  [Next]_vars
<1>1. CASE UNCHANGED pvars
  BY <1>1 DEF pvars, vars
<1>2. CASE PRunning
  BY <1>2 DEF PRunning, PollerTypes, Next, Running, Web
<1>3. CASE PTick
  BY <1>3 DEF PTick, Next
<1>4. CASE Fire \/ EndRound \/ UpdatePoller
  <2>1. pub' = {} /\ UNCHANGED <<row, memory, up>>
    BY <1>4 DEF Fire, EndRound, UpdatePoller
  <2>2. paused = FALSE
    BY DEF TypeOK, PollerTypes
  <2>3. SetListening(TRUE)
    BY <2>1, <2>2 DEF SetListening, memory
  <2> QED BY <2>3 DEF PollerTypes, Next, Running, Web
<1>5. ASSUME NEW s \in Senders, Answer(s) PROVE [Next]_vars
  BY <1>5, AnswerIsHeard DEF PollerTypes, Next, Running, HandleSeen
<1> QED BY <1>1, <1>2, <1>3, <1>4, <1>5 DEF PNext

\* Who is asked has a MAC and an address.
LEMMA TargetsType ==
    ASSUME TypeOK
    PROVE  {[mac |-> m, ip |-> row[m].ip] : m \in Targets} \subseteq [mac : MACs, ip : IPs]
BY DEF Targets, TypeOK, Device

\* The poller's variables keep their types.
LEMMA PollerTypesStep ==
    ASSUME TypeOK, PollerTypes, [PNext]_pvars
    PROVE  PollerTypes'
<1> USE DEF PollerTypes
<1>1. CASE UNCHANGED pvars
  BY <1>1 DEF pvars
<1>2. CASE PRunning
  <2>1. up' = up /\ paused' = paused
    BY <1>2 DEF PRunning, HandleSeen, Hear, Resolve, Lookup, Insert, Debounce, Update,
                CheckOffline, SelectExpired, MarkExpired, Write, Edit, memory, LookupDone,
                AddManual, Import, Delete
  <2>2. \A m \in MACs : row'[m] # None /\ row'[m].category = "virtual" => m \in unwatched'
    BY <1>2 DEF PRunning
  <2>3. UNCHANGED <<interval, fired, lastPoll, polling, asked>>
    BY <1>2 DEF PRunning, poller
  <2> QED BY <2>1, <2>2, <2>3
<1>3. CASE PTick
  <2>1. ASSUME NEW m \in MACs, row'[m] # None, row'[m].category = "virtual"
        PROVE  m \in unwatched'
    <3>1. row[m] # None /\ row'[m] = [row[m] EXCEPT !.lastSeen = Older(row[m].lastSeen)]
      BY <1>3, <2>1 DEF PTick, Tick
    <3>2. row[m] \in Device
      BY <3>1 DEF TypeOK
    <3>3. row[m].category = "virtual"
      BY <2>1, <3>1, <3>2 DEF Device
    <3> QED BY <1>3, <3>1, <3>3 DEF PTick
  <2> QED BY <1>3, <2>1 DEF PTick, Tick
<1>4. CASE Fire
  <2>1. asked' \subseteq [mac : MACs, ip : IPs]
    <3>1. \/ asked' = {[mac |-> m, ip |-> row[m].ip] : m \in Targets}
          \/ asked' = asked
      BY <1>4 DEF Fire
    <3> QED BY <3>1, TargetsType
  <2>2. /\ fired' = FALSE /\ (polling' = TRUE \/ polling' = polling)
        /\ UNCHANGED <<row, paused, up, interval, lastPoll, unwatched>>
    BY <1>4 DEF Fire, memory
  <2> QED BY <2>1, <2>2
<1>5. CASE EndRound
  BY <1>5 DEF EndRound, memory
<1>7. CASE UpdatePoller
  BY <1>7 DEF UpdatePoller, memory
<1>6. ASSUME NEW s \in Senders, Answer(s) PROVE PollerTypes'
  BY <1>6 DEF Answer
<1> QED BY <1>1, <1>2, <1>3, <1>4, <1>5, <1>6, <1>7 DEF PNext

\* The types of both in every reachable state.
LEMMA PollerTypesAlways == PSpec => [](TypeOK /\ PollerTypes)
<1>1. PInit => TypeOK /\ PollerTypes
  <2> SUFFICES ASSUME PInit PROVE TypeOK /\ PollerTypes
    OBVIOUS
  <2>1. TypeOK
    BY InitType DEF PInit
  <2>2. up /\ ~paused /\ interval \in Intervals /\ fired = FALSE /\ polling = TRUE
        /\ lastPoll = 0 /\ asked = {} /\ \A m \in MACs : row[m] = None
    BY DEF PInit, Init
  <2> QED BY <2>1, <2>2 DEF PollerTypes
<1>2. TypeOK /\ PollerTypes /\ [PNext]_pvars => (TypeOK /\ PollerTypes)'
  BY PollerStepImplements, PollerTypesStep, NextType
<1> QED BY <1>1, <1>2, PTL DEF PSpec

\* What the poller does with the registry is a behaviour of Registry, so that
\* the theorems about Registry hold of its devices.
THEOREM PollerImplementsRegistry == PSpec => WithinRegistry
<1>1. PInit => Init
  BY DEF PInit
<1>2. TypeOK /\ PollerTypes /\ [PNext]_pvars => [Next]_vars
  BY PollerStepImplements
<1> QED BY <1>1, <1>2, PollerTypesAlways, PTL DEF PSpec, Spec, WithinRegistry

-----------------------------------------------------------------------------
(* The poller: how far a row lags behind the rounds.                        *)

\* A tick waits until the last one has been received and its round is over, so
\* that a round begins at the latest one tick after one of the intervals.
Rhythm ==
    /\ fired => ~polling /\ asked = {}
    /\ \E i \in Intervals : lastPoll <= IF fired \/ polling THEN i + 1 ELSE i

\* No sighting outlasts a tick, so that a row that appears under one has just
\* been seen.
InFlight ==
    \A s \in Senders :
      LET e == sender[s] IN
      /\ e.now = 0
      /\ e.pc = "resolve" => e.mac = None
      /\ e.pc = "insert" /\ Online(e.mac) => row[e.mac].lastSeen = 0

\* How far behind a round a row can be, while one is under way and afterwards.
Lag == IF polling THEN DebounceWindow ELSE lastPoll + DebounceWindow

\* Rows of which nobody is about to hear lag less than that; no row has expired.
Timely ==
    \A m \in MACs : Watched(m) => /\ row[m].lastSeen <= OfflineTimeout
                                  /\ ~Expected(m) => row[m].lastSeen < Lag

\* The ticker, the rounds and the settings page keep the rhythm.
LEMMA RhythmStep ==
    ASSUME PollerTypes, Rhythm, [PNext]_pvars
    PROVE  Rhythm'
<1>1. CASE UNCHANGED <<fired, lastPoll, polling, asked>>
  BY <1>1 DEF Rhythm
<1>2. CASE PRunning \/ UpdatePoller \/ UNCHANGED pvars
  BY <1>1, <1>2 DEF PRunning, poller, UpdatePoller, pvars
<1>3. CASE PTick
  <2>1. /\ ~fired /\ ~polling /\ asked = {}
        /\ fired' = TRUE /\ lastPoll' = lastPoll + 1 /\ polling' = polling /\ asked' = asked
    BY <1>3 DEF PTick
  <2>2. PICK i \in Intervals : lastPoll <= i
    BY <2>1 DEF Rhythm
  <2>3. i \in Nat /\ lastPoll \in Nat
    BY IntervalFacts DEF PollerTypes
  <2>4. lastPoll' <= i + 1
    BY <2>1, <2>2, <2>3
  <2> QED BY <2>1, <2>4 DEF Rhythm
<1>4. CASE Fire
  <2>1. fired /\ ~polling /\ fired' = FALSE /\ lastPoll' = lastPoll
    BY <1>4 DEF Fire
  <2>2. PICK i \in Intervals : lastPoll <= i + 1
    BY <2>1 DEF Rhythm
  <2>3. CASE polling' = TRUE
    BY <2>1, <2>2, <2>3 DEF Rhythm
  <2>4. CASE lastPoll <= interval /\ polling' = polling
    BY <2>1, <2>4 DEF Rhythm, PollerTypes
  <2> QED BY <1>4, <2>3, <2>4 DEF Fire
<1>5. CASE EndRound
  <2>1. ~fired /\ fired' = fired /\ lastPoll' = 0 /\ polling' = FALSE
    BY <1>5 DEF EndRound, Rhythm
  <2>2. interval \in Intervals /\ 0 <= interval
    BY IntervalFacts DEF PollerTypes
  <2> QED BY <2>1, <2>2 DEF Rhythm
<1>6. ASSUME NEW s \in Senders, Answer(s) PROVE Rhythm'
  <2>1. ~fired /\ UNCHANGED <<fired, lastPoll, polling>>
    BY <1>6 DEF Answer, Rhythm
  <2> QED BY <2>1 DEF Rhythm
<1> QED BY <1>2, <1>3, <1>4, <1>5, <1>6 DEF PNext

\* A row was online already and keeps its last_seen and address, or it has just
\* been written by a sighting.
Carried(m) == /\ Online(m)
              /\ row'[m].lastSeen = row[m].lastSeen
              /\ row'[m].ip = row[m].ip
Stamped(m) == \E s \in Senders : row'[m].lastSeen = sender[s].now

\* Of the steps of handleSeen, the last regions write rows.
LEMMA HandleSeenOnline ==
    ASSUME TypeOK, NEW s \in Senders, HandleSeen(s), NEW m \in MACs, Online(m)'
    PROVE  Carried(m) \/ Stamped(m)
<1>1. CASE row'[m] = row[m]
  BY <1>1 DEF Carried, Online
<1>2. CASE row'[m] # row[m]
  <2>2. CASE Insert(s)
    <3>1. row' = [row EXCEPT ![sender[s].mac] = Discovered(sender[s])]
      BY <1>2, <2>2 DEF Insert
    <3>2. row'[m] = Discovered(sender[s])
      BY <1>2, <3>1 DEF TypeOK
    <3> QED BY <3>2 DEF Discovered, Stamped
  <2>3. CASE Update(s)
    <3>1. /\ row[sender[s].mac] # None
          /\ row' = [row EXCEPT ![sender[s].mac] = Refreshed(row[sender[s].mac], sender[s])]
      BY <1>2, <2>3 DEF Update, RefreshedRow
    <3>2. m = sender[s].mac /\ row'[m] = Refreshed(row[m], sender[s])
      BY <1>2, <3>1 DEF TypeOK
    <3>3. row[m] \in Device
      BY <3>1, <3>2 DEF TypeOK
    <3> QED BY <3>2, <3>3 DEF Refreshed, Device, Stamped
  <2> QED BY <1>2, <2>2, <2>3 DEF HandleSeen, Hear, Resolve, Lookup, Debounce
<1> QED BY <1>1, <1>2

\* The setters write other columns.
LEMMA EditOnline ==
    ASSUME TypeOK, Edit, NEW m \in MACs, Online(m)'
    PROVE  Carried(m)
<1>1. row[m] # None
  BY EditKeepsData DEF Online
<1>2. row[m] \in Device
  BY <1>1 DEF TypeOK
<1>3. ASSUME NEW x \in MACs, row[x] # None,
             \/ \E p \in Priorities : SetPriority(x, p)
             \/ \E c \in Categories \cup {None} : SetCategory(x, c)
             \/ \E u \in Urls \cup {None} : SetHttpUrl(x, u)
             \/ Approve(x)
      PROVE  row'[m].online = row[m].online /\ row'[m].lastSeen = row[m].lastSeen
             /\ row'[m].ip = row[m].ip
  <2>1. CASE m = x
    BY <1>2, <1>3, <2>1
       DEF SetPriority, SetCategory, SetHttpUrl, Approve, TypeOK, Device
  <2>2. CASE m # x
    BY <1>3, <2>2 DEF SetPriority, SetCategory, SetHttpUrl, Approve, TypeOK
  <2> QED BY <2>1, <2>2
<1>4. CASE ApproveAll
  <2>1. row'[m] = [row[m] EXCEPT !.approved = TRUE]
    BY <1>1, <1>4 DEF ApproveAll
  <2> QED BY <1>1, <1>2, <2>1 DEF Device, Carried, Online
<1> QED BY <1>1, <1>3, <1>4 DEF Edit, Carried, Online

\* Added and imported rows are offline, and an import of a known device writes
\* other columns.
LEMMA WriteOnline ==
    ASSUME TypeOK, Write, NEW m \in MACs, Online(m)'
    PROVE  Carried(m)
<1>1. Online(m)
  BY WriteKeepsFlags DEF Online
<1>2. CASE row'[m] = row[m]
  BY <1>1, <1>2 DEF Carried
<1>3. ASSUME row'[m] # row[m], NEW x \in MACs, NEW d \in Added \cup Imported,
             row[x] = None /\ row' = [row EXCEPT ![x] = d]
      PROVE  FALSE
  BY <1>1, <1>3 DEF Online, TypeOK
<1>4. ASSUME row'[m] # row[m], NEW x \in MACs, NEW d \in Added \cup Imported,
             row[x] # None /\ row' = [row EXCEPT ![x] = Merged(row[x], d)]
      PROVE  Carried(m)
  <2>1. row[m] \in Device /\ row'[m] = Merged(row[m], d)
    BY <1>4 DEF TypeOK
  <2>2. Merged(row[m], d).lastSeen = row[m].lastSeen /\ Merged(row[m], d).ip = row[m].ip
    BY <2>1 DEF Merged, Device
  <2> QED BY <1>1, <2>1, <2>2 DEF Carried
<1> QED BY <1>2, <1>3, <1>4, WriteCases

\* A PTR answer writes the name.
LEMMA LookupDoneOnline ==
    ASSUME TypeOK, NEW x \in MACs, LookupDone(x), NEW m \in MACs, Online(m)'
    PROVE  Carried(m)
<1>1. CASE row'[m] = row[m]
  BY <1>1 DEF Carried, Online
<1>2. CASE row'[m] # row[m]
  <2>1. PICK n \in Names : row[x] # None /\ row' = [row EXCEPT ![x].name = n]
    BY <1>2 DEF LookupDone
  <2>2. m = x /\ row[x] \in Device
    BY <1>2, <2>1 DEF TypeOK
  <2>3. row'[m] = [row[m] EXCEPT !.name = n]
    BY <2>1, <2>2 DEF TypeOK
  <2> QED BY <2>1, <2>2, <2>3 DEF Device, Carried, Online
<1> QED BY <1>1, <1>2

\* Within a tick, a row that is online has just been seen or was online.
LEMMA RunningOnline ==
    ASSUME TypeOK, PRunning, NEW m \in MACs, Online(m)'
    PROVE  Carried(m) \/ Stamped(m)
<1>1. CASE row'[m] = row[m]
  BY <1>1 DEF Carried, Online
<1>2. CASE CheckOffline
  BY <1>1, <1>2, OfflineEffect DEF CheckOffline, SelectExpired, MarkExpired, Online
<1>3. ASSUME NEW x \in MACs, AddManual(x) \/ Import(x) \/ Delete(x) PROVE Carried(m) \/ Stamped(m)
  BY <1>1, <1>3 DEF AddManual, Import, Delete, TypeOK, Online
<1> QED BY <1>2, <1>3, HandleSeenOnline, EditOnline, WriteOnline, LookupDoneOnline DEF PRunning

\* A call of handleSeen goes on with the time it began with; it is looking for an
\* address's owner only while it has no MAC; and it comes to insert a row only if
\* there was none when it looked.
LEMMA HandlingStep ==
    ASSUME TypeOK, InFlight, NEW t \in Senders, HandleSeen(t), NEW s \in Senders
    PROVE  /\ sender'[s].now = 0
           /\ sender'[s].pc = "resolve" => sender'[s].mac = None
           /\ sender'[s].pc = "insert"
                => /\ sender'[s].mac = sender[s].mac /\ sender[s].mac \in MACs
                   /\ sender[s].pc = "insert" \/ (row' = row /\ row[sender[s].mac] = None)
<1>1. /\ sender[s] \in Handling /\ sender[s].now = 0
      /\ sender[s].pc = "resolve" => sender[s].mac = None
      /\ sender[s].pc = "insert" => sender[s].mac \in MACs
  BY DEF TypeOK, InFlight
<1>2. CASE t # s
  <2>1. PICK e : sender' = [sender EXCEPT ![t] = e]
    BY DEF HandleSeen, Hear, Resolve, Lookup, Insert, Debounce, Update
  <2>2. sender'[s] = sender[s]
    BY <1>2, <2>1 DEF TypeOK
  <2> QED BY <1>1, <2>2
<1>3. CASE Hear(s)
  <2>1. PICK m \in MACs \cup {None}, i \in IPs \cup {None}, n \in Names \cup {None},
             v \in SUBSET Services :
           sender' = [sender EXCEPT ![s] =
                         Accepted([mac |-> m, ip |-> i, name |-> n, svcs |-> v])]
    BY <1>3 DEF Hear
  <2>2. sender'[s] = Accepted([mac |-> m, ip |-> i, name |-> n, svcs |-> v])
    BY <2>1 DEF TypeOK
  <2> QED BY <2>2 DEF Accepted, Idle
<1>4. CASE sender'[s] = Idle
  BY <1>4 DEF Idle
<1>5. CASE Resolve(s)
  <2>1. CASE sender'[s] # Idle
    <3>1. PICK m \in MacsByIP(sender[s].ip) :
             sender' = [sender EXCEPT ![s] =
                           [sender[s] EXCEPT !.pc = "get", !.mac = m, !.now = 0]]
      BY <1>5, <2>1 DEF Resolve, TypeOK
    <3>2. sender'[s] = [sender[s] EXCEPT !.pc = "get", !.mac = m, !.now = 0]
      BY <3>1 DEF TypeOK
    <3> QED BY <1>1, <3>2 DEF Handling
  <2> QED BY <1>4, <2>1
<1>6. CASE Lookup(s)
  <2>1. sender[s].mac \in MACs
    BY <1>6 DEF Lookup, TypeOK
  <2>2. CASE row[sender[s].mac] = None
    <3>1. row' = row /\ sender'[s] = [sender[s] EXCEPT !.pc = "insert"]
      BY <1>6, <2>2 DEF Lookup, TypeOK
    <3> QED BY <1>1, <2>1, <2>2, <3>1 DEF Handling
  <2>3. CASE row[sender[s].mac] # None
    <3>1. sender'[s] = Compared(sender[s], row[sender[s].mac])
      BY <1>6, <2>3 DEF Lookup, TypeOK
    <3> QED BY <1>1, <3>1 DEF Compared, Handling
  <2> QED BY <2>2, <2>3
<1>7. CASE Debounce(s)
  <2>1. CASE sender'[s] # Idle
    <3>1. sender'[s] = [sender[s] EXCEPT !.pc = "update"]
      BY <1>7, <2>1 DEF Debounce, TypeOK
    <3> QED BY <1>1, <3>1 DEF Handling
  <2> QED BY <1>4, <2>1
<1>8. CASE Insert(s) \/ Update(s)
  BY <1>4, <1>8 DEF Insert, Update, TypeOK
<1> QED BY <1>2, <1>3, <1>5, <1>6, <1>7, <1>8 DEF HandleSeen

\* An answer is taken at once, with the MAC of the device that was asked.
LEMMA AnswerEffect ==
    ASSUME TypeOK, NEW s \in Senders, Answer(s)
    PROVE  \E a \in asked :
              /\ asked' = asked \ {a}
              /\ sender[s].pc = "idle"
              /\ sender'[s].pc = "get" \/ a.mac = None
              /\ sender'[s].mac = a.mac /\ sender'[s].now = 0
              /\ sender'[s].pc \in {"get", "resolve"}
              /\ \A t \in Senders \ {s} : sender'[t] = sender[t]
<1>1. PICK a \in asked :
        /\ sender' = [sender EXCEPT ![s] =
               Accepted([mac |-> a.mac, ip |-> a.ip, name |-> None, svcs |-> {}])]
        /\ asked' = asked \ {a}
  BY DEF Answer
<1>2. sender'[s] = Accepted([mac |-> a.mac, ip |-> a.ip, name |-> None, svcs |-> {}])
  BY <1>1 DEF TypeOK
<1>3. sender'[s].mac = a.mac /\ sender'[s].now = 0 /\ sender'[s].pc \in {"get", "resolve"}
      /\ (sender'[s].pc = "get" \/ a.mac = None)
  BY <1>2 DEF Accepted, Idle
<1> QED BY <1>1, <1>3 DEF Answer, TypeOK

\* The calls in flight stay in their tick.
LEMMA InFlightStep ==
    ASSUME TypeOK, PollerTypes, InFlight, [PNext]_pvars
    PROVE  InFlight'
<1>1. CASE UNCHANGED <<row, sender>>
  BY <1>1 DEF InFlight, Online
<1>2. CASE PRunning
  <2> SUFFICES ASSUME NEW s \in Senders
               PROVE  /\ sender'[s].now = 0
                      /\ sender'[s].pc = "resolve" => sender'[s].mac = None
                      /\ sender'[s].pc = "insert" /\ row'[sender'[s].mac] # None
                            /\ row'[sender'[s].mac].online
                           => row'[sender'[s].mac].lastSeen = 0
    BY DEF InFlight, Online
  <2>1. /\ sender'[s].now = 0
        /\ sender'[s].pc = "resolve" => sender'[s].mac = None
        /\ sender'[s].pc = "insert"
             => /\ sender'[s].mac = sender[s].mac /\ sender[s].mac \in MACs
                /\ sender[s].pc = "insert" \/ (row' = row /\ row[sender[s].mac] = None)
    <3>1. CASE sender' = sender
      BY <3>1 DEF InFlight, TypeOK
    <3>2. ASSUME NEW t \in Senders, HandleSeen(t)
          PROVE  /\ sender'[s].now = 0
                 /\ sender'[s].pc = "resolve" => sender'[s].mac = None
                 /\ sender'[s].pc = "insert"
                      => /\ sender'[s].mac = sender[s].mac /\ sender[s].mac \in MACs
                         /\ sender[s].pc = "insert" \/ (row' = row /\ row[sender[s].mac] = None)
      BY <3>2, HandlingStep
    <3> QED BY <1>2, <3>1, <3>2
            DEF PRunning, LookupDone, CheckOffline, SelectExpired, MarkExpired, Write, Edit,
                memory, AddManual, Import, Delete
  <2>2. ASSUME sender'[s].pc = "insert",
               row'[sender'[s].mac] # None, row'[sender'[s].mac].online
        PROVE  row'[sender'[s].mac].lastSeen = 0
    <3> DEFINE m == sender[s].mac
    <3>1. m \in MACs /\ sender'[s].mac = m /\ Online(m)'
      BY <2>1, <2>2 DEF Online
    <3>2. CASE Stamped(m)
      BY <3>1, <3>2 DEF Stamped, InFlight
    <3>3. CASE Carried(m)
      BY <2>1, <2>2, <3>1, <3>3 DEF Carried, InFlight, Online
    <3> QED BY <1>2, <3>1, <3>2, <3>3, RunningOnline
  <2> QED BY <2>1, <2>2
<1>3. CASE PTick
  <2>1. \A s \in Senders : sender'[s] = sender[s] /\ sender[s].pc = "idle"
    BY <1>3 DEF PTick, Tick
  <2> QED BY <2>1 DEF InFlight
<1>4. ASSUME NEW s \in Senders, Answer(s) PROVE InFlight'
  <2>1. row' = row
    BY <1>4 DEF Answer
  <2>2. PICK a \in asked : /\ sender'[s].mac = a.mac /\ sender'[s].now = 0
                           /\ sender'[s].pc = "get" \/ a.mac = None
                           /\ sender'[s].pc \in {"get", "resolve"}
                           /\ \A t \in Senders \ {s} : sender'[t] = sender[t]
    BY <1>4, AnswerEffect
  <2> QED BY <2>1, <2>2 DEF InFlight, Online
<1> QED BY <1>1, <1>2, <1>3, <1>4 DEF PNext, Fire, EndRound, UpdatePoller, memory, pvars

\* Somebody is about to hear m until handleSeen has dealt with it.
LEMMA HeardOut ==
    ASSUME TypeOK, InFlight, PRunning, NEW m \in MACs, Expected(m), ~Expected(m)'
    PROVE  \E s \in Senders : /\ sender[s].mac = m /\ sender'[s].pc = "idle"
                              /\ Insert(s) \/ Debounce(s) \/ Update(s)
<1>1. asked' = asked
  BY DEF PRunning, poller
<1>2. PICK s \in Senders : sender[s].pc # "idle" /\ sender[s].mac = m
  BY <1>1 DEF Expected
<1>3. sender'[s].pc = "idle" \/ sender'[s].mac # m
  BY DEF Expected
<1>4. PICK t \in Senders : HandleSeen(t)
  BY <1>2, <1>3 DEF PRunning, LookupDone, CheckOffline, SelectExpired, MarkExpired, Write, Edit,
                    memory, AddManual, Import, Delete
<1>5. t = s
  <2>1. PICK e : sender' = [sender EXCEPT ![t] = e]
    BY <1>4 DEF HandleSeen, Hear, Resolve, Lookup, Insert, Debounce, Update
  <2> QED BY <1>2, <1>3, <2>1 DEF TypeOK
<1>6. ~Hear(s) /\ ~Resolve(s)
  BY <1>2, NoneFacts DEF Hear, Resolve, InFlight
<1>7. sender[s] \in Handling
  BY DEF TypeOK
<1>8. ~Lookup(s)
  <2> SUFFICES ASSUME Lookup(s) PROVE FALSE
    OBVIOUS
  <2>1. CASE row[m] = None
    <3>1. sender'[s] = [sender[s] EXCEPT !.pc = "insert"]
      BY <1>2, <2>1 DEF Lookup, TypeOK
    <3> QED BY <1>2, <1>3, <1>7, <3>1 DEF Handling
  <2>2. CASE row[m] # None
    <3>1. sender'[s] = Compared(sender[s], row[m]) /\ row[m] \in Device
      BY <1>2, <2>2 DEF Lookup, TypeOK
    <3>2. sender'[s].mac = m /\ sender'[s].pc \in {"debounce", "update"}
      BY <1>2, <1>7, <3>1 DEF Compared, Handling
    <3> QED BY <1>3, <3>2
  <2> QED BY <2>1, <2>2
<1>9. Insert(s) \/ Debounce(s) \/ Update(s)
  BY <1>4, <1>5, <1>6, <1>8 DEF HandleSeen
<1>10. sender'[s].pc = "idle"
  <2>1. CASE Insert(s) \/ Update(s)
    BY <2>1 DEF Insert, Update, TypeOK, Idle
  <2>2. CASE Debounce(s)
    <3>1. sender'[s] = Idle \/ sender'[s] = [sender[s] EXCEPT !.pc = "update"]
      BY <2>2 DEF Debounce, TypeOK
    <3> QED BY <1>2, <1>3, <1>7, <3>1 DEF Handling, Idle
  <2> QED BY <1>9, <2>1, <2>2
<1> QED BY <1>2, <1>9, <1>10

\* A device that a sighting has dealt with, and that was online before it, has a
\* row younger than a debounce window: the sighting wrote it, or was dropped.
LEMMA HeardIsFresh ==
    ASSUME TypeOK, DebounceConsistent, InFlight, PRunning,
           NEW m \in MACs, Carried(m), Online(m)', Expected(m), ~Expected(m)'
    PROVE  row'[m].lastSeen < DebounceWindow
<1>1. PICK s \in Senders : /\ sender[s].mac = m /\ sender'[s].pc = "idle"
                           /\ Insert(s) \/ Debounce(s) \/ Update(s)
  BY HeardOut
<1>2. sender[s] \in Handling /\ sender[s].now = 0 /\ row[m] # None /\ row[m] \in Device
  BY DEF TypeOK, InFlight, Carried, Online
<1>3. CASE Insert(s)
  <2>1. row[m].lastSeen = 0
    BY <1>1, <1>3 DEF Insert, InFlight, Carried
  <2> QED BY <2>1, IntervalFacts DEF Carried
<1>4. CASE Debounce(s)
  <2>1. CASE Recent(m)
    <3>1. row[m].lastSeen = lastWrite[m] /\ lastWrite[m] < DebounceWindow
      BY <2>1 DEF Recent, DebounceConsistent, Carried
    <3> QED BY <3>1 DEF Carried
  <2>2. CASE ~Recent(m)
    <3>1. sender'[s] = [sender[s] EXCEPT !.pc = "update"]
      BY <1>1, <1>4, <2>2 DEF Debounce, TypeOK
    <3> QED BY <1>1, <1>2, <3>1 DEF Handling
  <2> QED BY <2>1, <2>2
<1>5. CASE Update(s)
  <2>1. row' = [row EXCEPT ![m] = Refreshed(row[m], sender[s])]
    BY <1>1, <1>2, <1>5 DEF Update, RefreshedRow
  <2>2. row'[m].lastSeen = 0
    BY <1>2, <2>1 DEF TypeOK, Refreshed, Device
  <2> QED BY <2>2, IntervalFacts
<1> QED BY <1>1, <1>3, <1>4, <1>5

\* A bound of the lag is a number.
LEMMA LagFacts ==
    ASSUME PollerTypes
    PROVE  /\ Lag \in Nat /\ DebounceWindow <= Lag
           /\ Lag <= lastPoll + DebounceWindow /\ lastPoll \in Nat
           /\ 0 < Lag /\ 0 <= OfflineTimeout /\ 0 < DebounceWindow
BY IntervalFacts DEF PollerTypes, Lag

\* Within a tick.
LEMMA RunningTimely ==
    ASSUME TypeOK, DebounceConsistent, PollerTypes, InFlight, Timely, PRunning
    PROVE  Timely'
<1> SUFFICES ASSUME NEW m \in MACs, Watched(m)'
             PROVE  /\ row'[m].lastSeen <= OfflineTimeout
                    /\ ~Expected(m)' => row'[m].lastSeen < Lag
  <2>1. Lag' = Lag
    BY DEF PRunning, poller, Lag
  <2> QED BY <2>1 DEF Timely
<1>1. Online(m)' /\ row'[m].ip # None /\ m \notin unwatched'
  BY DEF Watched
<1>2. CASE row'[m].lastSeen = 0
  BY <1>2, LagFacts
<1>3. CASE row'[m].lastSeen # 0
  <2>1. Carried(m)
    BY <1>1, <1>3, RunningOnline DEF Stamped, InFlight
  <2>2. m \notin unwatched
    BY <1>1, <1>3 DEF PRunning, Online
  <2>3. Watched(m)
    BY <1>1, <2>1, <2>2 DEF Watched, Carried
  <2>4. row[m].lastSeen <= OfflineTimeout /\ (~Expected(m) => row[m].lastSeen < Lag)
    BY <2>3 DEF Timely
  <2>5. ASSUME Expected(m), ~Expected(m)' PROVE row'[m].lastSeen < Lag
    <3>1. row'[m].lastSeen < DebounceWindow
      BY <1>1, <2>1, <2>5, HeardIsFresh
    <3>2. row'[m].lastSeen \in Nat /\ DebounceWindow \in Nat
      BY <2>1, IntervalFacts DEF Carried, Online, TypeOK, Device, Age
    <3> QED BY <3>1, <3>2, LagFacts
  <2> QED BY <2>1, <2>4, <2>5 DEF Carried
<1> QED BY <1>2, <1>3

\* A tick: nobody is about to be heard of, and the last round ended at most an
\* interval ago.
LEMMA TickTimely ==
    ASSUME TypeOK, PollerTypes, Rhythm, Timely, PTick
    PROVE  Timely'
<1> SUFFICES ASSUME NEW m \in MACs, Watched(m)'
             PROVE  /\ row'[m].lastSeen <= OfflineTimeout
                    /\ row'[m].lastSeen < Lag'
  BY DEF Timely
<1>1. row[m] # None /\ row'[m] = [row[m] EXCEPT !.lastSeen = Older(row[m].lastSeen)]
  BY DEF PTick, Tick, Watched, Online
<1>2. row[m] \in Device
  BY <1>1 DEF TypeOK
<1>3. /\ row'[m].online = row[m].online /\ row'[m].ip = row[m].ip
      /\ row'[m].lastSeen = Older(row[m].lastSeen)
  BY <1>1, <1>2 DEF Device
<1>4. Watched(m) /\ ~Expected(m)
  BY <1>1, <1>3 DEF PTick, Watched, Online, Expected
<1>5. /\ ~polling /\ ~polling' /\ ~fired /\ lastPoll' = lastPoll + 1
  BY DEF PTick
<1>6. PICK i \in Intervals : lastPoll <= i
  BY <1>5 DEF Rhythm
<1>7. row[m].lastSeen < lastPoll + DebounceWindow
  BY <1>4, <1>5 DEF Timely, Lag
<1>8. row[m].lastSeen \in Nat /\ Older(row[m].lastSeen) <= row[m].lastSeen + 1
  BY <1>2, IntervalFacts DEF Device, Age, Older
<1>9. /\ row[m].lastSeen + 1 < lastPoll' + DebounceWindow
      /\ row[m].lastSeen + 1 <= OfflineTimeout
      /\ Older(row[m].lastSeen) \in Nat
  <2>1. /\ lastPoll \in Nat /\ DebounceWindow \in Nat /\ i \in Nat /\ OfflineTimeout \in Nat
        /\ i + DebounceWindow <= OfflineTimeout
    BY IntervalFacts DEF PollerTypes
  <2>2. Older(row[m].lastSeen) \in Nat
    BY <1>8 DEF Older
  <2> QED BY <1>5, <1>6, <1>7, <1>8, <2>1, <2>2
<1>10. row'[m].lastSeen < lastPoll' + DebounceWindow /\ row'[m].lastSeen <= OfflineTimeout
  <2>1. /\ lastPoll' \in Nat /\ DebounceWindow \in Nat /\ OfflineTimeout \in Nat
    BY <1>5, IntervalFacts DEF PollerTypes
  <2> QED BY <1>3, <1>8, <1>9, <2>1
<1> QED BY <1>5, <1>10 DEF Lag

\* A round begins: every row that is watched is asked after.  The ticker's tick
\* may also be received too early.
LEMMA FireTimely ==
    ASSUME TypeOK, PollerTypes, Rhythm, Timely, Fire
    PROVE  Timely'
<1>1. UNCHANGED <<row, sender, unwatched, lastPoll>> /\ asked = {} /\ ~polling
  BY DEF Fire, memory, Rhythm
<1>2. \A m \in MACs : Watched(m)' <=> Watched(m)
  BY <1>1 DEF Watched, Online
<1>3. CASE UNCHANGED <<polling, asked>>
  BY <1>1, <1>3 DEF Timely, Watched, Online, Expected, Lag
<1>4. CASE asked' = {[mac |-> m, ip |-> row[m].ip] : m \in Targets}
  <2>1. ASSUME NEW m \in MACs, Watched(m) PROVE Expected(m)' /\ row'[m].lastSeen <= OfflineTimeout
    <3>1. m \in Targets
      BY <2>1 DEF Watched, Targets, PollerTypes, Online
    <3>2. [mac |-> m, ip |-> row[m].ip] \in asked'
      BY <1>4, <3>1
    <3>3. \E a \in asked' : a.mac = m
      BY <3>2
    <3> QED BY <1>1, <2>1, <3>3 DEF Expected, Timely
  <2> QED BY <1>2, <2>1 DEF Timely
<1> QED BY <1>3, <1>4 DEF Fire

\* Who answers is still about to be heard of.
LEMMA AnswerTimely ==
    ASSUME TypeOK, PollerTypes, Timely, NEW s \in Senders, Answer(s)
    PROVE  Timely'
<1>1. UNCHANGED <<row, unwatched, lastPoll, polling>>
  BY DEF Answer
<1>2. PICK a \in asked : /\ asked' = asked \ {a} /\ sender[s].pc = "idle"
                         /\ sender'[s].mac = a.mac
                         /\ sender'[s].pc \in {"get", "resolve"}
                         /\ \A t \in Senders \ {s} : sender'[t] = sender[t]
  BY AnswerEffect
<1>3. ASSUME NEW m \in MACs, Expected(m) PROVE Expected(m)'
  BY <1>2, <1>3 DEF Expected
<1> QED BY <1>1, <1>3 DEF Timely, Watched, Online, Lag

\* Every step.
LEMMA TimelyStep ==
    ASSUME TypeOK, DebounceConsistent, PollerTypes, Rhythm, InFlight, Timely, [PNext]_pvars
    PROVE  Timely'
<1>1. CASE EndRound
  <2>1. UNCHANGED <<row, sender, unwatched, asked>> /\ polling /\ ~polling' /\ lastPoll' = 0
    BY <1>1 DEF EndRound, memory
  <2>2. Lag' = Lag
    BY <2>1, IntervalFacts DEF Lag
  <2> QED BY <2>1, <2>2 DEF Timely, Watched, Online, Expected
<1>2. CASE UpdatePoller \/ UNCHANGED pvars
  BY <1>2 DEF UpdatePoller, memory, pvars, Timely, Watched, Online, Expected, Lag
<1> QED BY <1>1, <1>2, RunningTimely, TickTimely, FireTimely, AnswerTimely DEF PNext

\* The inductive invariant holds in every reachable state.
LEMMA TimelyAlways ==
    PSpec => [](TypeOK /\ DebounceConsistent /\ PollerTypes /\ Rhythm /\ InFlight /\ Timely)
<1>1. PInit => Rhythm /\ InFlight /\ Timely
  <2> SUFFICES ASSUME PInit PROVE Rhythm /\ InFlight /\ Timely
    OBVIOUS
  <2>1. Rhythm
    <3>1. interval \in Intervals /\ lastPoll = 0 /\ fired = FALSE /\ polling = TRUE
      BY DEF PInit
    <3>2. lastPoll <= interval + 1
      BY <3>1, IntervalFacts
    <3> QED BY <3>1, <3>2 DEF Rhythm
  <2>2. InFlight
    BY DEF PInit, Init, InFlight, Idle
  <2>3. Timely
    BY DEF PInit, Init, Timely, Watched, Online
  <2> QED BY <2>1, <2>2, <2>3
<1>2. /\ TypeOK /\ DebounceConsistent /\ PollerTypes /\ Rhythm /\ InFlight /\ Timely
      /\ [PNext]_pvars
      => (Rhythm /\ InFlight /\ Timely)'
  BY RhythmStep, InFlightStep, TimelyStep
<1>3. PSpec => []DebounceConsistent
  BY PollerImplementsRegistry, MapAgreesWithTable DEF WithinRegistry
<1> QED BY <1>1, <1>2, <1>3, PollerTypesAlways, PTL DEF PSpec

\* Once a round's answers are in, no row the poller watches lags behind the
\* round by a debounce window, whatever the registry does beside it.
THEOREM LagIsBounded == PSpec => []LagBounded
<1>1. TypeOK /\ PollerTypes /\ Timely => LagBounded
  <2> SUFFICES ASSUME TypeOK, PollerTypes, Timely, NEW m \in MACs, Watched(m), ~Expected(m)
               PROVE  row[m].lastSeen < lastPoll + DebounceWindow
    BY DEF LagBounded
  <2>1. row[m].lastSeen < Lag
    BY DEF Timely
  <2>2. row[m].lastSeen \in Nat /\ DebounceWindow \in Nat
    BY IntervalFacts DEF Watched, Online, TypeOK, Device, Age
  <2> QED BY <2>1, <2>2, LagFacts
<1> QED BY <1>1, TimelyAlways, PTL

\* A step of NeverLost: whom the checker selects has no address or has been virtual.
Spared == \A c \in checking' \ checking : row[c.mac].ip = None \/ c.mac \in unwatched

\* The offline checker never selects a device that has an address and answers
\* when asked, as long as it has not been virtual: for every interval and
\* timeout that leave room for a tick and the debounce window.
THEOREM AnsweringIsNeverLost == PSpec => NeverLost
<1>1. ASSUME TypeOK, PollerTypes, Timely, [PNext]_pvars PROVE Spared
  <2>1. CASE checking' \subseteq checking
    BY <2>1 DEF Spared
  <2>2. CASE SelectExpired
    <3> SUFFICES ASSUME NEW c \in checking' PROVE row[c.mac].ip = None \/ c.mac \in unwatched
      BY DEF Spared
    <3>1. PICK m \in MACs : Expired(m) /\ c = MetaOf(m, row[m])
      BY <2>2 DEF SelectExpired
    <3>2. c.mac = m
      BY <3>1 DEF MetaOf
    <3>3. ~Watched(m)
      <4>1. row[m].lastSeen > OfflineTimeout /\ row[m].lastSeen \in Nat /\ OfflineTimeout \in Nat
        BY <1>1, <3>1, IntervalFacts DEF Expired, Online, TypeOK, Device, Age
      <4> QED BY <1>1, <4>1 DEF Timely
    <3> QED BY <3>1, <3>2, <3>3 DEF Watched, Expired
  <2>3. ASSUME NEW s \in Senders, HandleSeen(s) PROVE checking' = checking
    BY <2>3 DEF HandleSeen, Hear, Resolve, Lookup, Insert, Debounce, Update
  <2>4. ASSUME NEW s \in Senders, Answer(s) PROVE checking' = checking
    BY <2>4 DEF Answer
  <2>5. CASE MarkExpired
    BY <2>1, <2>5 DEF MarkExpired
  <2>6. CASE PTick \/ Fire \/ EndRound \/ UpdatePoller \/ UNCHANGED pvars
    BY <2>1, <2>6 DEF PTick, Tick, Fire, EndRound, UpdatePoller, memory, pvars
  <2>7. CASE Write \/ Edit \/ \E m \in MACs : LookupDone(m) \/ AddManual(m) \/ Import(m) \/ Delete(m)
    BY <2>1, <2>7 DEF Write, Edit, memory, LookupDone, AddManual, Import, Delete
  <2> QED BY <1>1, <2>1, <2>2, <2>3, <2>4, <2>5, <2>6, <2>7 DEF PNext, PRunning, CheckOffline
<1> QED BY <1>1, TimelyAlways, PTL DEF PSpec, NeverLost, Spared

=============================================================================
