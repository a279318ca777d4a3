------------------------- MODULE AlertEngineSafety -------------------------
(***************************************************************************)
(* Safety of AlertEngine, for every number of devices and goroutines and   *)
(* every configuration: the path of a call through its rules, the timer of *)
(* the batch, and that the engine implements Throttle.                     *)
(***************************************************************************)
EXTENDS AlertEngine, TLAPS

LEMMA Constants ==
    /\ Enabled \subseteq AlertTypes /\ Cooldown \in [CooledTypes -> Nat]
    /\ CleanupAge \in Nat /\ Horizon \in Nat
    /\ \A t \in CooledTypes : Cooldown[t] <= Horizon
    /\ BatchWindow \in Nat \ {0} /\ MaxMute \in Nat
    /\ None \notin Nat /\ None \notin MACs
    /\ Age \subseteq Nat /\ 0 \in Age
BY EngineAssumption DEF EngineAssumption, Age

\* A call in progress: the rules it has left, and the path of the first.
OnPath(k) == /\ k.rules # <<>>
             /\ k.pc \in {"cool", "send"} => Head(k.rules) \in CooledTypes
             /\ k.pc = "add" => Head(k.rules) = "new_device"

State == {Free} \cup {k \in Call : OnPath(k)}

LEMMA FreeIsNoCall == Free.pc = "free" /\ \A k \in Call : k.pc # "free"
BY DEF Free, Call

\* The part of the type invariant about the calls.
LEMMA HandlerType ==
    (/\ handler \in [Handlers -> Call \cup {Free}]
     /\ \A h \in Handlers : handler[h] # Free =>
           /\ handler[h].rules # <<>>
           /\ handler[h].pc \in {"cool", "send"} => Head(handler[h].rules) \in CooledTypes
           /\ handler[h].pc = "add" => Head(handler[h].rules) = "new_device")
    <=> handler \in [Handlers -> State]
BY DEF State, OnPath

\* One call goes on to k; the rest of the state keeps its type.
LEMMA GoesOn ==
    ASSUME TypeOK, NEW h \in Handlers, NEW k \in State, handler' = [handler EXCEPT ![h] = k],
           cooldown' \in [Key -> Age \cup {None}], maintenance' \in 0 .. MaxMute,
           pending' \in Seq(MACs), timer' \in 0 .. BatchWindow \cup {None}, taken' \in Seq(MACs),
           sent' \in SUBSET Alert, boots' = boots
    PROVE  TypeOK'
<1>1. handler \in [Handlers -> State]
  BY HandlerType DEF TypeOK
<1>2. handler' \in [Handlers -> State]
  BY <1>1
<1>3. /\ handler' \in [Handlers -> Call \cup {Free}]
      /\ \A i \in Handlers : handler'[i] # Free =>
            /\ handler'[i].rules # <<>>
            /\ handler'[i].pc \in {"cool", "send"} => Head(handler'[i].rules) \in CooledTypes
            /\ handler'[i].pc = "add" => Head(handler'[i].rules) = "new_device"
  BY <1>2 DEF State, OnPath
<1> QED BY <1>3 DEF TypeOK

\* The rules of an event are rules that are enabled.
LEMMA RulesForIsSeq ==
    ASSUME NEW type \in {"new", "lost", "back"}, NEW priority \in BOOLEAN, NEW service \in BOOLEAN
    PROVE  RulesFor(type, priority, service) \in Seq(Enabled)
<1>1. ASSUME NEW t, NEW cond PROVE IfEnabled(t, cond) \in Seq(Enabled)
  BY DEF IfEnabled
<1>2. CASE type = "new"
  BY <1>1, <1>2 DEF RulesFor
<1>3. CASE type = "lost"
  <2>1. RulesFor(type, priority, service)
          = IfEnabled("priority_offline", priority) \o IfEnabled("service_down", service)
    BY <1>3 DEF RulesFor
  <2>2. /\ IfEnabled("priority_offline", priority) \in Seq(Enabled)
        /\ IfEnabled("service_down", service) \in Seq(Enabled)
    BY <1>1
  <2> QED BY <2>1, <2>2
<1>4. CASE type = "back"
  <2>1. RulesFor(type, priority, service)
          = IfEnabled("device_back", priority) \o IfEnabled("service_back", service)
    BY <1>4 DEF RulesFor
  <2>2. /\ IfEnabled("device_back", priority) \in Seq(Enabled)
        /\ IfEnabled("service_back", service) \in Seq(Enabled)
    BY <1>1
  <2> QED BY <2>1, <2>2
<1> QED BY <1>2, <1>3, <1>4

\* After a rule comes the next, checked again, or nothing.
LEMMA RestIsState ==
    ASSUME NEW k \in Call, k.rules # <<>>
    PROVE  Rest(k) \in State
<1>1. k.rules \in Seq(Enabled) /\ k.mac \in MACs
  BY DEF Call
<1>2. CASE Len(k.rules) = 1
  BY <1>2 DEF Rest, State
<1>3. CASE Len(k.rules) # 1
  <2> DEFINE r == Tail(k.rules)
             n == [k EXCEPT !.rules = r, !.pc = "check"]
  <2>1. r \in Seq(Enabled) /\ r # <<>>
    <3>1. Len(k.rules) \in Nat /\ Len(k.rules) # 0
      BY <1>1
    <3>2. r \in Seq(Enabled) /\ Len(r) = Len(k.rules) - 1
      BY <1>1
    <3>3. Len(r) # 0
      BY <1>3, <3>1, <3>2
    <3> HIDE DEF r
    <3>4. r # <<>>
      BY <3>3
    <3> QED BY <3>2, <3>4
  <2> HIDE DEF r
  <2>2. n \in Call /\ n.rules = r /\ n.pc = "check"
    BY <1>1, <2>1 DEF Call
  <2>3. Rest(k) = n
    BY <1>3 DEF Rest, r
  <2> HIDE DEF n
  <2> QED BY <2>1, <2>2, <2>3 DEF State, OnPath
<1> QED BY <1>2, <1>3

\* The first rule of a call in progress.
LEMMA CallFacts ==
    ASSUME TypeOK, NEW h \in Handlers, handler[h].pc # "free"
    PROVE  /\ handler[h] \in Call /\ OnPath(handler[h])
           /\ handler[h].mac \in MACs /\ Head(handler[h].rules) \in AlertTypes
<1>1. handler[h] \in Call /\ OnPath(handler[h])
  BY FreeIsNoCall DEF TypeOK, OnPath
<1>2. handler[h].mac \in MACs /\ handler[h].rules \in Seq(Enabled) /\ handler[h].rules # <<>>
  BY <1>1 DEF Call, OnPath
<1>3. Head(handler[h].rules) \in Enabled
  BY <1>2
<1> QED BY <1>1, <1>2, <1>3, Constants

\* A call stays with its rule and goes to another stage of it.
LEMMA StageIsState ==
    ASSUME NEW k \in Call, OnPath(k), NEW pc \in {"cool", "send", "add"},
           pc \in {"cool", "send"} => Head(k.rules) \in CooledTypes,
           pc = "add" => Head(k.rules) = "new_device"
    PROVE  [k EXCEPT !.pc = pc] \in State
<1> DEFINE n == [k EXCEPT !.pc = pc]
<1>1. n \in Call /\ n.rules = k.rules /\ n.pc = pc
  BY DEF Call
<1> HIDE DEF n
<1>2. n \in State
  BY <1>1 DEF State, OnPath
<1> QED BY <1>2 DEF n

-----------------------------------------------------------------------------
(* Types and the timer.                                                     *)

EInv == TypeOK /\ TimerIffPending

LEMMA EInit == Init => EInv
<1> SUFFICES ASSUME Init PROVE EInv
  OBVIOUS
<1>1. handler \in [Handlers -> State]
  BY DEF Init, State
<1>2. /\ cooldown \in [Key -> Age \cup {None}] /\ maintenance \in 0 .. MaxMute
      /\ pending \in Seq(MACs) /\ timer \in 0 .. BatchWindow \cup {None}
      /\ taken \in Seq(MACs) /\ sent \in SUBSET Alert /\ boots \in {0, 1} /\ TimerIffPending
  BY Constants DEF Init, TimerIffPending
<1> QED BY <1>1, <1>2, HandlerType DEF EInv, TypeOK

LEMMA DeliverInv ==
    ASSUME EInv, NEW h \in Handlers, NEW m \in MACs, NEW r \in Events, Deliver(h, m, r)
    PROVE  EInv'
<1> DEFINE k == [pc |-> "check", mac |-> m, rules |-> r]
<1>1. r \in Seq(Enabled) /\ r # <<>>
  BY RulesForIsSeq DEF Events
<1>2. handler' = [handler EXCEPT ![h] = k] /\ sent' = {}
      /\ UNCHANGED <<cooldown, maintenance, pending, timer, taken, boots>>
  BY DEF Deliver
<1>3. k \in State
  BY <1>1 DEF State, Call, OnPath
<1> HIDE DEF k
<1> QED BY <1>2, <1>3, GoesOn DEF EInv, TypeOK, TimerIffPending

LEMMA CheckInv ==
    ASSUME EInv, NEW h \in Handlers, CheckMaintenance(h)
    PROVE  EInv'
<1>1. /\ handler[h] \in Call /\ OnPath(handler[h]) /\ Head(handler[h].rules) \in AlertTypes
  BY CallFacts DEF CheckMaintenance, EInv
<1> DEFINE pc == IF Head(handler[h].rules) = "new_device" THEN "add" ELSE "cool"
           k == IF maintenance > 0 THEN Rest(handler[h]) ELSE [handler[h] EXCEPT !.pc = pc]
<1>2. handler' = [handler EXCEPT ![h] = k] /\ sent' = {}
      /\ UNCHANGED <<cooldown, maintenance, pending, timer, taken, boots>>
  BY DEF CheckMaintenance
<1>3. Rest(handler[h]) \in State
  BY <1>1, RestIsState DEF OnPath
<1>4. [handler[h] EXCEPT !.pc = pc] \in State
  BY <1>1, StageIsState DEF AlertTypes
<1> HIDE DEF pc
<1>5. k \in State
  BY <1>3, <1>4
<1> HIDE DEF k
<1> QED BY <1>2, <1>5, GoesOn DEF EInv, TypeOK, TimerIffPending

\* What fire writes, it writes under the key of its rule and device.
LEMMA KeyOfIsKey ==
    ASSUME TypeOK, NEW h \in Handlers, handler[h].pc \in {"cool", "send"}
    PROVE  KeyOf(handler[h]) \in Key
BY CallFacts DEF OnPath, KeyOf, Key

LEMMA CoolInv ==
    ASSUME EInv, NEW h \in Handlers, Cool(h)
    PROVE  EInv'
<1>1. handler[h] \in Call /\ OnPath(handler[h]) /\ handler[h].pc = "cool"
  BY CallFacts DEF Cool, EInv
<1>2. sent' = {} /\ UNCHANGED <<maintenance, pending, timer, taken, boots>>
  BY DEF Cool
<1>3. CASE handler' = [handler EXCEPT ![h] = Rest(handler[h])] /\ UNCHANGED cooldown
  <2>1. Rest(handler[h]) \in State
    BY <1>1, RestIsState DEF OnPath
  <2> QED BY <1>2, <1>3, <2>1, GoesOn DEF EInv, TypeOK, TimerIffPending
<1>4. CASE /\ handler' = [handler EXCEPT ![h].pc = "send"]
           /\ cooldown' = [cooldown EXCEPT ![KeyOf(handler[h])] = 0]
  <2> DEFINE k == [handler[h] EXCEPT !.pc = "send"]
  <2>1. k \in State
    BY <1>1, StageIsState DEF OnPath
  <2>2. handler' = [handler EXCEPT ![h] = k]
    BY <1>4 DEF EInv, TypeOK
  <2> HIDE DEF k
  <2>3. cooldown' \in [Key -> Age \cup {None}]
    BY <1>1, <1>4, KeyOfIsKey, Constants DEF EInv, TypeOK
  <2> QED BY <1>2, <2>1, <2>2, <2>3, GoesOn DEF EInv, TypeOK, TimerIffPending
<1> QED BY <1>3, <1>4 DEF Cool

LEMMA SendInv ==
    ASSUME EInv, NEW h \in Handlers, Send(h)
    PROVE  EInv'
<1>1. /\ handler[h] \in Call /\ OnPath(handler[h])
      /\ handler[h].mac \in MACs /\ Head(handler[h].rules) \in AlertTypes
  BY CallFacts DEF Send, EInv
<1>2. Rest(handler[h]) \in State
  BY <1>1, RestIsState DEF OnPath
<1>3. sent' \in SUBSET Alert
  BY <1>1 DEF Send, Alert
<1>4. handler' = [handler EXCEPT ![h] = Rest(handler[h])]
      /\ UNCHANGED <<cooldown, maintenance, pending, timer, taken, boots>>
  BY DEF Send
<1> QED BY <1>2, <1>3, <1>4, GoesOn DEF EInv, TypeOK, TimerIffPending

LEMMA AddInv ==
    ASSUME EInv, NEW h \in Handlers, Add(h)
    PROVE  EInv'
<1>1. handler[h] \in Call /\ OnPath(handler[h]) /\ handler[h].mac \in MACs
  BY CallFacts DEF Add, EInv
<1>2. Rest(handler[h]) \in State
  BY <1>1, RestIsState DEF OnPath
<1>3. /\ handler' = [handler EXCEPT ![h] = Rest(handler[h])]
      /\ pending' = Append(pending, handler[h].mac)
      /\ timer' = IF timer = None THEN BatchWindow ELSE timer
      /\ sent' = {} /\ UNCHANGED <<cooldown, maintenance, taken, boots>>
  BY DEF Add
<1>4. pending' \in Seq(MACs) /\ pending' # <<>>
  BY <1>1, <1>3 DEF EInv, TypeOK
<1>5. timer' \in 0 .. BatchWindow \cup {None} /\ timer' # None
  BY <1>3, Constants DEF EInv, TypeOK
<1> QED BY <1>2, <1>3, <1>4, <1>5, GoesOn DEF EInv, TypeOK, TimerIffPending

\* Steps outside the calls.
LEMMA AgeingInv ==
    ASSUME EInv, Flush \/ Announce \/ Cleanup \/ Tick \/ \E d \in 0 .. MaxMute : SetMaintenance(d)
    PROVE  EInv'
<1>1. UNCHANGED <<handler, boots>>
  BY DEF Flush, Announce, Cleanup, Tick, SetMaintenance
<1>2. cooldown' \in [Key -> Age \cup {None}]
  <2>1. ASSUME NEW a \in Age \cup {None} PROVE Older(a) \in Age \cup {None}
    BY Constants DEF Older, Age
  <2>2. CASE Tick
    BY <2>1, <2>2 DEF Tick, EInv, TypeOK
  <2>3. CASE Cleanup
    BY <2>3 DEF Cleanup, EInv, TypeOK
  <2>4. CASE UNCHANGED cooldown
    BY <2>4 DEF EInv, TypeOK
  <2> QED BY <2>2, <2>3, <2>4 DEF Flush, Announce, SetMaintenance
<1>3. ASSUME NEW B \in Nat, NEW n \in 0 .. B \cup {None}
      PROVE  /\ Later(n) \in 0 .. B \cup {None} /\ (Later(n) = None <=> n = None)
             /\ n # None => Later(n) \in 0 .. B
  <2>1. CASE n = None
    BY <2>1 DEF Later
  <2>2. CASE n # None
    BY <2>2, Constants DEF Later
  <2> QED BY <2>1, <2>2
<1>4. maintenance' \in 0 .. MaxMute
  BY <1>3, Constants DEF Flush, Announce, Cleanup, Tick, SetMaintenance, EInv, TypeOK
<1>5. /\ pending' \in Seq(MACs) /\ timer' \in 0 .. BatchWindow \cup {None}
      /\ TimerIffPending'
  <2>1. CASE Flush
    BY <2>1 DEF Flush, TimerIffPending
  <2>2. CASE Tick
    <3>1. Later(timer) \in 0 .. BatchWindow \cup {None} /\ (Later(timer) = None <=> timer = None)
      BY <1>3, Constants DEF EInv, TypeOK
    <3>2. timer' = Later(timer) /\ pending' = pending
      BY <2>2 DEF Tick
    <3> QED BY <3>1, <3>2 DEF EInv, TypeOK, TimerIffPending
  <2>3. CASE UNCHANGED <<pending, timer>>
    BY <2>3 DEF EInv, TypeOK, TimerIffPending
  <2> QED BY <2>1, <2>2, <2>3 DEF Announce, Cleanup, SetMaintenance
<1>6. sent' \in SUBSET Alert
  <2>1. CASE Announce
    <3>1. Head(taken) \in MACs
      BY <2>1 DEF Announce, EInv, TypeOK
    <3> QED BY <2>1, <3>1 DEF Announce, Announcement, Alert, AlertTypes
  <2>2. CASE ~Announce
    BY <2>2 DEF Flush, Cleanup, Tick, SetMaintenance
  <2> QED BY <2>1, <2>2
<1>7. taken' \in Seq(MACs)
  <2>1. CASE Flush
    BY <2>1 DEF Flush, EInv, TypeOK
  <2>2. CASE Announce
    BY <2>2 DEF Announce
  <2>3. CASE UNCHANGED taken
    BY <2>3 DEF EInv, TypeOK
  <2> QED BY <2>1, <2>2, <2>3 DEF Cleanup, Tick, SetMaintenance
<1> QED BY <1>1, <1>2, <1>4, <1>5, <1>6, <1>7 DEF EInv, TypeOK

LEMMA RestartInv == EInv /\ Restart => EInv'
<1> SUFFICES ASSUME EInv, Restart PROVE EInv'
  OBVIOUS
<1>1. handler' \in [Handlers -> Call \cup {Free}] /\ \A h \in Handlers : handler'[h] = Free
  BY DEF Restart
<1>2. /\ cooldown' \in [Key -> Age \cup {None}] /\ maintenance' \in 0 .. MaxMute
      /\ pending' = <<>> /\ timer' = None /\ taken' = <<>> /\ sent' = {} /\ boots' \in {0, 1}
  BY DEF Restart, EInv, TypeOK
<1> QED BY <1>1, <1>2 DEF EInv, TypeOK, TimerIffPending

LEMMA EStep == EInv /\ [Next]_vars => EInv'
<1> SUFFICES ASSUME EInv, [Next]_vars PROVE EInv'
  OBVIOUS
<1>1. CASE \E h \in Handlers, m \in MACs, r \in Events : Deliver(h, m, r)
  BY <1>1, DeliverInv
<1>2. CASE \E h \in Handlers : Handle(h)
  BY <1>2, CheckInv, CoolInv, SendInv, AddInv DEF Handle
<1>3. CASE Flush \/ Announce \/ Cleanup \/ Tick \/ \E d \in 0 .. MaxMute : SetMaintenance(d)
  BY <1>3, AgeingInv
<1>4. CASE Restart
  BY <1>4, RestartInv
<1>5. CASE UNCHANGED vars
  BY <1>5 DEF vars, EInv, TypeOK, TimerIffPending
<1> QED BY <1>1, <1>2, <1>3, <1>4, <1>5 DEF Next

\* The variables keep their types, and a call is on the path of its rule: a
\* new-device alert is never cooled, and no other one gets into the batch.
THEOREM TypeCorrect == Spec => []TypeOK
<1>1. EInv => TypeOK
  BY DEF EInv
<1> QED BY <1>1, EInit, EStep, PTL DEF Spec

\* The batch has a timer exactly while it has alerts.
THEOREM TimerIffPendingAlways == Spec => []TimerIffPending
<1>1. EInv => TimerIffPending
  BY DEF EInv
<1> QED BY <1>1, EInit, EStep, PTL DEF Spec

-----------------------------------------------------------------------------
(* The engine implements Throttle.                                          *)

\* What is left of a cooldown, and how a step changes it.
LEMMA RemainingFacts ==
    ASSUME TypeOK, NEW k \in Key
    PROVE  /\ cooldown[k] \in Age \cup {None} /\ Cooldown[k[1]] \in Nat
           /\ Cooldown[k[1]] <= Horizon
           /\ Remaining(k) \in Nat
           /\ ~Cooling(k) => Remaining(k) = 0
<1>1. k[1] \in CooledTypes
  BY DEF Key
<1>2. Cooldown[k[1]] \in Nat /\ Cooldown[k[1]] <= Horizon
  BY <1>1, Constants
<1>3. cooldown[k] \in Age \cup {None}
  BY DEF TypeOK
<1>4. CASE cooldown[k] = None
  BY <1>2, <1>3, <1>4 DEF Remaining
<1>5. CASE cooldown[k] # None
  BY <1>2, <1>3, <1>5, Constants DEF Remaining, Cooling, Age
<1> QED BY <1>2, <1>3, <1>4, <1>5

\* The abstract step of each step.
LEMMA CoolImplements ==
    ASSUME TypeOK, NEW h \in Handlers, Cool(h)
    PROVE  [Dedup!TNext]_(Dedup!tvars)
<1>1. KeyOf(handler[h]) \in Key /\ boots' = boots
  BY KeyOfIsKey DEF Cool
<1>2. CASE cooldown' = cooldown
  BY <1>1, <1>2 DEF Dedup!tvars, Remaining
<1>3. CASE /\ ~Cooling(KeyOf(handler[h]))
           /\ cooldown' = [cooldown EXCEPT ![KeyOf(handler[h])] = 0]
  <2>1. PICK K \in Key : ~Cooling(K) /\ cooldown' = [cooldown EXCEPT ![K] = 0]
    BY <1>1, <1>3
  <2>2. Remaining(K) = 0
    BY <2>1, RemainingFacts
  <2>3. Remaining(K)' = Cooldown[K[1]]
    <3>1. cooldown'[K] = 0 /\ 0 # None
      BY <2>1, Constants DEF TypeOK
    <3>2. Cooldown[K[1]] \in Nat
      BY <2>1, RemainingFacts
    <3> QED BY <3>1, <3>2 DEF Remaining
  <2>4. ASSUME NEW k \in Key, k # K PROVE Remaining(k)' = Remaining(k)
    BY <2>1, <2>4 DEF TypeOK, Remaining
  <2>5. [k \in Key |-> Remaining(k)]' = [[k \in Key |-> Remaining(k)] EXCEPT ![K] = Cooldown[K[1]]]
    BY <2>1, <2>3, <2>4
  <2>6. Dedup!Accept(K)
    BY <1>1, <2>1, <2>2, <2>5 DEF Dedup!Accept
  <2>7. K \in Dedup!Key
    BY <2>1 DEF Key, Dedup!Key
  <2> QED BY <2>6, <2>7 DEF Dedup!TNext
<1> QED BY <1>2, <1>3 DEF Cool

LEMMA TickImplements ==
    ASSUME TypeOK, Tick
    PROVE  Dedup!TTick
<1>1. ASSUME NEW k \in Key
      PROVE  Remaining(k)' = IF Remaining(k) = 0 THEN 0 ELSE Remaining(k) - 1
  <2>1. cooldown'[k] = Older(cooldown[k])
    BY DEF Tick
  <2>2. /\ cooldown[k] \in Age \cup {None} /\ Cooldown[k[1]] \in Nat
        /\ Cooldown[k[1]] <= Horizon /\ Horizon \in Nat
    BY RemainingFacts, Constants
  <2>3. CASE cooldown[k] = None
    BY <2>1, <2>3 DEF Remaining, Older
  <2>4. CASE cooldown[k] # None
    <3>1. cooldown[k] \in Nat /\ cooldown[k] <= Horizon
      BY <2>2, <2>4 DEF Age
    <3>2. cooldown'[k] = (IF cooldown[k] = Horizon THEN Horizon ELSE cooldown[k] + 1)
          /\ cooldown'[k] # None
      BY <2>1, <2>2, <2>4, <3>1, Constants DEF Older
    <3> QED BY <2>2, <2>4, <3>1, <3>2 DEF Remaining
  <2> QED BY <2>3, <2>4
<1>2. [k \in Key |-> Remaining(k)]'
        = [k \in Key |-> IF Remaining(k) = 0 THEN 0 ELSE Remaining(k) - 1]
  BY <1>1
<1>3. boots' = boots
  BY DEF Tick
<1>4. Dedup!Key = Key
  BY DEF Key, Dedup!Key
<1> QED BY <1>2, <1>3, <1>4 DEF Dedup!TTick

LEMMA CleanupImplements ==
    ASSUME TypeOK, Cleanup, \A t \in CooledTypes : Cooldown[t] <= CleanupAge + 1
    PROVE  UNCHANGED Dedup!tvars
<1>1. ASSUME NEW k \in Key PROVE Remaining(k)' = Remaining(k)
  <2>1. /\ cooldown[k] \in Age \cup {None} /\ Cooldown[k[1]] \in Nat
        /\ Cooldown[k[1]] <= CleanupAge + 1 /\ CleanupAge \in Nat
    BY RemainingFacts, Constants DEF Key
  <2>2. CASE cooldown'[k] = cooldown[k]
    BY <2>2 DEF Remaining
  <2>3. CASE cooldown[k] # None /\ cooldown[k] > CleanupAge /\ cooldown'[k] = None
    BY <2>1, <2>3 DEF Remaining, Age
  <2> QED BY <2>2, <2>3 DEF Cleanup
<1> QED BY <1>1 DEF Cleanup, Dedup!tvars

LEMMA RestartImplements ==
    ASSUME Restart
    PROVE  Dedup!TRestart
<1>1. \A k \in Key : Remaining(k)' = 0
  BY DEF Restart, Remaining
<1>2. Dedup!Key = Key
  BY DEF Key, Dedup!Key
<1> QED BY <1>1, <1>2 DEF Restart, Dedup!TRestart

\* "Dedup & Cooldown" of docs/alerting.md: of alerts with the same type and MAC
\* one is accepted, and the next only when the cooldown of its type is over,
\* whichever goroutines meet and whenever the cleanup runs, if no cooldown
\* is longer than the age at which the cleanup forgets an alert.
THEOREM ImplementsThrottle ==
    ASSUME \A t \in CooledTypes : Cooldown[t] <= CleanupAge + 1
    PROVE  Spec => ThrottleSpec
<1>1. Init => Dedup!TInit
  <2> SUFFICES ASSUME Init PROVE Dedup!TInit
    OBVIOUS
  <2>1. \A k \in Key : Remaining(k) = 0
    BY DEF Init, Remaining
  <2>2. Dedup!Key = Key
    BY DEF Key, Dedup!Key
  <2> QED BY <2>1, <2>2 DEF Init, Dedup!TInit
<1>2. EInv /\ [Next]_vars => [Dedup!TNext]_(Dedup!tvars)
  <2> SUFFICES ASSUME EInv, [Next]_vars PROVE [Dedup!TNext]_(Dedup!tvars)
    OBVIOUS
  <2>1. CASE \E h \in Handlers : Cool(h)
    BY <2>1, CoolImplements DEF EInv
  <2>2. CASE Tick
    BY <2>2, TickImplements DEF EInv, Dedup!TNext
  <2>3. CASE Restart
    BY <2>3, RestartImplements DEF Dedup!TNext
  <2>4. CASE Cleanup
    BY <2>4, CleanupImplements DEF EInv
  <2>5. CASE UNCHANGED <<cooldown, boots>>
    BY <2>5 DEF Dedup!tvars, Remaining
  <2>6. CASE \E h \in Handlers, m \in MACs, r \in Events : Deliver(h, m, r)
    BY <2>5, <2>6 DEF Deliver
  <2>7. CASE \E h \in Handlers : CheckMaintenance(h) \/ Send(h) \/ Add(h)
    BY <2>5, <2>7 DEF CheckMaintenance, Send, Add
  <2>8. CASE Flush \/ Announce \/ \E d \in 0 .. MaxMute : SetMaintenance(d)
    BY <2>5, <2>8 DEF Flush, Announce, SetMaintenance
  <2>9. CASE UNCHANGED vars
    BY <2>5, <2>9 DEF vars
  <2> QED BY <2>1, <2>2, <2>3, <2>4, <2>6, <2>7, <2>8, <2>9 DEF Next, Handle
<1> QED BY <1>1, <1>2, EInit, EStep, PTL DEF Spec, ThrottleSpec, Dedup!TSpec

=============================================================================
