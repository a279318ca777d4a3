--------------------------- MODULE SettingsSafety ---------------------------
(***************************************************************************)
(* Safety of Settings, for every number of requests and of values: what is *)
(* saved is what is in force, and what a restart changes.                  *)
(***************************************************************************)
EXTENDS Settings, TLAPS

Call == [pc : {"free", "change", "truncate", "write", "apply"},
         section : Sections, cfg : AppSettings]

LEMMA ZeroFacts == /\ Zero \in AppSettings /\ Live = AppSettings
                   /\ Free \in Call /\ Free.pc = "free"
                   /\ Unusable("missing") \in File /\ Unusable("empty") \in File
                   /\ Unusable("garbled") \in File
                   /\ \A f \in File : f.cfg \in AppSettings
                   /\ \A cfg \in AppSettings : [is |-> "saved", cfg |-> cfg] \in File
<1>1. Zero \in AppSettings /\ Live = AppSettings
  BY DEF Zero, AppSettings, Live
<1>2. Free \in Call /\ Free.pc = "free"
  BY <1>1 DEF Free, Call, Sections
<1>3. \A f \in File : f.cfg \in AppSettings
  BY <1>1 DEF File
<1>4. /\ \A why \in {"missing", "empty", "garbled"} : Unusable(why) \in File
      /\ \A cfg \in AppSettings : [is |-> "saved", cfg |-> cfg] \in File
  BY DEF Unusable, File
<1> QED BY <1>1, <1>2, <1>3, <1>4

\* A start puts settings in force.
LEMMA RestoredIsLive ==
    ASSUME NEW cfg \in AppSettings
    PROVE  Restored(cfg) \in Live
BY SettingsAssumption DEF SettingsAssumption, Restored, AppSettings, Live

\* If silentmap.yaml configures no channel, those that were saved.
LEMMA RestoredIsSaved ==
    ASSUME Configured = Unset, NEW cfg \in AppSettings
    PROVE  Restored(cfg) = cfg
<1>1. Restored(cfg).channel = cfg.channel
  BY DEF Restored
<1> QED BY <1>1 DEF Restored, AppSettings

-----------------------------------------------------------------------------
(* Types.                                                                   *)

\* The call of c goes on to k.
LEMMA GoesOn ==
    ASSUME TypeOK, NEW c \in Clients, NEW k \in Call, client' = [client EXCEPT ![c] = k]
    PROVE  /\ client' \in [Clients -> Call] /\ client'[c] = k
           /\ \A d \in Clients : d # c => client'[d] = client[d]
<1>1. client \in [Clients -> Call]
  BY DEF TypeOK, Call
<1>2. client' \in [Clients -> Call]
  BY <1>1
<1>3. client'[c] = k
  BY <1>1
<1>4. \A d \in Clients : d # c => client'[d] = client[d]
  BY <1>1
<1> QED BY <1>2, <1>3, <1>4

\* What a handler changes, it changes in its own section.
LEMMA ChangeFacts ==
    ASSUME TypeOK, NEW c \in Clients, Change(c)
    PROVE  \E cfg \in AppSettings :
             /\ client' = [client EXCEPT ![c] = [client[c] EXCEPT !.cfg = cfg, !.pc = "truncate"]]
             /\ \A s \in DOMAIN live : s # client[c].section => cfg[s] = client[c].cfg[s]
<1> DEFINE old == client[c].cfg
<1>1. client[c] \in Call /\ old \in AppSettings /\ live \in Live
  BY DEF TypeOK, Call
<1>2. CASE toggleListening(c)
  <2> DEFINE toggled == ~live.listening
             new == [old EXCEPT !.listening = toggled]
  <2>1. toggled \in BOOLEAN
    BY <1>1 DEF Live
  <2>2. client' = [client EXCEPT ![c].cfg.listening = toggled, ![c].pc = "truncate"]
        /\ client[c].section = "listening"
    BY <1>2 DEF toggleListening
  <2> HIDE DEF toggled
  <2>3. client' = [client EXCEPT ![c] = [client[c] EXCEPT !.cfg = new, !.pc = "truncate"]]
    BY <1>1, <2>2 DEF TypeOK, Call
  <2>4. new \in AppSettings
    BY <1>1, <2>1 DEF AppSettings
  <2>5. \A s \in DOMAIN live : s # "listening" => new[s] = old[s]
    BY <1>1 DEF AppSettings, Live
  <2> QED BY <2>2, <2>3, <2>4, <2>5
<1>3. CASE setMaintenance(c)
  <2>1. PICK on \in BOOLEAN :
          client' = [client EXCEPT ![c].cfg.maintenance = on, ![c].pc = "truncate"]
    BY <1>3 DEF setMaintenance
  <2> DEFINE new == [old EXCEPT !.maintenance = on]
  <2>2. client[c].section = "maintenance"
    BY <1>3 DEF setMaintenance
  <2>3. client' = [client EXCEPT ![c] = [client[c] EXCEPT !.cfg = new, !.pc = "truncate"]]
    BY <1>1, <2>1 DEF TypeOK, Call
  <2>4. new \in AppSettings
    BY <1>1 DEF AppSettings
  <2>5. \A s \in DOMAIN live : s # "maintenance" => new[s] = old[s]
    BY <1>1 DEF AppSettings, Live
  <2> QED BY <2>2, <2>3, <2>4, <2>5
<1>4. CASE setChannel(c)
  <2>1. PICK v \in Channels \cup {Unset} :
          client' = [client EXCEPT ![c].cfg.channel = v, ![c].pc = "truncate"]
    BY <1>4 DEF setChannel
  <2> DEFINE new == [old EXCEPT !.channel = v]
  <2>2. client[c].section = "channel"
    BY <1>4 DEF setChannel
  <2>3. client' = [client EXCEPT ![c] = [client[c] EXCEPT !.cfg = new, !.pc = "truncate"]]
    BY <1>1, <2>1 DEF TypeOK, Call
  <2>4. new \in AppSettings
    BY <1>1 DEF AppSettings
  <2>5. \A s \in DOMAIN live : s # "channel" => new[s] = old[s]
    BY <1>1 DEF AppSettings, Live
  <2> QED BY <2>2, <2>3, <2>4, <2>5
<1>5. CASE setPoller(c)
  <2>1. PICK v \in Pollers :
          client' = [client EXCEPT ![c].cfg.poller = v, ![c].pc = "truncate"]
    BY <1>5 DEF setPoller
  <2> DEFINE new == [old EXCEPT !.poller = v]
  <2>2. client[c].section = "poller"
    BY <1>5 DEF setPoller
  <2>3. client' = [client EXCEPT ![c] = [client[c] EXCEPT !.cfg = new, !.pc = "truncate"]]
    BY <1>1, <2>1 DEF TypeOK, Call
  <2>4. new \in AppSettings
    BY <1>1 DEF AppSettings
  <2>5. \A s \in DOMAIN live : s # "poller" => new[s] = old[s]
    BY <1>1 DEF AppSettings, Live
  <2> QED BY <2>2, <2>3, <2>4, <2>5
<1>6. CASE setAutoNmap(c)
  <2>1. client' = [client EXCEPT ![c].pc = "truncate"]
    BY <1>6 DEF setAutoNmap
  <2>2. client' = [client EXCEPT ![c] = [client[c] EXCEPT !.cfg = old, !.pc = "truncate"]]
    BY <1>1, <2>1 DEF TypeOK, Call
  <2> QED BY <1>1, <2>2
<1> QED BY <1>2, <1>3, <1>4, <1>5, <1>6 DEF Change

\* What a handler does next, and what of the state it leaves.
LEMMA HandleType ==
    ASSUME TypeOK, NEW c \in Clients, Handle(c)
    PROVE  TypeOK'
<1>1. client[c] \in Call /\ client[c].cfg \in AppSettings /\ client[c].section \in Sections
      /\ file.cfg \in AppSettings
  BY ZeroFacts DEF TypeOK, Call
<1>2. CASE \E section \in Sections : Load(c, section)
  <2>1. PICK section \in Sections : Load(c, section)
    BY <1>2
  <2> DEFINE k == [pc |-> "change", section |-> section, cfg |-> file.cfg]
  <2>2. k \in Call
    BY <1>1 DEF Call
  <2>3. client' = [client EXCEPT ![c] = k]
    BY <2>1 DEF Load, loadAppSettings
  <2>4. disturbed' \in BOOLEAN
    BY <2>1 DEF Load
  <2> HIDE DEF k
  <2>5. client' \in [Clients -> Call]
    BY <2>2, <2>3, GoesOn
  <2> QED BY <2>1, <2>4, <2>5 DEF Load, TypeOK, Call
<1>3. CASE Change(c)
  <2>1. PICK cfg \in AppSettings :
          client' = [client EXCEPT ![c] = [client[c] EXCEPT !.cfg = cfg, !.pc = "truncate"]]
    BY <1>3, ChangeFacts
  <2>2. client' \in [Clients -> Call]
    BY <1>1, <2>1 DEF TypeOK, Call
  <2> QED BY <1>3, <2>2 DEF Change, TypeOK, Call
<1>4. CASE Truncate(c) \/ WriteOut(c) \/ SaveFails(c)
  <2>1. PICK pc \in {"write", "apply"} : client' = [client EXCEPT ![c].pc = pc]
    BY <1>4 DEF Truncate, WriteOut, SaveFails
  <2>2. client' \in [Clients -> Call]
    BY <2>1 DEF TypeOK, Call
  <2>3. file' \in File
    BY <1>1, <1>4, ZeroFacts DEF Truncate, WriteOut, SaveFails, TypeOK
  <2>4. disturbed' \in BOOLEAN /\ UNCHANGED <<live, boots>>
    BY <1>4 DEF Truncate, WriteOut, SaveFails, TypeOK
  <2> QED BY <2>2, <2>3, <2>4 DEF TypeOK, Call
<1>5. CASE Apply(c)
  <2>1. client' \in [Clients -> Call]
    BY <1>5, ZeroFacts DEF Apply, TypeOK, Call
  <2>2. live' \in Live
    BY <1>1, <1>5 DEF Apply, TypeOK, Live, AppSettings
  <2> QED BY <1>5, <2>1, <2>2 DEF Apply, TypeOK, Call
<1>6. CASE settingsError(c)
  <2>1. client' \in [Clients -> Call]
    BY <1>6, ZeroFacts DEF settingsError, TypeOK, Call
  <2> QED BY <1>6, <2>1 DEF settingsError, TypeOK, Call
<1> QED BY <1>2, <1>3, <1>4, <1>5, <1>6 DEF Handle

LEMMA RestartType == TypeOK /\ Restart => TypeOK'
<1> SUFFICES ASSUME TypeOK, Restart PROVE TypeOK'
  OBVIOUS
<1>1. live' \in Live
  BY ZeroFacts, RestoredIsLive DEF Restart, TypeOK, loadAppSettings
<1>2. client' \in [Clients -> Call] /\ boots' \in {0, 1}
  BY ZeroFacts DEF Restart, TypeOK
<1> QED BY <1>1, <1>2 DEF Restart, TypeOK, Call

LEMMA TypeStep == TypeOK /\ [Next]_vars => TypeOK'
<1> SUFFICES ASSUME TypeOK, [Next]_vars PROVE TypeOK'
  OBVIOUS
<1>1. CASE \E c \in Clients : Handle(c)
  BY <1>1, HandleType
<1>2. CASE Restart
  BY <1>2, RestartType
<1>3. CASE UNCHANGED vars
  BY <1>3 DEF vars, TypeOK
<1> QED BY <1>1, <1>2, <1>3 DEF Next

LEMMA TypeInit == Init => TypeOK
<1> SUFFICES ASSUME Init PROVE TypeOK
  OBVIOUS
<1>1. live \in Live
  BY ZeroFacts, RestoredIsLive DEF Init
<1>2. client \in [Clients -> Call]
  BY ZeroFacts DEF Init
<1> QED BY <1>1, <1>2, ZeroFacts DEF Init, TypeOK, Call

\* However requests overlap and saves fail, the file holds the settings of one
\* save, or nothing the program can use.
THEOREM TypeCorrect == Spec => []TypeOK
BY TypeInit, TypeStep, PTL DEF Spec

-----------------------------------------------------------------------------
(* What is saved and what is in force, undisturbed.                         *)

Names == {"listening", "maintenance", "channel", "poller"}

LEMMA NamesAreSections ==
    ASSUME NEW a \in AppSettings
    PROVE  /\ DOMAIN a = Names
           /\ \A b \in AppSettings : (\A s \in Names : a[s] = b[s]) => a = b
BY DEF AppSettings, Names

\* Two settings are the same but for a section.
Agree(a, b, section) == \A s \in Names : s # section => a[s] = b[s]

\* One request at a time, and what of its work is done.
Working(c) ==
    LET k == client[c] IN
    /\ \A d \in Clients : d # c => client[d].pc = "free"
    /\ k.pc = "change" => k.cfg = file.cfg /\ live = file.cfg
    /\ k.pc = "truncate" => live = file.cfg /\ Agree(live, k.cfg, k.section)
    /\ k.pc = "write" => file.is = "empty" /\ Agree(live, k.cfg, k.section)
    /\ k.pc = "apply" => file.cfg = k.cfg /\ Agree(live, k.cfg, k.section)

Undisturbed == ~disturbed =>
    /\ \A c \in Clients : client[c].pc # "free" => Working(c)
    /\ (\A c \in Clients : client[c].pc = "free") => live = file.cfg

SInv == TypeOK /\ Undisturbed

\* It is enough to look at the one call.
LEMMA OneCall ==
    ASSUME NEW c \in Clients, \A d \in Clients : d # c => client[d].pc = "free",
           client[c].pc # "free" => Working(c), client[c].pc = "free" => live = file.cfg
    PROVE  Undisturbed
BY DEF Undisturbed

LEMMA HandleUndisturbed ==
    ASSUME SInv, NEW c \in Clients, Handle(c)
    PROVE  Undisturbed'
<1> SUFFICES ASSUME ~disturbed' PROVE Undisturbed'
  BY DEF Undisturbed
<1>1. client[c] \in Call /\ client[c].cfg \in AppSettings /\ live \in AppSettings
      /\ TypeOK
  BY ZeroFacts DEF SInv, TypeOK, Call
<1>2. CASE \E section \in Sections : Load(c, section)
  <2>1. PICK section \in Sections : Load(c, section)
    BY <1>2
  <2> DEFINE k == [pc |-> "change", section |-> section, cfg |-> file.cfg]
  <2>2. client' = [client EXCEPT ![c] = k] /\ k.pc = "change" /\ k.cfg = file.cfg
    BY <2>1 DEF Load, loadAppSettings
  <2>3. k \in Call
    BY ZeroFacts DEF Call, SInv, TypeOK
  <2>4. ~disturbed /\ \A d \in Clients : client[d].pc = "free"
    BY <2>1 DEF Load
  <2>5. live = file.cfg /\ UNCHANGED <<file, live>>
    BY <2>1, <2>4 DEF Load, SInv, Undisturbed
  <2> HIDE DEF k
  <2>6. client'[c] = k /\ \A d \in Clients : d # c => client'[d] = client[d]
    BY <1>1, <2>2, <2>3, GoesOn
  <2>7. Working(c)'
    BY <2>2, <2>4, <2>5, <2>6 DEF Working
  <2> QED BY <2>2, <2>4, <2>6, <2>7 DEF Undisturbed
<1>3. CASE ~\E section \in Sections : Load(c, section)
  <2>1. client[c].pc # "free"
    BY <1>3 DEF Handle, Change, settingsError, Truncate, WriteOut, SaveFails, Apply
  <2>2. ~disturbed /\ ~SaveFails(c)
    BY <1>3 DEF Handle, Change, settingsError, Truncate, WriteOut, SaveFails, Apply
  <2>3. Working(c)
    BY <2>1, <2>2 DEF SInv, Undisturbed
  <2>4. CASE Change(c)
    <3>1. PICK cfg \in AppSettings :
             /\ client' = [client EXCEPT ![c] = [client[c] EXCEPT !.cfg = cfg, !.pc = "truncate"]]
             /\ \A s \in DOMAIN live : s # client[c].section => cfg[s] = client[c].cfg[s]
      BY <1>1, <2>4, ChangeFacts
    <3> DEFINE k == [client[c] EXCEPT !.cfg = cfg, !.pc = "truncate"]
    <3>2. k \in Call /\ k.pc = "truncate" /\ k.cfg = cfg /\ k.section = client[c].section
      BY <1>1 DEF Call
    <3>3. client' = [client EXCEPT ![c] = k]
      BY <3>1
    <3> HIDE DEF k
    <3>4. client'[c] = k /\ \A d \in Clients : d # c => client'[d] = client[d]
      BY <1>1, <3>2, <3>3, GoesOn
    <3>5. live = file.cfg /\ client[c].cfg = file.cfg /\ UNCHANGED <<file, live>>
      BY <2>3, <2>4 DEF Working, Change
    <3>6. Agree(live, cfg, client[c].section)
      BY <1>1, <3>1, <3>5, NamesAreSections DEF Agree
    <3>7. Working(c)'
      BY <2>3, <3>2, <3>4, <3>5, <3>6 DEF Working, Agree
    <3> QED BY <2>3, <3>2, <3>4, <3>7 DEF Undisturbed, Working
  <2>5. CASE Truncate(c) \/ WriteOut(c)
    <3>1. PICK pc \in {"write", "apply"} : client' = [client EXCEPT ![c].pc = pc]
      BY <2>5 DEF Truncate, WriteOut
    <3> DEFINE k == [client[c] EXCEPT !.pc = pc]
    <3>2. k \in Call /\ k.pc = pc /\ k.cfg = client[c].cfg /\ k.section = client[c].section
      BY <1>1 DEF Call
    <3>3. client' = [client EXCEPT ![c] = k]
      BY <1>1, <3>1 DEF TypeOK
    <3> HIDE DEF k
    <3>4. client'[c] = k /\ \A d \in Clients : d # c => client'[d] = client[d]
      BY <1>1, <3>2, <3>3, GoesOn
    <3>5. CASE Truncate(c)
      <4>1. pc = "write"
        BY <1>1, <3>2, <3>4, <3>5 DEF Truncate, TypeOK
      <4>2. file'.is = "empty" /\ live' = live /\ Agree(live, client[c].cfg, client[c].section)
        BY <2>3, <3>5 DEF Truncate, Unusable, Working
      <4> QED BY <2>3, <3>2, <3>4, <4>1, <4>2 DEF Undisturbed, Working, Agree
    <3>6. CASE WriteOut(c)
      <4>1. pc = "apply"
        BY <1>1, <3>2, <3>4, <3>6 DEF WriteOut, TypeOK
      <4>2. file'.cfg = client[c].cfg /\ live' = live
            /\ Agree(live, client[c].cfg, client[c].section)
        BY <2>3, <3>6 DEF WriteOut, Working
      <4> QED BY <2>3, <3>2, <3>4, <4>1, <4>2 DEF Undisturbed, Working, Agree
    <3> QED BY <2>5, <3>5, <3>6
  <2>6. CASE Apply(c)
    <3> DEFINE cfg == client[c].cfg
               section == client[c].section
    <3>1. file.cfg = cfg /\ Agree(live, cfg, section) /\ section \in Sections
      BY <1>1, <2>3, <2>6 DEF Working, Apply, Call
    <3>2. live' = cfg
      <4>1. live' \in AppSettings
        BY <1>1, <2>6, HandleType, ZeroFacts DEF Handle, TypeOK
      <4>2. ASSUME NEW s \in Names PROVE live'[s] = cfg[s]
        BY <1>1, <2>6, <3>1 DEF Apply, Agree, Names, Sections, AppSettings
      <4> HIDE DEF cfg
      <4>3. cfg \in AppSettings
        BY <1>1 DEF cfg
      <4> QED BY <4>1, <4>2, <4>3, NamesAreSections
    <3>3. client' = [client EXCEPT ![c] = Free] /\ file' = file
      BY <2>6 DEF Apply
    <3>4. \A d \in Clients : client'[d].pc = "free"
      BY <1>1, <2>3, <3>3, ZeroFacts DEF Working, TypeOK
    <3> QED BY <3>1, <3>2, <3>3, <3>4 DEF Undisturbed
  <2>7. CASE settingsError(c)
    <3>1. client' = [client EXCEPT ![c] = Free] /\ UNCHANGED <<file, live>>
          /\ client[c].pc = "change"
      BY <2>7 DEF settingsError
    <3>2. live = file.cfg
      BY <2>3, <3>1 DEF Working
    <3>3. \A d \in Clients : client'[d].pc = "free"
      BY <1>1, <2>3, <3>1, ZeroFacts DEF Working, TypeOK
    <3> QED BY <3>1, <3>2, <3>3 DEF Undisturbed
  <2> QED BY <1>3, <2>2, <2>4, <2>5, <2>6, <2>7 DEF Handle
<1> QED BY <1>2, <1>3

LEMMA SStep == Configured = Unset /\ SInv /\ [Next]_vars => SInv'
<1> SUFFICES ASSUME Configured = Unset, SInv, [Next]_vars PROVE SInv'
  OBVIOUS
<1>1. TypeOK'
  BY TypeStep DEF SInv
<1>2. CASE \E c \in Clients : Handle(c)
  BY <1>1, <1>2, HandleUndisturbed DEF SInv
<1>3. CASE Restart
  <2>1. file.cfg \in AppSettings
    BY ZeroFacts DEF SInv, TypeOK
  <2>2. live' = file'.cfg /\ \A c \in Clients : client'[c].pc = "free"
    BY <1>3, <2>1, RestoredIsSaved, ZeroFacts DEF Restart, loadAppSettings
  <2> QED BY <1>1, <2>2 DEF SInv, Undisturbed
<1>4. CASE UNCHANGED vars
  BY <1>1, <1>4 DEF vars, SInv, Undisturbed, Working, Agree
<1> QED BY <1>2, <1>3, <1>4 DEF Next

LEMMA SInit == Configured = Unset /\ Init => SInv
<1> SUFFICES ASSUME Configured = Unset, Init PROVE SInv
  OBVIOUS
<1>1. live = Zero /\ file.cfg = Zero
  BY ZeroFacts, RestoredIsSaved DEF Init, Unusable
<1>2. \A c \in Clients : client[c].pc = "free"
  BY ZeroFacts DEF Init
<1> QED BY <1>1, <1>2, TypeInit DEF SInv, Undisturbed

\* If silentmap.yaml configures no channel, then between requests that do not
\* overlap what is in force is what a restart would put in force again.
THEOREM SavedIsInForceAlways ==
    ASSUME Configured = Unset
    PROVE  Spec => []SavedIsInForce
<1>1. SInv => SavedIsInForce
  <2> SUFFICES ASSUME SInv, ~disturbed, \A c \in Clients : client[c].pc = "free"
               PROVE  live = Restored(loadAppSettings)
    BY DEF SavedIsInForce
  <2>1. file.cfg \in AppSettings /\ live = file.cfg
    BY ZeroFacts DEF SInv, TypeOK, Undisturbed
  <2> QED BY <2>1, RestoredIsSaved DEF loadAppSettings
<1> QED BY <1>1, SInit, SStep, PTL DEF Spec

\* And a restart at any moment but between the halves of os.WriteFile changes at
\* most the section that was being saved.
THEOREM RestartKeepsSettings ==
    ASSUME Configured = Unset
    PROVE  Spec => RestartKeeps
<1>1. SInv /\ [Next]_vars => [RestartIsHarmless]_vars
  <2> SUFFICES ASSUME SInv, [Next]_vars, boots' # boots, ~disturbed,
                      \A c \in Clients : client[c].pc # "write",
                      NEW section \in DOMAIN live
               PROVE  live'[section] = live[section] \/ InFlight(section)
    BY DEF RestartIsHarmless
  <2>1. Restart
    BY DEF Next, Handle, Load, Change, settingsError, Truncate, WriteOut, SaveFails, Apply, vars
  <2>2. file.cfg \in AppSettings /\ live \in AppSettings
    BY ZeroFacts DEF SInv, TypeOK
  <2>3. live' = file.cfg
    BY <2>1, <2>2, RestoredIsSaved DEF Restart, loadAppSettings
  <2>4. CASE \E c \in Clients : client[c].pc = "apply"
    <3>1. PICK c \in Clients : client[c].pc = "apply"
      BY <2>4
    <3>2. file.cfg = client[c].cfg /\ Agree(live, client[c].cfg, client[c].section)
      BY <3>1 DEF SInv, Undisturbed, Working
    <3>3. section \in Names
      BY <2>2, NamesAreSections
    <3>4. CASE client[c].section = section
      BY <3>1, <3>4 DEF InFlight
    <3>5. CASE client[c].section # section
      BY <2>3, <3>2, <3>3, <3>5 DEF Agree
    <3> QED BY <3>4, <3>5
  <2>5. CASE \E c \in Clients : client[c].pc \in {"change", "truncate"}
    BY <2>3, <2>5 DEF SInv, Undisturbed, Working
  <2>6. CASE \A c \in Clients : client[c].pc = "free"
    BY <2>3, <2>6 DEF SInv, Undisturbed
  <2> QED BY <2>4, <2>5, <2>6 DEF SInv, TypeOK
<1> QED BY <1>1, SInit, SStep, PTL DEF Spec, RestartKeeps

=============================================================================
