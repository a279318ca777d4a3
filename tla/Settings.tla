------------------------------ MODULE Settings ------------------------------
(***************************************************************************)
(* The settings the web server keeps in settings.json and hands to the     *)
(* running components (internal/web/server.go): every handler loads the    *)
(* whole file, changes its own section, saves the whole file with          *)
(* os.WriteFile, and then applies its section to the component.  Nothing   *)
(* serialises two handlers, and os.WriteFile first empties the file.       *)
(*                                                                         *)
(* Five sections stand for all: listening, which is toggled from its live  *)
(* value; maintenance; channel (discord, ntfy, email, webhook), whose      *)
(* "switched off, no URL" is stored like a section never saved; poller     *)
(* (ping, http_check), whose saved interval is never 0; and autoNmap,      *)
(* which is only ever read from the file: what it holds is left out, that  *)
(* saving it saves everything is not.                                      *)
(***************************************************************************)
EXTENDS Naturals

CONSTANTS
    Clients,    \* requests to the settings page under way at once
    Channels,   \* the settings of a channel that is on or has a URL
    Pollers,    \* the saved settings of a poller
    Unset,      \* the zero value: a channel off without URL, a poller never saved
    Configured, \* the channel as silentmap.yaml configures it
    Failures    \* whether a save may fail, say for a full disk

ASSUME SettingsAssumption ==
    /\ Unset \notin Channels \cup Pollers
    /\ Configured \in Channels \cup {Unset}
    /\ Failures \in BOOLEAN

\* AppSettings.
AppSettings == [listening   : BOOLEAN,
                maintenance : BOOLEAN,
                channel     : Channels \cup {Unset},
                poller      : Pollers \cup {Unset}]

\* AppSettings{}, which loadAppSettings returns for a file it cannot use.
Zero == [listening |-> FALSE, maintenance |-> FALSE, channel |-> Unset,
         poller |-> Unset]

\* The file: the settings of one save, or nothing loadAppSettings can use.
File == [is : {"saved"}, cfg : AppSettings]
        \cup [is : {"missing", "empty", "garbled"}, cfg : {Zero}]

Unusable(why) == [is |-> why, cfg |-> Zero]

\* The components' own copies; the pollers' own default is Unset here.
Live == [listening : BOOLEAN, maintenance : BOOLEAN,
         channel : Channels \cup {Unset}, poller : Pollers \cup {Unset}]

Sections == {"listening", "maintenance", "channel", "poller", "autoNmap"}

VARIABLES
    file,     \* settings.json
    live,     \* what is in force
    client,   \* Clients -> the handler call in progress
    boots,    \* number of starts of the process, modulo 2
    disturbed \* history: two requests have overlapped, or a save has failed

vars == <<file, live, client, boots, disturbed>>

Free == [pc |-> "free", section |-> "autoNmap", cfg |-> Zero]

loadAppSettings == file.cfg

\* Faulty variant: the start forgets the maintenance.
RestoredUnmaintained(cfg) ==
    [listening   |-> cfg.listening,
     maintenance |-> FALSE,
     channel     |-> IF cfg.channel = Unset THEN Configured ELSE cfg.channel,
     poller      |-> cfg.poller]

\* What NewServer puts in force, given the settings it has loaded.
Restored(cfg) == [listening   |-> cfg.listening,
                  maintenance |-> cfg.maintenance,
                  channel     |-> IF cfg.channel = Unset THEN Configured ELSE cfg.channel,
                  poller      |-> cfg.poller]

\* A data directory without settings.json.
Init ==
    /\ file = Unusable("missing")
    /\ live = Restored(Zero)
    /\ client = [c \in Clients |-> Free]
    /\ boots = 0
    /\ disturbed = FALSE

-----------------------------------------------------------------------------

\* Faulty variant: the handler starts from AppSettings{}.
LoadNothing(c, section) ==
    /\ client[c].pc = "free"
    /\ client' = [client EXCEPT ![c] = [pc |-> "change", section |-> section, cfg |-> Zero]]
    /\ disturbed' = (disturbed \/ \E d \in Clients \ {c} : client[d].pc # "free")
    /\ UNCHANGED <<file, live, boots>>

Load(c, section) ==
    /\ client[c].pc = "free"
    /\ client' = [client EXCEPT ![c] =
           [pc |-> "change", section |-> section, cfg |-> loadAppSettings]]
    /\ disturbed' = (disturbed \/ \E d \in Clients \ {c} : client[d].pc # "free")
    /\ UNCHANGED <<file, live, boots>>

\* Each handler's change to the settings it has loaded.
toggleListening(c) ==
    /\ client[c].section = "listening"
    /\ client' = [client EXCEPT ![c].cfg.listening = ~live.listening, ![c].pc = "truncate"]

setMaintenance(c) ==
    /\ client[c].section = "maintenance"
    /\ \E on \in BOOLEAN :
         client' = [client EXCEPT ![c].cfg.maintenance = on, ![c].pc = "truncate"]

\* A form without a URL leaves the stored one; the e-mail form always brings the
\* host, and an empty one unsets the channel.
setChannel(c) ==
    /\ client[c].section = "channel"
    /\ \E v \in Channels \cup {Unset} :
         client' = [client EXCEPT ![c].cfg.channel = v, ![c].pc = "truncate"]

setPoller(c) ==
    /\ client[c].section = "poller"
    /\ \E v \in Pollers :
         client' = [client EXCEPT ![c].cfg.poller = v, ![c].pc = "truncate"]

setAutoNmap(c) ==
    /\ client[c].section = "autoNmap"
    /\ client' = [client EXCEPT ![c].pc = "truncate"]

Change(c) ==
    /\ client[c].pc = "change"
    /\ toggleListening(c) \/ setMaintenance(c) \/ setChannel(c)
       \/ setPoller(c) \/ setAutoNmap(c)
    /\ UNCHANGED <<file, live, boots, disturbed>>

\* A channel's form that does not pass its checks ends the request.
settingsError(c) ==
    /\ client[c].pc = "change" /\ client[c].section = "channel"
    /\ client' = [client EXCEPT ![c] = Free]
    /\ UNCHANGED <<file, live, boots, disturbed>>

\* Faulty variant: what was in the file is still found there.
TruncateKeeps(c) ==
    /\ client[c].pc = "truncate"
    /\ file' = [file EXCEPT !.is = "empty"]
    /\ client' = [client EXCEPT ![c].pc = "write"]
    /\ UNCHANGED <<live, boots, disturbed>>

\* saveAppSettings: os.WriteFile opens the file, emptying it ...
Truncate(c) ==
    /\ client[c].pc = "truncate"
    /\ file' = Unusable("empty")
    /\ client' = [client EXCEPT ![c].pc = "write"]
    /\ UNCHANGED <<live, boots, disturbed>>

\* ... and writes from its start.  If another handler has written since, and
\* more, the tail of that stays.
WriteOut(c) ==
    /\ client[c].pc = "write"
    /\ \/ file' = [is |-> "saved", cfg |-> client[c].cfg]
       \/ file.is # "empty" /\ file' = Unusable("garbled")
    /\ client' = [client EXCEPT ![c].pc = "apply"]
    /\ UNCHANGED <<live, boots, disturbed>>

\* A save that fails is logged, and the handler goes on.
SaveFails(c) ==
    /\ Failures
    /\ client[c].pc \in {"truncate", "write"}
    /\ client' = [client EXCEPT ![c].pc = "apply"]
    /\ disturbed' = TRUE
    /\ UNCHANGED <<file, live, boots>>

\* The handler's own section, from the settings it has saved.
Apply(c) ==
    LET cfg == client[c].cfg IN
    /\ client[c].pc = "apply"
    /\ live' = CASE client[c].section = "listening"   -> [live EXCEPT !.listening = cfg.listening]
                 [] client[c].section = "maintenance" -> [live EXCEPT !.maintenance = cfg.maintenance]
                 [] client[c].section = "channel"     -> [live EXCEPT !.channel = cfg.channel]
                 [] client[c].section = "poller"      -> [live EXCEPT !.poller = cfg.poller]
                 [] OTHER                             -> live
    /\ client' = [client EXCEPT ![c] = Free]
    /\ UNCHANGED <<file, boots, disturbed>>

\* The process dies and starts again.
Restart ==
    /\ client' = [c \in Clients |-> Free]
    /\ live' = Restored(loadAppSettings)
    /\ boots' = 1 - boots
    /\ UNCHANGED <<file, disturbed>>

Handle(c) == \/ \E section \in Sections : Load(c, section)
             \/ Change(c) \/ settingsError(c) \/ Truncate(c) \/ WriteOut(c)
             \/ SaveFails(c) \/ Apply(c)

Next == (\E c \in Clients : Handle(c)) \/ Restart

Spec == Init /\ [][Next]_vars

-----------------------------------------------------------------------------

\* Type invariant: the file holds the settings of one save or nothing of use,
\* and a request works on the settings of one load.
TypeOK ==
    /\ file \in File
    /\ live \in Live
    /\ client \in [Clients -> [pc : {"free", "change", "truncate", "write", "apply"},
                               section : Sections, cfg : AppSettings]]
    /\ boots \in {0, 1}
    /\ disturbed \in BOOLEAN

\* Between requests, what is in force is what a restart would put in force
\* again, as long as requests come one after the other, no save fails and
\* silentmap.yaml configures no channel: whatever the order of settings and
\* restarts, also in the middle of a save.
SavedIsInForce ==
    ~disturbed /\ (\A c \in Clients : client[c].pc = "free")
       => live = Restored(loadAppSettings)

InFlight(section) ==
    \E c \in Clients : client[c].pc \in {"write", "apply"} /\ client[c].section = section

\* A step of RestartKeeps.
RestartIsHarmless ==
    boots' # boots /\ ~disturbed =>
      \/ \E c \in Clients : client[c].pc = "write"
      \/ \A section \in DOMAIN live :
           live'[section] = live[section] \/ InFlight(section)

\* Under the same conditions a restart changes nothing that is in force but the
\* section a request was just saving; the exception is a death in the middle of
\* os.WriteFile, which loses every section.
RestartKeeps == [][RestartIsHarmless]_vars

=============================================================================
