-------------------------------- MODULE Auth --------------------------------
(***************************************************************************)
(* The access code and the sessions (internal/auth/auth.go and the         *)
(* handlers of internal/web/server.go that use it): the hash in the file   *)
(* auth.hash and in memory, the map of sessions, which is in memory only,  *)
(* and requests to set up, log in, log out and change the code, which      *)
(* nothing serialises.                                                     *)
(*                                                                         *)
(* A hash is the code it is made of; all hashes have one length, so that   *)
(* one written over another leaves nothing of it.  A session is its age in *)
(* ticks, up to Duration + 1, past which ages are not told apart.          *)
(***************************************************************************)
EXTENDS Naturals

CONSTANTS
    Clients,    \* browsers, one request of each at a time
    Codes,      \* access codes
    Tokens,     \* bound: sessions the map can hold
    Duration,   \* sessionDuration, in ticks
    Failures,   \* whether a write may fail, say for a full disk
    Broken,     \* the beginning of a hash, which no code fits
    None

ASSUME AuthAssumption == /\ Duration \in Nat \ {0}
                         /\ Failures \in BOOLEAN
                         /\ None \notin Codes \cup Tokens \cup Nat
                         /\ Broken \notin Codes \cup {None}

Age == 0 .. Duration + 1

VARIABLES
    file,       \* auth.hash: a code, Broken, or None if it is missing or empty
    hash,       \* Manager.passwordHash
    sessions,   \* Manager.sessions: token -> age, or None
    cookie,     \* Clients -> the token the browser presents, or None
    request,    \* Clients -> the request in progress
    served,     \* the browsers the last step has let past requireAuth
    login,      \* history: ticks since a browser's login, None once it has ended
    boots,      \* number of starts of the process, modulo 2
    disturbed   \* history: two writes have overlapped, or one has failed

vars == <<file, hash, sessions, cookie, request, served, login, boots, disturbed>>

Idle == [pc |-> "idle", code |-> None, setup |-> FALSE]

Init ==
    /\ file = None
    /\ hash = None
    /\ sessions = [t \in Tokens |-> None]
    /\ cookie = [c \in Clients |-> None]
    /\ request = [c \in Clients |-> Idle]
    /\ served = {}
    /\ login = [c \in Clients |-> None]
    /\ boots = 0
    /\ disturbed = FALSE

Goto(c, pc) == request' = [request EXCEPT ![c].pc = pc]

-----------------------------------------------------------------------------

IsSetup == hash # None

\* Faulty variant: a session never expires.
ValidOnceLoggedIn(t) == t # None /\ sessions[t] # None

\* ValidSession, of the token a browser presents.
ValidSession(t) == t # None /\ sessions[t] # None /\ sessions[t] <= Duration

\* A request to a page behind requireAuth.  A session that is found to have
\* expired is deleted.
Visit(c) ==
    /\ request[c] = Idle /\ IsSetup
    /\ \/ /\ ValidSession(cookie[c])
          /\ served' = {c}
          /\ UNCHANGED sessions
       \/ /\ ~ValidSession(cookie[c]) /\ cookie[c] # None
          /\ served' = {}
          /\ sessions' = [sessions EXCEPT ![cookie[c]] = None]
    /\ UNCHANGED <<file, hash, cookie, request, login, boots, disturbed>>

\* SetPassword begins: the code is hashed, whatever others do meanwhile.
Begin(c, code, setup) ==
    /\ request' = [request EXCEPT ![c] = [pc |-> "open", code |-> code, setup |-> setup]]
    /\ disturbed' = (disturbed \/ \E d \in Clients : request[d].pc \in {"open", "write", "keep"})

doSetup(c, code) ==
    /\ request[c] = Idle /\ ~IsSetup
    /\ Begin(c, code, TRUE)
    /\ served' = {}
    /\ UNCHANGED <<file, hash, sessions, cookie, login, boots>>

changePassword(c, code) ==
    /\ request[c] = Idle /\ IsSetup /\ ValidSession(cookie[c])
    /\ Begin(c, code, FALSE)
    /\ served' = {c}
    /\ UNCHANGED <<file, hash, sessions, cookie, login, boots>>

\* os.WriteFile empties the file ...
Open(c) ==
    /\ request[c].pc = "open"
    /\ file' = None
    /\ Goto(c, "write")
    /\ served' = {}
    /\ UNCHANGED <<hash, sessions, cookie, login, boots, disturbed>>

\* ... and writes it.
WriteOut(c) ==
    /\ request[c].pc = "write"
    /\ file' = request[c].code
    /\ Goto(c, "keep")
    /\ served' = {}
    /\ UNCHANGED <<hash, sessions, cookie, login, boots, disturbed>>

\* A write that fails ends the request; what it has done to the file stays done,
\* and it may have written a part of the hash.
WriteFails(c) ==
    /\ Failures
    /\ request[c].pc \in {"open", "write"}
    /\ \/ file' = file
       \/ request[c].pc = "write" /\ file' = Broken
    /\ request' = [request EXCEPT ![c] = Idle]
    /\ disturbed' = TRUE
    /\ served' = {}
    /\ UNCHANGED <<hash, sessions, cookie, login, boots>>

\* Faulty variant: only the first code is kept in memory.
KeepFirst(c) ==
    /\ request[c].pc = "keep"
    /\ hash' = IF hash = None THEN request[c].code ELSE hash
    /\ request' = [request EXCEPT ![c] = IF @.setup THEN [@ EXCEPT !.pc = "session"] ELSE Idle]
    /\ served' = {}
    /\ UNCHANGED <<file, sessions, cookie, login, boots, disturbed>>

\* The hash in memory; a setup goes on to log in.
Keep(c) ==
    /\ request[c].pc = "keep"
    /\ hash' = request[c].code
    /\ request' = [request EXCEPT ![c] = IF @.setup THEN [@ EXCEPT !.pc = "session"] ELSE Idle]
    /\ served' = {}
    /\ UNCHANGED <<file, sessions, cookie, login, boots, disturbed>>

\* doLogin with the right code; with another one nothing happens.
doLogin(c) ==
    /\ request[c] = Idle /\ hash \in Codes
    /\ request' = [request EXCEPT ![c] = [Idle EXCEPT !.pc = "session"]]
    /\ served' = {}
    /\ UNCHANGED <<file, hash, sessions, cookie, login, boots, disturbed>>

\* A token nobody has ever seen.
Fresh(t) == sessions[t] = None /\ \A c \in Clients : cookie[c] # t

NewSession(c) ==
    /\ request[c].pc = "session"
    /\ \E t \in Tokens :
         /\ Fresh(t)
         /\ sessions' = [sessions EXCEPT ![t] = 0]
         /\ cookie' = [cookie EXCEPT ![c] = t]
    /\ request' = [request EXCEPT ![c] = Idle]
    /\ login' = [login EXCEPT ![c] = 0]
    /\ served' = {}
    /\ UNCHANGED <<file, hash, boots, disturbed>>

\* doLogout: DeleteSession, and the cookie is withdrawn.
doLogout(c) ==
    /\ request[c] = Idle /\ cookie[c] # None
    /\ sessions' = [sessions EXCEPT ![cookie[c]] = None]
    /\ cookie' = [cookie EXCEPT ![c] = None]
    /\ login' = [login EXCEPT ![c] = None]
    /\ served' = {}
    /\ UNCHANGED <<file, hash, request, boots, disturbed>>

Older(a) == IF a = None \/ a > Duration THEN a ELSE a + 1

Tick ==
    /\ sessions' = [t \in Tokens |-> Older(sessions[t])]
    /\ login' = [c \in Clients |-> Older(login[c])]
    /\ served' = {}
    /\ UNCHANGED <<file, hash, cookie, request, boots, disturbed>>

\* The process dies and starts again: auth.New reads the file.
Restart ==
    /\ hash' = file
    /\ sessions' = [t \in Tokens |-> None]
    /\ request' = [c \in Clients |-> Idle]
    /\ login' = [c \in Clients |-> None]
    /\ served' = {}
    /\ boots' = 1 - boots
    /\ UNCHANGED <<file, cookie, disturbed>>

Next ==
    \/ \E c \in Clients :
         \/ \E code \in Codes : doSetup(c, code) \/ changePassword(c, code)
         \/ Open(c) \/ WriteOut(c) \/ WriteFails(c) \/ Keep(c)
         \/ doLogin(c) \/ NewSession(c) \/ doLogout(c) \/ Visit(c)
    \/ Tick \/ Restart

Spec == Init /\ [][Next]_vars

-----------------------------------------------------------------------------

\* Type invariant.
TypeOK ==
    /\ {file, hash} \subseteq Codes \cup {Broken, None}
    /\ sessions \in [Tokens -> Age \cup {None}]
    /\ cookie \in [Clients -> Tokens \cup {None}]
    /\ request \in [Clients -> [pc : {"idle", "open", "write", "keep", "session"},
                                code : Codes \cup {None}, setup : BOOLEAN]]
    /\ served \subseteq Clients
    /\ login \in [Clients -> Age \cup {None}]
    /\ boots \in {0, 1}
    /\ disturbed \in BOOLEAN

\* A step of RestartKeepsCode.
RestartIsHarmless ==
    boots' # boots /\ ~disturbed =>
      \/ \E c \in Clients : request[c].pc = "write"
      \/ \E c \in Clients : request[c].pc = "keep" /\ hash' = request[c].code
      \/ hash' = hash

\* As long as no two changes of the code overlap and no write fails, a restart
\* leaves the code in force, or puts the one in force that was just being saved;
\* the exception is a death in the middle of os.WriteFile, after which the
\* instance has no code and offers the setup page again.
RestartKeepsCode == [][RestartIsHarmless]_vars

\* Behind requireAuth only a browser is served that logged in no longer than
\* sessionDuration ago, in this process, and has not logged out since, whatever
\* logins of its own or of others went on beside.
ServedWhileLoggedIn ==
    \A c \in served : login[c] # None /\ login[c] <= Duration

=============================================================================
