----------------------------- MODULE AuthSafety -----------------------------
(***************************************************************************)
(* Safety of Auth, for every number of browsers, codes and sessions: who   *)
(* is served, and what a restart leaves of the code.                       *)
(***************************************************************************)
EXTENDS Auth, TLAPS

Request == [pc : {"idle", "open", "write", "keep", "session"},
            code : Codes \cup {None}, setup : BOOLEAN]

LEMMA NoneIsNothing == None \notin Codes /\ None \notin Tokens /\ None \notin Nat
BY AuthAssumption DEF AuthAssumption

LEMMA DurationIsNat == Duration \in Nat /\ 0 \in Age /\ Age \subseteq Nat
BY AuthAssumption DEF AuthAssumption, Age

LEMMA OlderIsAge ==
    ASSUME NEW a \in Age \cup {None}
    PROVE  Older(a) \in Age \cup {None} /\ (Older(a) = None <=> a = None)
<1>1. CASE a = None
  BY <1>1 DEF Older
<1>2. CASE a # None
  BY <1>2, DurationIsNat, NoneIsNothing DEF Older, Age
<1> QED BY <1>1, <1>2

LEMMA IdleIsRequest == Idle \in Request /\ Idle.pc = "idle"
BY DEF Idle, Request

-----------------------------------------------------------------------------
(* Types.                                                                   *)

\* The request of c goes on to r, and what a step of a request may change keeps
\* its type.
LEMMA GoesOn ==
    ASSUME TypeOK, NEW c \in Clients, NEW r \in Request, request' = [request EXCEPT ![c] = r],
           UNCHANGED <<sessions, cookie, login, boots>>,
           {file', hash'} \subseteq Codes \cup {Broken, None},
           served' \subseteq Clients, disturbed' \in BOOLEAN
    PROVE  TypeOK'
<1>1. request' \in [Clients -> Request]
  BY DEF TypeOK, Request
<1> QED BY <1>1 DEF TypeOK, Request

LEMMA BeginType ==
    ASSUME TypeOK, NEW c \in Clients, NEW code \in Codes,
           doSetup(c, code) \/ changePassword(c, code)
    PROVE  TypeOK'
<1>1. PICK setup \in BOOLEAN : Begin(c, code, setup)
  BY DEF doSetup, changePassword
<1> DEFINE r == [pc |-> "open", code |-> code, setup |-> setup]
<1>2. r \in Request
  BY DEF Request
<1>3. request' = [request EXCEPT ![c] = r] /\ disturbed' \in BOOLEAN
  BY <1>1 DEF Begin
<1>4. served' \subseteq Clients /\ UNCHANGED <<file, hash, sessions, cookie, login, boots>>
  BY DEF doSetup, changePassword
<1> HIDE DEF r
<1> QED BY <1>2, <1>3, <1>4, GoesOn DEF TypeOK

LEMMA WriteType ==
    ASSUME TypeOK, NEW c \in Clients,
           Open(c) \/ WriteOut(c) \/ WriteFails(c) \/ Keep(c) \/ doLogin(c)
    PROVE  TypeOK'
<1>1. request[c] \in Request /\ request[c].code \in Codes \cup {None}
  BY DEF TypeOK, Request
<1>2. /\ UNCHANGED <<sessions, cookie, login, boots>> /\ served' = {}
      /\ {file', hash'} \subseteq Codes \cup {Broken, None} /\ disturbed' \in BOOLEAN
  BY <1>1 DEF TypeOK, Open, WriteOut, WriteFails, Keep, doLogin
<1>3. CASE Open(c) \/ WriteOut(c)
  <2>1. PICK pc \in {"write", "keep"} : request' = [request EXCEPT ![c].pc = pc]
    BY <1>3 DEF Open, WriteOut, Goto
  <2> DEFINE r == [request[c] EXCEPT !.pc = pc]
  <2>2. r \in Request
    BY <1>1 DEF Request
  <2>3. request' = [request EXCEPT ![c] = r]
    BY <2>1 DEF TypeOK
  <2> HIDE DEF r
  <2> QED BY <1>2, <2>2, <2>3, GoesOn
<1>4. CASE WriteFails(c)
  BY <1>2, <1>4, IdleIsRequest, GoesOn DEF WriteFails
<1>5. CASE Keep(c)
  <2> DEFINE r == IF request[c].setup THEN [request[c] EXCEPT !.pc = "session"] ELSE Idle
  <2>1. r \in Request
    BY <1>1, IdleIsRequest DEF Request
  <2>2. request' = [request EXCEPT ![c] = r]
    BY <1>5 DEF Keep
  <2> HIDE DEF r
  <2> QED BY <1>2, <2>1, <2>2, GoesOn
<1>6. CASE doLogin(c)
  <2> DEFINE r == [Idle EXCEPT !.pc = "session"]
  <2>1. r \in Request
    BY IdleIsRequest DEF Request
  <2>2. request' = [request EXCEPT ![c] = r]
    BY <1>6 DEF doLogin
  <2> HIDE DEF r
  <2> QED BY <1>2, <2>1, <2>2, GoesOn
<1> QED BY <1>3, <1>4, <1>5, <1>6

LEMMA SessionType ==
    ASSUME TypeOK, NEW c \in Clients, NewSession(c) \/ doLogout(c) \/ Visit(c)
    PROVE  TypeOK'
<1>1. request' \in [Clients -> Request]
  BY IdleIsRequest DEF TypeOK, NewSession, doLogout, Visit, Request
<1>2. sessions' \in [Tokens -> Age \cup {None}]
  BY DurationIsNat DEF TypeOK, NewSession, doLogout, Visit
<1>3. cookie' \in [Clients -> Tokens \cup {None}]
  BY DEF TypeOK, NewSession, doLogout, Visit
<1>4. login' \in [Clients -> Age \cup {None}]
  BY DurationIsNat DEF TypeOK, NewSession, doLogout, Visit
<1>5. served' \subseteq Clients /\ UNCHANGED <<file, hash, boots, disturbed>>
  BY DEF NewSession, doLogout, Visit
<1> QED BY <1>1, <1>2, <1>3, <1>4, <1>5 DEF TypeOK, Request

LEMMA TickType == TypeOK /\ Tick => TypeOK'
<1> SUFFICES ASSUME TypeOK, Tick PROVE TypeOK'
  OBVIOUS
<1>1. sessions' \in [Tokens -> Age \cup {None}] /\ login' \in [Clients -> Age \cup {None}]
  BY OlderIsAge DEF TypeOK, Tick
<1> QED BY <1>1 DEF TypeOK, Tick

LEMMA RestartType == TypeOK /\ Restart => TypeOK'
<1> SUFFICES ASSUME TypeOK, Restart PROVE TypeOK'
  OBVIOUS
<1>1. request' \in [Clients -> Request] /\ boots' \in {0, 1}
  BY IdleIsRequest DEF TypeOK, Restart
<1> QED BY <1>1 DEF TypeOK, Restart, Request

LEMMA TypeStep == TypeOK /\ [Next]_vars => TypeOK'
<1> SUFFICES ASSUME TypeOK, [Next]_vars PROVE TypeOK'
  OBVIOUS
<1>1. CASE \E c \in Clients, code \in Codes : doSetup(c, code) \/ changePassword(c, code)
  BY <1>1, BeginType
<1>2. CASE \E c \in Clients : Open(c) \/ WriteOut(c) \/ WriteFails(c) \/ Keep(c) \/ doLogin(c)
  BY <1>2, WriteType
<1>3. CASE \E c \in Clients : NewSession(c) \/ doLogout(c) \/ Visit(c)
  BY <1>3, SessionType
<1>4. CASE Tick \/ Restart
  BY <1>4, TickType, RestartType
<1>5. CASE UNCHANGED vars
  BY <1>5 DEF TypeOK, vars
<1> QED BY <1>1, <1>2, <1>3, <1>4, <1>5 DEF Next

LEMMA TypeInit == Init => TypeOK
BY IdleIsRequest DEF Init, TypeOK, Request

-----------------------------------------------------------------------------
(* Who is served.                                                           *)

\* A session that a browser has the cookie of is as old as the browser's login.
LoginIsSession ==
    \A c \in Clients : cookie[c] # None /\ sessions[cookie[c]] # None
                          => login[c] = sessions[cookie[c]]

LInv == TypeOK /\ LoginIsSession /\ ServedWhileLoggedIn

LEMMA ServedInv ==
    ASSUME LInv, NEW c \in Clients, ValidSession(cookie[c])
    PROVE  login[c] # None /\ login[c] <= Duration
BY DEF LInv, LoginIsSession, ValidSession

LEMMA LStep == LInv /\ [Next]_vars => LoginIsSession' /\ ServedWhileLoggedIn'
<1> SUFFICES ASSUME LInv, [Next]_vars PROVE LoginIsSession' /\ ServedWhileLoggedIn'
  OBVIOUS
<1> USE DEF LInv
<1>1. CASE \E c \in Clients, code \in Codes : doSetup(c, code) \/ changePassword(c, code)
  <2>1. PICK c \in Clients, code \in Codes : doSetup(c, code) \/ changePassword(c, code)
    BY <1>1
  <2>2. UNCHANGED <<sessions, cookie, login>>
    BY <2>1 DEF doSetup, changePassword
  <2>3. served' = {} \/ (served' = {c} /\ ValidSession(cookie[c]))
    BY <2>1 DEF doSetup, changePassword
  <2> QED BY <2>2, <2>3, ServedInv DEF LoginIsSession, ServedWhileLoggedIn
<1>2. CASE \E c \in Clients : Open(c) \/ WriteOut(c) \/ WriteFails(c) \/ Keep(c) \/ doLogin(c)
  <2>1. UNCHANGED <<sessions, cookie, login>> /\ served' = {}
    BY <1>2 DEF Open, WriteOut, WriteFails, Keep, doLogin
  <2> QED BY <2>1 DEF LoginIsSession, ServedWhileLoggedIn
<1>3. CASE \E c \in Clients : NewSession(c)
  <2>1. PICK c \in Clients : NewSession(c)
    BY <1>3
  <2>2. PICK t \in Tokens : /\ Fresh(t) /\ sessions' = [sessions EXCEPT ![t] = 0]
                            /\ cookie' = [cookie EXCEPT ![c] = t]
    BY <2>1 DEF NewSession
  <2>3. login' = [login EXCEPT ![c] = 0] /\ served' = {}
    BY <2>1 DEF NewSession
  <2>4. ASSUME NEW d \in Clients, cookie'[d] # None, sessions'[cookie'[d]] # None
        PROVE  login'[d] = sessions'[cookie'[d]]
    <3>1. CASE d = c
      BY <2>2, <2>3, <3>1 DEF TypeOK
    <3>2. CASE d # c
      <4>1. cookie'[d] = cookie[d] /\ cookie[d] # t /\ login'[d] = login[d]
        BY <2>2, <2>3, <3>2 DEF TypeOK, Fresh
      <4>2. sessions'[cookie[d]] = sessions[cookie[d]]
        BY <2>2, <4>1 DEF TypeOK
      <4> QED BY <2>4, <4>1, <4>2 DEF LoginIsSession
    <3> QED BY <3>1, <3>2
  <2> QED BY <2>3, <2>4 DEF LoginIsSession, ServedWhileLoggedIn
<1>4. CASE \E c \in Clients : doLogout(c)
  <2>1. PICK c \in Clients : doLogout(c)
    BY <1>4
  <2>2. /\ sessions' = [sessions EXCEPT ![cookie[c]] = None] /\ served' = {}
        /\ cookie' = [cookie EXCEPT ![c] = None] /\ login' = [login EXCEPT ![c] = None]
    BY <2>1 DEF doLogout
  <2>3. ASSUME NEW d \in Clients, cookie'[d] # None, sessions'[cookie'[d]] # None
        PROVE  login'[d] = sessions'[cookie'[d]]
    <3>1. d # c /\ cookie'[d] = cookie[d] /\ login'[d] = login[d]
      BY <2>2, <2>3 DEF TypeOK
    <3>2. cookie[d] # cookie[c] /\ sessions'[cookie[d]] = sessions[cookie[d]]
      BY <2>2, <2>3, <3>1 DEF TypeOK
    <3> QED BY <2>3, <3>1, <3>2 DEF LoginIsSession
  <2> QED BY <2>2, <2>3 DEF LoginIsSession, ServedWhileLoggedIn
<1>5. CASE \E c \in Clients : Visit(c)
  <2>1. PICK c \in Clients : Visit(c)
    BY <1>5
  <2>2. UNCHANGED <<cookie, login>>
    BY <2>1 DEF Visit
  <2>3. CASE ValidSession(cookie[c]) /\ served' = {c} /\ UNCHANGED sessions
    BY <2>2, <2>3, ServedInv DEF LoginIsSession, ServedWhileLoggedIn
  <2>4. CASE served' = {} /\ sessions' = [sessions EXCEPT ![cookie[c]] = None]
    <3>1. ASSUME NEW d \in Clients, cookie[d] # None, sessions'[cookie[d]] # None
          PROVE  login[d] = sessions'[cookie[d]]
      <4>1. sessions'[cookie[d]] = sessions[cookie[d]]
        BY <2>4, <3>1 DEF TypeOK
      <4> QED BY <3>1, <4>1 DEF LoginIsSession
    <3> QED BY <2>2, <2>4, <3>1 DEF LoginIsSession, ServedWhileLoggedIn
  <2> QED BY <2>1, <2>3, <2>4 DEF Visit
<1>6. CASE Tick
  <2>1. ASSUME NEW d \in Clients, cookie'[d] # None, sessions'[cookie'[d]] # None
        PROVE  login'[d] = sessions'[cookie'[d]]
    <3>1. cookie[d] \in Tokens /\ cookie'[d] = cookie[d]
      BY <1>6, <2>1 DEF TypeOK, Tick
    <3>2. /\ sessions'[cookie[d]] = Older(sessions[cookie[d]])
          /\ login'[d] = Older(login[d])
      BY <1>6, <3>1 DEF Tick
    <3>3. sessions[cookie[d]] # None
      BY <2>1, <3>1, <3>2 DEF Older
    <3>4. cookie[d] # None
      BY <2>1, <3>1
    <3> QED BY <3>1, <3>2, <3>3, <3>4 DEF LoginIsSession
  <2> QED BY <1>6, <2>1 DEF Tick, LoginIsSession, ServedWhileLoggedIn
<1>7. CASE Restart
  <2>1. \A t \in Tokens : sessions'[t] = None
    BY <1>7 DEF Restart
  <2>2. served' = {} /\ cookie' = cookie
    BY <1>7 DEF Restart
  <2> QED BY <2>1, <2>2 DEF TypeOK, LoginIsSession, ServedWhileLoggedIn
<1>8. CASE UNCHANGED vars
  BY <1>8 DEF vars, LoginIsSession, ServedWhileLoggedIn
<1> QED BY <1>1, <1>2, <1>3, <1>4, <1>5, <1>6, <1>7, <1>8 DEF Next

\* Behind requireAuth only a browser is served whose own login is not over.
THEOREM OnlyLoggedInAreServed == Spec => []ServedWhileLoggedIn
<1>1. Init => LInv
  BY TypeInit DEF Init, LInv, LoginIsSession, ServedWhileLoggedIn
<1>2. LInv /\ [Next]_vars => LInv'
  BY TypeStep, LStep DEF LInv
<1>3. LInv => ServedWhileLoggedIn
  BY DEF LInv
<1> QED BY <1>1, <1>2, <1>3, PTL DEF Spec

-----------------------------------------------------------------------------
(* What a restart leaves of the code.                                       *)

Changing(c) == request[c].pc \in {"open", "write", "keep"}

\* As long as nothing has disturbed it, one request at a time changes the code;
\* but for what it is at, the file and the memory hold the same.
Saved == ~disturbed =>
    /\ \A c, d \in Clients : Changing(c) /\ Changing(d) => c = d
    /\ (\A c \in Clients : request[c].pc \notin {"write", "keep"}) => file = hash
    /\ \A c \in Clients : request[c].pc = "keep" => file = request[c].code

\* One request goes on, from and to where it changes nothing.
LEMMA OutsideSaved ==
    ASSUME TypeOK, Saved, NEW c \in Clients, NEW r, ~Changing(c),
           r.pc \notin {"open", "write", "keep"}, request' = [request EXCEPT ![c] = r],
           UNCHANGED <<file, hash, disturbed>>
    PROVE  Saved'
<1>1. ASSUME NEW d \in Clients
      PROVE  /\ d # c => request'[d] = request[d]
             /\ request'[c] = r
  BY DEF TypeOK
<1> QED BY <1>1 DEF Saved, Changing

LEMMA SavedStep == TypeOK /\ Saved /\ [Next]_vars => Saved'
<1> SUFFICES ASSUME TypeOK, Saved, [Next]_vars PROVE Saved'
  OBVIOUS
<1>1. CASE \E c \in Clients, code \in Codes : doSetup(c, code) \/ changePassword(c, code)
  <2>1. PICK c \in Clients, code \in Codes : doSetup(c, code) \/ changePassword(c, code)
    BY <1>1
  <2>2. PICK setup \in BOOLEAN : Begin(c, code, setup)
    BY <2>1 DEF doSetup, changePassword
  <2> DEFINE r == [pc |-> "open", code |-> code, setup |-> setup]
  <2>3. request' = [request EXCEPT ![c] = r] /\ r.pc = "open"
    BY <2>2 DEF Begin
  <2>4. request[c] = Idle /\ UNCHANGED <<file, hash>>
    BY <2>1 DEF doSetup, changePassword
  <2>5. ~disturbed' => ~disturbed /\ \A d \in Clients : ~Changing(d)
    BY <2>2 DEF Begin, Changing
  <2> HIDE DEF r
  <2>6. ASSUME NEW d \in Clients
        PROVE  /\ d # c => request'[d] = request[d]
               /\ request'[c] = r
    BY <2>3 DEF TypeOK
  <2> QED BY <2>3, <2>4, <2>5, <2>6 DEF Saved, Changing
<1>2. CASE \E c \in Clients : Open(c) \/ WriteOut(c) \/ Keep(c)
  <2>1. PICK c \in Clients : Open(c) \/ WriteOut(c) \/ Keep(c)
    BY <1>2
  <2>2. disturbed' = disturbed /\ Changing(c)
    BY <2>1 DEF Open, WriteOut, Keep, Changing
  <2>3. ASSUME ~disturbed, NEW d \in Clients, d # c
        PROVE  ~Changing(d) /\ request'[d] = request[d]
    BY <2>1, <2>2, <2>3 DEF TypeOK, Saved, Open, WriteOut, Keep, Goto
  <2>4. CASE Open(c)
    <3>1. request'[c].pc = "write"
      BY <2>4 DEF TypeOK, Open, Goto
    <3> QED BY <2>2, <2>3, <3>1 DEF Saved, Changing
  <2>5. CASE WriteOut(c)
    <3>1. request'[c].pc = "keep" /\ request'[c].code = request[c].code
      BY <2>5 DEF TypeOK, WriteOut, Goto
    <3>2. file' = request[c].code
      BY <2>5 DEF WriteOut
    <3> QED BY <2>2, <2>3, <3>1, <3>2 DEF Saved, Changing
  <2>6. CASE Keep(c)
    <3>1. request'[c].pc \in {"session", "idle"}
      BY <2>6, IdleIsRequest DEF TypeOK, Keep
    <3>2. hash' = request[c].code /\ file' = file /\ request[c].pc = "keep"
      BY <2>6 DEF Keep
    <3> QED BY <2>2, <2>3, <3>1, <3>2 DEF Saved, Changing
  <2> QED BY <2>1, <2>4, <2>5, <2>6
<1>3. CASE \E c \in Clients : WriteFails(c)
  BY <1>3 DEF WriteFails, Saved
<1>4. CASE \E c \in Clients : doLogin(c)
  <2>1. PICK c \in Clients : doLogin(c)
    BY <1>4
  <2> DEFINE r == [Idle EXCEPT !.pc = "session"]
  <2>2. request' = [request EXCEPT ![c] = r] /\ r.pc = "session" /\ ~Changing(c)
        /\ UNCHANGED <<file, hash, disturbed>>
    BY <2>1, IdleIsRequest DEF doLogin, Changing, Idle
  <2> HIDE DEF r
  <2> QED BY <2>2, OutsideSaved
<1>5. CASE \E c \in Clients : NewSession(c)
  <2>1. PICK c \in Clients : NewSession(c)
    BY <1>5
  <2>2. request' = [request EXCEPT ![c] = Idle] /\ ~Changing(c)
        /\ UNCHANGED <<file, hash, disturbed>>
    BY <2>1 DEF NewSession, Changing
  <2> QED BY <2>2, IdleIsRequest, OutsideSaved
<1>6. CASE \E c \in Clients : doLogout(c) \/ Visit(c)
  BY <1>6 DEF doLogout, Visit, Saved, Changing
<1>7. CASE Tick
  BY <1>7 DEF Tick, Saved, Changing
<1>8. CASE Restart
  <2>1. \A c \in Clients : request'[c].pc = "idle"
    BY <1>8, IdleIsRequest DEF Restart
  <2> QED BY <1>8, <2>1 DEF Restart, Saved, Changing
<1>9. CASE UNCHANGED vars
  BY <1>9 DEF vars, Saved, Changing
<1> QED BY <1>1, <1>2, <1>3, <1>4, <1>5, <1>6, <1>7, <1>8, <1>9 DEF Next

\* A restart changes the code in force only to the one a request was saving, or
\* ends up without one because it came between the two halves of the write.
THEOREM RestartKeepsTheCode == Spec => RestartKeepsCode
<1>1. Init => Saved
  BY IdleIsRequest DEF Init, Saved, Changing
<1>2. TypeOK /\ Saved /\ [Next]_vars => [RestartIsHarmless]_vars
  <2> SUFFICES ASSUME TypeOK, Saved, [Next]_vars, boots' # boots, ~disturbed
               PROVE  RestartIsHarmless
    BY DEF RestartIsHarmless
  <2>1. Restart
    BY DEF Next, doSetup, changePassword, Open, WriteOut, WriteFails, Keep, doLogin,
           NewSession, doLogout, Visit, Tick, vars
  <2>2. hash' = file
    BY <2>1 DEF Restart
  <2>3. CASE \E c \in Clients : request[c].pc \in {"write", "keep"}
    BY <2>2, <2>3 DEF Saved, RestartIsHarmless
  <2>4. CASE \A c \in Clients : request[c].pc \notin {"write", "keep"}
    BY <2>2, <2>4 DEF Saved, RestartIsHarmless
  <2> QED BY <2>3, <2>4
<1> QED BY <1>1, <1>2, TypeInit, TypeStep, SavedStep, PTL DEF Spec, RestartKeepsCode

=============================================================================
