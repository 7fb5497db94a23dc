------------------------- MODULE SessionRaceProofs --------------------------
(***************************************************************************)
(* Theorems about SessionRace, for any number of requests, sessions,       *)
(* clients, users and service account ids: what a session authorizes, what *)
(* the logouts leave behind, who knows a session id, and what a race between*)
(* two client_credentials requests costs.                                  *)
(***************************************************************************)
EXTENDS SessionRace, TLAPS

-----------------------------------------------------------------------------
(* The tables as facts *)

LEMMA KindTable ==
  Kinds = {"refresh", "code", "userinfo", "introspect", "exchange", "password", "robot",
           "login", "sso", "revoke", "logout", "logoutAll"}
BY DEF Kinds, Calls

LEMMA CallTable ==
  /\ Calls["refresh"]["session"] = "clientSession"
  /\ Calls["refresh"]["clientSession"] = "user"
  /\ Calls["refresh"]["user"] = "touch"
  /\ Calls["refresh"]["touch"] = "answer"
  /\ Calls["code"]["session"] = "user" /\ Calls["code"]["user"] = "answer"
  /\ Calls["userinfo"]["session"] = "user" /\ Calls["userinfo"]["user"] = "answer"
  /\ Calls["introspect"]["session"] = "user" /\ Calls["introspect"]["user"] = "answer"
  /\ Calls["exchange"]["session"] = "user" /\ Calls["exchange"]["user"] = "answer"
  /\ Calls["password"]["user"] = "credential" /\ Calls["password"]["credential"] = "create"
  /\ Calls["password"]["create"] = "join" /\ Calls["password"]["join"] = "answer"
  /\ Calls["robot"]["lookup"] = "create" /\ Calls["robot"]["register"] = "create"
  /\ Calls["robot"]["reread"] = "create"
  /\ Calls["robot"]["create"] = "join" /\ Calls["robot"]["join"] = "answer"
  /\ Calls["login"]["user"] = "credential" /\ Calls["login"]["credential"] = "session"
  /\ Calls["login"]["session"] = "attach" /\ Calls["login"]["attach"] = "answer"
  /\ Calls["login"]["create"] = "join" /\ Calls["login"]["join"] = "answer"
  /\ Calls["sso"]["session"] = "user" /\ Calls["sso"]["user"] = "attach"
  /\ Calls["sso"]["attach"] = "answer" /\ Calls["sso"]["join"] = "answer"
  /\ Calls["revoke"]["session"] = "delete"
  /\ Calls["logout"]["look"] = "post" /\ Calls["logout"]["post"] = "delete"
  /\ Calls["logoutAll"]["list"] = "sweep"
BY DEF Calls, RefreshCalls, CodeCalls, UserinfoCalls, IntrospectCalls, ExchangeCalls, PasswordCalls,
       RobotCalls, LoginCalls, SSOCalls, RevokeCalls, LogoutCalls, LogoutAllCalls

-----------------------------------------------------------------------------
(* The inductive invariant *)

\* The calls at which a request has not been admitted, and those at which it has.
Asking(k, s) ==
  \/ k = "refresh" /\ s \in {"session", "clientSession", "user", "touch"}
  \/ k \in {"code", "userinfo", "introspect", "exchange", "sso"} /\ s = "session"
  \/ k = "password" /\ s \in {"user", "credential", "create"}
  \/ k = "robot" /\ s \in {"lookup", "register", "reread", "create"}
  \/ k = "login" /\ s \in {"user", "credential", "session", "create"}

Admitted(k, s) ==
  \/ k = "refresh" /\ s = "answer"
  \/ k \in {"code", "userinfo", "introspect", "exchange"} /\ s \in {"user", "answer"}
  \/ k \in {"password", "robot"} /\ s \in {"join", "answer"}
  \/ k = "login" /\ s \in {"attach", "join", "answer"}
  \/ k = "sso" /\ s \in {"user", "attach", "join", "answer"}

Ending(k, s) ==
  \/ k = "revoke" /\ s \in {"session", "delete"}
  \/ k = "logout" /\ s \in {"look", "post", "delete"}
  \/ k = "logoutAll" /\ s \in {"list", "sweep"}

\* A request that is being served stands at a call of its handler and carries what
\* that call needs.
Served(p) ==
  LET r == req[p] IN
  /\ Asking(r.kind, pc[p]) \/ Admitted(r.kind, pc[p]) \/ Ending(r.kind, pc[p])
  /\ r.kind # "logoutAll" => r.sid \in Sids /\ r.client \in Clients
  /\ r.kind \in {"login", "sso"} => r.user \in Users

Standing(p) ==
  /\ pc[p] = "idle" => req[p] = NoRequest
  /\ pc[p] \in Over => req[p].kind \in Kinds
  /\ pc[p] \notin Over \cup {"idle"} => Served(p)

WellFormed == \A p \in Requests : Standing(p)

Inv == TypeOK /\ WellFormed

\* What a step of one request leaves of the others.
OthersStay(p) == \A q \in Requests \ {p} : pc'[q] = pc[q] /\ req'[q] = req[q]

LEMMA NoRequestType == NoRequest \in Request /\ NoRequest.kind = None /\ NoRequest.sid = None
                       /\ NoRequest.client = None /\ NoRequest.user = None
BY DEF NoRequest, Request

LEMMA NoSessionType == NoSession \in Session /\ NoSession.user = None /\ NoSession.clients = {}
BY DEF NoSession, Session

-----------------------------------------------------------------------------
(* Building blocks *)

\* Where a call that succeeds leads: only three of them admit a request.
Onward(k, s, n) ==
  \/ Asking(k, s) /\ Asking(k, n)
  \/ Asking(k, s) /\ Admitted(k, n) /\ s \in {"session", "touch", "create"}
  \/ Admitted(k, s) /\ Admitted(k, n)
  \/ Ending(k, s) /\ Ending(k, n)

LEMMA Advances ==
  ASSUME NEW k, NEW s, Asking(k, s) \/ Admitted(k, s) \/ Ending(k, s),
         s \notin {"answer", "delete", "sweep"}
  PROVE  Onward(k, s, Calls[k][s]) /\ Calls[k][s] \in Steps
<1>1. CASE Asking(k, s)
  BY <1>1, CallTable DEF Onward, Asking, Admitted, Ending, Steps
<1>2. CASE Admitted(k, s)
  BY <1>2, CallTable DEF Onward, Asking, Admitted, Ending, Steps
<1>3. CASE Ending(k, s)
  BY <1>3, CallTable DEF Onward, Asking, Admitted, Ending, Steps
<1> QED BY <1>1, <1>2, <1>3

\* A step of p that leaves the other requests alone keeps WellFormed when it keeps
\* it for p.
LEMMA OneMoves ==
  ASSUME WellFormed, NEW p \in Requests, OthersStay(p), Standing(p)'
  PROVE  WellFormed'
BY DEF WellFormed, Standing, Served, OthersStay

\* What every step of a request p owes: the control state stays typed and p stands
\* at a call of its handler.
Moved(p) ==
  /\ pc' \in [Requests -> Steps]
  /\ req' \in [Requests -> Request]
  /\ OthersStay(p)
  /\ Standing(p)'

LEMMA Leaving ==
  ASSUME Inv, NEW p \in Requests, NEW end \in Over, pc[p] # "idle", Leave(p, end)
  PROVE  Moved(p) /\ late' \in [Requests -> SUBSET (Sids \X (Clients \cup {None}))]
         /\ pc'[p] = end /\ req'[p].kind = req[p].kind
<1>1. req[p].kind \in Kinds
  BY KindTable DEF Inv, WellFormed, Standing, Served, Asking, Admitted, Ending
<1>2. [NoRequest EXCEPT !.kind = req[p].kind] \in Request
  BY <1>1 DEF NoRequest, Request
<1>3. [NoRequest EXCEPT !.kind = req[p].kind].kind = req[p].kind
  BY DEF NoRequest
<1>4. pc' = [pc EXCEPT ![p] = end] /\ req' = [req EXCEPT ![p] = [NoRequest EXCEPT !.kind = req[p].kind]]
      /\ late' = [late EXCEPT ![p] = {}]
  BY DEF Leave, Goto
<1>5. pc' \in [Requests -> Steps] /\ req' \in [Requests -> Request] /\ OthersStay(p)
      /\ late' \in [Requests -> SUBSET (Sids \X (Clients \cup {None}))]
  BY <1>2, <1>4 DEF Inv, TypeOK, OthersStay, Over, Steps
<1>6. pc'[p] = end /\ req'[p].kind = req[p].kind
  BY <1>3, <1>4 DEF Inv, TypeOK
<1>7. Standing(p)'
  BY <1>1, <1>6 DEF Standing, Over
<1> QED BY <1>5, <1>6, <1>7 DEF Moved

LEMMA Arriving ==
  ASSUME Inv, NEW p \in Requests, NEW k \in Kinds, NEW s \in Sids \cup {None},
         NEW c \in Clients \cup {None}, NEW u \in Users \cup Accounts \cup {None}, NEW n,
         Asking(k, n) \/ Ending(k, n),
         k # "logoutAll" => s \in Sids /\ c \in Clients,
         k \in {"login", "sso"} => u \in Users,
         Arrive(p, k, s, c, u, n)
  PROVE  Moved(p) /\ pc[p] = "idle" /\ pc'[p] = n /\ req'[p].kind = k
<1> DEFINE r == [NoRequest EXCEPT !.kind = k, !.sid = s, !.client = c, !.user = u,
                                  !.todo = IF k = "logout" THEN BackClients ELSE {}]
<1>1. r \in Request /\ r.kind = k /\ r.sid = s /\ r.client = c /\ r.user = u
  BY SessionRaceAssumption DEF NoRequest, Request
<1>2. n \in Steps /\ n \notin Over \cup {"idle"}
  BY DEF Asking, Ending, Steps, Over
<1> HIDE DEF r
<1>3. pc[p] = "idle" /\ pc' = [pc EXCEPT ![p] = n] /\ req' = [req EXCEPT ![p] = r]
  BY DEF Arrive, Goto, r
<1>4. pc' \in [Requests -> Steps] /\ req' \in [Requests -> Request] /\ OthersStay(p)
  BY <1>1, <1>2, <1>3 DEF Inv, TypeOK, OthersStay
<1>5. pc'[p] = n /\ req'[p] = r
  BY <1>3 DEF Inv, TypeOK
<1>6. Standing(p)'
  BY <1>1, <1>2, <1>5 DEF Standing, Served
<1> QED BY <1>1, <1>3, <1>4, <1>5, <1>6 DEF Moved

LEMMA GoingOn ==
  ASSUME Inv, NEW p \in Requests, pc[p] \notin Over \cup {"idle"},
         NEW n \in Steps, n \notin Over \cup {"idle"},
         Asking(req[p].kind, n) \/ Admitted(req[p].kind, n) \/ Ending(req[p].kind, n),
         pc' = [pc EXCEPT ![p] = n],
         req' \in [Requests -> Request],
         \A q \in Requests \ {p} : req'[q] = req[q],
         req'[p].kind = req[p].kind, req'[p].sid = req[p].sid, req'[p].client = req[p].client,
         req[p].kind \in {"login", "sso"} => req'[p].user \in Users
  PROVE  Moved(p) /\ pc'[p] = n
<1>1. pc' \in [Requests -> Steps] /\ OthersStay(p) /\ pc'[p] = n
  BY DEF Inv, TypeOK, OthersStay
<1>2. Served(p)
  BY DEF Inv, WellFormed, Standing
<1>3. Standing(p)'
  BY <1>1, <1>2 DEF Standing, Served
<1> QED BY <1>1, <1>3 DEF Moved

\* The plain case: nothing the request carries changes.
LEMMA GoingOnAsIs ==
  ASSUME Inv, NEW p \in Requests, pc[p] \notin Over \cup {"idle"},
         NEW n \in Steps, n \notin Over \cup {"idle"},
         Asking(req[p].kind, n) \/ Admitted(req[p].kind, n) \/ Ending(req[p].kind, n),
         pc' = [pc EXCEPT ![p] = n], req' = req
  PROVE  Moved(p) /\ pc'[p] = n
<1>1. req \in [Requests -> Request]
  BY DEF Inv, TypeOK
<1>2. req[p].kind \in {"login", "sso"} => req[p].user \in Users
  BY DEF Inv, WellFormed, Standing, Served
<1> QED BY <1>1, <1>2, GoingOn

LEMMA MovedKeeps ==
  ASSUME Inv, NEW p \in Requests, Moved(p),
         users' \in SUBSET (Users \cup Accounts), sessions' \in [Sids -> Session],
         forms' \in SUBSET Sids, cookies' \in SUBSET (Sids \X Users),
         codes' \in SUBSET (Sids \X Clients \X Users),
         tokens' \in SUBSET [sid : Sids, client : Clients, refresh : BOOLEAN],
         drawn' \in SUBSET (Sids \cup Accounts),
         late' \in [Requests -> SUBSET (Sids \X (Clients \cup {None}))]
  PROVE  Inv'
<1>1. TypeOK'
  BY DEF Moved, TypeOK
<1>2. WellFormed'
  BY OneMoves DEF Moved, Inv
<1> QED BY <1>1, <1>2 DEF Inv

-----------------------------------------------------------------------------
(* Arrivals *)

\* The requests an arrival may start, and where: what the ten actions have in common.
Arrives(p) ==
  \E k \in Kinds, n \in Steps, s \in Sids \cup {None}, c \in Clients \cup {None},
     u \in Users \cup Accounts \cup {None} :
    /\ Asking(k, n) \/ Ending(k, n)
    /\ k # "logoutAll" => s \in Sids /\ c \in Clients
    /\ k \in {"login", "sso"} => u \in Users
    /\ k = "logout" => n = "look"
    /\ k = "logoutAll" => n = "list"
    /\ Arrive(p, k, s, c, u, n)

LEMMA ArrivalsArrive ==
  ASSUME Inv, NEW p \in Requests, ArriveStep(p)
  PROVE  /\ Arrives(p)
         /\ codes' \subseteq codes /\ drawn' \in SUBSET (Sids \cup Accounts)
         /\ UNCHANGED <<users, sessions, forms, cookies, tokens, late>>
<1> USE KindTable DEF Asking, Ending, Steps
<1>0. TypeOK
  BY DEF Inv
<1>1. CASE RefreshTokenGrant(p)
  <2>1. PICK t \in tokens : Arrive(p, "refresh", t.sid, t.client, None, "session")
    BY <1>1 DEF RefreshTokenGrant
  <2>2. t.sid \in Sids /\ t.client \in Clients
    BY <1>0 DEF TypeOK
  <2>3. Arrives(p)
    BY <2>1, <2>2 DEF Arrives
  <2> QED BY <1>0, <1>1, <2>3 DEF RefreshTokenGrant, TypeOK
<1>2. CASE AuthorizationCodeGrant(p)
  <2>1. PICK x \in codes : codes' = codes \ {x} /\ Arrive(p, "code", x[1], x[2], x[3], "session")
    BY <1>2 DEF AuthorizationCodeGrant
  <2>2. x[1] \in Sids /\ x[2] \in Clients /\ x[3] \in Users
    BY <1>0 DEF TypeOK
  <2>3. Arrives(p)
    BY <2>1, <2>2 DEF Arrives
  <2> QED BY <1>0, <1>2, <2>1, <2>3 DEF AuthorizationCodeGrant, TypeOK
<1>3. CASE PresentToken(p)
  <2>1. PICK t \in tokens, c \in Clients, k \in {"userinfo", "introspect", "exchange"} :
          Arrive(p, k, t.sid, c, None, "session")
    BY <1>3 DEF PresentToken
  <2>2. t.sid \in Sids
    BY <1>0 DEF TypeOK
  <2>3. Arrives(p)
    BY <2>1, <2>2 DEF Arrives
  <2> QED BY <1>0, <1>3, <2>3 DEF PresentToken, TypeOK
<1>4. CASE PasswordGrant(p)
  <2>1. PICK u \in Users, c \in Clients, s \in Sids :
          Arrive(p, "password", s, c, u, "user") /\ drawn' = drawn \cup {s}
    BY <1>4 DEF PasswordGrant
  <2>2. Arrives(p)
    BY <2>1 DEF Arrives
  <2> QED BY <1>0, <1>4, <2>1, <2>2 DEF PasswordGrant, TypeOK
<1>5. CASE ClientCredentialsGrant(p)
  <2>1. PICK s \in Sids : Arrive(p, "robot", s, Robot, None, "lookup") /\ drawn' = drawn \cup {s}
    BY <1>5 DEF ClientCredentialsGrant
  <2>2. Arrives(p)
    BY <2>1, SessionRaceAssumption DEF Arrives
  <2> QED BY <1>0, <1>5, <2>1, <2>2 DEF ClientCredentialsGrant, TypeOK
<1>6. CASE SubmitLogin(p)
  <2>1. PICK s \in forms, c \in Clients, u \in Users : Arrive(p, "login", s, c, u, "user")
    BY <1>6 DEF SubmitLogin
  <2>2. Arrives(p)
    BY <1>0, <2>1 DEF Arrives, TypeOK
  <2> QED BY <1>0, <1>6, <2>2 DEF SubmitLogin, TypeOK
<1>7. CASE SignOn(p)
  <2>1. PICK x \in cookies, c \in Clients : Arrive(p, "sso", x[1], c, x[2], "session")
    BY <1>7 DEF SignOn
  <2>2. x[1] \in Sids /\ x[2] \in Users
    BY <1>0 DEF TypeOK
  <2>3. Arrives(p)
    BY <2>1, <2>2 DEF Arrives
  <2> QED BY <1>0, <1>7, <2>3 DEF SignOn, TypeOK
<1>8. CASE Revoke(p)
  <2>1. PICK t \in tokens : Arrive(p, "revoke", t.sid, t.client, None, "session")
    BY <1>8 DEF Revoke
  <2>2. t.sid \in Sids /\ t.client \in Clients
    BY <1>0 DEF TypeOK
  <2>3. Arrives(p)
    BY <2>1, <2>2 DEF Arrives
  <2> QED BY <1>0, <1>8, <2>3 DEF Revoke, TypeOK
<1>9. CASE Logout(p)
  <2>1. PICK t \in tokens : Arrive(p, "logout", t.sid, t.client, None, "look")
    BY <1>9 DEF Logout
  <2>2. t.sid \in Sids /\ t.client \in Clients
    BY <1>0 DEF TypeOK
  <2>3. Arrives(p)
    BY <2>1, <2>2 DEF Arrives
  <2> QED BY <1>0, <1>9, <2>3 DEF Logout, TypeOK
<1>10. CASE LogoutAll(p)
  <2>1. Arrives(p)
    BY <1>10 DEF LogoutAll, Arrives
  <2> QED BY <1>0, <1>10, <2>1 DEF LogoutAll, TypeOK
<1> QED BY <1>1, <1>2, <1>3, <1>4, <1>5, <1>6, <1>7, <1>8, <1>9, <1>10 DEF ArriveStep

-----------------------------------------------------------------------------
(* Phases *)

Phase(k, s) ==
  IF k \in Enders \cup {None} THEN "idle"
  ELSE IF s \in {"refused", "failed"} THEN "refused"
  ELSE IF s = "done" THEN "granted"
  ELSE IF s \in Unproved[k] THEN "asked"
  ELSE "admitted"

LEMMA PhaseIsPhase ==
  ASSUME NEW p \in Requests
  PROVE  PhaseOf(p) = Phase(req[p].kind, pc[p]) /\ PhaseOf(p)' = Phase(req'[p].kind, pc'[p])
BY DEF PhaseOf, Phase

LEMMA PhaseTable ==
  ASSUME NEW k \in Kinds, NEW s
  PROVE  /\ Asking(k, s) => Phase(k, s) = "asked"
         /\ Admitted(k, s) => Phase(k, s) = "admitted"
         /\ Ending(k, s) => k \in Enders
         /\ k \in Enders => Phase(k, s) = "idle"
         /\ k \notin Enders /\ s \in {"refused", "failed"} => Phase(k, s) = "refused"
         /\ k \notin Enders /\ s = "done" => Phase(k, s) = "granted"
<1> k # None
  BY KindAssumption
<1>1. Asking(k, s) => Phase(k, s) = "asked"
  BY DEF Asking, Phase, Unproved, Enders
<1>2. Admitted(k, s) => Phase(k, s) = "admitted"
  BY DEF Admitted, Phase, Unproved, Enders
<1>3. Ending(k, s) => k \in Enders
  BY DEF Ending, Enders
<1> QED BY <1>1, <1>2, <1>3 DEF Phase

Alive == {s \in Sids : Live(s)}
By(p) == IF PhaseOf(p) = "admitted" THEN req[p].sid ELSE None

\* What a step of request p is to SessionAuthority.
Abstractly(p) ==
  \/ Alive' \subseteq Alive /\ PhaseOf(p)' = PhaseOf(p) /\ By(p)' = By(p)
  \/ Alive' = Alive /\ PhaseOf(p) = "idle" /\ PhaseOf(p)' = "asked"
  \/ Alive' = Alive /\ PhaseOf(p) = "asked" /\ PhaseOf(p)' = "admitted" /\ req'[p].sid \in Alive
  \/ /\ PhaseOf(p) = "asked" /\ PhaseOf(p)' = "admitted"
     /\ req'[p].sid \in Sids \ Alive /\ Alive' = Alive \cup {req'[p].sid}
  \/ Alive' = Alive /\ PhaseOf(p) = "admitted" /\ PhaseOf(p)' = "granted"
  \/ Alive' = Alive /\ PhaseOf(p) \in {"asked", "admitted"} /\ PhaseOf(p)' = "refused"

LEMMA StepRefines ==
  ASSUME NEW p \in Requests, OthersStay(p), Abstractly(p)
  PROVE  [Authority!Next]_(Authority!vars)
<1> DEFINE phase == [q \in Requests |-> PhaseOf(q)]
           by == [q \in Requests |-> By(q)]
<1>0. \A q \in Requests \ {p} : PhaseOf(q)' = PhaseOf(q) /\ By(q)' = By(q)
  BY DEF OthersStay, PhaseOf, By
<1>1. CASE Alive' \subseteq Alive /\ PhaseOf(p)' = PhaseOf(p) /\ By(p)' = By(p)
  <2>1. phase' = phase /\ by' = by
    BY <1>0, <1>1
  <2>2. Alive' = Alive \ (Alive \ Alive') /\ Alive \ Alive' \in SUBSET Sids
    BY <1>1 DEF Alive
  <2>3. Authority!End(Alive \ Alive')
    BY <2>1, <2>2 DEF Authority!End, Alive, By
  <2> QED BY <2>2, <2>3 DEF Authority!Next
<1>2. CASE Alive' = Alive /\ PhaseOf(p) = "idle" /\ PhaseOf(p)' = "asked"
  <2>1. phase' = [phase EXCEPT ![p] = "asked"] /\ by' = by
    BY <1>0, <1>2 DEF By
  <2>2. Authority!Ask(p)
    BY <1>2, <2>1 DEF Authority!Ask, Alive, By
  <2> QED BY <2>2 DEF Authority!Next
<1>3. CASE Alive' = Alive /\ PhaseOf(p) = "asked" /\ PhaseOf(p)' = "admitted" /\ req'[p].sid \in Alive
  <2>0. PICK s \in Sids : s = req'[p].sid /\ s \in Alive
    BY <1>3 DEF Alive
  <2>1. phase' = [phase EXCEPT ![p] = "admitted"] /\ by' = [by EXCEPT ![p] = s]
    BY <1>0, <1>3, <2>0 DEF By
  <2>2. Authority!Admit(p, s)
    BY <1>3, <2>0, <2>1 DEF Authority!Admit, Alive, By
  <2> QED BY <2>2 DEF Authority!Next
<1>4. CASE /\ PhaseOf(p) = "asked" /\ PhaseOf(p)' = "admitted"
           /\ req'[p].sid \in Sids \ Alive /\ Alive' = Alive \cup {req'[p].sid}
  <2>0. PICK s \in Sids : s = req'[p].sid /\ s \notin Alive /\ Alive' = Alive \cup {s}
    BY <1>4
  <2>1. phase' = [phase EXCEPT ![p] = "admitted"] /\ by' = [by EXCEPT ![p] = s]
    BY <1>0, <1>4, <2>0 DEF By
  <2>2. Authority!Open(p, s)
    BY <1>4, <2>0, <2>1 DEF Authority!Open, Alive, By
  <2> QED BY <2>2 DEF Authority!Next
<1>5. CASE Alive' = Alive /\ PhaseOf(p) = "admitted" /\ PhaseOf(p)' = "granted"
  <2>1. phase' = [phase EXCEPT ![p] = "granted"] /\ by' = [by EXCEPT ![p] = None]
    BY <1>0, <1>5 DEF By
  <2>2. Authority!Grant(p)
    BY <1>5, <2>1 DEF Authority!Grant, Alive, By
  <2> QED BY <2>2 DEF Authority!Next
<1>6. CASE Alive' = Alive /\ PhaseOf(p) \in {"asked", "admitted"} /\ PhaseOf(p)' = "refused"
  <2>1. phase' = [phase EXCEPT ![p] = "refused"] /\ by' = [by EXCEPT ![p] = None]
    BY <1>0, <1>6 DEF By
  <2>2. Authority!Refuse(p)
    BY <1>6, <2>1 DEF Authority!Refuse, Alive, By
  <2> QED BY <2>2 DEF Authority!Next
<1> QED BY <1>1, <1>2, <1>3, <1>4, <1>5, <1>6 DEF Abstractly

\* The two ways a step of a served request goes on, as SessionAuthority sees them.
LEMMA LeavingRefines ==
  ASSUME Inv, NEW p \in Requests, NEW end \in Over, pc[p] \notin Over \cup {"idle"},
         Leave(p, end), Alive' \subseteq Alive,
         ~Ending(req[p].kind, pc[p])
           => Alive' = Alive /\ (end = "done" => Admitted(req[p].kind, pc[p]))
  PROVE  Abstractly(p)
<1> DEFINE k == req[p].kind
<1>1. pc'[p] = end /\ req'[p].kind = k
  BY Leaving
<1>2. Served(p) /\ k \in Kinds
  BY KindTable DEF Inv, WellFormed, Standing, Served, Asking, Admitted, Ending
<1>3. PhaseOf(p) = Phase(k, pc[p]) /\ PhaseOf(p)' = Phase(k, end)
  BY <1>1, PhaseIsPhase
<1> HIDE DEF k
<1>4. CASE Ending(k, pc[p])
  <2>1. PhaseOf(p) = "idle" /\ PhaseOf(p)' = "idle"
    BY <1>2, <1>3, <1>4, PhaseTable
  <2> QED BY <2>1 DEF Abstractly, By
<1>5. CASE Alive' = Alive /\ (end = "done" => Admitted(k, pc[p])) /\ ~Ending(k, pc[p])
  <2>1. k \notin Enders
    BY <1>2, <1>5 DEF Served, Asking, Admitted, Enders, k
  <2>2. Phase(k, pc[p]) \in {"asked", "admitted"} /\ (Admitted(k, pc[p]) => Phase(k, pc[p]) = "admitted")
    BY <1>2, <1>5, PhaseTable DEF Served, k
  <2>3. Phase(k, end) = IF end = "done" THEN "granted" ELSE "refused"
    BY <1>2, <2>1, PhaseTable DEF Over
  <2> QED BY <1>3, <1>5, <2>2, <2>3 DEF Abstractly
<1> QED BY <1>4, <1>5 DEF k

LEMMA GoingOnRefines ==
  ASSUME Inv, NEW p \in Requests, pc[p] \notin Over \cup {"idle"}, NEW n, pc'[p] = n,
         req'[p].kind = req[p].kind, req'[p].sid = req[p].sid, Alive' = Alive,
         \/ Asking(req[p].kind, pc[p]) /\ Asking(req[p].kind, n)
         \/ Asking(req[p].kind, pc[p]) /\ Admitted(req[p].kind, n) /\ req[p].sid \in Alive
         \/ Admitted(req[p].kind, pc[p]) /\ Admitted(req[p].kind, n)
         \/ Ending(req[p].kind, pc[p])
  PROVE  Abstractly(p)
<1> DEFINE k == req[p].kind
<1>1. k \in Kinds
  BY KindTable DEF Inv, WellFormed, Standing, Served, Asking, Admitted, Ending
<1>2. PhaseOf(p) = Phase(k, pc[p]) /\ PhaseOf(p)' = Phase(k, n)
  BY PhaseIsPhase
<1> HIDE DEF k
<1>3. CASE Asking(k, pc[p]) /\ Asking(k, n)
  BY <1>1, <1>2, <1>3, PhaseTable DEF Abstractly, By
<1>4. CASE Asking(k, pc[p]) /\ Admitted(k, n) /\ req[p].sid \in Alive
  BY <1>1, <1>2, <1>4, PhaseTable DEF Abstractly
<1>5. CASE Admitted(k, pc[p]) /\ Admitted(k, n)
  BY <1>1, <1>2, <1>5, PhaseTable DEF Abstractly, By
<1>6. CASE Ending(k, pc[p])
  BY <1>1, <1>2, <1>6, PhaseTable DEF Abstractly, By
<1> QED BY <1>3, <1>4, <1>5, <1>6 DEF k

\* What is left to show of an action: the parts of the state that it writes keep
\* their types.
Stored ==
  /\ users' \in SUBSET (Users \cup Accounts) /\ sessions' \in [Sids -> Session]
  /\ forms' \in SUBSET Sids /\ cookies' \in SUBSET (Sids \X Users)
  /\ codes' \in SUBSET (Sids \X Clients \X Users)
  /\ tokens' \in SUBSET [sid : Sids, client : Clients, refresh : BOOLEAN]
  /\ drawn' \in SUBSET (Sids \cup Accounts)
  /\ late' \in [Requests -> SUBSET (Sids \X (Clients \cup {None}))]

\* A step of a served request keeps the invariant and is a step of SessionAuthority.
Good(p) == Moved(p) /\ Stored /\ Abstractly(p)

LEMMA LeavingIsGood ==
  ASSUME Inv, NEW p \in Requests, NEW end \in Over, pc[p] \notin Over \cup {"idle"},
         Leave(p, end), UNCHANGED <<users, sessions, drawn>>,
         forms' \in SUBSET Sids, cookies' \in SUBSET (Sids \X Users),
         codes' \in SUBSET (Sids \X Clients \X Users),
         tokens' \in SUBSET [sid : Sids, client : Clients, refresh : BOOLEAN],
         end = "done" => Admitted(req[p].kind, pc[p]) \/ Ending(req[p].kind, pc[p])
  PROVE  Good(p)
<1>1. Moved(p) /\ late' \in [Requests -> SUBSET (Sids \X (Clients \cup {None}))]
  BY Leaving
<1>2. Alive' = Alive
  BY DEF Alive, Live
<1>3. Abstractly(p)
  <2>1. Alive' \subseteq Alive
    BY <1>2
  <2>2. ~Ending(req[p].kind, pc[p])
           => Alive' = Alive /\ (end = "done" => Admitted(req[p].kind, pc[p]))
    BY <1>2
  <2> QED BY <2>1, <2>2, LeavingRefines
<1>4. Stored
  BY <1>1 DEF Stored, Inv, TypeOK
<1> QED BY <1>1, <1>3, <1>4 DEF Good

\* A call that writes no session: the request goes on, with what it has learnt.
LEMMA CallIsGood ==
  ASSUME Inv, NEW p \in Requests, pc[p] \notin Over \cup {"idle"}, NEW n \in Steps,
         pc' = [pc EXCEPT ![p] = n],
         Onward(req[p].kind, pc[p], n),
         \/ Asking(req[p].kind, n) \/ req[p].sid \in Alive
         \/ Admitted(req[p].kind, pc[p]) \/ Ending(req[p].kind, pc[p]),
         UNCHANGED <<sessions, forms, cookies, codes, tokens, late>>,
         users' \in SUBSET (Users \cup Accounts), drawn' \in SUBSET (Sids \cup Accounts),
         req' \in [Requests -> Request],
         \A q \in Requests \ {p} : req'[q] = req[q],
         req'[p].kind = req[p].kind, req'[p].sid = req[p].sid, req'[p].client = req[p].client,
         req[p].kind \in {"login", "sso"} => req'[p].user \in Users
  PROVE  Good(p)
<1>1. n \notin Over \cup {"idle"}
  BY DEF Onward, Asking, Admitted, Ending, Over
<1>2. Asking(req[p].kind, n) \/ Admitted(req[p].kind, n) \/ Ending(req[p].kind, n)
  BY DEF Onward
<1>3. Moved(p) /\ pc'[p] = n
  BY <1>1, <1>2, GoingOn
<1>4. Alive' = Alive
  BY DEF Alive, Live
<1>5. Abstractly(p)
  <2>1. \/ Asking(req[p].kind, pc[p]) /\ Asking(req[p].kind, n)
        \/ Asking(req[p].kind, pc[p]) /\ Admitted(req[p].kind, n) /\ req[p].sid \in Alive
        \/ Admitted(req[p].kind, pc[p]) /\ Admitted(req[p].kind, n)
        \/ Ending(req[p].kind, pc[p])
    BY DEF Onward
  <2> QED BY <1>3, <1>4, <2>1, GoingOnRefines
<1>6. Stored
  BY DEF Stored, Inv, TypeOK
<1> QED BY <1>3, <1>5, <1>6 DEF Good

\* The plain case: nothing the request carries changes.
LEMMA ReadIsGood ==
  ASSUME Inv, NEW p \in Requests, pc[p] \notin Over \cup {"idle"}, NEW n \in Steps,
         pc' = [pc EXCEPT ![p] = n],
         Onward(req[p].kind, pc[p], n),
         \/ Asking(req[p].kind, n) \/ req[p].sid \in Alive
         \/ Admitted(req[p].kind, pc[p]) \/ Ending(req[p].kind, pc[p]),
         UNCHANGED <<users, sessions, forms, cookies, codes, tokens, drawn, req, late>>
  PROVE  Good(p)
<1>1. req' = req /\ req \in [Requests -> Request]
  BY DEF Inv, TypeOK
<1>2. req[p].kind \in {"login", "sso"} => req[p].user \in Users
  BY DEF Inv, WellFormed, Standing, Served
<1>3. users' \in SUBSET (Users \cup Accounts) /\ drawn' \in SUBSET (Sids \cup Accounts)
  BY DEF Inv, TypeOK
<1> QED BY <1>1, <1>2, <1>3, CallIsGood

LEMMA ServedFacts ==
  ASSUME Inv, NEW p \in Requests, pc[p] \notin Over \cup {"idle"}
  PROVE  /\ Asking(req[p].kind, pc[p]) \/ Admitted(req[p].kind, pc[p]) \/ Ending(req[p].kind, pc[p])
         /\ req[p].kind \in Kinds /\ req[p] \in Request
         /\ pc[p] \notin {"list", "sweep"} => req[p].sid \in Sids /\ req[p].client \in Clients
         /\ req[p].kind \in {"login", "sso"} => req[p].user \in Users
<1>1. Served(p) /\ req[p] \in Request
  BY DEF Inv, WellFormed, Standing, TypeOK
<1>2. pc[p] \notin {"list", "sweep"} => req[p].kind # "logoutAll"
  BY <1>1 DEF Served, Asking, Admitted, Ending
<1>3. req[p].kind \in Kinds
  BY <1>1, KindTable DEF Served, Asking, Admitted, Ending
<1> QED BY <1>1, <1>2, <1>3 DEF Served

LEMMA AdvanceIsGood ==
  ASSUME Inv, NEW p \in Requests, pc[p] \notin Over \cup {"idle"},
         pc[p] \notin {"answer", "delete", "sweep"}, Advance(p),
         pc[p] \in {"session", "touch", "create"} => req[p].sid \in Alive,
         UNCHANGED <<users, sessions, forms, cookies, codes, tokens, drawn, req, late>>
  PROVE  Good(p)
<1>1. Onward(req[p].kind, pc[p], Calls[req[p].kind][pc[p]]) /\ Calls[req[p].kind][pc[p]] \in Steps
  BY ServedFacts, Advances
<1>2. pc' = [pc EXCEPT ![p] = Calls[req[p].kind][pc[p]]]
  BY DEF Advance, Goto
<1>3. \/ Asking(req[p].kind, Calls[req[p].kind][pc[p]]) \/ req[p].sid \in Alive
      \/ Admitted(req[p].kind, pc[p]) \/ Ending(req[p].kind, pc[p])
  BY <1>1 DEF Onward
<1> QED BY <1>1, <1>2, <1>3, ReadIsGood

LEMMA RefuseIsGood ==
  ASSUME Inv, NEW p \in Requests, NEW end \in {"refused", "failed"}, pc[p] \notin Over \cup {"idle"},
         Leave(p, end), UNCHANGED <<users, sessions, forms, cookies, codes, tokens, drawn>>
  PROVE  Good(p)
<1>1. end \in Over /\ end # "done"
  BY DEF Over
<1> QED BY <1>1, LeavingIsGood DEF Inv, TypeOK

-----------------------------------------------------------------------------
(* The store calls *)

LEMMA ReadUserSessionGood ==
  ASSUME Inv, NEW p \in Requests, ReadUserSession(p)
  PROVE  Good(p)
<1>1. pc[p] = "session" /\ pc[p] \notin Over \cup {"idle"}
  BY DEF ReadUserSession, Over
<1>2. CASE Live(req[p].sid)
  <2>1. Onward(req[p].kind, pc[p], Calls[req[p].kind][pc[p]]) /\ Calls[req[p].kind][pc[p]] \in Steps
    BY <1>1, ServedFacts, Advances
  <2>2. pc' = [pc EXCEPT ![p] = Calls[req[p].kind][pc[p]]]
    BY <1>2 DEF ReadUserSession, Advance, Goto
  <2>3. req[p].sid \in Alive /\ req[p].sid \in Sids
    BY <1>1, <1>2, ServedFacts DEF Alive
  <2>4. sessions[req[p].sid].user \in Users \cup Accounts \cup {None}
    BY <2>3 DEF Inv, TypeOK, Session
  <2>5. req' = IF req[p].user = None THEN [req EXCEPT ![p].user = sessions[req[p].sid].user] ELSE req
    BY <1>2 DEF ReadUserSession
  <2>6. /\ req' \in [Requests -> Request]
        /\ \A q \in Requests \ {p} : req'[q] = req[q]
        /\ req'[p].kind = req[p].kind /\ req'[p].sid = req[p].sid /\ req'[p].client = req[p].client
        /\ req[p].user # None => req'[p].user = req[p].user
    BY <2>4, <2>5 DEF Inv, TypeOK, Request
  <2>7. req[p].kind \in {"login", "sso"} => req'[p].user \in Users
    BY <1>1, <2>6, ServedFacts, SessionRaceAssumption
  <2>8. UNCHANGED <<sessions, forms, cookies, codes, tokens, late>>
        /\ users' \in SUBSET (Users \cup Accounts) /\ drawn' \in SUBSET (Sids \cup Accounts)
    BY <1>2 DEF ReadUserSession, Inv, TypeOK
  <2> QED BY <1>1, <2>1, <2>2, <2>3, <2>6, <2>7, <2>8, CallIsGood
<1>3. CASE ~Live(req[p].sid) /\ req[p].kind = "login"
  <2>1. Onward(req[p].kind, pc[p], "create") /\ "create" \in Steps /\ Asking(req[p].kind, "create")
    BY <1>1, <1>3 DEF Onward, Asking, Steps
  <2>2. pc' = [pc EXCEPT ![p] = "create"] /\ UNCHANGED <<users, sessions, forms, cookies, codes, tokens, drawn, req, late>>
    BY <1>3 DEF ReadUserSession, Goto, Stay
  <2> QED BY <1>1, <2>1, <2>2, ReadIsGood
<1>4. CASE ~Live(req[p].sid) /\ req[p].kind # "login"
  BY <1>1, <1>4, RefuseIsGood DEF ReadUserSession, Refuse
<1> QED BY <1>2, <1>3, <1>4

LEMMA ReadClientSessionGood ==
  ASSUME Inv, NEW p \in Requests, ReadClientSession(p)
  PROVE  Good(p)
<1>1. pc[p] = "clientSession" /\ pc[p] \notin Over \cup {"idle"}
  BY DEF ReadClientSession, Over
<1>2. CASE req[p].client \in sessions[req[p].sid].clients
  BY <1>1, <1>2, AdvanceIsGood DEF ReadClientSession, Stay
<1>3. CASE req[p].client \notin sessions[req[p].sid].clients
  BY <1>1, <1>3, RefuseIsGood DEF ReadClientSession, Refuse
<1> QED BY <1>2, <1>3

LEMMA AttachClientSessionGood ==
  ASSUME Inv, NEW p \in Requests, AttachClientSession(p)
  PROVE  Good(p)
<1>1. pc[p] = "attach" /\ pc[p] \notin Over \cup {"idle"}
  BY DEF AttachClientSession, Over
<1>2. CASE req[p].client \in sessions[req[p].sid].clients
  BY <1>1, <1>2, AdvanceIsGood DEF AttachClientSession
<1>3. CASE req[p].client \notin sessions[req[p].sid].clients
  <2>1. Admitted(req[p].kind, pc[p]) /\ Admitted(req[p].kind, "join") /\ "join" \in Steps
    BY <1>1, ServedFacts DEF Asking, Admitted, Ending, Steps
  <2>2. pc' = [pc EXCEPT ![p] = "join"]
        /\ UNCHANGED <<users, sessions, forms, cookies, codes, tokens, drawn, req, late>>
    BY <1>3 DEF AttachClientSession, Goto
  <2> QED BY <1>1, <2>1, <2>2, ReadIsGood DEF Onward
<1> QED BY <1>2, <1>3

LEMMA ReadUserGood ==
  ASSUME Inv, NEW p \in Requests, ReadUser(p)
  PROVE  Good(p)
<1>1. pc[p] \in {"user", "credential"} /\ pc[p] \notin Over \cup {"idle"}
  BY DEF ReadUser, Over
<1>2. CASE req[p].user \in users
  BY <1>1, <1>2, AdvanceIsGood DEF ReadUser, Stay
<1>3. CASE req[p].user \notin users
  BY <1>1, <1>3, RefuseIsGood DEF ReadUser, Refuse
<1> QED BY <1>2, <1>3

LEMMA TouchUserSessionGood ==
  ASSUME Inv, NEW p \in Requests, TouchUserSession(p)
  PROVE  Good(p)
<1>1. pc[p] = "touch" /\ pc[p] \notin Over \cup {"idle"}
  BY DEF TouchUserSession, Over
<1>2. CASE Live(req[p].sid)
  <2>1. req[p].sid \in Alive
    BY <1>1, <1>2, ServedFacts DEF Alive
  <2> QED BY <1>1, <1>2, <2>1, AdvanceIsGood DEF TouchUserSession, Stay
<1>3. CASE ~Live(req[p].sid)
  BY <1>1, <1>3, RefuseIsGood DEF TouchUserSession, Refuse
<1> QED BY <1>2, <1>3

\* What a logout remembers of a new row is a session and a client or none.
LEMMA NewsType ==
  ASSUME Inv, NEW s \in Sids, NEW c \in Clients \cup {None}
  PROVE  News(<<s, c>>) \in [Requests -> SUBSET (Sids \X (Clients \cup {None}))]
BY DEF News, Inv, TypeOK

LEMMA CreateUserSessionGood ==
  ASSUME Inv, NEW p \in Requests, CreateUserSession(p)
  PROVE  Good(p)
<1> DEFINE s == req[p].sid
           k == req[p].kind
           new == [user |-> req[p].user, clients |-> {}]
<1>1. pc[p] = "create" /\ pc[p] \notin Over \cup {"idle"}
  BY DEF CreateUserSession, Over
<1>2. s \in Sids /\ Asking(k, "create")
  BY <1>1, ServedFacts DEF Asking, Admitted, Ending
<1>3. CASE ~Live(s) /\ req[p].user \in users
  <2>1. /\ sessions' = [sessions EXCEPT ![s] = new] /\ late' = News(<<s, None>>)
        /\ pc' = [pc EXCEPT ![p] = Calls[k]["create"]] /\ req' = req
        /\ UNCHANGED <<users, forms, cookies, codes, tokens, drawn>>
    BY <1>1, <1>3 DEF CreateUserSession, Advance, Goto
  <2>2. Calls[k]["create"] = "join" /\ "join" \in Steps /\ Admitted(k, "join")
    BY <1>2, CallTable DEF Asking, Admitted, Steps
  <2>3. new \in Session /\ new # NoSession
    BY <1>3, SessionRaceAssumption DEF Inv, TypeOK, Session, NoSession
  <2> HIDE DEF new
  <2>4. Moved(p) /\ pc'[p] = "join"
    BY <1>1, <2>1, <2>2, GoingOnAsIs DEF Over
  <2>5. Stored
    BY <1>2, <2>1, <2>3, NewsType DEF Stored, Inv, TypeOK
  <2>6. \A x \in Sids : sessions'[x] = IF x = s THEN new ELSE sessions[x]
    BY <1>2, <2>1 DEF Inv, TypeOK
  <2>7. Alive' = Alive \cup {s} /\ s \in Sids \ Alive
    BY <1>2, <1>3, <2>3, <2>6 DEF Alive, Live
  <2>8. PhaseOf(p) = "asked" /\ PhaseOf(p)' = "admitted"
    BY <1>1, <1>2, <2>1, <2>2, <2>4, PhaseIsPhase, PhaseTable, ServedFacts
  <2>9. Abstractly(p)
    BY <2>1, <2>7, <2>8 DEF Abstractly
  <2> QED BY <2>4, <2>5, <2>9 DEF Good
<1>4. CASE ~(~Live(s) /\ req[p].user \in users)
  BY <1>1, <1>4, RefuseIsGood DEF CreateUserSession, Refuse
<1> QED BY <1>3, <1>4

LEMMA CreateClientSessionGood ==
  ASSUME Inv, NEW p \in Requests, CreateClientSession(p)
  PROVE  Good(p)
<1> DEFINE s == req[p].sid
           c == req[p].client
           k == req[p].kind
<1>1. pc[p] = "join" /\ pc[p] \notin Over \cup {"idle"}
  BY DEF CreateClientSession, Over
<1>2. s \in Sids /\ c \in Clients /\ Admitted(k, "join")
  BY <1>1, ServedFacts DEF Asking, Admitted, Ending
<1>3. CASE Live(s) /\ c \notin sessions[s].clients
  <2>1. /\ sessions' = [sessions EXCEPT ![s].clients = @ \cup {c}] /\ late' = News(<<s, c>>)
        /\ pc' = [pc EXCEPT ![p] = Calls[k]["join"]] /\ req' = req
        /\ UNCHANGED <<users, forms, cookies, codes, tokens, drawn>>
    BY <1>1, <1>3 DEF CreateClientSession, Advance, Goto
  <2>2. Calls[k]["join"] = "answer" /\ "answer" \in Steps /\ Admitted(k, "answer")
    BY <1>2, CallTable DEF Admitted, Steps
  <2>3. Moved(p) /\ pc'[p] = "answer"
    BY <1>1, <2>1, <2>2, GoingOnAsIs DEF Over
  <2>4. sessions' \in [Sids -> Session] /\ \A x \in Sids : x # s => sessions'[x] = sessions[x]
    BY <1>2, <2>1 DEF Inv, TypeOK, Session
  <2>5. sessions'[s] # NoSession
    BY <1>2, <2>1 DEF Inv, TypeOK, Session, NoSession
  <2>6. Stored
    BY <1>2, <2>1, <2>4, NewsType DEF Stored, Inv, TypeOK
  <2>7. Alive' = Alive
    BY <1>2, <1>3, <2>4, <2>5 DEF Alive, Live
  <2>8. Abstractly(p)
    BY <1>1, <1>2, <2>1, <2>2, <2>3, <2>7, GoingOnRefines
  <2> QED BY <2>3, <2>6, <2>8 DEF Good
<1>4. CASE ~(Live(s) /\ c \notin sessions[s].clients)
  BY <1>1, <1>4, RefuseIsGood DEF CreateClientSession, Refuse
<1> QED BY <1>3, <1>4

\* A request that has learnt its user.
LEMMA UserLearnt ==
  ASSUME Inv, NEW p \in Requests, NEW a \in Accounts, req' = [req EXCEPT ![p].user = a]
  PROVE  /\ req' \in [Requests -> Request]
         /\ \A q \in Requests \ {p} : req'[q] = req[q]
         /\ req'[p].kind = req[p].kind /\ req'[p].sid = req[p].sid /\ req'[p].client = req[p].client
BY DEF Inv, TypeOK, Request

\* The three calls of serviceAccountUser.
LEMMA AccountFound ==
  ASSUME Inv, NEW p \in Requests, pc[p] \in {"lookup", "register", "reread"}, Advance(p),
         NEW a \in Accounts, req' = [req EXCEPT ![p].user = a],
         UNCHANGED <<sessions, forms, cookies, codes, tokens, late>>,
         users' \in SUBSET (Users \cup Accounts), drawn' \in SUBSET (Sids \cup Accounts)
  PROVE  Good(p)
<1>1. pc[p] \notin Over \cup {"idle"}
  BY DEF Over
<1>2. req[p].kind = "robot"
  BY <1>1, ServedFacts DEF Asking, Admitted, Ending
<1>3. pc' = [pc EXCEPT ![p] = "create"]
  BY <1>2, CallTable DEF Advance, Goto
<1>4. Onward(req[p].kind, pc[p], "create") /\ Asking(req[p].kind, "create") /\ "create" \in Steps
  BY <1>2 DEF Onward, Asking, Steps
<1>5. req[p].kind \notin {"login", "sso"}
  BY <1>2
<1> QED BY <1>1, <1>3, <1>4, <1>5, UserLearnt, CallIsGood

LEMMA AccountStep ==
  ASSUME Inv, NEW p \in Requests, pc[p] \in {"lookup", "register"}, NEW n \in {"register", "reread"},
         Goto(p, n), UNCHANGED <<users, sessions, forms, cookies, codes, tokens, drawn, req, late>>
  PROVE  Good(p)
<1>1. pc[p] \notin Over \cup {"idle"}
  BY DEF Over
<1>2. req[p].kind = "robot"
  BY <1>1, ServedFacts DEF Asking, Admitted, Ending
<1>3. Onward(req[p].kind, pc[p], n) /\ Asking(req[p].kind, n) /\ n \in Steps
  BY <1>2 DEF Onward, Asking, Steps
<1> QED BY <1>1, <1>3, ReadIsGood DEF Goto

LEMMA LookupAccountGood ==
  ASSUME Inv, NEW p \in Requests, LookupAccount(p)
  PROVE  Good(p)
<1>1. pc[p] = "lookup" /\ users' \in SUBSET (Users \cup Accounts) /\ drawn' \in SUBSET (Sids \cup Accounts)
  BY DEF LookupAccount, Inv, TypeOK
<1>2. CASE \E a \in Accounts \cap users : Advance(p) /\ req' = [req EXCEPT ![p].user = a]
  BY <1>1, <1>2, AccountFound DEF LookupAccount
<1>3. CASE Goto(p, "register") /\ UNCHANGED req
  BY <1>1, <1>3, AccountStep DEF LookupAccount
<1> QED BY <1>2, <1>3 DEF LookupAccount

LEMMA CreateAccountGood ==
  ASSUME Inv, NEW p \in Requests, CreateAccount(p)
  PROVE  Good(p)
<1>1. pc[p] = "register"
  BY DEF CreateAccount
<1>2. ASSUME NEW a \in Accounts, users' = users \cup {a}, drawn' = drawn \cup {a},
             req' = [req EXCEPT ![p].user = a], Advance(p)
      PROVE  Good(p)
  <2>1. users' \in SUBSET (Users \cup Accounts) /\ drawn' \in SUBSET (Sids \cup Accounts)
    BY <1>2 DEF Inv, TypeOK
  <2> QED BY <1>1, <1>2, <2>1, AccountFound DEF CreateAccount
<1>3. CASE Goto(p, "reread") /\ UNCHANGED <<users, drawn, req>>
  BY <1>1, <1>3, AccountStep DEF CreateAccount
<1> QED BY <1>2, <1>3 DEF CreateAccount

LEMMA RereadAccountGood ==
  ASSUME Inv, NEW p \in Requests, RereadAccount(p)
  PROVE  Good(p)
<1>1. pc[p] = "reread" /\ pc[p] \notin Over \cup {"idle"}
      /\ users' \in SUBSET (Users \cup Accounts) /\ drawn' \in SUBSET (Sids \cup Accounts)
  BY DEF RereadAccount, Inv, TypeOK, Over
<1>2. CASE \E a \in Accounts \cap users :
             Advance(p) /\ req' = [req EXCEPT ![p].user = a] /\ UNCHANGED late
  BY <1>1, <1>2, AccountFound DEF RereadAccount
<1>3. CASE Refuse(p)
  BY <1>1, <1>3, RefuseIsGood DEF RereadAccount, Refuse
<1> QED BY <1>2, <1>3 DEF RereadAccount

\* A logout changes its own lists and stays where it is.
LEMMA ListsChange ==
  ASSUME Inv, NEW p \in Requests, pc[p] \notin Over \cup {"idle"}, Ending(req[p].kind, pc[p]),
         UNCHANGED <<users, sessions, forms, cookies, codes, tokens, drawn, late, pc>>,
         req' \in [Requests -> Request], \A q \in Requests \ {p} : req'[q] = req[q],
         req'[p].kind = req[p].kind, req'[p].sid = req[p].sid, req'[p].client = req[p].client
  PROVE  Good(p)
<1>1. pc' = [pc EXCEPT ![p] = pc[p]] /\ pc[p] \in Steps
  BY DEF Inv, TypeOK
<1>2. Onward(req[p].kind, pc[p], pc[p])
  BY DEF Onward
<1>3. req[p].kind \notin {"login", "sso"}
  BY DEF Ending
<1>4. users' \in SUBSET (Users \cup Accounts) /\ drawn' \in SUBSET (Sids \cup Accounts)
  BY DEF Inv, TypeOK
<1> QED BY <1>1, <1>2, <1>3, <1>4, CallIsGood

LEMMA ListTargetsGood ==
  ASSUME Inv, NEW p \in Requests, ListTargets(p)
  PROVE  Good(p)
<1>1. pc[p] = "look" /\ pc[p] \notin Over \cup {"idle"}
  BY DEF ListTargets, Over
<1>2. Ending(req[p].kind, pc[p]) /\ req[p].sid \in Sids
  BY <1>1, ServedFacts DEF Asking, Admitted, Ending
<1>3. ASSUME NEW c \in req[p].todo,
             req' = [req EXCEPT ![p].todo = @ \ {c},
                                ![p].found = IF c \in sessions[req[p].sid].clients
                                             THEN @ \cup {c} ELSE @],
             UNCHANGED pc
      PROVE  Good(p)
  <2>1. sessions[req[p].sid].clients \subseteq Clients
    BY <1>2 DEF Inv, TypeOK, Session
  <2> DEFINE found == IF c \in sessions[req[p].sid].clients THEN req[p].found \cup {c} ELSE req[p].found
             r == [req[p] EXCEPT !.todo = @ \ {c}, !.found = found]
  <2>2. req[p] \in Request /\ found \subseteq Clients
    BY <2>1 DEF Inv, TypeOK, Request
  <2> HIDE DEF found
  <2>3. r \in Request /\ r.kind = req[p].kind /\ r.sid = req[p].sid /\ r.client = req[p].client
    BY <2>2 DEF Request
  <2>4. req' = [req EXCEPT ![p] = r]
    BY <1>3 DEF found
  <2> HIDE DEF r
  <2>5. /\ req' \in [Requests -> Request] /\ \A q \in Requests \ {p} : req'[q] = req[q]
        /\ req'[p].kind = req[p].kind /\ req'[p].sid = req[p].sid /\ req'[p].client = req[p].client
    BY <2>3, <2>4 DEF Inv, TypeOK
  <2> QED BY <1>1, <1>2, <1>3, <2>5, ListsChange DEF ListTargets
<1>5. ASSUME NEW t \in SUBSET (Clients \cup Sids), NEW m \in SUBSET (Clients \cup Sids),
             req' = [req EXCEPT ![p].todo = t, ![p].missed = m], UNCHANGED pc
      PROVE  Good(p)
  <2> DEFINE r == [req[p] EXCEPT !.todo = t, !.missed = m]
  <2>1. req[p] \in Request
    BY DEF Inv, TypeOK
  <2>2. r \in Request /\ r.kind = req[p].kind /\ r.sid = req[p].sid /\ r.client = req[p].client
    BY <2>1 DEF Request
  <2>3. req' = [req EXCEPT ![p] = r]
    BY <1>5
  <2> HIDE DEF r
  <2>4. /\ req' \in [Requests -> Request] /\ \A q \in Requests \ {p} : req'[q] = req[q]
        /\ req'[p].kind = req[p].kind /\ req'[p].sid = req[p].sid /\ req'[p].client = req[p].client
    BY <2>2, <2>3 DEF Inv, TypeOK
  <2> QED BY <1>1, <1>2, <1>5, <2>4, ListsChange DEF ListTargets
<1>6. req[p].todo \in SUBSET (Clients \cup Sids) /\ req[p].missed \in SUBSET (Clients \cup Sids)
  BY DEF Inv, TypeOK, Request
<1>7. ASSUME NEW c \in req[p].todo, UNCHANGED pc,
             req' = [req EXCEPT ![p].todo = @ \ {c}, ![p].missed = @ \cup {c}]
      PROVE  Good(p)
  <2>1. /\ req[p].todo \ {c} \in SUBSET (Clients \cup Sids)
        /\ req[p].missed \cup {c} \in SUBSET (Clients \cup Sids)
    BY <1>6
  <2> QED BY <1>5, <1>7, <2>1
<1>8. ASSUME UNCHANGED pc, req' = [req EXCEPT ![p].todo = {}, ![p].missed = BackClients]
      PROVE  Good(p)
  <2>1. {} \in SUBSET (Clients \cup Sids) /\ BackClients \in SUBSET (Clients \cup Sids)
    BY SessionRaceAssumption
  <2> QED BY <1>5, <1>8, <2>1
<1>4. CASE Advance(p) /\ UNCHANGED req
  BY <1>1, <1>4, AdvanceIsGood DEF ListTargets
<1> QED BY <1>3, <1>4, <1>7, <1>8 DEF ListTargets

LEMMA NotifyBackchannelGood ==
  ASSUME Inv, NEW p \in Requests, NotifyBackchannel(p)
  PROVE  Good(p)
<1>1. pc[p] = "post" /\ pc[p] \notin Over \cup {"idle"}
  BY DEF NotifyBackchannel, Over
<1>2. Ending(req[p].kind, pc[p])
  BY <1>1, ServedFacts DEF Asking, Admitted, Ending
<1>3. ASSUME NEW c \in req[p].found \ req[p].told, req' = [req EXCEPT ![p].told = @ \cup {c}], UNCHANGED pc
      PROVE  Good(p)
  <2> DEFINE r == [req[p] EXCEPT !.told = @ \cup {c}]
  <2>0. req[p] \in Request /\ c \in Clients
    BY DEF Inv, TypeOK, Request
  <2>1. r \in Request /\ r.kind = req[p].kind /\ r.sid = req[p].sid /\ r.client = req[p].client
    BY <2>0 DEF Request
  <2>2. req' = [req EXCEPT ![p] = r]
    BY <1>3
  <2> HIDE DEF r
  <2>3. /\ req' \in [Requests -> Request] /\ \A q \in Requests \ {p} : req'[q] = req[q]
        /\ req'[p].kind = req[p].kind /\ req'[p].sid = req[p].sid /\ req'[p].client = req[p].client
    BY <2>1, <2>2 DEF Inv, TypeOK
  <2> QED BY <1>1, <1>2, <1>3, <2>3, ListsChange DEF NotifyBackchannel
<1>4. CASE Advance(p) /\ UNCHANGED req
  BY <1>1, <1>4, AdvanceIsGood DEF NotifyBackchannel
<1>5. ASSUME NEW c \in req[p].found \ req[p].told, UNCHANGED pc,
             req' = [req EXCEPT ![p].found = @ \ {c}, ![p].missed = @ \cup {c}]
      PROVE  Good(p)
  <2> DEFINE r == [req[p] EXCEPT !.found = @ \ {c}, !.missed = @ \cup {c}]
  <2>1. req[p] \in Request /\ c \in Clients
    BY DEF Inv, TypeOK, Request
  <2>2. r \in Request /\ r.kind = req[p].kind /\ r.sid = req[p].sid /\ r.client = req[p].client
    BY <2>1 DEF Request
  <2>3. req' = [req EXCEPT ![p] = r]
    BY <1>5
  <2> HIDE DEF r
  <2>4. /\ req' \in [Requests -> Request] /\ \A q \in Requests \ {p} : req'[q] = req[q]
        /\ req'[p].kind = req[p].kind /\ req'[p].sid = req[p].sid /\ req'[p].client = req[p].client
    BY <2>2, <2>3 DEF Inv, TypeOK
  <2> QED BY <1>1, <1>2, <1>5, <2>4, ListsChange DEF NotifyBackchannel
<1> QED BY <1>3, <1>4, <1>5 DEF NotifyBackchannel

LEMMA DeleteUserSessionGood ==
  ASSUME Inv, NEW p \in Requests, DeleteUserSession(p)
  PROVE  Good(p)
<1>1. pc[p] = "delete" /\ pc[p] \notin Over \cup {"idle"} /\ "done" \in Over
  BY DEF DeleteUserSession, Over
<1>2. Ending(req[p].kind, pc[p])
  BY <1>1, ServedFacts DEF Asking, Admitted, Ending
<1>3. sessions' \in [Sids -> Session] /\ Alive' \subseteq Alive
  BY NoSessionType DEF DeleteUserSession, Inv, TypeOK, Alive, Live
<1>4. Moved(p) /\ late' \in [Requests -> SUBSET (Sids \X (Clients \cup {None}))]
  BY <1>1, Leaving DEF DeleteUserSession
<1>5. Abstractly(p)
  BY <1>1, <1>2, <1>3, LeavingRefines DEF DeleteUserSession
<1>6. Stored
  BY <1>3, <1>4 DEF DeleteUserSession, Stored, Inv, TypeOK
<1> QED BY <1>4, <1>5, <1>6 DEF Good

LEMMA ListSessionsGood ==
  ASSUME Inv, NEW p \in Requests, ListSessions(p)
  PROVE  Good(p)
<1>1. pc[p] = "list" /\ pc[p] \notin Over \cup {"idle"}
  BY DEF ListSessions, Over
<1>2. req[p].kind = "logoutAll"
  BY <1>1, ServedFacts DEF Asking, Admitted, Ending
<1>3. pc' = [pc EXCEPT ![p] = "sweep"]
  BY <1>1, <1>2, CallTable DEF ListSessions, Advance, Goto
<1>4. Onward(req[p].kind, pc[p], "sweep") /\ Ending(req[p].kind, pc[p]) /\ "sweep" \in Steps
  BY <1>1, <1>2 DEF Onward, Ending, Steps
<1>5. /\ req' \in [Requests -> Request] /\ \A q \in Requests \ {p} : req'[q] = req[q]
      /\ req'[p].kind = req[p].kind /\ req'[p].sid = req[p].sid /\ req'[p].client = req[p].client
  <2> DEFINE r == [req[p] EXCEPT !.todo = {s \in Sids : Live(s)}]
  <2>0. req[p] \in Request /\ {s \in Sids : Live(s)} \in SUBSET (Clients \cup Sids)
    BY DEF Inv, TypeOK, Request
  <2>1. r \in Request /\ r.kind = req[p].kind /\ r.sid = req[p].sid /\ r.client = req[p].client
    BY <2>0 DEF Request
  <2>2. req' = [req EXCEPT ![p] = r]
    BY DEF ListSessions
  <2> HIDE DEF r
  <2>3. /\ req' \in [Requests -> Request] /\ \A q \in Requests \ {p} : req'[q] = req[q]
        /\ req'[p].kind = req[p].kind /\ req'[p].sid = req[p].sid /\ req'[p].client = req[p].client
    BY <2>1, <2>2 DEF Inv, TypeOK
  <2> QED BY <2>3
<1>6. UNCHANGED <<sessions, forms, cookies, codes, tokens, late>>
      /\ users' \in SUBSET (Users \cup Accounts) /\ drawn' \in SUBSET (Sids \cup Accounts)
  BY DEF ListSessions, Inv, TypeOK
<1>7. req[p].kind \notin {"login", "sso"}
  BY <1>2
<1> QED BY <1>1, <1>3, <1>4, <1>5, <1>6, <1>7, CallIsGood

LEMMA SweepSessionsGood ==
  ASSUME Inv, NEW p \in Requests, SweepSessions(p)
  PROVE  Good(p)
<1>1. pc[p] = "sweep" /\ pc[p] \notin Over \cup {"idle"}
  BY DEF SweepSessions, Over
<1>2. Ending(req[p].kind, pc[p]) /\ req[p].kind \in Kinds
  BY <1>1, ServedFacts DEF Asking, Admitted, Ending
<1>3. ASSUME NEW s \in req[p].todo, sessions' = [sessions EXCEPT ![s] = NoSession],
             req' = [req EXCEPT ![p].todo = @ \ {s}], UNCHANGED <<pc, late>>
      PROVE  Good(p)
  <2>1. /\ req' \in [Requests -> Request] /\ \A q \in Requests \ {p} : req'[q] = req[q]
        /\ req'[p].kind = req[p].kind /\ req'[p].sid = req[p].sid /\ req'[p].client = req[p].client
    BY <1>3 DEF Inv, TypeOK, Request
  <2>2. sessions' \in [Sids -> Session] /\ Alive' \subseteq Alive
    BY <1>3, NoSessionType DEF Inv, TypeOK, Alive, Live
  <2>3. pc' = [pc EXCEPT ![p] = pc[p]] /\ pc[p] \in Steps /\ pc'[p] = pc[p]
    BY <1>3 DEF Inv, TypeOK
  <2>4. Moved(p)
    <3>1. req[p].kind \notin {"login", "sso"}
      BY <1>2 DEF Ending
    <3> QED BY <1>1, <1>2, <2>1, <2>3, <3>1, GoingOn
  <2>5. PhaseOf(p) = "idle" /\ PhaseOf(p)' = "idle"
    BY <1>2, <2>1, <2>3, PhaseIsPhase, PhaseTable
  <2>6. Abstractly(p)
    BY <2>2, <2>5 DEF Abstractly, By
  <2>7. Stored
    BY <1>3, <2>2 DEF SweepSessions, Stored, Inv, TypeOK
  <2> QED BY <2>4, <2>6, <2>7 DEF Good
<1>4. CASE Leave(p, "done") /\ UNCHANGED sessions
  <2>1. "done" \in Over
    BY DEF Over
  <2> QED BY <1>1, <1>2, <1>4, <2>1, LeavingIsGood DEF SweepSessions, Inv, TypeOK
<1> QED BY <1>3, <1>4 DEF SweepSessions

LEMMA StoreStepGood ==
  ASSUME Inv, NEW p \in Requests, StoreStep(p)
  PROVE  Good(p)
BY ReadUserSessionGood, ReadClientSessionGood, AttachClientSessionGood, ReadUserGood,
   TouchUserSessionGood, CreateUserSessionGood, CreateClientSessionGood, LookupAccountGood,
   CreateAccountGood, RereadAccountGood, ListTargetsGood, NotifyBackchannelGood,
   DeleteUserSessionGood, ListSessionsGood, SweepSessionsGood DEF StoreStep

-----------------------------------------------------------------------------
(* Arrivals, answers and failures *)

LEMMA ArriveStepGood ==
  ASSUME Inv, NEW p \in Requests, ArriveStep(p)
  PROVE  Good(p)
<1>1. PICK k \in Kinds, n \in Steps, s \in Sids \cup {None}, c \in Clients \cup {None},
           u \in Users \cup Accounts \cup {None} :
        /\ Asking(k, n) \/ Ending(k, n)
        /\ k # "logoutAll" => s \in Sids /\ c \in Clients
        /\ k \in {"login", "sso"} => u \in Users
        /\ Arrive(p, k, s, c, u, n)
  BY ArrivalsArrive DEF Arrives
<1>2. Moved(p) /\ pc[p] = "idle" /\ pc'[p] = n /\ req'[p].kind = k
  BY <1>1, Arriving
<1>3. Stored
  BY ArrivalsArrive DEF Stored, Inv, TypeOK
<1>4. Alive' = Alive
  BY ArrivalsArrive DEF Alive, Live
<1>5. PhaseOf(p) = "idle"
  BY <1>2, NoRequestType DEF Inv, WellFormed, Standing, PhaseOf
<1>6. PhaseOf(p)' = IF Asking(k, n) THEN "asked" ELSE "idle"
  BY <1>1, <1>2, PhaseIsPhase, PhaseTable
<1>7. Abstractly(p)
  BY <1>4, <1>5, <1>6 DEF Abstractly, By
<1> QED BY <1>2, <1>3, <1>7 DEF Good

LEMMA AnswerStepGood ==
  ASSUME Inv, NEW p \in Requests, AnswerStep(p)
  PROVE  Good(p)
<1>1. pc[p] = "answer" /\ pc[p] \notin Over \cup {"idle"} /\ "done" \in Over
  BY DEF AnswerStep, AnswerTokens, AnswerUser, AnswerCode, Over
<1>2. Admitted(req[p].kind, pc[p])
  BY <1>1, ServedFacts DEF Asking, Admitted, Ending
<1>3. req[p].sid \in Sids /\ req[p].client \in Clients
      /\ (req[p].kind \in {"login", "sso"} => req[p].user \in Users)
  BY <1>1, ServedFacts
<1>4. CASE AnswerTokens(p)
  <2> DEFINE Token == [sid : Sids, client : Clients, refresh : BOOLEAN]
  <2>0. \A r \in BOOLEAN : [sid |-> req[p].sid, client |-> req[p].client, refresh |-> r] \in Token
    BY <1>3
  <2>1. tokens' \in SUBSET Token
    <3>1. tokens \in SUBSET Token
      BY DEF Inv, TypeOK
    <3> HIDE DEF Token
    <3> QED BY <1>4, <2>0, <3>1 DEF AnswerTokens
  <2> QED BY <1>1, <1>2, <1>4, <2>1, LeavingIsGood DEF AnswerTokens, Inv, TypeOK
<1>5. CASE AnswerUser(p)
  BY <1>1, <1>2, <1>5, LeavingIsGood DEF AnswerUser, Inv, TypeOK
<1>6. CASE AnswerCode(p)
  <2>1. codes' \in SUBSET (Sids \X Clients \X Users) /\ cookies' \in SUBSET (Sids \X Users)
        /\ forms' \in SUBSET Sids
    BY <1>3, <1>6 DEF AnswerCode, Inv, TypeOK
  <2> QED BY <1>1, <1>2, <1>6, <2>1, LeavingIsGood DEF AnswerCode, Inv, TypeOK
<1> QED BY <1>4, <1>5, <1>6 DEF AnswerStep

LEMMA FailGood ==
  ASSUME Inv, NEW p \in Requests, Fail(p)
  PROVE  Good(p)
BY RefuseIsGood DEF Fail

\* The administrator only ends sessions.
LEMMA AdminEnds ==
  ASSUME Inv, AdminDeleteSession \/ AdminLogoutUser \/ AdminDeleteUser
  PROVE  Inv' /\ Alive' \subseteq Alive /\ UNCHANGED <<pc, req>>
<1>1. \A u : EndSessionsOf(u) \in [Sids -> Session]
              /\ \A s \in Sids : EndSessionsOf(u)[s] \in {sessions[s], NoSession}
  BY NoSessionType DEF EndSessionsOf, Inv, TypeOK
<1>2. sessions' \in [Sids -> Session] /\ \A s \in Sids : sessions'[s] \in {sessions[s], NoSession}
  BY <1>1, NoSessionType DEF AdminDeleteSession, AdminLogoutUser, AdminDeleteUser, Inv, TypeOK
<1>3. users' \subseteq users /\ UNCHANGED <<forms, cookies, codes, tokens, drawn, pc, req, late>>
  BY DEF AdminDeleteSession, AdminLogoutUser, AdminDeleteUser
<1>4. TypeOK'
  BY <1>2, <1>3 DEF Inv, TypeOK
<1>5. WellFormed'
  BY <1>3 DEF Inv, WellFormed, Standing, Served
<1>6. Alive' \subseteq Alive
  BY <1>2 DEF Alive, Live
<1> QED BY <1>3, <1>4, <1>5, <1>6 DEF Inv

LEMMA AdminRefines ==
  ASSUME Alive' \subseteq Alive, UNCHANGED <<pc, req>>
  PROVE  [Authority!Next]_(Authority!vars)
<1> DEFINE phase == [q \in Requests |-> PhaseOf(q)]
           by == [q \in Requests |-> By(q)]
<1>1. phase' = phase /\ by' = by
  BY DEF PhaseOf, By
<1>2. Alive' = Alive \ (Alive \ Alive') /\ Alive \ Alive' \in SUBSET Sids
  BY DEF Alive
<1>3. Authority!End(Alive \ Alive')
  BY <1>1, <1>2 DEF Authority!End, Alive, By
<1> QED BY <1>2, <1>3 DEF Authority!Next

-----------------------------------------------------------------------------
(* Theorems *)

LEMMA InitHolds == Init => Inv /\ Authority!Init
<1> SUFFICES ASSUME Init PROVE Inv /\ Authority!Init
  OBVIOUS
<1>1. PICK s \in Sids, u \in Users, joined \in SUBSET (Clients \ {Robot}), served \in BOOLEAN :
        /\ served => joined = {}
        /\ sessions = [x \in Sids |-> IF x = s /\ joined # {}
                                      THEN [user |-> u, clients |-> joined] ELSE NoSession]
        /\ tokens = [sid : {s}, client : joined, refresh : {TRUE}]
        /\ cookies = IF joined = {} THEN {} ELSE {<<s, u>>}
        /\ forms = IF served THEN {s} ELSE {}
        /\ drawn = IF served \/ joined # {} THEN {s} ELSE {}
  BY DEF Init
<1>2. sessions \in [Sids -> Session]
  BY <1>1, NoSessionType DEF Session
<1>3. pc = [p \in Requests |-> "idle"] /\ req = [p \in Requests |-> NoRequest]
  BY DEF Init
<1>4. TypeOK
  <2>1. tokens \in SUBSET [sid : Sids, client : Clients, refresh : BOOLEAN]
    BY <1>1
  <2>2. cookies \in SUBSET (Sids \X Users)
    BY <1>1
  <2>3. forms \in SUBSET Sids /\ drawn \in SUBSET (Sids \cup Accounts)
    BY <1>1
  <2>4. users = Users /\ codes = {} /\ late = [p \in Requests |-> {}]
    BY DEF Init
  <2>5. pc \in [Requests -> Steps] /\ req \in [Requests -> Request]
    BY <1>3, NoRequestType DEF Steps
  <2> QED BY <1>2, <2>1, <2>2, <2>3, <2>4, <2>5 DEF TypeOK
<1>5. WellFormed
  BY <1>3 DEF WellFormed, Standing, Over
<1>6. \A p \in Requests : PhaseOf(p) = "idle"
  BY <1>3, NoRequestType DEF PhaseOf
<1>7. Authority!Init
  BY <1>6 DEF Authority!Init
<1> QED BY <1>4, <1>5, <1>7 DEF Inv

LEMMA StepHolds == Inv /\ [Next]_vars => Inv' /\ [Authority!Next]_(Authority!vars)
<1> SUFFICES ASSUME Inv, [Next]_vars PROVE Inv' /\ [Authority!Next]_(Authority!vars)
  OBVIOUS
<1>1. ASSUME NEW p \in Requests, Good(p)
      PROVE  Inv' /\ [Authority!Next]_(Authority!vars)
  <2>1. Inv'
    BY <1>1, MovedKeeps DEF Good, Stored
  <2>2. [Authority!Next]_(Authority!vars)
    BY <1>1, StepRefines DEF Good, Moved
  <2> QED BY <2>1, <2>2
<1>2. CASE \E p \in Requests : ArriveStep(p) \/ StoreStep(p) \/ AnswerStep(p) \/ Fail(p)
  BY <1>1, <1>2, ArriveStepGood, StoreStepGood, AnswerStepGood, FailGood
<1>3. CASE AdminDeleteSession \/ AdminLogoutUser \/ AdminDeleteUser
  BY <1>3, AdminEnds, AdminRefines
<1>4. CASE UNCHANGED vars
  <2>1. Inv'
    BY <1>4 DEF vars, Inv, TypeOK, WellFormed, Standing, Served
  <2>2. Alive' \subseteq Alive /\ UNCHANGED <<pc, req>>
    BY <1>4 DEF vars, Alive, Live
  <2> QED BY <2>1, <2>2, AdminRefines
<1> QED BY <1>2, <1>3, <1>4 DEF Next

\* Every variable keeps its type, however the store calls of any number of requests
\* interleave.
THEOREM TypeCorrect == Spec => []TypeOK
<1>1. Inv => TypeOK
  BY DEF Inv
<1> QED BY <1>1, InitHolds, StepHolds, PTL DEF Spec

\* The handlers of token.go, userinfo.go, introspect.go, tokenexchange.go, sso.go and
\* loginactions.go, split at their store calls, implement SessionAuthority: nobody is
\* answered who was not admitted by a session that was in the database.
THEOREM AuthorityImplemented == Spec => ImplementsAuthority
BY InitHolds, StepHolds, PTL DEF Spec, ImplementsAuthority, Authority!Spec
-----------------------------------------------------------------------------
(* What a step of somebody else does to a logout under way *)

\* Sessions are only ended.
OnlyEnded == \A s \in Sids : sessions'[s] \in {sessions[s], NoSession}

\* Every row that is new is in the history of q.
Heard(q) ==
  /\ late[q] \subseteq late'[q]
  /\ \A s \in Sids : Live(s)' => Live(s) \/ <<s, None>> \in late'[q]
  /\ \A s \in Sids : \A c \in sessions'[s].clients :
       c \in sessions[s].clients \/ <<s, c>> \in late'[q]

LEMMA EndingIsHeard ==
  ASSUME NEW q \in Requests, OnlyEnded, late'[q] = late[q]
  PROVE  Heard(q)
BY NoSessionType DEF Heard, OnlyEnded, Live

LEMMA LeavingIsLocal ==
  ASSUME Inv, NEW p \in Requests, NEW end, Leave(p, end), NEW q \in Requests \ {p}
  PROVE  late'[q] = late[q]
BY DEF Leave, Inv, TypeOK

LEMMA NewsIsHeard ==
  ASSUME Inv, NEW q \in Requests, req[q].kind \in Enders, pc[q] \notin Over, NEW row, late' = News(row)
  PROVE  late'[q] = late[q] \cup {row}
BY DEF News

LEMMA CreationIsHeard ==
  ASSUME Inv, NEW p \in Requests, CreateUserSession(p), NEW q \in Requests \ {p},
         req[q].kind \in Enders, pc[q] \notin Over
  PROVE  Heard(q)
<1> DEFINE s == req[p].sid
<1>0. s \in Sids
  BY ServedFacts DEF CreateUserSession, Over
<1>1. CASE ~Live(s) /\ req[p].user \in users
  <2>1. sessions' = [sessions EXCEPT ![s] = [user |-> req[p].user, clients |-> {}]] /\ late' = News(<<s, None>>)
    BY <1>1 DEF CreateUserSession
  <2>2. late'[q] = late[q] \cup {<<s, None>>}
    BY <2>1, NewsIsHeard
  <2>3. \A x \in Sids : x # s => sessions'[x] = sessions[x]
    BY <2>1 DEF Inv, TypeOK
  <2>4. sessions'[s].clients = {}
    BY <1>0, <2>1 DEF Inv, TypeOK
  <2> QED BY <2>2, <2>3, <2>4 DEF Heard, Live
<1>2. CASE Refuse(p) /\ UNCHANGED sessions
  BY <1>2, LeavingIsLocal, EndingIsHeard DEF Refuse, OnlyEnded
<1> QED BY <1>1, <1>2 DEF CreateUserSession

LEMMA JoiningIsHeard ==
  ASSUME Inv, NEW p \in Requests, CreateClientSession(p), NEW q \in Requests \ {p},
         req[q].kind \in Enders, pc[q] \notin Over
  PROVE  Heard(q)
<1> DEFINE s == req[p].sid
           c == req[p].client
<1>0. s \in Sids
  BY ServedFacts DEF CreateClientSession, Over
<1>1. CASE Live(s) /\ c \notin sessions[s].clients
  <2>1. sessions' = [sessions EXCEPT ![s].clients = @ \cup {c}] /\ late' = News(<<s, c>>)
    BY <1>1 DEF CreateClientSession
  <2>2. late'[q] = late[q] \cup {<<s, c>>}
    BY <2>1, NewsIsHeard
  <2>3. \A x \in Sids : x # s => sessions'[x] = sessions[x]
    BY <2>1 DEF Inv, TypeOK
  <2>4. sessions'[s].clients = sessions[s].clients \cup {c}
    BY <1>0, <2>1 DEF Inv, TypeOK, Session
  <2> QED BY <1>1, <2>2, <2>3, <2>4 DEF Heard, Live
<1>2. CASE Refuse(p) /\ UNCHANGED sessions
  BY <1>2, LeavingIsLocal, EndingIsHeard DEF Refuse, OnlyEnded
<1> QED BY <1>1, <1>2 DEF CreateClientSession

\* The reads: nothing a logout depends on is written.
LEMMA ReadingIsQuiet ==
  ASSUME Inv, NEW p \in Requests,
         \/ ReadUserSession(p) \/ ReadClientSession(p) \/ AttachClientSession(p) \/ ReadUser(p)
         \/ TouchUserSession(p) \/ LookupAccount(p) \/ CreateAccount(p) \/ RereadAccount(p)
         \/ ListTargets(p) \/ NotifyBackchannel(p) \/ ListSessions(p) \/ AnswerStep(p) \/ Fail(p)
  PROVE  sessions' = sessions /\ (late' = late \/ \E end : Leave(p, end))
<1>1. CASE ReadUserSession(p) \/ ReadClientSession(p) \/ AttachClientSession(p) \/ ReadUser(p)
  BY <1>1 DEF ReadUserSession, ReadClientSession, AttachClientSession, ReadUser, Stay, Refuse
<1>2. CASE TouchUserSession(p) \/ LookupAccount(p) \/ CreateAccount(p) \/ RereadAccount(p)
  BY <1>2 DEF TouchUserSession, LookupAccount, CreateAccount, RereadAccount, Stay, Refuse
<1>3. CASE ListTargets(p) \/ NotifyBackchannel(p) \/ ListSessions(p)
  BY <1>3 DEF ListTargets, NotifyBackchannel, ListSessions
<1>4. CASE AnswerStep(p) \/ Fail(p)
  BY <1>4 DEF AnswerStep, AnswerTokens, AnswerUser, AnswerCode, Fail
<1> QED BY <1>1, <1>2, <1>3, <1>4

\* The two calls that delete.
LEMMA DeletingIsQuiet ==
  ASSUME Inv, NEW p \in Requests, DeleteUserSession(p) \/ SweepSessions(p)
  PROVE  OnlyEnded /\ (late' = late \/ \E end : Leave(p, end))
<1>1. CASE DeleteUserSession(p)
  BY <1>1 DEF DeleteUserSession, OnlyEnded, Inv, TypeOK
<1>2. CASE SweepSessions(p)
  BY <1>2 DEF SweepSessions, OnlyEnded, Inv, TypeOK
<1> QED BY <1>1, <1>2

RequestStep(p) == ArriveStep(p) \/ StoreStep(p) \/ AnswerStep(p) \/ Fail(p)

LEMMA OthersHear ==
  ASSUME Inv, NEW p \in Requests, RequestStep(p), NEW q \in Requests \ {p},
         req[q].kind \in Enders, pc[q] \notin Over
  PROVE  Heard(q)
<1>1. CASE ArriveStep(p)
  <2>1. OnlyEnded /\ late' = late
    BY <1>1, ArrivalsArrive DEF OnlyEnded
  <2> QED BY <2>1, EndingIsHeard
<1>2. CASE CreateUserSession(p) \/ CreateClientSession(p)
  BY <1>2, CreationIsHeard, JoiningIsHeard
<1>3. ASSUME OnlyEnded, late' = late \/ \E end : Leave(p, end)
      PROVE  Heard(q)
  <2>1. late'[q] = late[q]
    BY <1>3, LeavingIsLocal
  <2> QED BY <1>3, <2>1, EndingIsHeard
<1>4. CASE DeleteUserSession(p) \/ SweepSessions(p)
  BY <1>3, <1>4, DeletingIsQuiet
<1>5. CASE \/ ReadUserSession(p) \/ ReadClientSession(p) \/ AttachClientSession(p) \/ ReadUser(p)
           \/ TouchUserSession(p) \/ LookupAccount(p) \/ CreateAccount(p) \/ RereadAccount(p)
           \/ ListTargets(p) \/ NotifyBackchannel(p) \/ ListSessions(p) \/ AnswerStep(p) \/ Fail(p)
  <2>1. sessions' = sessions /\ (late' = late \/ \E end : Leave(p, end))
    BY <1>5, ReadingIsQuiet
  <2>2. OnlyEnded
    BY <2>1 DEF OnlyEnded
  <2> QED BY <1>3, <2>1, <2>2
<1> QED BY <1>1, <1>2, <1>4, <1>5 DEF RequestStep, StoreStep

-----------------------------------------------------------------------------
(* What a logout under way still owes *)

\* A client of the session is still to be looked at or to be posted to, was told,
\* joined since, or was passed over after an error.
Owed(p) ==
  req[p].kind = "logout" /\ pc[p] \notin Over =>
    \A c \in BackClients \cap sessions[req[p].sid].clients :
      \/ <<req[p].sid, c>> \in late[p]
      \/ c \in req[p].missed
      \/ pc[p] = "look" /\ c \in req[p].todo \cup req[p].found
      \/ pc[p] = "post" /\ c \in req[p].found
      \/ pc[p] = "delete" /\ c \in req[p].told

\* A session is still on the list, or was started since.
Swept(p) ==
  req[p].kind = "logoutAll" /\ pc[p] = "sweep" =>
    \A s \in Sids : Live(s) => s \in req[p].todo \/ <<s, None>> \in late[p]

Owing == \A p \in Requests : Owed(p) /\ Swept(p)

LEMMA HeardKeeps ==
  ASSUME Inv, NEW q \in Requests, Owed(q), Swept(q), pc'[q] = pc[q], req'[q] = req[q],
         req[q].kind \in Enders /\ pc[q] \notin Over => Heard(q)
  PROVE  Owed(q)' /\ Swept(q)'
<1>1. pc[q] = "sweep" => pc[q] \notin Over
  BY DEF Over
<1>2. Owed(q)'
  <2>1. SUFFICES ASSUME req[q].kind = "logout", pc[q] \notin Over PROVE Owed(q)'
    BY DEF Owed
  <2>2. Heard(q)
    BY <2>1 DEF Enders
  <2>3. pc[q] # "idle"
    BY <2>1, KindTable, KindAssumption, NoRequestType DEF Inv, WellFormed, Standing
  <2>4. req[q].sid \in Sids
    BY <2>1, <2>3, ServedFacts DEF Asking, Admitted, Ending
  <2> QED BY <2>1, <2>2, <2>4 DEF Owed, Heard
<1>3. Swept(q)'
  <2>1. SUFFICES ASSUME req[q].kind = "logoutAll", pc[q] = "sweep" PROVE Swept(q)'
    BY DEF Swept
  <2>2. Heard(q)
    BY <1>1, <2>1 DEF Enders
  <2> QED BY <2>1, <2>2 DEF Swept, Heard
<1> QED BY <1>2, <1>3

\* A request that is no logout, or is over, owes nothing.
LEMMA NothingOwed ==
  ASSUME NEW p \in Requests, req'[p].kind \notin {"logout", "logoutAll"} \/ pc'[p] \in Over
  PROVE  Owed(p)' /\ Swept(p)'
<1>1. "sweep" \notin Over
  BY DEF Over
<1> QED BY <1>1 DEF Owed, Swept

LEMMA ArrivingOwes ==
  ASSUME Inv, NEW p \in Requests, ArriveStep(p)
  PROVE  Owed(p)' /\ Swept(p)'
<1>1. PICK k \in Kinds, n \in Steps, s \in Sids \cup {None}, c \in Clients \cup {None},
           u \in Users \cup Accounts \cup {None} :
        /\ k = "logout" => n = "look"
        /\ k = "logoutAll" => n = "list"
        /\ Arrive(p, k, s, c, u, n)
  BY ArrivalsArrive DEF Arrives
<1>2. pc'[p] = n /\ req'[p].kind = k /\ req'[p].todo = (IF k = "logout" THEN BackClients ELSE {})
  BY <1>1 DEF Arrive, Goto, NoRequest, Inv, TypeOK
<1>3. CASE k = "logout"
  BY <1>1, <1>2, <1>3 DEF Owed, Swept
<1>4. CASE k = "logoutAll"
  BY <1>1, <1>2, <1>4 DEF Owed, Swept
<1>5. CASE k \notin {"logout", "logoutAll"}
  BY <1>2, <1>5, NothingOwed
<1> QED BY <1>3, <1>4, <1>5

\* A request keeps its kind once it has one.
LEMMA KindStays ==
  ASSUME Inv, NEW p \in Requests, StoreStep(p) \/ AnswerStep(p) \/ Fail(p)
  PROVE  req'[p].kind = req[p].kind
<1>0. ASSUME NEW end, Leave(p, end) PROVE req'[p].kind = req[p].kind
  BY <1>0 DEF Leave, NoRequest, Inv, TypeOK
<1>1. CASE ReadUserSession(p) \/ ReadClientSession(p) \/ AttachClientSession(p) \/ ReadUser(p)
  BY <1>0, <1>1 DEF ReadUserSession, ReadClientSession, AttachClientSession, ReadUser, Stay, Refuse,
                    Inv, TypeOK, Request
<1>2. CASE TouchUserSession(p) \/ LookupAccount(p) \/ CreateAccount(p) \/ RereadAccount(p)
  BY <1>0, <1>2 DEF TouchUserSession, LookupAccount, CreateAccount, RereadAccount, Stay, Refuse,
                    Inv, TypeOK, Request
<1>3. CASE ListTargets(p) \/ NotifyBackchannel(p) \/ ListSessions(p)
  BY <1>3 DEF ListTargets, NotifyBackchannel, ListSessions, Inv, TypeOK, Request
<1>4. CASE CreateUserSession(p) \/ CreateClientSession(p)
  BY <1>0, <1>4 DEF CreateUserSession, CreateClientSession, Refuse
<1>5. CASE DeleteUserSession(p) \/ SweepSessions(p)
  BY <1>0, <1>5 DEF DeleteUserSession, SweepSessions, Inv, TypeOK, Request
<1>6. CASE AnswerStep(p) \/ Fail(p)
  BY <1>0, <1>6 DEF AnswerStep, AnswerTokens, AnswerUser, AnswerCode, Fail
<1> QED BY <1>1, <1>2, <1>3, <1>4, <1>5, <1>6 DEF StoreStep

LEMMA LookingOwes ==
  ASSUME Inv, NEW p \in Requests, Owed(p), ListTargets(p), req[p].kind = "logout"
  PROVE  Owed(p)'
<1> DEFINE s == req[p].sid
<1>1. pc[p] = "look" /\ pc[p] \notin Over /\ sessions' = sessions /\ late' = late
  BY DEF ListTargets, Over
<1>2. CASE \E c \in req[p].todo :
             /\ req' = [req EXCEPT ![p].todo = @ \ {c},
                                   ![p].found = IF c \in sessions[req[p].sid].clients
                                                THEN @ \cup {c} ELSE @]
             /\ UNCHANGED pc
  <2>1. PICK c \in req[p].todo :
          req' = [req EXCEPT ![p].todo = @ \ {c},
                             ![p].found = IF c \in sessions[s].clients THEN @ \cup {c} ELSE @]
    BY <1>2
  <2>2. /\ req'[p].sid = s /\ req'[p].todo = req[p].todo \ {c} /\ pc'[p] = "look"
        /\ req'[p].missed = req[p].missed
        /\ req'[p].found = IF c \in sessions[s].clients THEN req[p].found \cup {c} ELSE req[p].found
    <3> DEFINE more == IF c \in sessions[s].clients THEN req[p].found \cup {c} ELSE req[p].found
               r == [req[p] EXCEPT !.todo = @ \ {c}, !.found = more]
    <3>1. req' = [req EXCEPT ![p] = r]
      BY <2>1
    <3> HIDE DEF more
    <3>2. r.sid = s /\ r.todo = req[p].todo \ {c} /\ r.found = more /\ r.missed = req[p].missed
      BY DEF Inv, TypeOK, Request
    <3> HIDE DEF r
    <3>3. req'[p] = r /\ pc'[p] = "look"
      BY <1>1, <1>2, <3>1 DEF Inv, TypeOK
    <3> QED BY <3>2, <3>3 DEF more
  <2> QED BY <1>1, <2>2 DEF Owed
<1>3. CASE req[p].todo = {} /\ Advance(p) /\ UNCHANGED req
  <2>1. pc'[p] = "post"
    BY <1>1, <1>3, CallTable DEF Advance, Goto, Inv, TypeOK
  <2> QED BY <1>1, <1>3, <2>1 DEF Owed
<1>4. CASE \E c \in req[p].todo :
             req' = [req EXCEPT ![p].todo = @ \ {c}, ![p].missed = @ \cup {c}] /\ UNCHANGED pc
  <2>1. PICK c \in req[p].todo :
          req' = [req EXCEPT ![p].todo = @ \ {c}, ![p].missed = @ \cup {c}] /\ UNCHANGED pc
    BY <1>4
  <2>2. /\ req'[p].sid = s /\ req'[p].todo = req[p].todo \ {c} /\ pc'[p] = "look"
        /\ req'[p].found = req[p].found /\ req'[p].missed = req[p].missed \cup {c}
    BY <1>1, <2>1 DEF Inv, TypeOK, Request
  <2> QED BY <1>1, <2>2 DEF Owed
<1>5. CASE /\ req[p].todo = BackClients
           /\ req' = [req EXCEPT ![p].todo = {}, ![p].missed = BackClients]
           /\ UNCHANGED pc
  <2>1. /\ req'[p].sid = s /\ pc'[p] = "look" /\ req'[p].missed = BackClients
    BY <1>1, <1>5 DEF Inv, TypeOK, Request
  <2> QED BY <1>1, <2>1 DEF Owed
<1> QED BY <1>2, <1>3, <1>4, <1>5 DEF ListTargets

LEMMA PostingOwes ==
  ASSUME Inv, NEW p \in Requests, Owed(p), NotifyBackchannel(p), req[p].kind = "logout"
  PROVE  Owed(p)'
<1>1. pc[p] = "post" /\ pc[p] \notin Over /\ sessions' = sessions /\ late' = late
  BY DEF NotifyBackchannel, Over
<1>2. CASE \E c \in req[p].found \ req[p].told : req' = [req EXCEPT ![p].told = @ \cup {c}] /\ UNCHANGED pc
  <2>1. /\ req'[p].sid = req[p].sid /\ req'[p].found = req[p].found /\ pc'[p] = "post"
        /\ req'[p].missed = req[p].missed
    BY <1>1, <1>2 DEF Inv, TypeOK, Request
  <2> QED BY <1>1, <2>1 DEF Owed
<1>3. CASE req[p].found = req[p].told /\ Advance(p) /\ UNCHANGED req
  <2>1. pc'[p] = "delete"
    BY <1>1, <1>3, CallTable DEF Advance, Goto, Inv, TypeOK
  <2> QED BY <1>1, <1>3, <2>1 DEF Owed
<1>4. CASE \E c \in req[p].found \ req[p].told :
             req' = [req EXCEPT ![p].found = @ \ {c}, ![p].missed = @ \cup {c}] /\ UNCHANGED pc
  <2>1. PICK c \in req[p].found \ req[p].told :
          req' = [req EXCEPT ![p].found = @ \ {c}, ![p].missed = @ \cup {c}] /\ UNCHANGED pc
    BY <1>4
  <2>2. /\ req'[p].sid = req[p].sid /\ req'[p].found = req[p].found \ {c} /\ pc'[p] = "post"
        /\ req'[p].missed = req[p].missed \cup {c}
    BY <1>1, <2>1 DEF Inv, TypeOK, Request
  <2> QED BY <1>1, <2>2 DEF Owed
<1> QED BY <1>2, <1>3, <1>4 DEF NotifyBackchannel

LEMMA SweepingOwes ==
  ASSUME Inv, NEW p \in Requests, Swept(p), ListSessions(p) \/ SweepSessions(p), pc'[p] \notin Over
  PROVE  Swept(p)'
<1>1. CASE ListSessions(p)
  <2>1. req'[p].todo = {s \in Sids : Live(s)} /\ sessions' = sessions
    BY <1>1 DEF ListSessions, Inv, TypeOK, Request
  <2> QED BY <2>1 DEF Swept, Live
<1>2. CASE SweepSessions(p)
  <2>1. PICK s \in req[p].todo : sessions' = [sessions EXCEPT ![s] = NoSession]
                                 /\ req' = [req EXCEPT ![p].todo = @ \ {s}] /\ UNCHANGED <<pc, late>>
    BY <1>2 DEF SweepSessions, Leave, Goto, Over, Inv, TypeOK
  <2>2. req'[p].todo = req[p].todo \ {s} /\ req'[p].kind = req[p].kind
    BY <2>1 DEF Inv, TypeOK, Request
  <2>3. \A x \in Sids : sessions'[x] = IF x = s THEN NoSession ELSE sessions[x]
    BY <2>1 DEF Inv, TypeOK
  <2> QED BY <2>1, <2>2, <2>3 DEF Swept, Live
<1> QED BY <1>1, <1>2

LEMMA MoverOwes ==
  ASSUME Inv, NEW p \in Requests, Owed(p), Swept(p), RequestStep(p)
  PROVE  Owed(p)' /\ Swept(p)'
<1>1. CASE ArriveStep(p)
  BY <1>1, ArrivingOwes
<1>2. CASE AnswerStep(p) \/ Fail(p)
  <2>1. pc'[p] \in Over
    BY <1>2 DEF AnswerStep, AnswerTokens, AnswerUser, AnswerCode, Fail, Leave, Goto, Over, Inv, TypeOK
  <2> QED BY <2>1, NothingOwed
<1>3. CASE StoreStep(p)
  <2>0. req'[p].kind = req[p].kind
    BY <1>3, KindStays
  <2>1. CASE req[p].kind \notin {"logout", "logoutAll"}
    BY <2>0, <2>1, NothingOwed
  <2>2. pc[p] \notin Over \cup {"idle"}
    BY <1>3 DEF StoreStep, ReadUserSession, ReadClientSession, AttachClientSession, ReadUser,
                TouchUserSession, CreateUserSession, CreateClientSession, LookupAccount, CreateAccount,
                RereadAccount, ListTargets, NotifyBackchannel, DeleteUserSession, ListSessions,
                SweepSessions, Over
  <2>3. CASE req[p].kind = "logout"
    <3>1. pc[p] \in {"look", "post", "delete"}
      BY <2>2, <2>3, ServedFacts DEF Asking, Admitted, Ending
    <3>2. ListTargets(p) \/ NotifyBackchannel(p) \/ DeleteUserSession(p)
      BY <1>3, <3>1 DEF StoreStep, ReadUserSession, ReadClientSession, AttachClientSession, ReadUser,
                TouchUserSession, CreateUserSession, CreateClientSession, LookupAccount, CreateAccount,
                RereadAccount, ListSessions, SweepSessions
    <3>3. CASE DeleteUserSession(p)
      <4>1. pc'[p] \in Over
        BY <3>3 DEF DeleteUserSession, Leave, Goto, Over, Inv, TypeOK
      <4> QED BY <4>1, NothingOwed
    <3>4. CASE ListTargets(p) \/ NotifyBackchannel(p)
      <4>1. Owed(p)'
        BY <2>3, <3>4, LookingOwes, PostingOwes
      <4>2. Swept(p)'
        BY <2>0, <2>3 DEF Swept
      <4> QED BY <4>1, <4>2
    <3> QED BY <3>2, <3>3, <3>4
  <2>4. CASE req[p].kind = "logoutAll"
    <3>1. pc[p] \in {"list", "sweep"}
      BY <2>2, <2>4, ServedFacts DEF Asking, Admitted, Ending
    <3>2. ListSessions(p) \/ SweepSessions(p)
      BY <1>3, <3>1 DEF StoreStep, ReadUserSession, ReadClientSession, AttachClientSession, ReadUser,
                TouchUserSession, CreateUserSession, CreateClientSession, LookupAccount, CreateAccount,
                RereadAccount, ListTargets, NotifyBackchannel, DeleteUserSession
    <3>3. Owed(p)'
      BY <2>0, <2>4 DEF Owed
    <3>4. CASE pc'[p] \in Over
      BY <3>4, NothingOwed
    <3>5. CASE pc'[p] \notin Over
      BY <3>2, <3>3, <3>5, SweepingOwes
    <3> QED BY <3>4, <3>5
  <2> QED BY <2>1, <2>3, <2>4
<1> QED BY <1>1, <1>2, <1>3 DEF RequestStep

-----------------------------------------------------------------------------
(* Theorems *)

LEMMA OwingInit == Init => Owing
<1> SUFFICES ASSUME Init, NEW p \in Requests PROVE Owed(p) /\ Swept(p)
  BY DEF Owing
<1>1. req[p].kind = None /\ pc[p] = "idle"
  BY NoRequestType DEF Init
<1>2. None \notin {"logout", "logoutAll"}
  BY KindAssumption, KindTable
<1> QED BY <1>1, <1>2 DEF Owed, Swept

LEMMA OwingStep == Inv /\ Owing /\ [Next]_vars => Owing'
<1> SUFFICES ASSUME Inv, Owing, [Next]_vars, NEW q \in Requests PROVE Owed(q)' /\ Swept(q)'
  BY DEF Owing
<1>0. Owed(q) /\ Swept(q)
  BY DEF Owing
<1>1. CASE \E p \in Requests : RequestStep(p)
  <2>1. PICK p \in Requests : RequestStep(p)
    BY <1>1
  <2>2. Good(p)
    BY <2>1, ArriveStepGood, StoreStepGood, AnswerStepGood, FailGood DEF RequestStep
  <2>3. CASE q = p
    BY <1>0, <2>1, <2>3, MoverOwes
  <2>4. CASE q # p
    <3>1. pc'[q] = pc[q] /\ req'[q] = req[q]
      BY <2>2, <2>4 DEF Good, Moved, OthersStay
    <3>2. req[q].kind \in Enders /\ pc[q] \notin Over => Heard(q)
      BY <2>1, <2>4, OthersHear
    <3> QED BY <1>0, <3>1, <3>2, HeardKeeps
  <2> QED BY <2>3, <2>4
<1>2. CASE UNCHANGED vars \/ AdminDeleteSession \/ AdminLogoutUser \/ AdminDeleteUser
  <2>1. UNCHANGED <<pc, req, late>>
    BY <1>2 DEF vars, AdminDeleteSession, AdminLogoutUser, AdminDeleteUser
  <2>2. OnlyEnded
    BY <1>2 DEF vars, AdminDeleteSession, AdminLogoutUser, AdminDeleteUser, EndSessionsOf, OnlyEnded, Inv, TypeOK
  <2>3. Heard(q)
    BY <2>1, <2>2, EndingIsHeard
  <2> QED BY <1>0, <2>1, <2>3, HeardKeeps
<1> QED BY <1>1, <1>2 DEF Next, RequestStep

LEMMA LogoutInvariant == Spec => [](Inv /\ Owing)
BY InitHolds, StepHolds, OwingInit, OwingStep, PTL DEF Spec

\* channelLogoutTargets and notifyBackchannel before DeleteUserSession: a client whose
\* session a logout deletes was posted to, unless it joined while the logout was served
\* or one of the three errors those handlers swallow was about it: nothing else, no
\* interleaving with other logouts, logins or the administrator, leaves a member untold.
THEOREM LogoutTells == Spec => LogoutTellsMembers
<1> DEFINE A(p) == pc[p] = "delete" /\ pc'[p] = "done" /\ req[p].kind = "logout" =>
                     \A c \in BackClients \cap sessions[req[p].sid].clients :
                       c \in req[p].told \cup req[p].missed \/ <<req[p].sid, c>> \in late[p]
<1>1. Owing => \A p \in Requests : A(p)
  BY DEF Owing, Owed, Over
<1>2. Owing /\ [Next]_vars => [\A p \in Requests : A(p)]_vars
  BY <1>1
<1> QED BY <1>2, LogoutInvariant, PTL DEF Spec, LogoutTellsMembers

\* logoutAll: a session that is alive when it answers was started after it arrived.
THEOREM LogoutAllSweeps == Spec => LogoutAllMissesOnlyNew
<1> DEFINE A(p) == pc[p] = "sweep" /\ pc'[p] = "done" =>
                     \A s \in Sids : Live(s)' => <<s, None>> \in late[p]
<1>1. ASSUME Inv, Owing, [Next]_vars, NEW p \in Requests, pc[p] = "sweep", pc'[p] = "done",
             NEW s \in Sids, Live(s)'
      PROVE  <<s, None>> \in late[p]
  <2>1. pc[p] \notin Over \cup {"idle"}
    BY <1>1 DEF Over
  <2>2. req[p].kind = "logoutAll"
    BY <1>1, <2>1, ServedFacts DEF Asking, Admitted, Ending
  <2>3. RequestStep(p)
    <3>1. pc' # pc
      BY <1>1
    <3>2. PICK q \in Requests : RequestStep(q)
      BY <1>1, <3>1 DEF Next, RequestStep, vars, AdminDeleteSession, AdminLogoutUser, AdminDeleteUser
    <3>3. Good(q)
      BY <1>1, <3>2, ArriveStepGood, StoreStepGood, AnswerStepGood, FailGood DEF RequestStep
    <3>4. q = p
      BY <1>1, <3>3 DEF Good, Moved, OthersStay
    <3> QED BY <3>2, <3>4
  <2>4. SweepSessions(p)
    <3>1. ~ArriveStep(p)
      <4>1. ArriveStep(p) => pc[p] = "idle"
        BY DEF ArriveStep, RefreshTokenGrant, AuthorizationCodeGrant, PresentToken, PasswordGrant,
               ClientCredentialsGrant, SubmitLogin, SignOn, Revoke, Logout, LogoutAll, Arrive
      <4> QED BY <1>1, <4>1
    <3>2. ~AnswerStep(p)
      BY <1>1 DEF AnswerStep, AnswerTokens, AnswerUser, AnswerCode
    <3>3. ~Fail(p)
      BY <1>1 DEF Fail, Leave, Goto, Inv, TypeOK
    <3> QED BY <1>1, <2>3, <3>1, <3>2, <3>3
          DEF RequestStep, StoreStep, ReadUserSession, ReadClientSession, AttachClientSession, ReadUser,
              TouchUserSession, CreateUserSession, CreateClientSession, LookupAccount, CreateAccount,
              RereadAccount, ListTargets, NotifyBackchannel, DeleteUserSession, ListSessions
  <2>5. req[p].todo = {} /\ sessions' = sessions
    BY <1>1, <2>4 DEF SweepSessions
  <2> QED BY <1>1, <2>2, <2>5 DEF Owing, Swept, Live
<1>2. Inv /\ Owing /\ [Next]_vars => [\A p \in Requests : A(p)]_vars
  BY <1>1
<1> QED BY <1>2, LogoutInvariant, PTL DEF Spec, LogoutAllMissesOnlyNew
-----------------------------------------------------------------------------
(* Who knows a session id.  A service account's request draws its own and nobody
   else can use it before the answer, so that two client_credentials requests
   meet only at the account. *)

\* The session ids that pages, cookies, codes and tokens carry.
Handed == {s \in Sids : \/ s \in forms
                        \/ \E k \in cookies : k[1] = s
                        \/ \E k \in codes : k[1] = s
                        \/ \E t \in tokens : t.sid = s}

\* No id is in use that was not drawn.
Drawn ==
  /\ Handed \subseteq drawn
  /\ \A s \in Sids : Live(s) => s \in drawn
  /\ \A q \in Requests : req[q].sid = None \/ req[q].sid \in drawn

\* The id of a service account's session is its own until the answer, and what the
\* request finds under it is what the request wrote.
Own(p) ==
  req[p].kind = "robot" /\ pc[p] \notin Over =>
    /\ pc[p] \in {"lookup", "register", "reread"} => req[p].user = None
    /\ pc[p] \in {"create", "join"} => req[p].user \in Accounts
    /\ pc[p] # "answer" => req[p].sid \notin Handed /\ \A q \in Requests \ {p} : req[q].sid # req[p].sid
    /\ pc[p] \in {"lookup", "register", "reread", "create"} => ~Live(req[p].sid)
    /\ pc[p] = "join" => sessions[req[p].sid].clients = {}

Owned == Drawn /\ \A p \in Requests : Own(p)

-----------------------------------------------------------------------------
(* What a step does to ids *)

\* Where the id of a request comes from, and where it goes.
Reach(p) ==
  /\ Handed' \subseteq Handed \cup (IF pc[p] = "answer" THEN {req[p].sid} ELSE {})
  /\ drawn \subseteq drawn'
  /\ \A s \in Sids : s # req[p].sid => sessions'[s] \in {sessions[s], NoSession}
  /\ \/ req'[p].sid \in {req[p].sid, None} \cup Handed
     \/ req'[p].sid \in drawn' \ drawn

LEMMA HandedSame ==
  ASSUME UNCHANGED <<forms, cookies, tokens>>, codes' \subseteq codes
  PROVE  Handed' \subseteq Handed
BY DEF Handed

LEMMA ArrivingReaches ==
  ASSUME Inv, NEW p \in Requests, ArriveStep(p)
  PROVE  Reach(p)
<1>1. Handed' \subseteq Handed /\ sessions' = sessions
  BY ArrivalsArrive, HandedSame
<1>2. \A k, s, c, u, n : Arrive(p, k, s, c, u, n) => req'[p].sid = s
  BY DEF Arrive, NoRequest, Inv, TypeOK
<1>3. CASE RefreshTokenGrant(p) \/ PresentToken(p) \/ Revoke(p) \/ Logout(p)
  <2>1. \E t \in tokens : req'[p].sid = t.sid
    BY <1>2, <1>3 DEF RefreshTokenGrant, PresentToken, Revoke, Logout
  <2>2. req'[p].sid \in Handed
    BY <2>1 DEF Handed, Inv, TypeOK
  <2>3. drawn' = drawn
    BY <1>3 DEF RefreshTokenGrant, PresentToken, Revoke, Logout
  <2> QED BY <1>1, <2>2, <2>3 DEF Reach
<1>4. CASE AuthorizationCodeGrant(p)
  <2>1. \E x \in codes : req'[p].sid = x[1]
    BY <1>2, <1>4 DEF AuthorizationCodeGrant
  <2>2. req'[p].sid \in Handed
    BY <2>1 DEF Handed, Inv, TypeOK
  <2> QED BY <1>1, <1>4, <2>2 DEF AuthorizationCodeGrant, Reach
<1>5. CASE PasswordGrant(p) \/ ClientCredentialsGrant(p)
  <2>1. \E s \in Sids \ drawn : req'[p].sid = s /\ drawn' = drawn \cup {s}
    BY <1>2, <1>5 DEF PasswordGrant, ClientCredentialsGrant
  <2> QED BY <1>1, <2>1 DEF Reach
<1>6. CASE SubmitLogin(p)
  <2>1. req'[p].sid \in forms
    BY <1>2, <1>6 DEF SubmitLogin
  <2>2. req'[p].sid \in Handed
    BY <2>1 DEF Handed, Inv, TypeOK
  <2> QED BY <1>1, <1>6, <2>2 DEF SubmitLogin, Reach
<1>7. CASE SignOn(p)
  <2>1. \E x \in cookies : req'[p].sid = x[1]
    BY <1>2, <1>7 DEF SignOn
  <2>2. req'[p].sid \in Handed
    BY <2>1 DEF Handed, Inv, TypeOK
  <2> QED BY <1>1, <1>7, <2>2 DEF SignOn, Reach
<1>8. CASE LogoutAll(p)
  <2>1. req'[p].sid = None
    BY <1>2, <1>8 DEF LogoutAll
  <2> QED BY <1>1, <1>8, <2>1 DEF LogoutAll, Reach
<1> QED BY <1>3, <1>4, <1>5, <1>6, <1>7, <1>8 DEF ArriveStep

LEMMA LeavingForgets ==
  ASSUME Inv, NEW p \in Requests, NEW end, Leave(p, end)
  PROVE  req'[p].sid = None
BY DEF Leave, NoRequest, Inv, TypeOK

LEMMA StoringReaches ==
  ASSUME Inv, NEW p \in Requests, StoreStep(p) \/ Fail(p)
  PROVE  Reach(p)
<1>0. Handed' \subseteq Handed /\ drawn \subseteq drawn'
  <2>1. UNCHANGED <<forms, cookies, tokens, codes>>
    BY DEF StoreStep, ReadUserSession, ReadClientSession, AttachClientSession, ReadUser,
           TouchUserSession, CreateUserSession, CreateClientSession, LookupAccount, CreateAccount,
           RereadAccount, ListTargets, NotifyBackchannel, DeleteUserSession, ListSessions,
           SweepSessions, Fail
  <2>2. drawn \subseteq drawn'
    BY DEF StoreStep, ReadUserSession, ReadClientSession, AttachClientSession, ReadUser,
           TouchUserSession, CreateUserSession, CreateClientSession, LookupAccount, CreateAccount,
           RereadAccount, ListTargets, NotifyBackchannel, DeleteUserSession, ListSessions,
           SweepSessions, Fail
  <2> QED BY <2>1, <2>2, HandedSame
<1>1. CASE CreateUserSession(p) \/ CreateClientSession(p)
  <2>1. \A s \in Sids : s # req[p].sid => sessions'[s] = sessions[s]
    BY <1>1 DEF CreateUserSession, CreateClientSession, Inv, TypeOK
  <2>2. req'[p].sid \in {req[p].sid, None}
    BY <1>1, LeavingForgets DEF CreateUserSession, CreateClientSession, Refuse
  <2> QED BY <1>0, <2>1, <2>2 DEF Reach
<1>2. CASE DeleteUserSession(p) \/ SweepSessions(p)
  <2>1. OnlyEnded
    BY <1>2, DeletingIsQuiet
  <2>2. req'[p].sid \in {req[p].sid, None}
    BY <1>2, LeavingForgets DEF DeleteUserSession, SweepSessions, Inv, TypeOK, Request
  <2> QED BY <1>0, <2>1, <2>2 DEF Reach, OnlyEnded
<1>3. CASE \/ ReadUserSession(p) \/ ReadClientSession(p) \/ AttachClientSession(p) \/ ReadUser(p)
           \/ TouchUserSession(p) \/ LookupAccount(p) \/ CreateAccount(p) \/ RereadAccount(p)
           \/ ListTargets(p) \/ NotifyBackchannel(p) \/ ListSessions(p) \/ Fail(p)
  <2>1. sessions' = sessions
    BY <1>3, ReadingIsQuiet
  <2>2. req'[p].sid \in {req[p].sid, None}
    <3>1. CASE ReadUserSession(p) \/ ReadClientSession(p) \/ AttachClientSession(p) \/ ReadUser(p)
      BY <3>1, LeavingForgets DEF ReadUserSession, ReadClientSession, AttachClientSession, ReadUser,
         Stay, Refuse, Inv, TypeOK, Request
    <3>2. CASE TouchUserSession(p) \/ LookupAccount(p) \/ CreateAccount(p) \/ RereadAccount(p) \/ Fail(p)
      BY <3>2, LeavingForgets DEF TouchUserSession, LookupAccount, CreateAccount, RereadAccount, Fail,
         Stay, Refuse, Inv, TypeOK, Request
    <3>3. CASE ListTargets(p) \/ NotifyBackchannel(p) \/ ListSessions(p)
      <4>1. CASE ListTargets(p)
        <5>1. req[p] \in Request /\ req \in [Requests -> Request]
          BY DEF Inv, TypeOK
        <5>2. \A t, f : [req[p] EXCEPT !.todo = t, !.found = f].sid = req[p].sid
          BY <5>1 DEF Request
        <5>3. \A t, m : [req[p] EXCEPT !.todo = t, !.missed = m].sid = req[p].sid
          BY <5>1 DEF Request
        <5>4. ASSUME NEW c, NEW f, req' = [req EXCEPT ![p].todo = @ \ {c}, ![p].found = f]
              PROVE  req'[p].sid = req[p].sid
          BY <5>1, <5>2, <5>4
        <5>5. ASSUME NEW t, NEW m, req' = [req EXCEPT ![p].todo = t, ![p].missed = m]
              PROVE  req'[p].sid = req[p].sid
          BY <5>1, <5>3, <5>5
        <5>6. CASE \E c \in req[p].todo :
                     req' = [req EXCEPT ![p].todo = @ \ {c},
                                        ![p].found = IF c \in sessions[req[p].sid].clients
                                                     THEN @ \cup {c} ELSE @]
          BY <5>4, <5>6
        <5>7. CASE \/ \E c \in req[p].todo :
                        req' = [req EXCEPT ![p].todo = @ \ {c}, ![p].missed = @ \cup {c}]
                   \/ req' = [req EXCEPT ![p].todo = {}, ![p].missed = BackClients]
          BY <5>5, <5>7
        <5> QED BY <4>1, <5>6, <5>7 DEF ListTargets
      <4>2. CASE NotifyBackchannel(p) \/ ListSessions(p)
        BY <4>2 DEF NotifyBackchannel, ListSessions, Inv, TypeOK, Request
      <4> QED BY <3>3, <4>1, <4>2
    <3> QED BY <1>3, <3>1, <3>2, <3>3
  <2> QED BY <1>0, <2>1, <2>2 DEF Reach
<1> QED BY <1>1, <1>2, <1>3 DEF StoreStep

LEMMA AnsweringReaches ==
  ASSUME Inv, NEW p \in Requests, AnswerStep(p)
  PROVE  Reach(p)
<1>1. pc[p] = "answer" /\ sessions' = sessions /\ drawn' = drawn
  BY DEF AnswerStep, AnswerTokens, AnswerUser, AnswerCode
<1>2. req'[p].sid = None
  BY LeavingForgets DEF AnswerStep, AnswerTokens, AnswerUser, AnswerCode
<1>3. Handed' \subseteq Handed \cup {req[p].sid}
  <2>1. CASE AnswerTokens(p)
    BY <2>1 DEF AnswerTokens, Handed
  <2>2. CASE AnswerUser(p)
    BY <2>2 DEF AnswerUser, Handed
  <2>3. CASE AnswerCode(p)
    BY <2>3 DEF AnswerCode, Handed
  <2> QED BY <2>1, <2>2, <2>3 DEF AnswerStep
<1> QED BY <1>1, <1>2, <1>3 DEF Reach

LEMMA StepReaches ==
  ASSUME Inv, NEW p \in Requests, RequestStep(p)
  PROVE  Reach(p)
BY ArrivingReaches, StoringReaches, AnsweringReaches DEF RequestStep

-----------------------------------------------------------------------------
(* The invariant *)

LEMMA RobotStands ==
  ASSUME Inv, NEW p \in Requests, req[p].kind = "robot", pc[p] \notin Over
  PROVE  /\ pc[p] \in {"lookup", "register", "reread", "create", "join", "answer"}
         /\ req[p].sid \in Sids /\ req[p].sid # None
<1>1. pc[p] # "idle"
  BY KindTable, KindAssumption, NoRequestType DEF Inv, WellFormed, Standing
<1>2. pc[p] \in {"lookup", "register", "reread", "create", "join", "answer"}
  BY <1>1, ServedFacts DEF Asking, Admitted, Ending
<1> QED BY <1>1, <1>2, ServedFacts, SessionRaceAssumption

LEMMA DrawnKept ==
  ASSUME Inv, Drawn, NEW p \in Requests, Reach(p), OthersStay(p)
  PROVE  Drawn'
<1>1. req[p].sid = None \/ req[p].sid \in drawn
  BY DEF Drawn
<1>2. Handed' \subseteq drawn'
  BY <1>1, SessionRaceAssumption DEF Reach, Drawn, Handed
<1>3. ASSUME NEW s \in Sids, Live(s)' PROVE s \in drawn'
  <2>1. Live(s) \/ s = req[p].sid
    BY <1>3 DEF Reach, Live
  <2>2. s # None
    BY SessionRaceAssumption
  <2> QED BY <1>1, <2>1, <2>2 DEF Drawn, Reach
<1>4. ASSUME NEW q \in Requests PROVE req'[q].sid = None \/ req'[q].sid \in drawn'
  <2>1. CASE q = p
    BY <1>1, <2>1 DEF Reach, Drawn
  <2>2. CASE q # p
    BY <2>2 DEF Reach, Drawn, OthersStay
  <2> QED BY <2>1, <2>2
<1> QED BY <1>2, <1>3, <1>4 DEF Drawn

LEMMA OthersOwn ==
  ASSUME Inv, Drawn, NEW p \in Requests, Reach(p), OthersStay(p), NEW q \in Requests \ {p}, Own(q)
  PROVE  Own(q)'
<1>1. SUFFICES ASSUME req[q].kind = "robot", pc[q] \notin Over PROVE Own(q)'
  BY DEF Own, OthersStay
<1>2. pc'[q] = pc[q] /\ req'[q] = req[q] /\ req[q].sid \in Sids /\ req[q].sid # None
  BY <1>1, RobotStands DEF OthersStay
<1>3. CASE pc[q] = "answer"
  BY <1>2, <1>3 DEF Own
<1>4. CASE pc[q] # "answer"
  <2>1. req[q].sid \notin Handed /\ req[p].sid # req[q].sid /\ \A r \in Requests \ {q} : req[r].sid # req[q].sid
    BY <1>1, <1>4 DEF Own
  <2>2. req[q].sid \notin Handed'
    BY <2>1 DEF Reach
  <2>3. req[q].sid \in drawn
    BY <1>2 DEF Drawn
  <2>4. req'[p].sid # req[q].sid
    BY <1>2, <2>1, <2>3 DEF Reach
  <2>5. \A r \in Requests \ {q} : req'[r].sid # req'[q].sid
    BY <1>2, <2>1, <2>4 DEF OthersStay
  <2>6. sessions'[req[q].sid] \in {sessions[req[q].sid], NoSession}
    BY <1>2, <2>1 DEF Reach
  <2> QED BY <1>1, <1>2, <2>2, <2>5, <2>6, NoSessionType DEF Own, Live
<1> QED BY <1>3, <1>4

LEMMA ArrivingOwns ==
  ASSUME Inv, Drawn, NEW p \in Requests, ArriveStep(p), OthersStay(p)
  PROVE  Own(p)'
<1>1. \A k, s, c, u, n : Arrive(p, k, s, c, u, n)
        => req'[p].kind = k /\ req'[p].sid = s /\ req'[p].user = u /\ pc'[p] = n
  BY DEF Arrive, Goto, NoRequest, Inv, TypeOK
<1>2. CASE ClientCredentialsGrant(p)
  <2>1. PICK s \in Sids \ drawn : Arrive(p, "robot", s, Robot, None, "lookup")
    BY <1>2 DEF ClientCredentialsGrant
  <2>2. req'[p].sid = s /\ req'[p].user = None /\ pc'[p] = "lookup"
    BY <1>1, <2>1
  <2>3. s \notin Handed' /\ ~Live(s)'
    BY <1>2 DEF ClientCredentialsGrant, Drawn, Handed, Live
  <2>4. \A q \in Requests \ {p} : req'[q].sid # s
    BY SessionRaceAssumption DEF Drawn, OthersStay
  <2> QED BY <2>2, <2>3, <2>4 DEF Own
<1>3. CASE ~ClientCredentialsGrant(p)
  <2>1. req'[p].kind # "robot"
    BY <1>1, <1>3 DEF ArriveStep, RefreshTokenGrant, AuthorizationCodeGrant, PresentToken, PasswordGrant,
                      SubmitLogin, SignOn, Revoke, Logout, LogoutAll
  <2> QED BY <2>1 DEF Own
<1> QED BY <1>2, <1>3

\* What a served request of a service account may do, step by step.
LEMMA RobotSteps ==
  ASSUME Inv, NEW p \in Requests, RequestStep(p), req[p].kind = "robot"
  PROVE  \/ LookupAccount(p) \/ CreateAccount(p) \/ RereadAccount(p)
         \/ CreateUserSession(p) \/ CreateClientSession(p) \/ AnswerStep(p) \/ Fail(p)
<1>1. pc[p] # "idle"
  BY KindTable, KindAssumption, NoRequestType DEF Inv, WellFormed, Standing
<1>2. ~ArriveStep(p)
  <2>1. ArriveStep(p) => pc[p] = "idle"
    BY DEF ArriveStep, RefreshTokenGrant, AuthorizationCodeGrant, PresentToken, PasswordGrant,
           ClientCredentialsGrant, SubmitLogin, SignOn, Revoke, Logout, LogoutAll, Arrive
  <2> QED BY <1>1, <2>1
<1>3. pc[p] \in Over \cup {"lookup", "register", "reread", "create", "join", "answer"}
  BY RobotStands
<1> QED BY <1>2, <1>3
      DEF RequestStep, StoreStep, ReadUserSession, ReadClientSession, AttachClientSession, ReadUser,
          TouchUserSession, ListTargets, NotifyBackchannel, DeleteUserSession, ListSessions,
          SweepSessions, Over

LEMMA MoverOwns ==
  ASSUME Inv, Drawn, NEW p \in Requests, Own(p), RequestStep(p), ~ArriveStep(p), OthersStay(p),
         req[p].kind = "robot"
  PROVE  Own(p)'
<1> DEFINE s == req[p].sid
<1>0. ASSUME pc'[p] \in Over PROVE Own(p)'
  BY <1>0 DEF Own
<1>00. ASSUME NEW end \in Over, Leave(p, end) PROVE pc'[p] \in Over
  BY <1>00 DEF Leave, Goto, Inv, TypeOK
<1>1. CASE AnswerStep(p) \/ Fail(p)
  BY <1>0, <1>00, <1>1 DEF AnswerStep, AnswerTokens, AnswerUser, AnswerCode, Fail, Over
<1>2. CASE LookupAccount(p) \/ CreateAccount(p) \/ RereadAccount(p)
  <2>1. pc[p] \in {"lookup", "register", "reread"} /\ pc[p] \notin Over
    BY <1>2 DEF LookupAccount, CreateAccount, RereadAccount, Over
  <2>2. UNCHANGED <<sessions, forms, cookies, codes, tokens>>
    BY <1>2 DEF LookupAccount, CreateAccount, RereadAccount
  <2>3. Handed' = Handed
    BY <2>2 DEF Handed
  <2>4. s \notin Handed /\ (\A q \in Requests \ {p} : req[q].sid # s) /\ ~Live(s) /\ req[p].user = None
    BY <2>1 DEF Own
  <2>5. ASSUME req'[p].sid = s,
               \/ pc'[p] = "create" /\ req'[p].user \in Accounts
               \/ pc'[p] \in {"register", "reread"} /\ req'[p].user = None
        PROVE  Own(p)'
    <3>1. \A q \in Requests \ {p} : req'[q].sid # req'[p].sid
      BY <2>4, <2>5 DEF OthersStay
    <3>2. req'[p].sid \notin Handed' /\ ~(sessions'[req'[p].sid] # NoSession)
      BY <2>2, <2>3, <2>4, <2>5 DEF Live
    <3> QED BY <2>5, <3>1, <3>2 DEF Own, Live
  <2>6. ASSUME NEW a \in Accounts, Advance(p), req' = [req EXCEPT ![p].user = a] PROVE Own(p)'
    <3>1. pc'[p] = "create"
      BY <2>1, <2>6, CallTable DEF Advance, Goto, Inv, TypeOK
    <3>2. req'[p].sid = s /\ req'[p].user = a
      BY <2>6 DEF Inv, TypeOK, Request
    <3> QED BY <2>5, <3>1, <3>2
  <2>7. ASSUME NEW n \in {"register", "reread"}, Goto(p, n), req' = req PROVE Own(p)'
    <3>1. pc'[p] = n
      BY <2>7 DEF Goto, Inv, TypeOK
    <3> QED BY <2>4, <2>5, <2>7, <3>1
  <2>8. CASE LookupAccount(p)
    BY <2>6, <2>7, <2>8 DEF LookupAccount
  <2>9. CASE CreateAccount(p)
    BY <2>6, <2>7, <2>9 DEF CreateAccount
  <2>10. CASE RereadAccount(p)
    <3>1. "refused" \in Over
      BY DEF Over
    <3> QED BY <1>0, <1>00, <2>6, <2>10, <3>1 DEF RereadAccount, Refuse
  <2> QED BY <1>2, <2>8, <2>9, <2>10
<1>3. CASE CreateUserSession(p)
  <2>1. pc[p] = "create" /\ pc[p] \notin Over /\ s \in Sids
    BY <1>3, RobotStands DEF CreateUserSession, Over
  <2>2. CASE ~Live(s) /\ req[p].user \in users
    <3>1. /\ sessions' = [sessions EXCEPT ![s] = [user |-> req[p].user, clients |-> {}]]
          /\ Advance(p) /\ req' = req /\ UNCHANGED <<forms, cookies, codes, tokens>>
      BY <1>3, <2>2 DEF CreateUserSession
    <3>2. pc'[p] = "join"
      BY <2>1, <3>1, CallTable DEF Advance, Goto, Inv, TypeOK
    <3>3. sessions'[s].clients = {}
      BY <2>1, <3>1 DEF Inv, TypeOK
    <3>4. Handed' = Handed
      BY <3>1 DEF Handed
    <3>5. s \notin Handed /\ (\A q \in Requests \ {p} : req[q].sid # s) /\ req[p].user \in Accounts
      BY <2>1 DEF Own
    <3> QED BY <3>1, <3>2, <3>3, <3>4, <3>5 DEF Own
  <2>3. CASE Refuse(p)
    <3>1. "refused" \in Over
      BY DEF Over
    <3> QED BY <1>0, <1>00, <2>3, <3>1 DEF Refuse
  <2> QED BY <1>3, <2>2, <2>3 DEF CreateUserSession
<1>4. CASE CreateClientSession(p)
  <2>1. CASE Refuse(p)
    <3>1. "refused" \in Over
      BY DEF Over
    <3> QED BY <1>0, <1>00, <2>1, <3>1 DEF Refuse
  <2>2. CASE Advance(p) /\ req' = req
    <3>1. pc'[p] = "answer"
      BY <1>4, <2>2, CallTable DEF CreateClientSession, Advance, Goto, Inv, TypeOK
    <3> QED BY <3>1 DEF Own
  <2> QED BY <1>4, <2>1, <2>2 DEF CreateClientSession
<1> QED BY <1>1, <1>2, <1>3, <1>4, RobotSteps

LEMMA OwnedInit == Init => Owned
<1> SUFFICES ASSUME Init PROVE Owned
  OBVIOUS
<1>1. \A p \in Requests : req[p].kind = None /\ req[p].sid = None
  BY NoRequestType DEF Init
<1>2. None # "robot"
  BY KindAssumption, KindTable
<1>3. PICK s \in Sids, u \in Users, joined \in SUBSET (Clients \ {Robot}), served \in BOOLEAN :
        /\ served => joined = {}
        /\ sessions = [x \in Sids |-> IF x = s /\ joined # {}
                                      THEN [user |-> u, clients |-> joined] ELSE NoSession]
        /\ tokens = [sid : {s}, client : joined, refresh : {TRUE}]
        /\ cookies = IF joined = {} THEN {} ELSE {<<s, u>>}
        /\ forms = IF served THEN {s} ELSE {}
        /\ drawn = IF served \/ joined # {} THEN {s} ELSE {}
  BY DEF Init
<1>4. codes = {}
  BY DEF Init
<1>5. \A x \in Sids : Live(x) => x \in drawn
  BY <1>3 DEF Live
<1>6. \A t \in tokens : t.sid \in drawn
  BY <1>3
<1>7. (\A k \in cookies : k[1] \in drawn) /\ forms \subseteq drawn
  BY <1>3
<1>8. Handed \subseteq drawn
  BY <1>4, <1>6, <1>7 DEF Handed
<1> QED BY <1>1, <1>2, <1>5, <1>8 DEF Owned, Drawn, Own

LEMMA OwnedStep == Inv /\ Owned /\ [Next]_vars => Owned'
<1> SUFFICES ASSUME Inv, Owned, [Next]_vars PROVE Owned'
  OBVIOUS
<1>0. Drawn /\ \A q \in Requests : Own(q)
  BY DEF Owned
<1>1. CASE \E p \in Requests : RequestStep(p)
  <2>1. PICK p \in Requests : RequestStep(p)
    BY <1>1
  <2>2. Reach(p)
    BY <2>1, StepReaches
  <2>3. OthersStay(p)
    BY <2>1, ArriveStepGood, StoreStepGood, AnswerStepGood, FailGood DEF RequestStep, Good, Moved
  <2>4. Drawn'
    BY <1>0, <2>2, <2>3, DrawnKept
  <2>5. \A q \in Requests \ {p} : Own(q)'
    BY <1>0, <2>2, <2>3, OthersOwn
  <2>6. Own(p)'
    <3>1. CASE ArriveStep(p)
      BY <1>0, <2>3, <3>1, ArrivingOwns
    <3>2. CASE ~ArriveStep(p) /\ req[p].kind = "robot"
      BY <1>0, <2>1, <2>3, <3>2, MoverOwns
    <3>3. CASE ~ArriveStep(p) /\ req[p].kind # "robot"
      <4>1. req'[p].kind # "robot"
        BY <2>1, <3>3, KindStays DEF RequestStep
      <4> QED BY <4>1 DEF Own
    <3> QED BY <3>1, <3>2, <3>3
  <2> QED BY <2>4, <2>5, <2>6 DEF Owned
<1>2. CASE UNCHANGED vars \/ AdminDeleteSession \/ AdminLogoutUser \/ AdminDeleteUser
  <2>1. UNCHANGED <<forms, cookies, codes, tokens, drawn, pc, req>>
    BY <1>2 DEF vars, AdminDeleteSession, AdminLogoutUser, AdminDeleteUser
  <2>2. OnlyEnded
    BY <1>2 DEF vars, AdminDeleteSession, AdminLogoutUser, AdminDeleteUser, EndSessionsOf, OnlyEnded, Inv, TypeOK
  <2>3. Handed' = Handed
    BY <2>1 DEF Handed
  <2>4. Drawn'
    BY <1>0, <2>1, <2>2, <2>3 DEF Drawn, OnlyEnded, Live
  <2>5. ASSUME NEW q \in Requests PROVE Own(q)'
    <3>1. SUFFICES ASSUME req[q].kind = "robot", pc[q] \notin Over PROVE Own(q)'
      BY <2>1 DEF Own
    <3>2. sessions'[req[q].sid] \in {sessions[req[q].sid], NoSession}
      BY <2>2, <3>1, RobotStands DEF OnlyEnded
    <3>3. Own(q)
      BY <1>0
    <3> QED BY <2>1, <2>3, <3>1, <3>2, <3>3, NoSessionType DEF Own, Live
  <2> QED BY <2>4, <2>5 DEF Owned
<1> QED BY <1>1, <1>2 DEF Next, RequestStep

LEMMA OwnedInvariant == Spec => [](Inv /\ Owned)
BY InitHolds, StepHolds, OwnedInit, OwnedStep, PTL DEF Spec

-----------------------------------------------------------------------------
(* Theorems *)

LEMMA RefusedForAReason ==
  ASSUME Inv, Owned, NEW p \in Requests, RequestStep(p), req[p].kind = "robot", pc'[p] = "refused"
  PROVE  \/ req[p].user = None /\ Accounts \cap users = {}
         \/ req[p].user # None /\ req[p].user \notin users
         \/ pc[p] = "join" /\ ~Live(req[p].sid)
<1>0. Own(p)
  BY DEF Owned
<1>1. ~AnswerStep(p) /\ ~Fail(p)
  BY DEF AnswerStep, AnswerTokens, AnswerUser, AnswerCode, Fail, Leave, Goto, Inv, TypeOK
<1>2. pc[p] \in {"lookup", "register", "reread"} => Calls["robot"][pc[p]] = "create"
  BY CallTable
<1>3. CASE LookupAccount(p)
  BY <1>2, <1>3 DEF LookupAccount, Advance, Goto, Inv, TypeOK
<1>4. CASE CreateAccount(p)
  BY <1>2, <1>4 DEF CreateAccount, Advance, Goto, Inv, TypeOK
<1>5. CASE RereadAccount(p)
  <2>1. pc[p] = "reread" /\ pc[p] \notin Over
    BY <1>5 DEF RereadAccount, Over
  <2>2. Accounts \cap users = {}
    BY <1>2, <1>5 DEF RereadAccount, Advance, Goto, Inv, TypeOK
  <2> QED BY <1>0, <2>1, <2>2 DEF Own
<1>6. CASE CreateUserSession(p)
  <2>1. pc[p] = "create" /\ pc[p] \notin Over
    BY <1>6 DEF CreateUserSession, Over
  <2>2. ~Live(req[p].sid) /\ req[p].user \in Accounts
    BY <1>0, <2>1 DEF Own
  <2>3. Calls["robot"]["create"] = "join"
    BY CallTable
  <2>4. req[p].user \notin users
    BY <1>6, <2>1, <2>2, <2>3 DEF CreateUserSession, Advance, Goto, Inv, TypeOK
  <2> QED BY <2>2, <2>4, SessionRaceAssumption
<1>7. CASE CreateClientSession(p)
  <2>1. pc[p] = "join" /\ pc[p] \notin Over
    BY <1>7 DEF CreateClientSession, Over
  <2>2. sessions[req[p].sid].clients = {}
    BY <1>0, <2>1 DEF Own
  <2>3. Calls["robot"]["join"] = "answer"
    BY CallTable
  <2> QED BY <1>7, <2>1, <2>2, <2>3 DEF CreateClientSession, Advance, Goto, Inv, TypeOK
<1> QED BY <1>1, <1>3, <1>4, <1>5, <1>6, <1>7, RobotSteps

\* serviceAccountUser: of two client_credentials requests that race to create the
\* account neither is refused for it; a refusal means that the account or the session
\* was deleted under the request.
THEOREM AccountRaceSettled == Spec => AccountRaceHasNoLoser
<1> DEFINE A(p) == req[p].kind = "robot" /\ pc[p] # "refused" /\ pc'[p] = "refused" =>
                     \/ req[p].user = None /\ Accounts \cap users = {}
                     \/ req[p].user # None /\ req[p].user \notin users
                     \/ pc[p] = "join" /\ ~Live(req[p].sid)
<1>1. ASSUME Inv, Owned, [Next]_vars, NEW p \in Requests, req[p].kind = "robot",
             pc[p] # "refused", pc'[p] = "refused"
      PROVE  A(p)
  <2>1. pc' # pc
    BY <1>1
  <2>2. PICK q \in Requests : RequestStep(q)
    BY <1>1, <2>1 DEF Next, RequestStep, vars, AdminDeleteSession, AdminLogoutUser, AdminDeleteUser
  <2>3. OthersStay(q)
    BY <1>1, <2>2, ArriveStepGood, StoreStepGood, AnswerStepGood, FailGood DEF RequestStep, Good, Moved
  <2>4. q = p
    BY <1>1, <2>3 DEF OthersStay
  <2> QED BY <1>1, <2>2, <2>4, RefusedForAReason
<1>2. Inv /\ Owned /\ [Next]_vars => [\A p \in Requests : A(p)]_vars
  BY <1>1
<1> QED BY <1>2, OwnedInvariant, PTL DEF Spec, AccountRaceHasNoLoser
=============================================================================
