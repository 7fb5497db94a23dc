----------------------------- MODULE SessionRace -----------------------------
(***************************************************************************)
(* Requests that live off user sessions, served at the same time: the      *)
(* token grants, userinfo, introspection and token exchange, the end of a  *)
(* login and of a single sign-on, logout with its back-channel calls,      *)
(* revocation, and the administrator's ways to end sessions.               *)
(*                                                                         *)
(* The database is shared and every store call is one step; there is no    *)
(* transaction around two of them.  A request is a process: pc[p] is the   *)
(* store call it makes next.                                               *)
(***************************************************************************)
EXTENDS Naturals, FiniteSets

CONSTANTS
  Requests,     \* requests, each served once
  Sids,         \* session ids, of user sessions and of authentication sessions
  Clients,      \* clients of the realm
  BackClients,  \* the clients with a backchannel.logout.url
  Robot,        \* the client with a service account
  Users,        \* people
  Accounts,     \* ids a service account may be given
  None          \* absent value

ASSUME SessionRaceAssumption ==
  /\ BackClients \subseteq Clients
  /\ Robot \in Clients
  /\ None \notin Sids \cup Clients \cup Users \cup Accounts
  /\ Users \cap Accounts = {}

VARIABLES
  users,     \* user_entity: the ids that have a row
  sessions,  \* user_session with its client_session rows
  forms,     \* authStore.sessions: the roots whose login form can be submitted
  cookies,   \* the KEYCLOAK_IDENTITY cookies handed out
  codes,     \* authStore.codes
  tokens,    \* the tokens handed out
  drawn,     \* ids drawn so far: random ids never repeat
  pc,        \* the store call each request makes next
  req,       \* what each request carries
  late       \* rows created since a logout request arrived (history)

vars == <<users, sessions, forms, cookies, codes, tokens, drawn, pc, req, late>>

-----------------------------------------------------------------------------
(* The handlers as the store calls they make, in order.  A call that does   *)
(* not find what it needs ends the request, except where an action below    *)
(* says otherwise.                                                          *)

RefreshCalls ==
  [session |-> "clientSession", clientSession |-> "user",
   user |-> "touch", touch |-> "answer"]

CodeCalls == [session |-> "user", user |-> "answer"]
UserinfoCalls == [session |-> "user", user |-> "answer"]
IntrospectCalls == [session |-> "user", user |-> "answer"]
ExchangeCalls == [session |-> "user", user |-> "answer"]

\* ByUsername, then the credential, then startSession.
PasswordCalls ==
  [user |-> "credential", credential |-> "create", create |-> "join", join |-> "answer"]

\* serviceAccountUser, then startSession.
RobotCalls ==
  [lookup |-> "create", register |-> "create", reread |-> "create",
   create |-> "join", join |-> "answer"]

\* verifyLoginCredentials, then startSessionWithID.
LoginCalls ==
  [user |-> "credential", credential |-> "session", session |-> "attach",
   attach |-> "answer", create |-> "join", join |-> "answer"]

\* resolveBrowserSession, then attachClientSessionTo.
SSOCalls ==
  [session |-> "user", user |-> "attach", attach |-> "answer", join |-> "answer"]

RevokeCalls == [session |-> "delete"]

\* Mutant: the targets are listed and never posted to.
LogoutPostsNothing == [look |-> "delete", post |-> "delete"]

LogoutCalls == [look |-> "post", post |-> "delete"]

LogoutAllCalls == [list |-> "sweep"]

Calls ==
  [refresh |-> RefreshCalls, code |-> CodeCalls, userinfo |-> UserinfoCalls,
   introspect |-> IntrospectCalls, exchange |-> ExchangeCalls,
   password |-> PasswordCalls, robot |-> RobotCalls, login |-> LoginCalls,
   sso |-> SSOCalls, revoke |-> RevokeCalls, logout |-> LogoutCalls,
   logoutAll |-> LogoutAllCalls]

Kinds == DOMAIN Calls

ASSUME KindAssumption == None \notin Kinds

Enders == {"revoke", "logout", "logoutAll"}

Session == [user : Users \cup Accounts \cup {None}, clients : SUBSET Clients]
NoSession == [user |-> None, clients |-> {}]

\* `todo` is what a logout has still to look at or to delete, `found` and `told`
\* the clients it lists and has posted to, `missed` those it passed over because
\* a call about them failed (history).
Request == [kind : Kinds \cup {None}, sid : Sids \cup {None}, client : Clients \cup {None},
            user : Users \cup Accounts \cup {None}, todo : SUBSET (Clients \cup Sids),
            found : SUBSET Clients, told : SUBSET Clients, missed : SUBSET (Clients \cup Sids)]
NoRequest == [kind |-> None, sid |-> None, client |-> None, user |-> None,
              todo |-> {}, found |-> {}, told |-> {}, missed |-> {}]

Steps == {"idle", "session", "clientSession", "user", "credential", "touch", "attach",
          "create", "join", "lookup", "register", "reread", "look", "post", "delete",
          "list", "sweep", "answer", "done", "refused", "failed"}
Over == {"done", "refused", "failed"}

TypeOK ==
  /\ users \in SUBSET (Users \cup Accounts)
  /\ sessions \in [Sids -> Session]
  /\ forms \in SUBSET Sids
  /\ cookies \in SUBSET (Sids \X Users)
  /\ codes \in SUBSET (Sids \X Clients \X Users)
  /\ tokens \in SUBSET [sid : Sids, client : Clients, refresh : BOOLEAN]
  /\ drawn \in SUBSET (Sids \cup Accounts)
  /\ pc \in [Requests -> Steps]
  /\ req \in [Requests -> Request]
  /\ late \in [Requests -> SUBSET (Sids \X (Clients \cup {None}))]

Live(s) == sessions[s] # NoSession

\* Earlier traffic: a person's session with the tokens its clients hold, or a
\* login form that was served, or nothing.
Init ==
  /\ users = Users
  /\ \E s \in Sids, u \in Users, joined \in SUBSET (Clients \ {Robot}), served \in BOOLEAN :
       /\ served => joined = {}
       /\ sessions = [x \in Sids |-> IF x = s /\ joined # {}
                                     THEN [user |-> u, clients |-> joined] ELSE NoSession]
       /\ tokens = [sid : {s}, client : joined, refresh : {TRUE}]
       /\ cookies = IF joined = {} THEN {} ELSE {<<s, u>>}
       /\ forms = IF served THEN {s} ELSE {}
       /\ drawn = IF served \/ joined # {} THEN {s} ELSE {}
  /\ codes = {}
  /\ pc = [p \in Requests |-> "idle"]
  /\ req = [p \in Requests |-> NoRequest]
  /\ late = [p \in Requests |-> {}]

-----------------------------------------------------------------------------
(* Arrivals: what a request carries when its handler makes the first call *)

Goto(p, call) == pc' = [pc EXCEPT ![p] = call]

\* After this call succeeded.
Advance(p) == Goto(p, Calls[req[p].kind][pc[p]])

Arrive(p, kind, s, c, u, call) ==
  /\ pc[p] = "idle"
  /\ req' = [req EXCEPT ![p] = [NoRequest EXCEPT !.kind = kind, !.sid = s, !.client = c, !.user = u,
                                                 !.todo = IF kind = "logout" THEN BackClients ELSE {}]]
  /\ Goto(p, call)

RefreshTokenGrant(p) ==
  /\ \E t \in tokens : t.refresh /\ Arrive(p, "refresh", t.sid, t.client, None, "session")
  /\ UNCHANGED <<users, sessions, forms, cookies, codes, tokens, drawn, late>>

\* spendCode takes the code before anything else is looked at.
AuthorizationCodeGrant(p) ==
  /\ \E k \in codes :
       /\ codes' = codes \ {k}
       /\ Arrive(p, "code", k[1], k[2], k[3], "session")
  /\ UNCHANGED <<users, sessions, forms, cookies, tokens, drawn, late>>

\* userinfo, introspect and tokenExchangeGrant, with an access token.
PresentToken(p) ==
  /\ \E t \in tokens, c \in Clients, kind \in {"userinfo", "introspect", "exchange"} :
       /\ c = t.client \/ kind = "exchange"
       /\ Arrive(p, kind, t.sid, c, None, "session")
  /\ UNCHANGED <<users, sessions, forms, cookies, codes, tokens, drawn, late>>

PasswordGrant(p) ==
  /\ \E u \in Users, c \in Clients, s \in Sids \ drawn :
       /\ Arrive(p, "password", s, c, u, "user")
       /\ drawn' = drawn \cup {s}
  /\ UNCHANGED <<users, sessions, forms, cookies, codes, tokens, late>>

ClientCredentialsGrant(p) ==
  /\ \E s \in Sids \ drawn :
       /\ Arrive(p, "robot", s, Robot, None, "lookup")
       /\ drawn' = drawn \cup {s}
  /\ UNCHANGED <<users, sessions, forms, cookies, codes, tokens, late>>

\* resolveAuthTab finds the tab; the authentication session is not taken out.
SubmitLogin(p) ==
  /\ \E s \in forms, c \in Clients, u \in Users : Arrive(p, "login", s, c, u, "user")
  /\ UNCHANGED <<users, sessions, forms, cookies, codes, tokens, drawn, late>>

SignOn(p) ==
  /\ \E k \in cookies, c \in Clients : Arrive(p, "sso", k[1], c, k[2], "session")
  /\ UNCHANGED <<users, sessions, forms, cookies, codes, tokens, drawn, late>>

Revoke(p) ==
  /\ \E t \in tokens : Arrive(p, "revoke", t.sid, t.client, None, "session")
  /\ UNCHANGED <<users, sessions, forms, cookies, codes, tokens, drawn, late>>

\* logoutByRefreshToken and the hinted logoutFrontChannel.
Logout(p) ==
  /\ \E t \in tokens : Arrive(p, "logout", t.sid, t.client, None, "look")
  /\ UNCHANGED <<users, sessions, forms, cookies, codes, tokens, drawn, late>>

LogoutAll(p) ==
  /\ Arrive(p, "logoutAll", None, None, None, "list")
  /\ UNCHANGED <<users, sessions, forms, cookies, codes, tokens, drawn, late>>

-----------------------------------------------------------------------------
(* The store calls *)

\* A request that is over leaves nothing behind but the rows it wrote.
Leave(p, end) ==
  /\ Goto(p, end)
  /\ req' = [req EXCEPT ![p] = [NoRequest EXCEPT !.kind = req[p].kind]]
  /\ late' = [late EXCEPT ![p] = {}]

Refuse(p) == Leave(p, "refused")

Stay == UNCHANGED <<req, late>>

\* sessionRepo.UserSessionByID.  startSessionWithID creates the session it does
\* not find; everybody else is refused.  The owner read is the subject of the
\* answer where the request did not name one.
ReadUserSession(p) ==
  LET s == req[p].sid IN
  /\ pc[p] = "session"
  /\ IF Live(s)
     THEN /\ Advance(p)
          /\ req' = IF req[p].user = None THEN [req EXCEPT ![p].user = sessions[s].user] ELSE req
          /\ UNCHANGED late
     ELSE IF req[p].kind = "login" THEN Goto(p, "create") /\ Stay ELSE Refuse(p)
  /\ UNCHANGED <<users, sessions, forms, cookies, codes, tokens, drawn>>

\* The client_session row a refresh rests on.
ReadClientSession(p) ==
  /\ pc[p] = "clientSession"
  /\ IF req[p].client \in sessions[req[p].sid].clients THEN Advance(p) /\ Stay ELSE Refuse(p)
  /\ UNCHANGED <<users, sessions, forms, cookies, codes, tokens, drawn>>

\* attachClientSessionTo looks first and creates what it does not find.
AttachClientSession(p) ==
  /\ pc[p] = "attach"
  /\ IF req[p].client \in sessions[req[p].sid].clients THEN Advance(p) ELSE Goto(p, "join")
  /\ UNCHANGED <<users, sessions, forms, cookies, codes, tokens, drawn, req, late>>

\* userRepo.ByID, ByUsername and CredentialByUser: the credential goes with the user.
ReadUser(p) ==
  /\ pc[p] \in {"user", "credential"}
  /\ IF req[p].user \in users THEN Advance(p) /\ Stay ELSE Refuse(p)
  /\ UNCHANGED <<users, sessions, forms, cookies, codes, tokens, drawn>>

\* Mutant: an update that matches no row counts as a success.
TouchWithoutCount(p) ==
  /\ pc[p] = "touch"
  /\ Advance(p) /\ Stay
  /\ UNCHANGED <<users, sessions, forms, cookies, codes, tokens, drawn>>

\* TouchUserSession reports ErrNotFound when it matches no row.
TouchUserSession(p) ==
  /\ pc[p] = "touch"
  /\ IF Live(req[p].sid) THEN Advance(p) /\ Stay ELSE Refuse(p)
  /\ UNCHANGED <<users, sessions, forms, cookies, codes, tokens, drawn>>

\* A row created now is news to every logout under way.
News(row) == [q \in Requests |-> IF req[q].kind \in Enders /\ pc[q] \notin Over
                                 THEN late[q] \cup {row} ELSE late[q]]

\* The id is the primary key and the user a foreign key.
CreateUserSession(p) ==
  LET s == req[p].sid IN
  /\ pc[p] = "create"
  /\ IF ~Live(s) /\ req[p].user \in users
     THEN /\ sessions' = [sessions EXCEPT ![s] = [user |-> req[p].user, clients |-> {}]]
          /\ late' = News(<<s, None>>)
          /\ Advance(p)
          /\ UNCHANGED req
     ELSE Refuse(p) /\ UNCHANGED sessions
  /\ UNCHANGED <<users, forms, cookies, codes, tokens, drawn>>

\* (user_session_id, client_id) is unique and the session a foreign key.
CreateClientSession(p) ==
  LET s == req[p].sid
      c == req[p].client IN
  /\ pc[p] = "join"
  /\ IF Live(s) /\ c \notin sessions[s].clients
     THEN /\ sessions' = [sessions EXCEPT ![s].clients = @ \cup {c}]
          /\ late' = News(<<s, c>>)
          /\ Advance(p)
          /\ UNCHANGED req
     ELSE Refuse(p) /\ UNCHANGED sessions
  /\ UNCHANGED <<users, forms, cookies, codes, tokens, drawn>>

\* serviceAccountUser looks the account up by its username, which is unique.
LookupAccount(p) ==
  /\ pc[p] = "lookup"
  /\ \/ \E a \in Accounts \cap users :
          Advance(p) /\ req' = [req EXCEPT ![p].user = a]
     \/ /\ Accounts \cap users = {}
        /\ Goto(p, "register")
        /\ UNCHANGED req
  /\ UNCHANGED <<users, sessions, forms, cookies, codes, tokens, drawn, late>>

\* Mutant: the conflict is an error like any other.
CreateAccountOrFail(p) ==
  /\ pc[p] = "register"
  /\ \/ /\ Accounts \cap users = {}
        /\ \E a \in Accounts \ drawn :
             /\ users' = users \cup {a}
             /\ drawn' = drawn \cup {a}
             /\ req' = [req EXCEPT ![p].user = a]
        /\ Advance(p)
        /\ UNCHANGED late
     \/ /\ Accounts \cap users # {}
        /\ Refuse(p)
        /\ UNCHANGED <<users, drawn>>
  /\ UNCHANGED <<sessions, forms, cookies, codes, tokens>>

\* Users().Create; a conflict means that another request made it first.
CreateAccount(p) ==
  /\ pc[p] = "register"
  /\ \/ /\ Accounts \cap users = {}
        /\ \E a \in Accounts \ drawn :
             /\ users' = users \cup {a}
             /\ drawn' = drawn \cup {a}
             /\ req' = [req EXCEPT ![p].user = a]
        /\ Advance(p)
     \/ /\ Accounts \cap users # {}
        /\ Goto(p, "reread")
        /\ UNCHANGED <<users, drawn, req>>
  /\ UNCHANGED <<sessions, forms, cookies, codes, tokens, late>>

RereadAccount(p) ==
  /\ pc[p] = "reread"
  /\ \/ \E a \in Accounts \cap users :
          Advance(p) /\ req' = [req EXCEPT ![p].user = a] /\ UNCHANGED late
     \/ Accounts \cap users = {} /\ Refuse(p)
  /\ UNCHANGED <<users, sessions, forms, cookies, codes, tokens, drawn>>

\* channelLogoutTargets lists the clients and asks for each with a logout URL
\* whether it is in the session.  An error of either call is swallowed: without
\* the list there are no targets, and a client that cannot be asked about is none.
ListTargets(p) ==
  /\ pc[p] = "look"
  /\ \/ \E c \in req[p].todo :
          /\ \/ req' = [req EXCEPT ![p].todo = @ \ {c},
                                   ![p].found = IF c \in sessions[req[p].sid].clients
                                                THEN @ \cup {c} ELSE @]
             \/ req' = [req EXCEPT ![p].todo = @ \ {c}, ![p].missed = @ \cup {c}]
          /\ UNCHANGED pc
     \/ /\ req[p].todo = BackClients
        /\ req' = [req EXCEPT ![p].todo = {}, ![p].missed = BackClients]
        /\ UNCHANGED pc
     \/ req[p].todo = {} /\ Advance(p) /\ UNCHANGED req
  /\ UNCHANGED <<users, sessions, forms, cookies, codes, tokens, drawn, late>>

\* notifyBackchannel posts to each of them, but for one whose token cannot be
\* issued; whether the post arrives is nobody's business.
NotifyBackchannel(p) ==
  /\ pc[p] = "post"
  /\ \/ \E c \in req[p].found \ req[p].told :
          /\ \/ req' = [req EXCEPT ![p].told = @ \cup {c}]
             \/ req' = [req EXCEPT ![p].found = @ \ {c}, ![p].missed = @ \cup {c}]
          /\ UNCHANGED pc
     \/ req[p].found = req[p].told /\ Advance(p) /\ UNCHANGED req
  /\ UNCHANGED <<users, sessions, forms, cookies, codes, tokens, drawn, late>>

\* DeleteUserSession; a session that is already gone is as good as deleted.
DeleteUserSession(p) ==
  /\ pc[p] = "delete"
  /\ sessions' = [sessions EXCEPT ![req[p].sid] = NoSession]
  /\ Leave(p, "done")
  /\ UNCHANGED <<users, forms, cookies, codes, tokens, drawn>>

\* logoutAll lists the realm's sessions, deletes them one by one and stamps the realm.
ListSessions(p) ==
  /\ pc[p] = "list"
  /\ req' = [req EXCEPT ![p].todo = {s \in Sids : Live(s)}]
  /\ Advance(p)
  /\ UNCHANGED <<users, sessions, forms, cookies, codes, tokens, drawn, late>>

\* Mutant: the loop ends before the list does.
SweepOne(p) ==
  /\ pc[p] = "sweep"
  /\ \E s \in req[p].todo : sessions' = [sessions EXCEPT ![s] = NoSession]
  /\ Leave(p, "done")
  /\ UNCHANGED <<users, forms, cookies, codes, tokens, drawn>>

SweepSessions(p) ==
  /\ pc[p] = "sweep"
  /\ \/ \E s \in req[p].todo :
          /\ sessions' = [sessions EXCEPT ![s] = NoSession]
          /\ req' = [req EXCEPT ![p].todo = @ \ {s}]
          /\ UNCHANGED <<pc, late>>
     \/ req[p].todo = {} /\ Leave(p, "done") /\ UNCHANGED sessions
  /\ UNCHANGED <<users, forms, cookies, codes, tokens, drawn>>

-----------------------------------------------------------------------------
(* Answers and refusals *)

\* writeTokens.  A service account gets no refresh token, and token exchange
\* issues an access token only.
AnswerTokens(p) ==
  /\ pc[p] = "answer"
  /\ req[p].kind \in {"refresh", "code", "password", "robot", "exchange"}
  /\ tokens' = tokens \cup {[sid |-> req[p].sid, client |-> req[p].client,
                             refresh |-> req[p].kind \notin {"robot", "exchange"}]}
  /\ Leave(p, "done")
  /\ UNCHANGED <<users, sessions, forms, cookies, codes, drawn>>

\* userinfo's document and the active answer of introspect.
AnswerUser(p) ==
  /\ pc[p] = "answer"
  /\ req[p].kind \in {"userinfo", "introspect"}
  /\ Leave(p, "done")
  /\ UNCHANGED <<users, sessions, forms, cookies, codes, tokens, drawn>>

\* completeLogin ends the authentication session; writeSSOCode opens one at the
\* session's id.
AnswerCode(p) ==
  LET s == req[p].sid IN
  /\ pc[p] = "answer"
  /\ req[p].kind \in {"login", "sso"}
  /\ codes' = codes \cup {<<s, req[p].client, req[p].user>>}
  /\ cookies' = cookies \cup {<<s, req[p].user>>}
  /\ forms' = IF req[p].kind = "login" THEN forms \ {s} ELSE forms \cup {s}
  /\ Leave(p, "done")
  /\ UNCHANGED <<users, sessions, tokens, drawn>>

\* The request's context is cancelled, or a check on data that is not modelled
\* (a password, a disabled user, a scope) turns it away.
Fail(p) ==
  /\ pc[p] \notin Over \cup {"idle"}
  /\ Leave(p, "failed")
  /\ UNCHANGED <<users, sessions, forms, cookies, codes, tokens, drawn>>

-----------------------------------------------------------------------------
(* The administrator *)

\* deleteSession
AdminDeleteSession ==
  /\ \E s \in Sids : Live(s) /\ sessions' = [sessions EXCEPT ![s] = NoSession]
  /\ UNCHANGED <<users, forms, cookies, codes, tokens, drawn, pc, req, late>>

\* Mutant: the row is blanked and not removed.
BlankSessionsOf(u) == [s \in Sids |-> IF sessions[s].user = u THEN None ELSE sessions[s]]

EndSessionsOf(u) == [s \in Sids |-> IF sessions[s].user = u THEN NoSession ELSE sessions[s]]

\* logoutUser
AdminLogoutUser ==
  /\ \E u \in Users : sessions' = EndSessionsOf(u)
  /\ UNCHANGED <<users, forms, cookies, codes, tokens, drawn, pc, req, late>>

\* deleteUser; the sessions follow by the foreign key's cascade.
AdminDeleteUser ==
  /\ \E u \in users : users' = users \ {u} /\ sessions' = EndSessionsOf(u)
  /\ UNCHANGED <<forms, cookies, codes, tokens, drawn, pc, req, late>>

-----------------------------------------------------------------------------
ArriveStep(p) ==
  \/ RefreshTokenGrant(p) \/ AuthorizationCodeGrant(p) \/ PresentToken(p)
  \/ PasswordGrant(p) \/ ClientCredentialsGrant(p) \/ SubmitLogin(p) \/ SignOn(p)
  \/ Revoke(p) \/ Logout(p) \/ LogoutAll(p)

StoreStep(p) ==
  \/ ReadUserSession(p) \/ ReadClientSession(p) \/ AttachClientSession(p) \/ ReadUser(p)
  \/ TouchUserSession(p) \/ CreateUserSession(p) \/ CreateClientSession(p)
  \/ LookupAccount(p) \/ CreateAccount(p) \/ RereadAccount(p)
  \/ ListTargets(p) \/ NotifyBackchannel(p) \/ DeleteUserSession(p)
  \/ ListSessions(p) \/ SweepSessions(p)

AnswerStep(p) == AnswerTokens(p) \/ AnswerUser(p) \/ AnswerCode(p)

Next ==
  \/ \E p \in Requests : ArriveStep(p) \/ StoreStep(p) \/ AnswerStep(p) \/ Fail(p)
  \/ AdminDeleteSession
  \/ AdminLogoutUser
  \/ AdminDeleteUser

Spec == Init /\ [][Next]_vars

-----------------------------------------------------------------------------
(* Properties *)

\* Where a request that wants an answer stands: once the call that proves or
\* creates its session is behind it, it is admitted.
Unproved == [refresh |-> {"session", "clientSession", "user", "touch"},
             code |-> {"session"}, userinfo |-> {"session"}, introspect |-> {"session"},
             exchange |-> {"session"}, password |-> {"user", "credential", "create"},
             robot |-> {"lookup", "register", "reread", "create"},
             login |-> {"user", "credential", "session", "create"}, sso |-> {"session"}]

PhaseOf(p) ==
  IF req[p].kind \in Enders \cup {None} THEN "idle"
  ELSE IF pc[p] \in {"refused", "failed"} THEN "refused"
  ELSE IF pc[p] = "done" THEN "granted"
  ELSE IF pc[p] \in Unproved[req[p].kind] THEN "asked"
  ELSE "admitted"

\* The requests together implement SessionAuthority: whoever is answered with
\* tokens, a code or a user was admitted by a session that was in the database
\* at that instant, however logouts, twins and administrators interleave.  For a
\* refresh the instant is the touch after all its reads.
Authority == INSTANCE SessionAuthority WITH
  live <- {s \in Sids : Live(s)},
  phase <- [p \in Requests |-> PhaseOf(p)],
  by <- [p \in Requests |-> IF PhaseOf(p) = "admitted" THEN req[p].sid ELSE None]

ImplementsAuthority == Authority!Spec

\* channelLogoutTargets and notifyBackchannel before DeleteUserSession: a client
\* with a back-channel URL whose session a logout deletes was posted to, unless it
\* joined while the logout was being served or the list of clients, the question
\* whether it is a member or its token was an error the handlers swallow.
LogoutTellsMembers ==
  [][\A p \in Requests :
       pc[p] = "delete" /\ pc'[p] = "done" /\ req[p].kind = "logout" =>
         \A c \in BackClients \cap sessions[req[p].sid].clients :
           c \in req[p].told \cup req[p].missed \/ <<req[p].sid, c>> \in late[p]]_vars

\* logoutAll deletes what it listed: a session that is alive when it answers was
\* started after it arrived.
LogoutAllMissesOnlyNew ==
  [][\A p \in Requests :
       pc[p] = "sweep" /\ pc'[p] = "done" =>
         \A s \in Sids : Live(s)' => <<s, None>> \in late[p]]_vars

\* serviceAccountUser rereads after a conflict: a client_credentials request is
\* turned away by the store only when the account it found or lost to is gone.
AccountRaceHasNoLoser ==
  [][\A p \in Requests :
       req[p].kind = "robot" /\ pc[p] # "refused" /\ pc'[p] = "refused" =>
         \/ req[p].user = None /\ Accounts \cap users = {}
         \/ req[p].user # None /\ req[p].user \notin users
         \/ pc[p] = "join" /\ ~Live(req[p].sid)]_vars
=============================================================================
