---------------------------- MODULE BrowserLogin ----------------------------
(***************************************************************************)
(* The browser login of internal/oidc: GET /auth, the login form, the      *)
(* required actions, the consent page, single sign-on, the restart cookie, *)
(* and the two token grants that consume what the login leaves behind.     *)
(*                                                                         *)
(* One browser with several open pages drives one Gloak process.  An HTTP  *)
(* handler is one action, but for the end of a login: a submit that is let *)
(* through starts the user session, mints the code and ends the            *)
(* authentication session in steps of its own, while other submits, of the *)
(* same form too, go on.  The process keeps authentication sessions, tabs, *)
(* codes and consents in memory (authStore, consentStore); user and client *)
(* sessions and user rows are in the database and survive it.              *)
(***************************************************************************)
EXTENDS Naturals, Sequences, FiniteSets

CONSTANTS
  Users,           \* users that can log in
  Clients,         \* clients of the realm; a client also names its own request
  ConsentClients,  \* the clients with consentRequired
  Sids,            \* session ids: auth session roots and user sessions share them
  TabIds,          \* tab ids
  CodeIds,         \* authorization codes
  Providers,       \* the enabled required actions in priority order: <<[alias, kind], ...>>
  Prompts,         \* the prompt parameters the browser sends, each a set of tokens
  Events,          \* what may happen in this instance around the browser, the exchange
                   \* of its codes and, with "overlap", other requests while a login
                   \* is completing
  Lifespan,        \* clock ticks an authentication session lives without a request
  None             \* absent value

\* requiredActionTable's kinds, and VERIFY_EMAIL on a user whose address is not
\* verified, which stops the login on an error page (with a verified address it
\* is one of the self-clearing ones).
Kinds == {"form", "placeholder", "verifyEmail", "selfClears", "skipped"}

Aliases == {Providers[i].alias : i \in DOMAIN Providers}

\* executionOAuthGrant, the last member of the queue; NoStep is the empty alias.
OAuthGrant == "OAUTH_GRANT"
NoStep == ""

\* The one action the admin API writes into a user row.
UpdatePassword == "UPDATE_PASSWORD"

ASSUME ConstantsAssumption ==
  /\ None \notin Users \cup Clients \cup Sids \cup TabIds
  /\ ConsentClients \subseteq Clients
  /\ Providers \in Seq([alias : STRING \ {OAuthGrant, NoStep}, kind : Kinds])
  /\ Prompts \subseteq SUBSET {"none", "login", "consent", "create"}
  /\ Events \subseteq {"overlap", "exchange", "admin", "logout", "clock", "crash"}
  /\ Lifespan \in Nat \ {0}
  /\ Sids \cap TabIds = {}

VARIABLES
  enabled,    \* user row: the enabled flag
  actions,    \* user row: the required actions the user carries
  sessions,   \* user_session and client_session rows, by session id
  ttl,        \* authStore.sessions: ticks left of the auth session at a root, 0 = none
  tabs,       \* the tabs of those sessions
  codes,      \* authStore.codes, the spent ones and those still being made too
  grants,     \* consentStore.grants
  authCookie, \* the browser's AUTH_SESSION_ID
  identity,   \* the browser's KEYCLOAK_IDENTITY
  restart,    \* the browser's KC_RESTART and the record it points at
  pages,      \* the pages and redirects the browser holds
  tokens,     \* the refresh tokens issued
  minted,     \* session and tab ids drawn so far: random ids never repeat
  ended       \* the user sessions that were ended (history)

vars == <<enabled, actions, sessions, ttl, tabs, codes, grants,
          authCookie, identity, restart, pages, tokens, minted, ended>>

-----------------------------------------------------------------------------
(* Shapes of the records *)

Session == [user : Users \cup {None}, clients : SUBSET Clients]
NoSession == [user |-> None, clients |-> {}]

\* authTab.  `req` is the client whose authorization request the redirect URI,
\* state, scope, nonce and PKCE pair came from; `ask` is prompt=consent;
\* `proved` records that a password was verified on this tab.
Tab == [root : Sids \cup {None}, client : Clients \cup {None},
        req : Clients \cup {None}, user : Users \cup {None},
        ask : BOOLEAN, proved : BOOLEAN]
NoTab == [root |-> None, client |-> None, req |-> None, user |-> None,
          ask |-> FALSE, proved |-> FALSE]

\* A submit that is let through has a code from then on: "pending" until its
\* session is there, "started" until the code is in the store, and `ending` until
\* the authentication session is gone and the response is written.
Code == [state : {"none", "pending", "started", "live", "spent"}, user : Users \cup {None},
         sid : Sids \cup {None}, client : Clients \cup {None},
         tab : TabIds \cup {None}, proved : BOOLEAN, ending : BOOLEAN]
NoCode == [state |-> "none", user |-> None, sid |-> None, client |-> None,
           tab |-> None, proved |-> FALSE, ending |-> FALSE]

Identity == [user : Users \cup {None}, sid : Sids \cup {None}]
NoIdentity == [user |-> None, sid |-> None]

\* A KC_RESTART cookie whose record has expired has a request and no ticks left.
Restart == [req : Clients \cup {None}, left : 0..Lifespan]
NoRestart == [req |-> None, left |-> 0]

\* "login", "action" and "consent" are forms; "landing" and "relogin" are the
\* redirects to required-action and to authenticate, which carry no session code.
\* `fresh` says that a form still holds the tab's current session code.
Page == [kind : {"login", "action", "consent", "landing", "relogin"},
         tab : TabIds, client : Clients,
         step : Aliases \cup {OAuthGrant, NoStep}, fresh : BOOLEAN]

\* `ended` marks the tokens whose session was ended after they were issued.
Token == [sub : Users, sid : Sids, client : Clients, ended : BOOLEAN]

TypeOK ==
  /\ enabled \in [Users -> BOOLEAN]
  /\ actions \in [Users -> SUBSET Aliases]
  /\ sessions \in [Sids -> Session]
  /\ ttl \in [Sids -> 0..Lifespan]
  /\ tabs \in [TabIds -> Tab]
  /\ codes \in [CodeIds -> Code]
  /\ grants \in SUBSET (Users \X Clients)
  /\ authCookie \in Sids \cup {None}
  /\ identity \in Identity
  /\ restart \in Restart
  /\ pages \in SUBSET Page
  /\ tokens \in SUBSET Token
  /\ minted \in SUBSET (Sids \cup TabIds)
  /\ ended \in SUBSET Sids

Init ==
  /\ enabled = [u \in Users |-> TRUE]
  /\ actions \in [Users -> SUBSET Aliases]
  /\ sessions = [s \in Sids |-> NoSession]
  /\ ttl = [s \in Sids |-> 0]
  /\ tabs = [t \in TabIds |-> NoTab]
  /\ codes = [k \in CodeIds |-> NoCode]
  /\ grants = {}
  /\ authCookie = None
  /\ identity = NoIdentity
  /\ restart = NoRestart
  /\ pages = {}
  /\ tokens = {}
  /\ minted = {}
  /\ ended = {}

-----------------------------------------------------------------------------
(* The required-action queue *)

\* The enabled actions the user carries that serve a page, as places in the list.
Stops(acts) ==
  {i \in DOMAIN Providers : /\ Providers[i].alias \in acts
                            /\ Providers[i].kind \in {"form", "placeholder", "verifyEmail"}}

\* The alias of the first page the user owes, NoStep when there is none.
nextRequiredAction(acts) ==
  IF Stops(acts) = {} THEN NoStep
  ELSE Providers[CHOOSE i \in Stops(acts) : \A j \in Stops(acts) : i <= j].alias

\* Mutant: the whole list is walked, whether or not a page stops the login.
SettledToTheEnd(acts) ==
  acts \ {Providers[j].alias : j \in {i \in DOMAIN Providers : Providers[i].kind = "selfClears"}}

\* What the same walk leaves in the user row: the self-clearing actions it
\* passes before it stops are written away.
Settled(acts) ==
  acts \ {Providers[i].alias : i \in {j \in DOMAIN Providers :
             /\ Providers[j].kind = "selfClears"
             /\ \A k \in Stops(acts) : j < k}}

\* Mutant: the recorded grants are not consulted.
consentNeededOnPromptOnly(u, c, ask) == c \in ConsentClients /\ ask

\* Mutant: the consent key leaves the user out.
consentNeededPerClient(u, c, ask) ==
  c \in ConsentClients /\ (ask \/ \A w \in Users : <<w, c>> \notin grants)

consentNeeded(u, c, ask) ==
  c \in ConsentClients /\ (ask \/ <<u, c>> \notin grants)

\* Mutant: the login never reads the user's required actions.
tabStepConsentOnly(acts, u, c, ask) ==
  IF consentNeeded(u, c, ask) THEN OAuthGrant ELSE NoStep

\* The step a tab owes: the queue first, the consent page last.
tabStep(acts, u, c, ask) ==
  IF nextRequiredAction(acts) # NoStep THEN nextRequiredAction(acts)
  ELSE IF consentNeeded(u, c, ask) THEN OAuthGrant
  ELSE NoStep

-----------------------------------------------------------------------------
(* authStore *)

NewTabId == CHOOSE t \in TabIds : t \notin minted
NewSid == CHOOSE s \in Sids : s \notin minted
NewCodeId == CHOOSE k \in CodeIds : codes[k].state = "none"

liveAuthSession == authCookie # None /\ ttl[authCookie] > 0

\* beginAuthSession: the browser's live authentication session takes one more
\* tab, otherwise a session under a fresh root does.
beginAuthSession(tab) ==
  LET r == IF liveAuthSession THEN authCookie ELSE NewSid IN
  /\ \E t \in TabIds : t \notin minted
  /\ liveAuthSession \/ \E s \in Sids : s \notin minted
  /\ tabs' = [tabs EXCEPT ![NewTabId] = [tab EXCEPT !.root = r]]
  /\ ttl' = [ttl EXCEPT ![r] = Lifespan]
  /\ authCookie' = r
  /\ minted' = minted \cup {NewTabId, r}

\* Mutant: a fresh root instead of the user session's id.
resumeAuthSessionAtNewRoot(r, tab) ==
  /\ \E t \in TabIds : t \notin minted
  /\ \E s \in Sids : s \notin minted
  /\ tabs' = [tabs EXCEPT ![NewTabId] = [tab EXCEPT !.root = NewSid]]
  /\ ttl' = [ttl EXCEPT ![NewSid] = Lifespan]
  /\ authCookie' = NewSid
  /\ minted' = minted \cup {NewTabId, NewSid}

\* resumeAuthSession at a given root replaces whatever session was stored there.
resumeAuthSession(r, tab) ==
  /\ \E t \in TabIds : t \notin minted
  /\ tabs' = [t \in TabIds |->
                IF t = NewTabId THEN [tab EXCEPT !.root = r]
                ELSE IF tabs[t].root = r THEN NoTab ELSE tabs[t]]
  /\ ttl' = [ttl EXCEPT ![r] = Lifespan]
  /\ authCookie' = r
  /\ minted' = minted \cup {NewTabId}

\* Mutant: the authentication session outlives the login.
keepSession(r) == UNCHANGED <<ttl, tabs>>

\* authStore.endSession: the whole authentication session goes, every tab of it.
endSession(r) ==
  /\ ttl' = [ttl EXCEPT ![r] = 0]
  /\ tabs' = [t \in TabIds |-> IF tabs[t].root = r THEN NoTab ELSE tabs[t]]

\* A code that is asked for, or with "live" the whole of authStore.newCode.
newCode(state, u, s, c, t, proved) ==
  /\ \E k \in CodeIds : codes[k].state = "none"
  /\ codes' = [codes EXCEPT ![NewCodeId] =
                 [state |-> state, user |-> u, sid |-> s, client |-> c,
                  tab |-> t, proved |-> proved, ending |-> FALSE]]

\* A login is between two steps of completeLogin; in an instance without "overlap"
\* the rest of the system waits for it.
Completing(k) == codes[k].state \in {"pending", "started"} \/ codes[k].ending
Serving == "overlap" \in Events \/ \A k \in CodeIds : ~Completing(k)

-----------------------------------------------------------------------------
(* Pages *)

PageOf(kind, t, c, step) ==
  [kind |-> kind, tab |-> t, client |-> c, step |-> step, fresh |-> TRUE]

\* rotateSessionCode: the forms that carried the tab's previous code are stale.
Stale(t) ==
  {IF p.tab = t /\ p.kind \in {"login", "action"} THEN [p EXCEPT !.fresh = FALSE] ELSE p
     : p \in pages}

\* serveLoginPage
serveLoginPage(t, c) ==
  pages' = Stale(t) \cup {PageOf("login", t, c, NoStep)}

\* writeRequiredActionRedirect
writeRequiredActionRedirect(t, c, step) ==
  pages' = pages \cup {PageOf("landing", t, c, step)}

KindOf(step) == Providers[CHOOSE i \in DOMAIN Providers : Providers[i].alias = step].kind

\* serveStep: the consent page, a form, a page with nothing to submit, or the
\* VERIFY_EMAIL error page, which alone rotates nothing.
serveStep(t, c, step) ==
  /\ pages' = IF step = OAuthGrant THEN Stale(t) \cup {PageOf("consent", t, c, step)}
              ELSE IF KindOf(step) = "form" THEN Stale(t) \cup {PageOf("action", t, c, step)}
              ELSE IF KindOf(step) = "placeholder" THEN Stale(t)
              ELSE pages
  /\ ttl' = IF step # OAuthGrant /\ KindOf(step) = "verifyEmail" THEN ttl
            ELSE [ttl EXCEPT ![tabs[t].root] = Lifespan]

\* The tab a request names is in the authentication session the cookie names.
tabByID(t) == liveAuthSession /\ tabs[t].root = authCookie

\* resolveAuthTab for a form with a session code.
tabByCode(p) == tabByID(p.tab) /\ p.fresh

\* Every handler refuses a request whose client_id is not the tab's.
SameClient(p) == tabs[p.tab].client = p.client

-----------------------------------------------------------------------------
(* GET /auth, step 10: prompt, max_age and the browser session decide *)

\* resolveBrowserSession, and what it clears when there is none.
resolveBrowserSession ==
  /\ identity.sid # None
  /\ sessions[identity.sid] # NoSession
  /\ enabled[identity.user]

\* `young` stands for the two inputs that only weaken a session: the cookie
\* authenticator is on and max_age is met.
Fresh(young) == resolveBrowserSession /\ young

\* The part of resolveSSO before its branches, with its writes: the identity
\* cookie of a session that does not resolve is cleared, and asking a fresh
\* session's user for the next action writes the self-clearing ones away.
resolveSSO(young) ==
  /\ identity' = IF resolveBrowserSession THEN identity ELSE NoIdentity
  /\ actions' = IF Fresh(young) THEN [actions EXCEPT ![identity.user] = Settled(@)]
                ELSE actions

\* The step a fresh session's user owes for this request.
SSOStep(c, pr) == tabStep(actions[identity.user], identity.user, c, "consent" \in pr)

\* authRequest.tab
RequestTab(c, pr) ==
  [NoTab EXCEPT !.client = c, !.req = c, !.ask = "consent" \in pr]

\* Mutant: the record's expiry does not follow the session's.
RequestRestartTooLong(c) == [req |-> c, left |-> Lifespan + 1]

\* authRequest.restart, stored under a new KC_RESTART.
RequestRestart(c) == [req |-> c, left |-> Lifespan]

\* beginLoginFromParams: prompt=login, or nobody is signed in.
AuthorizeLogin(c, pr, young) ==
  /\ Serving
  /\ "none" \notin pr
  /\ "login" \in pr \/ (~Fresh(young) /\ "create" \notin pr)
  /\ resolveSSO(young)
  /\ beginAuthSession(RequestTab(c, pr))
  /\ restart' = RequestRestart(c)
  /\ serveLoginPage(NewTabId, c)
  /\ UNCHANGED <<enabled, sessions, codes, grants, tokens, ended>>

\* prompt=none that cannot be answered silently: login_required or
\* interaction_required, with a tab opened and a presented KC_RESTART cleared.
AuthorizeSilent(c, pr, young) ==
  /\ Serving
  /\ "none" \in pr
  /\ Fresh(young) /\ "login" \notin pr => SSOStep(c, pr) # NoStep
  /\ resolveSSO(young)
  /\ beginAuthSession(RequestTab(c, pr))
  /\ restart' = NoRestart
  /\ UNCHANGED <<enabled, sessions, codes, grants, pages, tokens, ended>>

\* prompt=create: the registration page is refused, after a tab was opened.
AuthorizeCreate(c, pr, young) ==
  /\ Serving
  /\ "create" \in pr /\ pr \cap {"none", "login"} = {}
  /\ resolveSSO(young)
  /\ beginAuthSession(RequestTab(c, pr))
  /\ UNCHANGED <<enabled, sessions, codes, grants, restart, pages, tokens, ended>>

\* completeSSO: a code for the session the browser already has.  A KC_RESTART
\* that came with the request is cleared after the new one was written.
AuthorizeCode(c, pr, young) ==
  /\ Serving
  /\ Fresh(young)
  /\ "login" \notin pr /\ ("create" \in pr => "none" \in pr)
  /\ SSOStep(c, pr) = NoStep
  /\ resolveSSO(young)
  /\ resumeAuthSession(identity.sid, RequestTab(c, pr))
  /\ restart' = IF "none" \in pr \/ restart # NoRestart THEN NoRestart
                ELSE RequestRestart(c)
  /\ sessions' = [sessions EXCEPT ![identity.sid].clients = @ \cup {c}]
  /\ newCode("live", identity.user, identity.sid, c, NewTabId, FALSE)
  /\ UNCHANGED <<enabled, grants, pages, tokens, ended>>

\* beginRequiredActionFromSSO: a signed-in user who owes a page.
AuthorizeStep(c, pr, young) ==
  /\ Serving
  /\ Fresh(young)
  /\ pr \cap {"none", "login", "create"} = {}
  /\ SSOStep(c, pr) # NoStep
  /\ resolveSSO(young)
  /\ resumeAuthSession(identity.sid, [RequestTab(c, pr) EXCEPT !.user = identity.user])
  /\ restart' = RequestRestart(c)
  /\ writeRequiredActionRedirect(NewTabId, c, SSOStep(c, pr))
  /\ UNCHANGED <<enabled, sessions, codes, grants, tokens, ended>>

-----------------------------------------------------------------------------
(* POST and GET /login-actions *)

\* startSessionWithID: a session that exists under the root is reused as it is.
startSessionWithID(r, u, c) ==
  sessions' = [sessions EXCEPT ![r] =
                 [user |-> IF @ = NoSession THEN u ELSE @.user,
                  clients |-> @.clients \cup {c}]]

\* A submit is let through to completeLogin, with the tab as it read it.  The tab
\* stays open and its session code good until EndLogin.
completeLogin(t, u, proved) ==
  newCode("pending", u, tabs[t].root, tabs[t].client, t, proved)

\* completeLogin, the end of every browser flow, in three steps.  A login whose
\* session could not be started goes no further.
StartLogin(k) ==
  /\ codes[k].state = "pending"
  /\ startSessionWithID(codes[k].sid, codes[k].user, codes[k].client)
  /\ codes' = [codes EXCEPT ![k].state = "started"]
  /\ UNCHANGED <<enabled, actions, ttl, tabs, grants, authCookie, identity, restart,
                 pages, tokens, minted, ended>>

MintCode(k) ==
  /\ codes[k].state = "started"
  /\ codes' = [codes EXCEPT ![k].state = "live", ![k].ending = TRUE]
  /\ UNCHANGED <<enabled, actions, sessions, ttl, tabs, grants, authCookie, identity,
                 restart, pages, tokens, minted, ended>>

EndLogin(k) ==
  /\ codes[k].ending
  /\ endSession(codes[k].sid)
  /\ codes' = [codes EXCEPT ![k].ending = FALSE]
  /\ restart' = NoRestart
  /\ identity' = [user |-> codes[k].user, sid |-> codes[k].sid]
  /\ UNCHANGED <<enabled, actions, sessions, grants, authCookie, pages, tokens, minted,
                 ended>>

\* writeUnusableSession: with a live restart record the login starts over in a
\* new tab, for the client the query names and the request the record holds.
\* The other two answers, the client's error redirect and the error page, change
\* nothing.
RestartLogin(p) ==
  /\ Serving
  /\ ~(IF p.kind = "login" THEN tabByCode(p) ELSE tabByID(p.tab))
     \/ (p.kind \in {"landing", "action", "consent"} /\ tabs[p.tab].user = None)
  /\ restart.req # None /\ restart.left > 0
  /\ beginAuthSession([NoTab EXCEPT !.client = p.client, !.req = restart.req])
  /\ pages' = pages \cup {PageOf("relogin", NewTabId, p.client, NoStep)}
  /\ UNCHANGED <<enabled, actions, sessions, codes, grants, identity, restart, tokens, ended>>

\* The redirect of a restart: the tab is found by its id and the form is served.
LandLogin(p) ==
  /\ Serving
  /\ p.kind = "relogin" /\ tabByID(p.tab) /\ SameClient(p)
  /\ serveLoginPage(p.tab, p.client)
  /\ ttl' = [ttl EXCEPT ![authCookie] = Lifespan]
  /\ UNCHANGED <<enabled, actions, sessions, tabs, codes, grants, authCookie,
                 identity, restart, tokens, minted, ended>>

\* attemptLogin with credentials that are wrong, or of a disabled user.
LoginRefused(p) ==
  /\ Serving
  /\ p.kind = "login" /\ tabByCode(p) /\ SameClient(p)
  /\ serveLoginPage(p.tab, p.client)
  /\ ttl' = [ttl EXCEPT ![authCookie] = Lifespan]
  /\ UNCHANGED <<enabled, actions, sessions, tabs, codes, grants, authCookie,
                 identity, restart, tokens, minted, ended>>

\* attemptLogin with good credentials: the tab's user is set, the queue is asked,
\* and the browser is sent to its first step or the flow ends here.
LoginAccepted(p, u) ==
  LET tab == tabs[p.tab]
      step == tabStep(actions[u], u, p.client, tab.ask)
  IN
  /\ Serving
  /\ p.kind = "login" /\ tabByCode(p) /\ SameClient(p)
  /\ enabled[u]
  /\ actions' = [actions EXCEPT ![u] = Settled(@)]
  /\ tabs' = [tabs EXCEPT ![p.tab].user = u, ![p.tab].proved = TRUE]
  /\ \/ /\ step # NoStep
        /\ writeRequiredActionRedirect(p.tab, p.client, step)
        /\ UNCHANGED codes
     \/ /\ step = NoStep
        /\ completeLogin(p.tab, u, TRUE)
        /\ UNCHANGED pages
  /\ UNCHANGED <<enabled, sessions, ttl, grants, authCookie, identity, restart, tokens,
                 minted, ended>>

\* requiredAction without a session code: the page of the step the tab owes, or
\* the expired page when the redirect named another one.
LandStep(p) ==
  LET tab == tabs[p.tab]
      u == tab.user
      step == tabStep(actions[u], u, p.client, tab.ask)
  IN
  /\ Serving
  /\ p.kind = "landing" /\ tabByID(p.tab) /\ SameClient(p) /\ u # None
  /\ actions' = [actions EXCEPT ![u] = Settled(@)]
  /\ \/ /\ step = NoStep \/ p.step \notin {NoStep, step}
        /\ UNCHANGED <<ttl, pages>>
     \/ /\ step # NoStep /\ p.step \in {NoStep, step}
        /\ serveStep(p.tab, p.client, step)
  /\ UNCHANGED <<enabled, sessions, tabs, codes, grants, authCookie, identity,
                 restart, tokens, minted, ended>>

\* runStep of a form that passes its validation: its action leaves the user row,
\* which was read after the queue was asked.
runStep(acts, step) == Settled(acts) \ {step}

\* requiredAction with a session code: runStep and continueAfterStep.  `ok` is
\* whether the form passes its own validation.
SubmitAction(p, ok) ==
  LET tab == tabs[p.tab]
      u == tab.user
      due == tabStep(actions[u], u, p.client, tab.ask)
      left == Settled(runStep(actions[u], p.step))
      next == tabStep(left, u, p.client, tab.ask)
  IN
  /\ Serving
  /\ p.kind = "action" /\ tabByID(p.tab) /\ SameClient(p) /\ u # None
  /\ \/ /\ due # p.step \/ ~p.fresh
        /\ actions' = [actions EXCEPT ![u] = Settled(@)]
        /\ writeRequiredActionRedirect(p.tab, p.client, due)
        /\ UNCHANGED <<ttl, codes>>
     \/ /\ due = p.step /\ p.fresh /\ ~ok
        /\ actions' = [actions EXCEPT ![u] = Settled(@)]
        /\ serveStep(p.tab, p.client, due)
        /\ UNCHANGED codes
     \/ /\ due = p.step /\ p.fresh /\ ok
        /\ actions' = [actions EXCEPT ![u] = left]
        /\ \/ /\ next # NoStep
              /\ serveStep(p.tab, p.client, next)
              /\ UNCHANGED codes
           \/ /\ next = NoStep
              /\ completeLogin(p.tab, u, tab.proved)
              /\ UNCHANGED <<ttl, pages>>
  /\ UNCHANGED <<enabled, sessions, tabs, grants, authCookie, identity, restart, tokens,
                 minted, ended>>

\* consent: the tab is found by its id alone; anything but cancel grants.
SubmitConsent(p, accept) ==
  LET tab == tabs[p.tab] IN
  /\ Serving
  /\ p.kind = "consent" /\ tabByID(p.tab) /\ SameClient(p) /\ tab.user # None
  /\ \/ /\ accept
        /\ grants' = grants \cup {<<tab.user, p.client>>}
        /\ completeLogin(p.tab, tab.user, tab.proved)
        /\ UNCHANGED <<ttl, tabs>>
     \/ /\ ~accept
        /\ endSession(tab.root)
        /\ UNCHANGED <<codes, grants>>
  /\ UNCHANGED <<enabled, actions, sessions, authCookie, identity, restart, pages, tokens,
                 minted, ended>>

-----------------------------------------------------------------------------
(* The token endpoint *)

\* authStore.spendCode: the first request to name a live code takes it.
spendCode(k) ==
  /\ codes[k].state = "live"
  /\ codes' = [codes EXCEPT ![k].state = "spent"]

\* authorizationCodeGrant: the client knows the code from the response that ends the
\* login, and it is spent whatever follows.  `ok` stands for
\* the redirect_uri, client and PKCE checks, which come before the session's.
ExchangeCode(k, ok) ==
  LET code == codes[k] IN
  /\ Serving
  /\ "exchange" \in Events
  /\ ~code.ending
  /\ spendCode(k)
  /\ tokens' = IF ok /\ sessions[code.sid] # NoSession
               THEN tokens \cup {[sub |-> code.user, sid |-> code.sid,
                                  client |-> code.client, ended |-> FALSE]}
               ELSE tokens
  /\ UNCHANGED <<enabled, actions, sessions, ttl, tabs, grants, authCookie,
                 identity, restart, pages, minted, ended>>

\* refreshTokenGrant answers with a token when the session is there and has a
\* client session for the client.
CanRefresh(tok) ==
  sessions[tok.sid] # NoSession /\ tok.client \in sessions[tok.sid].clients

\* The new token's subject is the session's user, not the old token's subject.
RefreshToken(tok) ==
  /\ Serving
  /\ CanRefresh(tok)
  /\ tokens' = tokens \cup {[tok EXCEPT !.sub = sessions[tok.sid].user, !.ended = FALSE]}
  /\ UNCHANGED <<enabled, actions, sessions, ttl, tabs, codes, grants, authCookie,
                 identity, restart, pages, minted, ended>>

-----------------------------------------------------------------------------
(* Around the browser *)

\* Logout at either channel, revocation and the admin API delete user sessions;
\* none of them touches authStore or sets a cookie.
EndUserSessions(S) ==
  /\ Serving
  /\ "logout" \in Events
  /\ S # {} /\ \A s \in S : sessions[s] # NoSession
  /\ sessions' = [s \in Sids |-> IF s \in S THEN NoSession ELSE sessions[s]]
  /\ tokens' = {IF tok.sid \in S THEN [tok EXCEPT !.ended = TRUE] ELSE tok : tok \in tokens}
  /\ ended' = ended \cup S
  /\ UNCHANGED <<enabled, actions, ttl, tabs, codes, grants, authCookie, identity,
                 restart, pages, minted>>

\* One session (logout, revoke, DELETE sessions/{id}).
LogoutSession(s) == EndUserSessions({s})

\* Every session of a user (POST users/{id}/logout).
LogoutUser(u) == EndUserSessions({s \in Sids : sessions[s].user = u})

\* The required actions with UPDATE_PASSWORD demanded or not, if the realm has it.
withAction(acts, on) ==
  IF on THEN acts \cup ({UpdatePassword} \cap Aliases) ELSE acts \ {UpdatePassword}

\* PUT users/{id}: the enabled flag, and a credential that may be temporary.  It
\* only ever adds the action.
AdminUpdateUser(u, on, temporary) ==
  /\ Serving
  /\ "admin" \in Events
  /\ enabled' = [enabled EXCEPT ![u] = on]
  /\ actions' = IF temporary THEN [actions EXCEPT ![u] = withAction(@, TRUE)] ELSE actions
  /\ UNCHANGED <<sessions, ttl, tabs, codes, grants, authCookie, identity, restart,
                 pages, tokens, minted, ended>>

\* PUT users/{id}/reset-password adds the action or takes it away.
AdminResetPassword(u, temporary) ==
  /\ Serving
  /\ "admin" \in Events
  /\ actions' = [actions EXCEPT ![u] = withAction(@, temporary)]
  /\ UNCHANGED <<enabled, sessions, ttl, tabs, codes, grants, authCookie, identity,
                 restart, pages, tokens, minted, ended>>

\* A tick is longer than authCodeLifespan, so it also ends the live codes; an
\* authentication session that runs out takes its tabs with it.
Tick ==
  /\ Serving
  /\ "clock" \in Events
  /\ ttl' = [s \in Sids |-> IF ttl[s] = 0 THEN 0 ELSE ttl[s] - 1]
  /\ tabs' = [t \in TabIds |-> IF tabs[t].root # None /\ ttl[tabs[t].root] <= 1
                               THEN NoTab ELSE tabs[t]]
  /\ codes' = [k \in CodeIds |-> IF codes[k].state = "live"
                                 THEN [codes[k] EXCEPT !.state = "spent"] ELSE codes[k]]
  /\ restart' = [restart EXCEPT !.left = IF @ = 0 THEN 0 ELSE @ - 1]
  /\ UNCHANGED <<enabled, actions, sessions, grants, authCookie, identity, pages,
                 tokens, minted, ended>>

\* The identity cookie outlives its own expiry in the jar and then parses to nothing.
IdentityExpires ==
  /\ Serving
  /\ "clock" \in Events
  /\ identity' = NoIdentity
  /\ UNCHANGED <<enabled, actions, sessions, ttl, tabs, codes, grants, authCookie,
                 restart, pages, tokens, minted, ended>>

\* The process restarts: authStore and consentStore are memory, and the logins
\* under way are cut off.
ServerRestart ==
  /\ "crash" \in Events
  /\ ttl' = [s \in Sids |-> 0]
  /\ tabs' = [t \in TabIds |-> NoTab]
  /\ codes' = [k \in CodeIds |-> IF codes[k].state \in {"live", "spent"}
                                 THEN [codes[k] EXCEPT !.state = "spent", !.ending = FALSE]
                                 ELSE NoCode]
  /\ grants' = {}
  /\ restart' = [restart EXCEPT !.left = 0]
  /\ UNCHANGED <<enabled, actions, sessions, authCookie, identity, pages, tokens, minted, ended>>

Next ==
  \/ \E c \in Clients, pr \in Prompts, young \in BOOLEAN :
       \/ AuthorizeLogin(c, pr, young)
       \/ AuthorizeSilent(c, pr, young)
       \/ AuthorizeCreate(c, pr, young)
       \/ AuthorizeCode(c, pr, young)
       \/ AuthorizeStep(c, pr, young)
  \/ \E p \in pages :
       \/ RestartLogin(p)
       \/ LandLogin(p)
       \/ LoginRefused(p)
       \/ \E u \in Users : LoginAccepted(p, u)
       \/ LandStep(p)
       \/ \E ok \in BOOLEAN : SubmitAction(p, ok)
       \/ \E accept \in BOOLEAN : SubmitConsent(p, accept)
  \/ \E k \in CodeIds : StartLogin(k) \/ MintCode(k) \/ EndLogin(k)
  \/ \E k \in CodeIds, ok \in BOOLEAN : ExchangeCode(k, ok)
  \/ \E tok \in tokens : RefreshToken(tok)
  \/ \E s \in Sids : LogoutSession(s)
  \/ \E u \in Users : LogoutUser(u)
  \/ \E u \in Users, on, temporary \in BOOLEAN : AdminUpdateUser(u, on, temporary)
  \/ \E u \in Users, temporary \in BOOLEAN : AdminResetPassword(u, temporary)
  \/ Tick
  \/ IdentityExpires
  \/ ServerRestart

Spec == Init /\ [][Next]_vars

-----------------------------------------------------------------------------
(* Properties *)

\* A live code at a client that requires consent exists only for a user whose
\* consent to that client is recorded: no path to completeLogin or writeSSOCode
\* goes round the consent page (consent.go, sso.go consentNeeded).
ConsentBeforeCode ==
  \A k \in CodeIds :
    codes[k].state = "live" /\ codes[k].client \in ConsentClients
      => <<codes[k].user, codes[k].client>> \in grants

Given(k) == codes[k].state \in {"live", "spent"}

\* One authorization request is answered by one code (loginactions.go: ending the
\* session "is what makes a replayed session_code unusable: there is nothing left to
\* replay it against").  A second submit of the form that overlaps the first finds
\* the tab still there.
OneCodePerTab ==
  \A j, k \in CodeIds : Given(j) /\ Given(k) /\ codes[j].tab = codes[k].tab => j = k

Minted(k) == ~Given(k) /\ codes'[k].state = "live"
LetThrough(k) == codes[k].state = "none" /\ codes'[k].state # "none"

\* Only overlapping submits answer a request twice: whichever pages of a tab the
\* browser submits, again and in whatever order, none is let through once a code was
\* minted for the tab and the login that minted it has ended the session
\* (completeLogin ends it, writeSSOCode serves no form).
OnlyOverlapsAnswerTwice ==
  [][\A j, k \in CodeIds :
       LetThrough(k) /\ Given(j) /\ codes[j].tab = codes'[k].tab => codes[j].ending]_vars

\* A code is minted only for a user who owes no required action
\* (requiredactions.go: a form is "a page the user has to complete before any
\* token exists").  The consent endpoint does not ask the queue again, so with
\* two users in one browser this fails: a second password typed into a tab whose
\* consent page is still open.
NoCodeOverPendingAction ==
  [][\A k \in CodeIds : Minted(k) => Stops(actions'[codes'[k].user]) = {}]_vars

\* The same for every path to a code but a tab's own consent page: the login
\* form, the required-action forms and single sign-on never let a user through who
\* owes a required action, whatever an administrator adds and whenever.
OnlyConsentSkipsTheQueue ==
  [][\A k \in CodeIds :
       LetThrough(k) => \/ Stops(actions'[codes'[k].user]) = {}
                        \/ \E p \in pages : p.kind = "consent" /\ p.tab = codes'[k].tab]_vars

\* A required action leaves the user row only when no page that comes before it in
\* the realm's priority order is still owed (nextRequiredAction: "Priority decides,
\* not the order of the user's array"), although two tabs of one user hold forms
\* for different steps and submit them in any order.
ActionsClearedInOrder ==
  [][\A u \in Users : \A a \in actions[u] \ actions'[u] :
       \E i \in DOMAIN Providers :
         Providers[i].alias = a /\ \A j \in Stops(actions'[u]) : i < j]_vars

\* A user session that did not exist is only started by a flow in which a
\* password was verified (startSessionWithID: single sign-on reuses the session
\* it came from instead of starting one "for a browser that never logged in
\* twice"), unless the session that single sign-on came from was ended before its
\* page's submit got to it: then the submit starts it again.
SessionStartsWithPassword ==
  [][\A s \in Sids :
       sessions[s] = NoSession /\ sessions'[s] # NoSession
         => \E k \in CodeIds : /\ codes[k].state = "pending" /\ codes'[k].state = "started"
                               /\ codes[k].sid = s
                               /\ codes[k].proved \/ s \in ended]_vars

\* The identity cookie names a session of the user it names (sso.go,
\* browserSession: "the user session KEYCLOAK_IDENTITY names, the user it belongs
\* to").
IdentityNamesSessionOwner ==
  identity.sid # None /\ sessions[identity.sid] # NoSession
    => sessions[identity.sid].user = identity.user

\* A token of a session that was logged out or revoked cannot be refreshed any
\* more (token.go: "a token that verifies but whose session is gone answers
\* Session not active").
EndedTokensStayDead == \A tok \in tokens : tok.ended => ~CanRefresh(tok)

\* The login form of a second tab still logs in after the first tab's login
\* (TestTwoTabsShareOneSession: "both logins succeed reporting the same
\* session_state").
BothTabsLogIn ==
  [][\A p \in pages, k \in CodeIds :
       p.kind = "login" /\ tabByCode(p)
         /\ EndLogin(k) /\ codes[k].proved /\ codes[k].tab # p.tab
         => tabByCode(p)']_vars

=============================================================================
