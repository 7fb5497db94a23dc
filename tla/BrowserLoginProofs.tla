------------------------- MODULE BrowserLoginProofs -------------------------
(***************************************************************************)
(* What holds of BrowserLogin for any users, clients, prompts, required    *)
(* actions and events, submits that overlap included: the types, consent   *)
(* before a code, no second answer to a request but from overlapping       *)
(* submits, nobody let through over a required action but by the consent   *)
(* page, sessions that start with a password or where one was ended; and,  *)
(* where no administrator interferes, actions cleared in order.            *)
(***************************************************************************)
EXTENDS BrowserLogin, WellFoundedInduction, TLAPS

-----------------------------------------------------------------------------
(* The required-action queue *)

\* The walk over the providers stops at the first page the user owes, when there
\* is one: a set of places in the list has a least member.
LEMMA FirstStop ==
  ASSUME NEW acts, Stops(acts) # {}
  PROVE  \E i \in Stops(acts) : \A j \in Stops(acts) : i <= j
<1>1. Stops(acts) \subseteq Nat
  BY ConstantsAssumption DEF Stops
<1> DEFINE Below == {ss \in Nat \X Nat : ss[1] < ss[2]}
<1>2. IsWellFoundedOn(Below, Nat)
  BY NatLessThanWellFounded DEF OpToRel
<1>3. \A i, j \in Nat : <<j, i>> \notin Below => i <= j
  OBVIOUS
<1> HIDE DEF Below
<1>4. PICK i \in Stops(acts) : \A j \in Stops(acts) : ~ (<<j, i>> \in Below)
  BY <1>1, <1>2, WFMin
<1>5. \A j \in Stops(acts) : i <= j
  BY <1>1, <1>3, <1>4
<1> QED
  BY <1>5

\* A configured action has an alias of its own, never the consent step's or the
\* empty one.
LEMMA AliasFacts ==
  \A i \in DOMAIN Providers : /\ Providers[i].alias \in Aliases
                              /\ Providers[i].alias # NoStep
<1> SUFFICES ASSUME NEW i \in DOMAIN Providers
             PROVE  Providers[i].alias \in Aliases /\ Providers[i].alias # NoStep
  OBVIOUS
<1>1. Providers[i].alias \in Aliases
  BY DEF Aliases
<1> DEFINE Action == [alias : STRING \ {OAuthGrant, NoStep}, kind : Kinds]
<1>2. Providers[i] \in Action
  <2>1. Providers \in Seq(Action)
    BY ConstantsAssumption
  <2> HIDE DEF Action
  <2> QED BY <2>1
<1> QED
  BY <1>1, <1>2

\* nextRequiredAction names a configured action, and none exactly when no page
\* is owed.
LEMMA NextActionFacts ==
  ASSUME NEW acts
  PROVE  /\ nextRequiredAction(acts) \in Aliases \cup {NoStep}
         /\ nextRequiredAction(acts) = NoStep => Stops(acts) = {}
<1>1. CASE Stops(acts) = {}
  BY <1>1 DEF nextRequiredAction
<1>2. CASE Stops(acts) # {}
  <2> DEFINE i == CHOOSE x \in Stops(acts) : \A j \in Stops(acts) : x <= j
  <2>0. PICK x \in Stops(acts) : \A j \in Stops(acts) : x <= j
    BY <1>2, FirstStop
  <2>1. i \in Stops(acts)
    BY <2>0
  <2>2. i \in DOMAIN Providers
    BY <2>1 DEF Stops
  <2>3. Providers[i].alias \in Aliases /\ Providers[i].alias # NoStep
    BY <2>2, AliasFacts
  <2> QED
    BY <1>2, <2>3 DEF nextRequiredAction
<1> QED
  BY <1>1, <1>2

\* A step is a configured action, the consent page or none.
LEMMA TabStepType ==
  ASSUME NEW acts, NEW u, NEW c, NEW ask
  PROVE  tabStep(acts, u, c, ask) \in Aliases \cup {OAuthGrant, NoStep}
BY NextActionFacts DEF tabStep

\* When no step is due, no page is owed and consent is recorded or not needed.
LEMMA TabStepNone ==
  ASSUME NEW acts, NEW u, NEW c, NEW ask, tabStep(acts, u, c, ask) = NoStep
  PROVE  Stops(acts) = {} /\ ~consentNeeded(u, c, ask)
BY NextActionFacts DEF tabStep, OAuthGrant, NoStep

\* The walk only takes actions away, and taking actions away owes no new page.
LEMMA SettledFacts ==
  ASSUME NEW acts
  PROVE  Settled(acts) \subseteq acts
BY DEF Settled

\* Taking actions away from a user who owes no page leaves none owed.
LEMMA StopsMonotone ==
  ASSUME NEW acts, NEW fewer, fewer \subseteq acts, Stops(acts) = {}
  PROVE  Stops(fewer) = {}
BY DEF Stops

-----------------------------------------------------------------------------
(* The inductive invariant *)

\* What is in use is filled in: a code, from the moment its submit is let through, a
\* session, an identity and a tab name a user, a root and a client that exist.
Linked ==
  /\ \A k \in CodeIds : codes[k].state # "none" =>
       /\ codes[k].user \in Users /\ codes[k].sid \in Sids
       /\ codes[k].client \in Clients /\ codes[k].tab \in TabIds
  /\ \A k \in CodeIds : codes[k].ending => codes[k].state \in {"live", "spent"}
  /\ identity.sid # None => identity.user \in Users
  /\ \A s \in Sids : sessions[s] # NoSession => sessions[s].user \in Users
  /\ \A t \in TabIds : tabs[t].root # None => tabs[t].client \in Clients

\* A code is of a tab that was opened at the code's session and, once a code of the
\* tab was given and its login is over, is gone or is on no page.
AnsweredTabs ==
  /\ \A p \in pages : p.tab \in minted
  /\ \A k \in CodeIds : codes[k].state # "none" =>
       codes[k].tab \in minted /\ tabs[codes[k].tab].root \in {None, codes[k].sid}
  /\ \A k \in CodeIds, p \in pages :
       Given(k) /\ ~codes[k].ending /\ p.tab = codes[k].tab => tabs[p.tab].root = None

\* ConsentBeforeCode from the moment the submit is let through.
ConsentBeforeLogin ==
  \A k \in CodeIds :
    codes[k].state \in {"pending", "started", "live"} /\ codes[k].client \in ConsentClients
      => <<codes[k].user, codes[k].client>> \in grants

IInv ==
  /\ TypeOK
  /\ Linked
  /\ AnsweredTabs
  /\ ConsentBeforeLogin

\* The initial states satisfy the invariant.
LEMMA InitInv == Init => IInv
<1> SUFFICES ASSUME Init PROVE IInv
  OBVIOUS
<1> USE ConstantsAssumption DEF Init
<1>1. TypeOK
  BY DEF TypeOK, Session, NoSession, Tab, NoTab, Code, NoCode, Identity, NoIdentity,
         Restart, NoRestart
<1>2. Linked /\ AnsweredTabs
  BY DEF Linked, AnsweredTabs, Given, NoSession, NoTab, NoCode, NoIdentity
<1>3. ConsentBeforeLogin
  BY DEF ConsentBeforeLogin, NoCode
<1> QED
  BY <1>1, <1>2, <1>3 DEF IInv

-----------------------------------------------------------------------------
(* What the building blocks do *)

\* A new tab is open, the browser's cookie names its root, and every other tab is
\* as it was or gone.
TabOpened(tab) ==
  /\ NewTabId \in TabIds /\ NewTabId \notin minted /\ NewTabId \in minted'
  /\ minted \subseteq minted' /\ minted' \in SUBSET (Sids \cup TabIds)
  /\ tabs' \in [TabIds -> Tab]
  /\ tabs'[NewTabId].client = tab.client
  /\ \A t \in TabIds : t # NewTabId => tabs'[t] = tabs[t] \/ tabs'[t] = NoTab
  /\ ttl' \in [Sids -> 0..Lifespan]
  /\ authCookie' \in Sids \cup {None}

\* beginAuthSession opens the tab it is given under an id never used before.
LEMMA BeginOpensTab ==
  ASSUME TypeOK, NEW tab \in Tab, beginAuthSession(tab)
  PROVE  TabOpened(tab)
<1> DEFINE r == IF liveAuthSession THEN authCookie ELSE NewSid
<1>1. NewTabId \in TabIds /\ NewTabId \notin minted
  BY DEF beginAuthSession, NewTabId
<1>2. ~liveAuthSession => NewSid \in Sids
  BY DEF beginAuthSession, NewSid
<1>3. r \in Sids
  BY <1>2 DEF TypeOK, liveAuthSession
<1>4. /\ tabs' = [tabs EXCEPT ![NewTabId] = [tab EXCEPT !.root = r]]
      /\ ttl' = [ttl EXCEPT ![r] = Lifespan]
      /\ authCookie' = r
      /\ minted' = minted \cup {NewTabId, r}
  BY DEF beginAuthSession
<1> HIDE DEF r
<1>5. [tab EXCEPT !.root = r] \in Tab /\ [tab EXCEPT !.root = r].client = tab.client
  BY <1>3 DEF Tab
<1> QED
  BY <1>1, <1>3, <1>4, <1>5, ConstantsAssumption DEF TypeOK, TabOpened

\* So does resumeAuthSession, at the root it is given.
LEMMA ResumeOpensTab ==
  ASSUME TypeOK, NEW tab \in Tab, NEW r \in Sids, resumeAuthSession(r, tab)
  PROVE  TabOpened(tab)
<1>1. NewTabId \in TabIds /\ NewTabId \notin minted
  BY DEF resumeAuthSession, NewTabId
<1>2. [tab EXCEPT !.root = r] \in Tab /\ [tab EXCEPT !.root = r].client = tab.client
  BY DEF Tab
<1>3. NoTab \in Tab
  BY DEF Tab, NoTab
<1>4. tabs' = [t \in TabIds |-> IF t = NewTabId THEN [tab EXCEPT !.root = r]
                               ELSE IF tabs[t].root = r THEN NoTab ELSE tabs[t]]
  BY DEF resumeAuthSession
<1>5. tabs' \in [TabIds -> Tab]
  BY <1>2, <1>3, <1>4 DEF TypeOK
<1>6. tabs'[NewTabId].client = tab.client
  BY <1>1, <1>2, <1>4
<1>7. \A t \in TabIds : t # NewTabId => tabs'[t] = tabs[t] \/ tabs'[t] = NoTab
  BY <1>4
<1>8. /\ ttl' \in [Sids -> 0..Lifespan] /\ authCookie' \in Sids \cup {None}
      /\ NewTabId \in minted' /\ minted \subseteq minted'
      /\ minted' \in SUBSET (Sids \cup TabIds)
  BY <1>1, ConstantsAssumption DEF TypeOK, resumeAuthSession
<1> QED
  BY <1>1, <1>5, <1>6, <1>7, <1>8 DEF TabOpened

\* One unused code is taken with the given contents; the others stay.
CodeAdded(state, u, s, c, t, proved) ==
  /\ NewCodeId \in CodeIds /\ codes[NewCodeId].state = "none"
  /\ codes' \in [CodeIds -> Code]
  /\ codes'[NewCodeId].state = state /\ codes'[NewCodeId].user = u
  /\ codes'[NewCodeId].sid = s /\ codes'[NewCodeId].client = c
  /\ codes'[NewCodeId].tab = t /\ codes'[NewCodeId].proved = proved
  /\ ~codes'[NewCodeId].ending
  /\ \A k \in CodeIds : k # NewCodeId => codes'[k] = codes[k]

\* newCode takes one code and changes no other.
LEMMA NewCodeAdds ==
  ASSUME TypeOK, NEW state \in {"pending", "live"}, NEW u \in Users, NEW s \in Sids,
         NEW c \in Clients, NEW t \in TabIds, NEW proved \in BOOLEAN,
         newCode(state, u, s, c, t, proved)
  PROVE  CodeAdded(state, u, s, c, t, proved)
<1>1. NewCodeId \in CodeIds /\ codes[NewCodeId].state = "none"
  BY DEF newCode, NewCodeId
<1> DEFINE code == [state |-> state, user |-> u, sid |-> s, client |-> c,
                    tab |-> t, proved |-> proved, ending |-> FALSE]
<1>2. code \in Code
  BY DEF Code
<1>3. codes' = [codes EXCEPT ![NewCodeId] = code]
  BY DEF newCode
<1> QED
  BY <1>1, <1>2, <1>3 DEF TypeOK, CodeAdded

\* The pages after a form went stale are pages of the same tabs.
LEMMA StaleFacts ==
  ASSUME TypeOK, NEW t
  PROVE  /\ Stale(t) \subseteq Page
         /\ \A p \in Stale(t) : \E q \in pages : q.tab = p.tab
<1>1. ASSUME NEW q \in pages
      PROVE  /\ q \in Page /\ [q EXCEPT !.fresh = FALSE] \in Page
             /\ [q EXCEPT !.fresh = FALSE].tab = q.tab
  BY DEF TypeOK, Page
<1> QED
  BY <1>1 DEF Stale

\* A page of known parts is a page.
LEMMA PageOfType ==
  ASSUME NEW kind \in {"login", "action", "consent", "landing", "relogin"},
         NEW t \in TabIds, NEW c \in Clients, NEW step \in Aliases \cup {OAuthGrant, NoStep}
  PROVE  PageOf(kind, t, c, step) \in Page /\ PageOf(kind, t, c, step).tab = t
BY DEF PageOf, Page

\* The pages after a handler served something for tab t: old ones and some of t.
PagesOf(t) ==
  /\ pages' \in SUBSET Page
  /\ \A p \in pages' : p.tab = t \/ \E q \in pages : q.tab = p.tab

\* serveLoginPage only adds a page of its own tab.
LEMMA LoginPageServed ==
  ASSUME TypeOK, NEW t \in TabIds, NEW c \in Clients, serveLoginPage(t, c)
  PROVE  PagesOf(t)
<1>1. PageOf("login", t, c, NoStep) \in Page /\ PageOf("login", t, c, NoStep).tab = t
  BY PageOfType
<1> QED
  BY <1>1, StaleFacts DEF PagesOf, serveLoginPage

\* writeRequiredActionRedirect only adds a page of its own tab.
LEMMA RedirectServed ==
  ASSUME TypeOK, NEW t \in TabIds, NEW c \in Clients,
         NEW step \in Aliases \cup {OAuthGrant, NoStep},
         writeRequiredActionRedirect(t, c, step)
  PROVE  PagesOf(t)
<1>1. PageOf("landing", t, c, step) \in Page /\ PageOf("landing", t, c, step).tab = t
  BY PageOfType
<1> QED
  BY <1>1 DEF TypeOK, PagesOf, writeRequiredActionRedirect

\* serveStep only adds a page of its own tab, and renews its session.
LEMMA StepServed ==
  ASSUME TypeOK, NEW t \in TabIds, NEW c \in Clients, tabs[t].root \in Sids,
         NEW step \in Aliases \cup {OAuthGrant, NoStep}, serveStep(t, c, step)
  PROVE  PagesOf(t) /\ ttl' \in [Sids -> 0..Lifespan]
<1>1. /\ PageOf("consent", t, c, step) \in Page /\ PageOf("consent", t, c, step).tab = t
      /\ PageOf("action", t, c, step) \in Page /\ PageOf("action", t, c, step).tab = t
  BY PageOfType
<1>2. \/ pages' = Stale(t) \cup {PageOf("consent", t, c, step)}
      \/ pages' = Stale(t) \cup {PageOf("action", t, c, step)}
      \/ pages' = Stale(t)
      \/ pages' = pages
  BY DEF serveStep
<1>3. PagesOf(t)
  BY <1>1, <1>2, StaleFacts DEF TypeOK, PagesOf
<1>4. ttl' = ttl \/ ttl' = [ttl EXCEPT ![tabs[t].root] = Lifespan]
  BY DEF serveStep
<1> QED
  BY <1>3, <1>4, ConstantsAssumption DEF TypeOK

\* endSession leaves every tab as it was or gone, and the tabs of the root gone.
SessionEnded(r) ==
  /\ tabs' \in [TabIds -> Tab] /\ ttl' \in [Sids -> 0..Lifespan]
  /\ \A t \in TabIds : tabs'[t] = tabs[t] \/ tabs'[t] = NoTab
  /\ \A t \in TabIds : tabs[t].root = r => tabs'[t] = NoTab

\* authStore.endSession leaves no tab of the session behind.
LEMMA EndSessionEnds ==
  ASSUME TypeOK, NEW r \in Sids, endSession(r)
  PROVE  SessionEnded(r)
<1>1. NoTab \in Tab
  BY DEF Tab, NoTab
<1>2. tabs' = [t \in TabIds |-> IF tabs[t].root = r THEN NoTab ELSE tabs[t]]
  BY DEF endSession
<1>3. tabs' \in [TabIds -> Tab]
  BY <1>1, <1>2 DEF TypeOK
<1>4. ttl' \in [Sids -> 0..Lifespan]
  BY ConstantsAssumption DEF TypeOK, endSession
<1> QED
  BY <1>2, <1>3, <1>4 DEF SessionEnded

\* startSessionWithID leaves a session with a user at the root.
LEMMA SessionStarted ==
  ASSUME TypeOK, Linked, NEW r \in Sids, NEW u \in Users, NEW c \in Clients,
         startSessionWithID(r, u, c)
  PROVE  /\ sessions' \in [Sids -> Session]
         /\ \A s \in Sids : sessions'[s] # NoSession => sessions'[s].user \in Users
<1> DEFINE new == [user |-> IF sessions[r] = NoSession THEN u ELSE sessions[r].user,
                   clients |-> sessions[r].clients \cup {c}]
<1>1. sessions' = [sessions EXCEPT ![r] = new]
  BY DEF startSessionWithID
<1>2. sessions[r] \in Session
  BY DEF TypeOK
<1>3. new \in Session /\ new.user \in Users
  BY <1>2 DEF Linked, Session
<1> HIDE DEF new
<1> QED
  BY <1>1, <1>3 DEF TypeOK, Linked

\* A submit that is let through has a code of the tab and of the tab's session.
LEMMA SubmitLetThrough ==
  ASSUME TypeOK, Linked, NEW t \in TabIds, tabs[t].root \in Sids, NEW u \in Users,
         NEW proved \in BOOLEAN, completeLogin(t, u, proved)
  PROVE  CodeAdded("pending", u, tabs[t].root, tabs[t].client, t, proved)
<1>1. tabs[t].client \in Clients
  BY ConstantsAssumption DEF Linked
<1>2. PICK r \in Sids, c \in Clients : r = tabs[t].root /\ c = tabs[t].client
  BY <1>1
<1>3. newCode("pending", u, r, c, t, proved)
  BY <1>2 DEF completeLogin
<1> QED
  BY <1>2, <1>3, NewCodeAdds

\* The codes that are left are those that were there, further on in their login.
CodesMoved ==
  /\ codes' \in [CodeIds -> Code]
  /\ \A k \in CodeIds : codes'[k].state # "none" =>
       /\ codes[k].state # "none"
       /\ codes'[k].user = codes[k].user /\ codes'[k].sid = codes[k].sid
       /\ codes'[k].client = codes[k].client /\ codes'[k].tab = codes[k].tab
       /\ codes'[k].proved = codes[k].proved
  /\ \A k \in CodeIds : codes'[k].ending => codes'[k].state \in {"live", "spent"}

\* Codes that moved stay linked.
LEMMA MovedLinked ==
  ASSUME Linked, CodesMoved
  PROVE  /\ \A k \in CodeIds : codes'[k].state # "none" =>
              /\ codes'[k].user \in Users /\ codes'[k].sid \in Sids
              /\ codes'[k].client \in Clients /\ codes'[k].tab \in TabIds
         /\ \A k \in CodeIds : codes'[k].ending => codes'[k].state \in {"live", "spent"}
BY DEF Linked, CodesMoved

\* A code that was added is linked, and so are the others.
LEMMA AddedLinked ==
  ASSUME Linked, NEW state, state # "none", NEW u \in Users, NEW s \in Sids, NEW c \in Clients,
         NEW t \in TabIds, NEW proved, CodeAdded(state, u, s, c, t, proved)
  PROVE  /\ \A k \in CodeIds : codes'[k].state # "none" =>
              /\ codes'[k].user \in Users /\ codes'[k].sid \in Sids
              /\ codes'[k].client \in Clients /\ codes'[k].tab \in TabIds
         /\ \A k \in CodeIds : codes'[k].ending => codes'[k].state \in {"live", "spent"}
BY DEF Linked, CodeAdded

\* The steps of the end of a login, spending a code, time and a restart only move
\* codes on.
LEMMA StepMovesCodes ==
  ASSUME TypeOK, Linked,
         \/ \E k \in CodeIds : StartLogin(k) \/ MintCode(k) \/ EndLogin(k)
         \/ \E k \in CodeIds, ok \in BOOLEAN : ExchangeCode(k, ok)
         \/ Tick \/ ServerRestart
  PROVE  CodesMoved
<1>1. \A k \in CodeIds : codes[k] \in Code
  BY DEF TypeOK
<1>2. ASSUME NEW k \in CodeIds, NEW after \in Code, codes' = [codes EXCEPT ![k] = after],
             codes[k].state # "none", after.ending => after.state \in {"live", "spent"},
             after.user = codes[k].user, after.sid = codes[k].sid, after.client = codes[k].client,
             after.tab = codes[k].tab, after.proved = codes[k].proved
      PROVE  CodesMoved
  BY <1>2 DEF TypeOK, Linked, CodesMoved
<1>3. ASSUME NEW k \in CodeIds, StartLogin(k) PROVE CodesMoved
  <2>1. PICK after : after = [codes[k] EXCEPT !.state = "started"]
    OBVIOUS
  <2>2. codes' = [codes EXCEPT ![k] = after] /\ codes[k].state = "pending" /\ ~codes[k].ending
    BY <1>3, <2>1 DEF StartLogin, TypeOK, Linked
  <2> QED
    BY <1>1, <1>2, <2>1, <2>2 DEF Code
<1>4. ASSUME NEW k \in CodeIds, MintCode(k) PROVE CodesMoved
  <2>1. PICK after : after = [codes[k] EXCEPT !.state = "live", !.ending = TRUE]
    OBVIOUS
  <2>2. codes' = [codes EXCEPT ![k] = after] /\ codes[k].state = "started"
    BY <1>4, <2>1 DEF MintCode, TypeOK
  <2> QED
    BY <1>1, <1>2, <2>1, <2>2 DEF Code
<1>5. ASSUME NEW k \in CodeIds, EndLogin(k) PROVE CodesMoved
  <2>1. PICK after : after = [codes[k] EXCEPT !.ending = FALSE]
    OBVIOUS
  <2>2. codes' = [codes EXCEPT ![k] = after] /\ codes[k].state # "none"
    BY <1>5, <2>1 DEF EndLogin, TypeOK, Linked
  <2> QED
    BY <1>1, <1>2, <2>1, <2>2 DEF Code
<1>6. ASSUME NEW k \in CodeIds, NEW ok \in BOOLEAN, ExchangeCode(k, ok) PROVE CodesMoved
  <2>1. PICK after : after = [codes[k] EXCEPT !.state = "spent"]
    OBVIOUS
  <2>2. codes' = [codes EXCEPT ![k] = after] /\ codes[k].state = "live"
    BY <1>6, <2>1 DEF ExchangeCode, spendCode, TypeOK
  <2> QED
    BY <1>1, <1>2, <2>1, <2>2 DEF Code
<1>7. CASE Tick
  <2>1. codes' = [k \in CodeIds |-> IF codes[k].state = "live"
                                    THEN [codes[k] EXCEPT !.state = "spent"] ELSE codes[k]]
    BY <1>7 DEF Tick
  <2> QED
    BY <1>1, <2>1 DEF Linked, CodesMoved, Code
<1>8. CASE ServerRestart
  <2>1. codes' = [k \in CodeIds |-> IF codes[k].state \in {"live", "spent"}
                                    THEN [codes[k] EXCEPT !.state = "spent", !.ending = FALSE]
                                    ELSE NoCode]
    BY <1>8 DEF ServerRestart
  <2>2. NoCode \in Code /\ NoCode.state = "none" /\ NoCode.ending = FALSE
    BY DEF NoCode, Code
  <2> QED
    BY <1>1, <2>1, <2>2 DEF CodesMoved, Code
<1> QED
  BY <1>3, <1>4, <1>5, <1>6, <1>7, <1>8

-----------------------------------------------------------------------------
(* Types and links *)

\* The tab of an authorization request, with or without a user, is a tab.
LEMMA RequestTabType ==
  ASSUME NEW c \in Clients, NEW pr
  PROVE  /\ RequestTab(c, pr) \in Tab /\ RequestTab(c, pr).client = c
         /\ \A u \in Users \cup {None} :
              /\ [RequestTab(c, pr) EXCEPT !.user = u] \in Tab
              /\ [RequestTab(c, pr) EXCEPT !.user = u].client = c
<1> DEFINE ask == "consent" \in pr
<1>1. ask \in BOOLEAN
  OBVIOUS
<1>2. RequestTab(c, pr) = [NoTab EXCEPT !.client = c, !.req = c, !.ask = ask]
  BY Zenon DEF RequestTab
<1> HIDE DEF ask
<1>3. NoTab \in Tab
  BY DEF NoTab, Tab
<1>4. RequestTab(c, pr) \in Tab
  BY <1>1, <1>2, <1>3 DEF Tab
<1>5. RequestTab(c, pr).client = c
  BY <1>2 DEF NoTab
<1>6. ASSUME NEW u \in Users \cup {None}
      PROVE  /\ [RequestTab(c, pr) EXCEPT !.user = u] \in Tab
             /\ [RequestTab(c, pr) EXCEPT !.user = u].client = c
  BY <1>4, <1>5 DEF Tab
<1> QED
  BY <1>4, <1>5, <1>6

\* A tab that was opened for a client keeps the tabs linked.
LEMMA OpenedLinked ==
  ASSUME TypeOK, Linked, NEW tab, tab.client \in Clients, TabOpened(tab)
  PROVE  \A t \in TabIds : tabs'[t].root # None => tabs'[t].client \in Clients
BY DEF Linked, TabOpened, NoTab

\* What resolveSSO writes, and who is signed in when the session is fresh.
LEMMA ResolveSSOFacts ==
  ASSUME TypeOK, Linked, NEW young, resolveSSO(young)
  PROVE  /\ identity' \in Identity /\ (identity'.sid # None => identity'.user \in Users)
         /\ actions' \in [Users -> SUBSET Aliases]
         /\ Fresh(young) => identity.user \in Users /\ identity.sid \in Sids
<1>1. identity' \in Identity /\ (identity'.sid # None => identity'.user \in Users)
  BY DEF TypeOK, Linked, resolveSSO, Identity, NoIdentity
<1>2. actions' \in [Users -> SUBSET Aliases]
  BY SettledFacts DEF TypeOK, resolveSSO
<1>3. Fresh(young) => identity.user \in Users /\ identity.sid \in Sids
  BY DEF TypeOK, Linked, Fresh, resolveBrowserSession, Identity
<1> QED
  BY <1>1, <1>2, <1>3

\* The restart record of a request, and none, are restart records.
LEMMA RequestRestartType ==
  ASSUME NEW c \in Clients
  PROVE  RequestRestart(c) \in Restart /\ NoRestart \in Restart
BY ConstantsAssumption DEF RequestRestart, NoRestart, Restart

\* GET /auth keeps the types and the links.
LEMMA AuthorizeTypes ==
  ASSUME TypeOK, Linked, NEW c \in Clients, NEW pr \in Prompts, NEW young \in BOOLEAN,
         \/ AuthorizeLogin(c, pr, young) \/ AuthorizeSilent(c, pr, young)
         \/ AuthorizeCreate(c, pr, young) \/ AuthorizeCode(c, pr, young)
         \/ AuthorizeStep(c, pr, young)
  PROVE  TypeOK' /\ Linked'
<1>1. resolveSSO(young)
  BY DEF AuthorizeLogin, AuthorizeSilent, AuthorizeCreate, AuthorizeCode, AuthorizeStep
<1>2. /\ identity' \in Identity /\ (identity'.sid # None => identity'.user \in Users)
      /\ actions' \in [Users -> SUBSET Aliases]
      /\ Fresh(young) => identity.user \in Users /\ identity.sid \in Sids
  BY <1>1, ResolveSSOFacts
<1>3. ASSUME NEW tab, tab.client \in Clients, TabOpened(tab),
             restart' \in Restart, pages' \in SUBSET Page,
             UNCHANGED <<enabled, sessions, codes, grants, tokens, ended>>
      PROVE  TypeOK' /\ Linked'
  <2>1. TypeOK'
    BY <1>2, <1>3 DEF TypeOK, TabOpened
  <2>2. Linked'
    BY <1>2, <1>3, OpenedLinked DEF Linked
  <2> QED BY <2>1, <2>2
<1>4. CASE AuthorizeLogin(c, pr, young)
  <2>1. TabOpened(RequestTab(c, pr))
    BY <1>4, BeginOpensTab, RequestTabType DEF AuthorizeLogin
  <2>2. pages' \in SUBSET Page
    BY <1>4, <2>1, LoginPageServed DEF AuthorizeLogin, PagesOf, TabOpened
  <2> QED
    BY <1>3, <1>4, <2>1, <2>2, RequestTabType, RequestRestartType DEF AuthorizeLogin
<1>5. CASE AuthorizeSilent(c, pr, young)
  <2>1. TabOpened(RequestTab(c, pr))
    BY <1>5, BeginOpensTab, RequestTabType DEF AuthorizeSilent
  <2> QED
    BY <1>3, <1>5, <2>1, RequestTabType, RequestRestartType DEF AuthorizeSilent, TypeOK
<1>6. CASE AuthorizeCreate(c, pr, young)
  <2>1. TabOpened(RequestTab(c, pr))
    BY <1>6, BeginOpensTab, RequestTabType DEF AuthorizeCreate
  <2> QED
    BY <1>3, <1>6, <2>1, RequestTabType DEF AuthorizeCreate, TypeOK
<1>7. CASE AuthorizeStep(c, pr, young)
  <2> DEFINE tab == [RequestTab(c, pr) EXCEPT !.user = identity.user]
  <2>1. identity.user \in Users /\ identity.sid \in Sids
    BY <1>2, <1>7 DEF AuthorizeStep
  <2>2. tab \in Tab /\ tab.client = c
    BY <2>1, RequestTabType
  <2>3. resumeAuthSession(identity.sid, tab)
    BY <1>7 DEF AuthorizeStep
  <2> HIDE DEF tab
  <2>4. TabOpened(tab)
    BY <2>1, <2>2, <2>3, ResumeOpensTab
  <2>5. SSOStep(c, pr) \in Aliases \cup {OAuthGrant, NoStep}
    BY TabStepType DEF SSOStep
  <2>6. pages' \in SUBSET Page
    BY <1>7, <2>4, <2>5, RedirectServed DEF AuthorizeStep, PagesOf, TabOpened
  <2> QED
    BY <1>3, <1>7, <2>2, <2>4, <2>6, RequestRestartType DEF AuthorizeStep
<1>8. CASE AuthorizeCode(c, pr, young)
  <2>1. identity.user \in Users /\ identity.sid \in Sids
    BY <1>2, <1>8 DEF AuthorizeCode
  <2>2. TabOpened(RequestTab(c, pr))
    BY <1>8, <2>1, ResumeOpensTab, RequestTabType DEF AuthorizeCode
  <2>3. CodeAdded("live", identity.user, identity.sid, c, NewTabId, FALSE)
    BY <1>8, <2>1, <2>2, NewCodeAdds DEF AuthorizeCode, TabOpened
  <2>4. /\ sessions' \in [Sids -> Session]
        /\ \A s \in Sids : sessions'[s] # NoSession => sessions'[s].user \in Users
    <3>1. sessions[identity.sid] \in Session /\ sessions[identity.sid] # NoSession
      BY <1>8, <2>1 DEF TypeOK, AuthorizeCode, Fresh, resolveBrowserSession
    <3> DEFINE new == [sessions[identity.sid] EXCEPT !.clients = @ \cup {c}]
    <3>2. new \in Session /\ new.user \in Users
      BY <2>1, <3>1 DEF Session, Linked
    <3>3. sessions' = [sessions EXCEPT ![identity.sid] = new]
      BY <1>8 DEF AuthorizeCode
    <3> HIDE DEF new
    <3> QED BY <2>1, <3>2, <3>3 DEF TypeOK, Linked
  <2>5. restart' \in Restart
    BY <1>8, RequestRestartType DEF AuthorizeCode
  <2>6. UNCHANGED <<enabled, grants, pages, tokens, ended>>
    BY <1>8 DEF AuthorizeCode
  <2>7. TypeOK'
    BY <1>2, <2>2, <2>3, <2>4, <2>5, <2>6 DEF TypeOK, TabOpened, CodeAdded
  <2>8. \A t \in TabIds : tabs'[t].root # None => tabs'[t].client \in Clients
    BY <2>2, OpenedLinked, RequestTabType
  <2>9. Linked'
    BY <1>2, <2>1, <2>2, <2>3, <2>4, <2>8, AddedLinked DEF Linked, TabOpened
  <2> QED BY <2>7, <2>9
<1> QED
  BY <1>4, <1>5, <1>6, <1>7, <1>8

\* The tab a page leads to is of the browser's live authentication session.
LEMMA PageFacts ==
  ASSUME TypeOK, NEW p \in pages
  PROVE  /\ p.tab \in TabIds /\ p.client \in Clients
         /\ p.step \in Aliases \cup {OAuthGrant, NoStep}
         /\ tabByID(p.tab) => /\ authCookie \in Sids /\ tabs[p.tab].root = authCookie
                              /\ tabs[p.tab].root # None
         /\ tabs[p.tab] \in Tab
         /\ tabs[p.tab].user # None => tabs[p.tab].user \in Users
         /\ tabs[p.tab].proved \in BOOLEAN
<1>1. p \in Page
  BY DEF TypeOK
<1>2. /\ p.tab \in TabIds /\ p.client \in Clients
      /\ p.step \in Aliases \cup {OAuthGrant, NoStep}
  BY <1>1 DEF Page
<1>3. tabs[p.tab] \in Tab
  BY <1>2 DEF TypeOK
<1>4. /\ tabs[p.tab].user # None => tabs[p.tab].user \in Users
      /\ tabs[p.tab].proved \in BOOLEAN
  BY <1>3 DEF Tab
<1>5. tabByID(p.tab) => /\ authCookie \in Sids /\ tabs[p.tab].root = authCookie
                        /\ tabs[p.tab].root # None
  BY DEF TypeOK, tabByID, liveAuthSession
<1> QED
  BY <1>2, <1>3, <1>4, <1>5

\* Setting a tab's user leaves its root and its client.
LEMMA UserSet ==
  ASSUME TypeOK, NEW t \in TabIds, NEW u \in Users,
         tabs' = [tabs EXCEPT ![t].user = u, ![t].proved = TRUE]
  PROVE  /\ tabs' \in [TabIds -> Tab]
         /\ \A x \in TabIds : tabs'[x].root = tabs[x].root /\ tabs'[x].client = tabs[x].client
<1> DEFINE after == [tabs[t] EXCEPT !.user = u, !.proved = TRUE]
<1>1. tabs \in [TabIds -> Tab]
  BY DEF TypeOK
<1>2. after \in Tab /\ after.root = tabs[t].root /\ after.client = tabs[t].client
  BY <1>1 DEF Tab
<1>3. tabs' = [tabs EXCEPT ![t] = after]
  BY <1>1
<1> HIDE DEF after
<1> QED
  BY <1>1, <1>2, <1>3

\* Letting a submit through keeps the types and the links.
LEMMA LetThroughTypes ==
  ASSUME TypeOK, Linked, NEW t \in TabIds, tabs[t].root \in Sids, NEW u \in Users,
         NEW proved \in BOOLEAN, completeLogin(t, u, proved),
         actions' \in [Users -> SUBSET Aliases], grants' \in SUBSET (Users \X Clients),
         tabs' \in [TabIds -> Tab],
         \A x \in TabIds : tabs'[x].root = tabs[x].root /\ tabs'[x].client = tabs[x].client,
         UNCHANGED <<enabled, sessions, ttl, authCookie, identity, restart, pages, tokens,
                     minted, ended>>
  PROVE  TypeOK' /\ Linked'
<1>1. PICK c \in Clients : c = tabs[t].client
  BY ConstantsAssumption DEF Linked
<1>2. CodeAdded("pending", u, tabs[t].root, c, t, proved)
  BY <1>1, SubmitLetThrough
<1>3. TypeOK'
  BY <1>2 DEF TypeOK, CodeAdded
<1>4. Linked'
  BY <1>2, AddedLinked DEF Linked
<1> QED
  BY <1>3, <1>4

\* The login-actions endpoints keep the types and the links.
LEMMA LoginActionTypes ==
  ASSUME TypeOK, Linked, NEW p \in pages,
         \/ RestartLogin(p) \/ LandLogin(p) \/ LoginRefused(p)
         \/ \E u \in Users : LoginAccepted(p, u)
         \/ LandStep(p)
         \/ \E ok \in BOOLEAN : SubmitAction(p, ok)
         \/ \E accept \in BOOLEAN : SubmitConsent(p, accept)
  PROVE  TypeOK' /\ Linked'
<1> USE PageFacts
<1>1. CASE RestartLogin(p)
  <2> DEFINE tab == [NoTab EXCEPT !.client = p.client, !.req = restart.req]
  <2>1. tab \in Tab /\ tab.client = p.client
    BY DEF TypeOK, Restart, Tab, NoTab
  <2>2. beginAuthSession(tab)
    BY <1>1 DEF RestartLogin
  <2> HIDE DEF tab
  <2>3. TabOpened(tab)
    BY <2>1, <2>2, BeginOpensTab
  <2>4. PageOf("relogin", NewTabId, p.client, NoStep) \in Page
    BY <2>3, PageOfType DEF TabOpened
  <2>5. pages' \in SUBSET Page
    BY <1>1, <2>4 DEF RestartLogin, TypeOK
  <2>6. UNCHANGED <<enabled, actions, sessions, codes, grants, identity, restart, tokens, ended>>
    BY <1>1 DEF RestartLogin
  <2>7. TypeOK'
    BY <2>3, <2>5, <2>6 DEF TypeOK, TabOpened
  <2>8. Linked'
    BY <2>1, <2>3, <2>6, OpenedLinked DEF Linked
  <2> QED BY <2>7, <2>8
<1>2. CASE LandLogin(p) \/ LoginRefused(p)
  <2>1. pages' \in SUBSET Page
    BY <1>2, LoginPageServed DEF LandLogin, LoginRefused, PagesOf
  <2>2. ttl' \in [Sids -> 0..Lifespan]
    <3>1. ttl' = [ttl EXCEPT ![authCookie] = Lifespan]
      BY <1>2 DEF LandLogin, LoginRefused
    <3>2. ttl \in [Sids -> 0..Lifespan] /\ Lifespan \in 0..Lifespan
      BY ConstantsAssumption DEF TypeOK
    <3> QED BY <3>1, <3>2
  <2>3. UNCHANGED <<enabled, actions, sessions, tabs, codes, grants, authCookie,
                    identity, restart, tokens, minted, ended>>
    BY <1>2 DEF LandLogin, LoginRefused
  <2>4. TypeOK'
    BY <2>1, <2>2, <2>3 DEF TypeOK
  <2>5. Linked'
    BY <2>3 DEF Linked
  <2> QED BY <2>4, <2>5
<1>3. ASSUME NEW u \in Users, LoginAccepted(p, u) PROVE TypeOK' /\ Linked'
  <2> DEFINE step == tabStep(actions[u], u, p.client, tabs[p.tab].ask)
  <2>1. /\ tabByID(p.tab)
        /\ UNCHANGED <<enabled, sessions, ttl, grants, authCookie, identity, restart, tokens,
                       minted, ended>>
        /\ actions' = [actions EXCEPT ![u] = Settled(@)]
        /\ tabs' = [tabs EXCEPT ![p.tab].user = u, ![p.tab].proved = TRUE]
    BY <1>3 DEF LoginAccepted, tabByCode
  <2>2. actions' \in [Users -> SUBSET Aliases]
    BY <2>1, SettledFacts DEF TypeOK
  <2>3. /\ tabs' \in [TabIds -> Tab]
        /\ \A t \in TabIds : tabs'[t].root = tabs[t].root /\ tabs'[t].client = tabs[t].client
    BY <2>1, UserSet
  <2>4. CASE step # NoStep
    <3>1. writeRequiredActionRedirect(p.tab, p.client, step) /\ UNCHANGED codes
      BY <1>3, <2>4 DEF LoginAccepted
    <3>2. pages' \in SUBSET Page
      BY <3>1, TabStepType, RedirectServed DEF PagesOf
    <3>3. TypeOK'
      BY <2>1, <2>2, <2>3, <3>1, <3>2 DEF TypeOK
    <3>4. Linked'
      BY <2>1, <2>3, <3>1 DEF Linked
    <3> QED BY <3>3, <3>4
  <2>5. CASE step = NoStep
    <3>1. completeLogin(p.tab, u, TRUE) /\ UNCHANGED pages
      BY <1>3, <2>5 DEF LoginAccepted
    <3>2. grants' \in SUBSET (Users \X Clients)
      BY <2>1 DEF TypeOK
    <3> QED
      BY <2>1, <2>2, <2>3, <3>1, <3>2, LetThroughTypes
  <2> QED BY <2>4, <2>5
<1>4. CASE LandStep(p)
  <2> DEFINE u == tabs[p.tab].user
             step == tabStep(actions[u], u, p.client, tabs[p.tab].ask)
  <2>1. /\ tabByID(p.tab) /\ u \in Users
        /\ actions' = [actions EXCEPT ![u] = Settled(@)]
        /\ UNCHANGED <<enabled, sessions, tabs, codes, grants, authCookie, identity,
                       restart, tokens, minted, ended>>
    BY <1>4 DEF LandStep
  <2>2. actions' \in [Users -> SUBSET Aliases]
    BY <2>1, SettledFacts DEF TypeOK
  <2>3. UNCHANGED <<ttl, pages>> \/ serveStep(p.tab, p.client, step)
    BY <1>4 DEF LandStep
  <2>4. pages' \in SUBSET Page /\ ttl' \in [Sids -> 0..Lifespan]
    <3> HIDE DEF u
    <3>1. step \in Aliases \cup {OAuthGrant, NoStep}
      BY TabStepType
    <3> HIDE DEF step
    <3> QED BY <2>1, <2>3, <3>1, StepServed DEF TypeOK, PagesOf
  <2>5. TypeOK'
    BY <2>1, <2>2, <2>4 DEF TypeOK
  <2>6. Linked'
    BY <2>1 DEF Linked
  <2> QED BY <2>5, <2>6
<1>5. ASSUME NEW ok \in BOOLEAN, SubmitAction(p, ok) PROVE TypeOK' /\ Linked'
  <2> DEFINE u == tabs[p.tab].user
             left == Settled(Settled(actions[u]) \ {p.step})
             due == tabStep(actions[u], u, p.client, tabs[p.tab].ask)
             nxt == tabStep(left, u, p.client, tabs[p.tab].ask)
  <2>1. /\ tabByID(p.tab) /\ u \in Users
        /\ UNCHANGED <<enabled, sessions, tabs, grants, authCookie, identity, restart, tokens,
                       minted, ended>>
        /\ \/ actions' = [actions EXCEPT ![u] = Settled(@)]
           \/ actions' = [actions EXCEPT ![u] = left]
    BY <1>5 DEF SubmitAction, runStep
  <2>2. left \subseteq actions[u]
    BY SettledFacts
  <2>3. due \in Aliases \cup {OAuthGrant, NoStep} /\ nxt \in Aliases \cup {OAuthGrant, NoStep}
    BY TabStepType
  <2>4. \/ /\ writeRequiredActionRedirect(p.tab, p.client, due)
           /\ UNCHANGED <<ttl, codes>>
        \/ /\ serveStep(p.tab, p.client, due) \/ serveStep(p.tab, p.client, nxt)
           /\ UNCHANGED codes
        \/ completeLogin(p.tab, u, tabs[p.tab].proved) /\ UNCHANGED <<ttl, pages>>
    BY <1>5 DEF SubmitAction, runStep
  <2> HIDE DEF u, left, due, nxt
  <2>5. actions' \in [Users -> SUBSET Aliases]
    BY <2>1, <2>2, SettledFacts DEF TypeOK
  <2>6. CASE /\ writeRequiredActionRedirect(p.tab, p.client, due)
             /\ UNCHANGED <<ttl, codes>>
    <3>1. pages' \in SUBSET Page
      BY <2>3, <2>6, RedirectServed DEF PagesOf
    <3> QED BY <2>1, <2>5, <2>6, <3>1 DEF TypeOK, Linked
  <2>7. CASE /\ serveStep(p.tab, p.client, due) \/ serveStep(p.tab, p.client, nxt)
             /\ UNCHANGED codes
    <3>1. pages' \in SUBSET Page /\ ttl' \in [Sids -> 0..Lifespan]
      BY <2>1, <2>3, <2>7, StepServed DEF PagesOf
    <3> QED BY <2>1, <2>5, <2>7, <3>1 DEF TypeOK, Linked
  <2>8. CASE completeLogin(p.tab, u, tabs[p.tab].proved) /\ UNCHANGED <<ttl, pages>>
    <3>1. /\ grants' \in SUBSET (Users \X Clients) /\ tabs' \in [TabIds -> Tab]
          /\ tabs[p.tab].proved \in BOOLEAN
      BY <2>1 DEF TypeOK
    <3> QED BY <2>1, <2>5, <2>8, <3>1, LetThroughTypes
  <2> QED BY <2>4, <2>6, <2>7, <2>8
<1>6. ASSUME NEW accept \in BOOLEAN, SubmitConsent(p, accept) PROVE TypeOK' /\ Linked'
  <2> DEFINE u == tabs[p.tab].user
  <2>1. /\ tabByID(p.tab) /\ u \in Users
        /\ UNCHANGED <<enabled, actions, sessions, authCookie, identity, restart, pages, tokens,
                       minted, ended>>
    BY <1>6 DEF SubmitConsent
  <2>2. CASE accept
    <3>1. /\ grants' = grants \cup {<<u, p.client>>} /\ UNCHANGED <<ttl, tabs>>
          /\ completeLogin(p.tab, u, tabs[p.tab].proved)
      BY <1>6, <2>2 DEF SubmitConsent
    <3> HIDE DEF u
    <3>2. /\ grants' \in SUBSET (Users \X Clients) /\ actions' \in [Users -> SUBSET Aliases]
          /\ tabs' \in [TabIds -> Tab] /\ tabs[p.tab].proved \in BOOLEAN
      BY <2>1, <3>1 DEF TypeOK
    <3> QED BY <2>1, <3>1, <3>2, LetThroughTypes
  <2>3. CASE ~accept
    <3>1. endSession(tabs[p.tab].root) /\ UNCHANGED <<codes, grants>>
      BY <1>6, <2>3 DEF SubmitConsent
    <3>2. SessionEnded(tabs[p.tab].root)
      BY <2>1, <3>1, EndSessionEnds
    <3>3. TypeOK'
      BY <2>1, <3>1, <3>2 DEF TypeOK, SessionEnded
    <3>4. \A t \in TabIds : tabs'[t].root # None => tabs'[t].client \in Clients
      BY <3>2 DEF Linked, SessionEnded, NoTab
    <3>5. Linked'
      BY <2>1, <3>1, <3>4 DEF Linked
    <3> QED BY <3>3, <3>5
  <2> QED BY <2>2, <2>3
<1> QED
  BY <1>1, <1>2, <1>3, <1>4, <1>5, <1>6

\* The three steps of the end of a login keep the types and the links.
LEMMA CompletionTypes ==
  ASSUME TypeOK, Linked, NEW k \in CodeIds, StartLogin(k) \/ MintCode(k) \/ EndLogin(k)
  PROVE  TypeOK' /\ Linked'
<1>1. CodesMoved
  BY StepMovesCodes
<1>2. codes[k].state # "none"
  BY DEF StartLogin, MintCode, EndLogin, Linked
<1>3. PICK u \in Users, r \in Sids, c \in Clients :
        u = codes[k].user /\ r = codes[k].sid /\ c = codes[k].client
  BY <1>2 DEF Linked
<1>4. CASE StartLogin(k)
  <2>1. /\ sessions' \in [Sids -> Session]
        /\ \A s \in Sids : sessions'[s] # NoSession => sessions'[s].user \in Users
    BY <1>3, <1>4, SessionStarted DEF StartLogin
  <2>2. UNCHANGED <<enabled, actions, ttl, tabs, grants, authCookie, identity, restart, pages,
                    tokens, minted, ended>>
    BY <1>4 DEF StartLogin
  <2>3. TypeOK'
    BY <1>1, <2>1, <2>2 DEF TypeOK, CodesMoved
  <2>4. Linked'
    BY <1>1, <2>1, <2>2, MovedLinked DEF Linked
  <2> QED BY <2>3, <2>4
<1>5. CASE MintCode(k)
  <2>1. UNCHANGED <<enabled, actions, sessions, ttl, tabs, grants, authCookie, identity, restart,
                    pages, tokens, minted, ended>>
    BY <1>5 DEF MintCode
  <2>2. TypeOK'
    BY <1>1, <2>1 DEF TypeOK, CodesMoved
  <2>3. Linked'
    BY <1>1, <2>1, MovedLinked DEF Linked
  <2> QED BY <2>2, <2>3
<1>6. CASE EndLogin(k)
  <2>1. SessionEnded(r)
    BY <1>3, <1>6, EndSessionEnds DEF EndLogin
  <2>2. /\ restart' = NoRestart /\ identity' = [user |-> u, sid |-> r]
        /\ UNCHANGED <<enabled, actions, sessions, grants, authCookie, pages, tokens, minted, ended>>
    BY <1>3, <1>6 DEF EndLogin
  <2>3. restart' \in Restart /\ identity' \in Identity /\ identity'.user \in Users
    BY <2>2, ConstantsAssumption DEF NoRestart, Restart, Identity
  <2>4. TypeOK'
    BY <1>1, <2>1, <2>2, <2>3 DEF TypeOK, SessionEnded, CodesMoved
  <2>5. \A t \in TabIds : tabs'[t].root # None => tabs'[t].client \in Clients
    BY <2>1 DEF Linked, SessionEnded, NoTab
  <2>6. Linked'
    BY <1>1, <2>2, <2>3, <2>5, MovedLinked DEF Linked
  <2> QED BY <2>4, <2>6
<1> QED
  BY <1>4, <1>5, <1>6

\* The token endpoint and what happens around the browser keep the types and links.
LEMMA OtherTypes ==
  ASSUME TypeOK, Linked,
         \/ \E k \in CodeIds, ok \in BOOLEAN : ExchangeCode(k, ok)
         \/ \E tok \in tokens : RefreshToken(tok)
         \/ \E s \in Sids : LogoutSession(s)
         \/ \E u \in Users : LogoutUser(u)
         \/ \E u \in Users, on, temporary \in BOOLEAN : AdminUpdateUser(u, on, temporary)
         \/ \E u \in Users, temporary \in BOOLEAN : AdminResetPassword(u, temporary)
         \/ Tick \/ IdentityExpires \/ ServerRestart
  PROVE  TypeOK' /\ Linked'
<1>1. ASSUME NEW k \in CodeIds, NEW ok \in BOOLEAN, ExchangeCode(k, ok)
      PROVE  TypeOK' /\ Linked'
  <2>1. UNCHANGED <<enabled, actions, sessions, ttl, tabs, grants, authCookie,
                    identity, restart, pages, minted, ended>>
    BY <1>1 DEF ExchangeCode
  <2>2. CodesMoved
    BY <1>1, StepMovesCodes
  <2>3. tokens' \in SUBSET Token
    <3> DEFINE tok == [sub |-> codes[k].user, sid |-> codes[k].sid,
                       client |-> codes[k].client, ended |-> FALSE]
    <3>1. tok \in Token
      BY <1>1 DEF ExchangeCode, spendCode, Linked, Token
    <3>2. tokens' = tokens \cup {tok} \/ tokens' = tokens
      BY <1>1 DEF ExchangeCode, spendCode
    <3> QED BY <3>1, <3>2 DEF TypeOK
  <2>4. TypeOK'
    BY <2>1, <2>2, <2>3 DEF TypeOK, CodesMoved
  <2>5. Linked'
    BY <2>1, <2>2, MovedLinked DEF Linked
  <2> QED BY <2>4, <2>5
<1>2. ASSUME NEW tok \in tokens, RefreshToken(tok) PROVE TypeOK' /\ Linked'
  <2>1. tok \in Token /\ tok.sid \in Sids
    BY DEF TypeOK, Token
  <2>2. sessions[tok.sid].user \in Users
    BY <1>2, <2>1 DEF RefreshToken, CanRefresh, Linked
  <2>3. tokens' \in SUBSET Token
    BY <1>2, <2>1, <2>2 DEF RefreshToken, TypeOK, Token
  <2> QED BY <1>2, <2>3 DEF RefreshToken, TypeOK, Linked
<1>3. ASSUME NEW S \in SUBSET Sids, EndUserSessions(S) PROVE TypeOK' /\ Linked'
  <2>1. NoSession \in Session
    BY DEF Session, NoSession
  <2>2. /\ sessions' = [s \in Sids |-> IF s \in S THEN NoSession ELSE sessions[s]]
        /\ tokens' = {IF tok.sid \in S THEN [tok EXCEPT !.ended = TRUE] ELSE tok : tok \in tokens}
        /\ ended' = ended \cup S
        /\ UNCHANGED <<enabled, actions, ttl, tabs, codes, grants, authCookie, identity,
                       restart, pages, minted>>
    BY <1>3 DEF EndUserSessions
  <2>3. sessions' \in [Sids -> Session]
    BY <2>1, <2>2 DEF TypeOK
  <2>4. tokens' \in SUBSET Token
    <3>1. \A tok \in Token : [tok EXCEPT !.ended = TRUE] \in Token
      BY DEF Token
    <3> QED BY <2>2, <3>1 DEF TypeOK
  <2>5. TypeOK'
    BY <2>2, <2>3, <2>4 DEF TypeOK
  <2>6. Linked'
    BY <2>2 DEF Linked
  <2> QED BY <2>5, <2>6
<1>4. ASSUME NEW u \in Users, NEW on \in BOOLEAN, NEW temporary \in BOOLEAN,
             AdminUpdateUser(u, on, temporary) \/ AdminResetPassword(u, temporary)
      PROVE  TypeOK' /\ Linked'
  <2>1. \A acts \in SUBSET Aliases, b \in BOOLEAN : withAction(acts, b) \in SUBSET Aliases
    BY DEF withAction
  <2>2. enabled' \in [Users -> BOOLEAN] /\ actions' \in [Users -> SUBSET Aliases]
    <3>1. CASE AdminUpdateUser(u, on, temporary)
      <4>1. actions[u] \in SUBSET Aliases
        BY DEF TypeOK
      <4>2. withAction(actions[u], TRUE) \in SUBSET Aliases
        BY <2>1, <4>1
      <4> QED BY <3>1, <4>2 DEF AdminUpdateUser, TypeOK
    <3>2. CASE AdminResetPassword(u, temporary)
      <4>1. actions[u] \in SUBSET Aliases
        BY DEF TypeOK
      <4>2. withAction(actions[u], temporary) \in SUBSET Aliases
        BY <2>1, <4>1
      <4> QED BY <3>2, <4>2 DEF AdminResetPassword, TypeOK
    <3> QED BY <1>4, <3>1, <3>2
  <2> QED BY <1>4, <2>2 DEF AdminUpdateUser, AdminResetPassword, TypeOK, Linked
<1>5. NoTab \in Tab /\ NoTab.root = None
  BY DEF Tab, NoTab
<1>6. CASE Tick
  <2>1. CodesMoved
    BY <1>6, StepMovesCodes
  <2>2. ttl' \in [Sids -> 0..Lifespan]
    BY <1>6, ConstantsAssumption DEF Tick, TypeOK
  <2>3. /\ tabs' \in [TabIds -> Tab]
        /\ \A t \in TabIds : tabs'[t] = tabs[t] \/ tabs'[t] = NoTab
    <3>1. tabs' = [t \in TabIds |-> IF tabs[t].root # None /\ ttl[tabs[t].root] <= 1
                                   THEN NoTab ELSE tabs[t]]
      BY <1>6 DEF Tick
    <3> QED BY <1>5, <3>1 DEF TypeOK
  <2>4. restart' \in Restart
    <3>1. restart \in Restart /\ restart' = [restart EXCEPT !.left = IF @ = 0 THEN 0 ELSE @ - 1]
      BY <1>6 DEF Tick, TypeOK
    <3>2. \A n \in 0..Lifespan : (IF n = 0 THEN 0 ELSE n - 1) \in 0..Lifespan
      BY ConstantsAssumption
    <3> QED BY <3>1, <3>2 DEF Restart
  <2>5. UNCHANGED <<enabled, actions, sessions, grants, authCookie, identity, pages, tokens, minted,
                    ended>>
    BY <1>6 DEF Tick
  <2>6. TypeOK'
    BY <2>1, <2>2, <2>3, <2>4, <2>5 DEF TypeOK, CodesMoved
  <2>7. Linked'
    BY <1>5, <2>1, <2>3, <2>5, MovedLinked DEF Linked
  <2> QED BY <2>6, <2>7
<1>7. CASE IdentityExpires
  BY <1>7 DEF IdentityExpires, TypeOK, Linked, Identity, NoIdentity
<1>8. CASE ServerRestart
  <2>1. CodesMoved
    BY <1>8, StepMovesCodes
  <2>2. ttl' \in [Sids -> 0..Lifespan] /\ grants' \in SUBSET (Users \X Clients)
    <3>1. ttl' = [r \in Sids |-> 0] /\ grants' = {}
      BY <1>8 DEF ServerRestart
    <3> QED BY <3>1, ConstantsAssumption
  <2>3. tabs' \in [TabIds -> Tab] /\ \A t \in TabIds : tabs'[t] = NoTab
    BY <1>5, <1>8 DEF ServerRestart
  <2>4. restart' \in Restart
    <3>1. restart \in Restart /\ restart' = [restart EXCEPT !.left = 0]
      BY <1>8 DEF ServerRestart, TypeOK
    <3>2. 0 \in 0..Lifespan
      BY ConstantsAssumption
    <3> QED BY <3>1, <3>2 DEF Restart
  <2>5. UNCHANGED <<enabled, actions, sessions, authCookie, identity, pages, tokens, minted, ended>>
    BY <1>8 DEF ServerRestart
  <2>6. TypeOK'
    BY <2>1, <2>2, <2>3, <2>4, <2>5 DEF TypeOK, CodesMoved
  <2>7. Linked'
    BY <1>5, <2>1, <2>3, <2>5, MovedLinked DEF Linked
  <2> QED BY <2>6, <2>7
<1>9. ASSUME (\E s \in Sids : LogoutSession(s)) \/ (\E u \in Users : LogoutUser(u))
       PROVE  \E S \in SUBSET Sids : EndUserSessions(S)
  BY <1>9 DEF LogoutSession, LogoutUser
<1> QED
  BY <1>1, <1>2, <1>3, <1>4, <1>6, <1>7, <1>8, <1>9

\* Every step keeps the types and the links: the handlers of the three groups above.
LEMMA TypeStep == TypeOK /\ Linked /\ [Next]_vars => TypeOK' /\ Linked'
<1> SUFFICES ASSUME TypeOK, Linked, [Next]_vars PROVE TypeOK' /\ Linked'
  OBVIOUS
<1>1. CASE UNCHANGED vars
  BY <1>1 DEF vars, TypeOK, Linked
<1> QED
  BY <1>1, AuthorizeTypes, LoginActionTypes, CompletionTypes, OtherTypes DEF Next

-----------------------------------------------------------------------------
(* What answers a tab, and consent before it *)

\* A tab that is not new keeps its root or is gone.
RootsKept ==
  \A t \in TabIds : t \in minted /\ tabs'[t].root # None => tabs'[t].root = tabs[t].root

\* What a step that lets nobody through and keeps the consents must leave alone.
Quiet ==
  /\ minted \subseteq minted' /\ grants \subseteq grants'
  /\ codes' = codes
  /\ \A p \in pages' : \/ \E q \in pages : q.tab = p.tab
                       \/ p.tab \in minted' /\ p.tab \notin minted
  /\ RootsKept

\* A step that changes no code and opens only new tabs keeps what is known of codes.
LEMMA QuietKeeps ==
  ASSUME IInv, Quiet
  PROVE  AnsweredTabs' /\ ConsentBeforeLogin'
<1>1. \A p \in pages' : p.tab \in minted'
  BY DEF IInv, AnsweredTabs, Quiet
<1>2. ASSUME NEW k \in CodeIds, codes'[k].state # "none"
      PROVE  codes'[k].tab \in minted' /\ tabs'[codes'[k].tab].root \in {None, codes'[k].sid}
  <2>1. /\ codes'[k] = codes[k] /\ codes[k].tab \in minted /\ codes[k].tab \in TabIds
        /\ tabs[codes[k].tab].root \in {None, codes[k].sid}
    BY <1>2 DEF IInv, Linked, AnsweredTabs, Quiet
  <2> QED BY <2>1 DEF Quiet, RootsKept
<1>3. ASSUME NEW k \in CodeIds, NEW p \in pages',
             Given(k)', ~codes'[k].ending, p.tab = codes'[k].tab
      PROVE  tabs'[p.tab].root = None
  <2>1. Given(k) /\ ~codes[k].ending /\ p.tab = codes[k].tab /\ p.tab \in minted
    BY <1>3 DEF IInv, AnsweredTabs, Given, Quiet
  <2>2. PICK q \in pages : q.tab = p.tab
    BY <2>1 DEF Quiet
  <2>3. tabs[p.tab].root = None /\ p.tab \in TabIds
    BY <2>1, <2>2, PageFacts DEF IInv, AnsweredTabs
  <2> QED BY <2>1, <2>3 DEF Quiet, RootsKept
<1>4. AnsweredTabs'
  BY <1>1, <1>2, <1>3 DEF AnsweredTabs
<1>5. ConsentBeforeLogin'
  BY DEF IInv, ConsentBeforeLogin, Quiet
<1> QED
  BY <1>4, <1>5

\* Codes that move on keep it too: the login of a code that is given now was over
\* before, or its tab is gone; and a code that is not spent keeps its consent.
LEMMA MovingKeeps ==
  ASSUME IInv, UNCHANGED <<pages, minted>>, CodesMoved,
         \A t \in TabIds : tabs'[t] = tabs[t] \/ tabs'[t] = NoTab,
         \A k \in CodeIds : codes'[k].state \in {"pending", "started", "live"} =>
           codes[k].state \in {"pending", "started", "live"} /\ grants' = grants,
         \A k \in CodeIds : Given(k)' /\ ~codes'[k].ending =>
           (Given(k) /\ ~codes[k].ending) \/ tabs'[codes[k].tab] = NoTab
  PROVE  AnsweredTabs' /\ ConsentBeforeLogin'
<1>1. NoTab.root = None
  BY DEF NoTab
<1>2. ConsentBeforeLogin'
  BY DEF IInv, ConsentBeforeLogin, CodesMoved
<1>3. ASSUME NEW k \in CodeIds, codes'[k].state # "none"
      PROVE  /\ codes'[k].tab = codes[k].tab /\ codes'[k].tab \in TabIds
             /\ codes'[k].tab \in minted' /\ tabs'[codes'[k].tab].root \in {None, codes'[k].sid}
  <2>1. /\ codes[k].state # "none" /\ codes'[k].tab = codes[k].tab /\ codes'[k].sid = codes[k].sid
    BY <1>3 DEF CodesMoved
  <2> QED BY <1>1, <2>1 DEF IInv, Linked, AnsweredTabs
<1>4. ASSUME NEW k \in CodeIds, NEW p \in pages, Given(k)', ~codes'[k].ending,
             p.tab = codes'[k].tab
      PROVE  tabs'[p.tab].root = None
  <2>1. codes'[k].tab = codes[k].tab /\ p.tab \in TabIds
    BY <1>3, <1>4 DEF Given
  <2>2. CASE Given(k) /\ ~codes[k].ending
    <3>1. tabs[p.tab].root = None
      BY <1>4, <2>1, <2>2 DEF IInv, AnsweredTabs
    <3> QED BY <1>1, <2>1, <3>1
  <2>3. CASE tabs'[codes[k].tab] = NoTab
    BY <1>1, <1>4, <2>1, <2>3
  <2> QED BY <1>4, <2>2, <2>3
<1>5. \A p \in pages' : p.tab \in minted'
  BY DEF IInv, AnsweredTabs
<1>6. AnsweredTabs'
  BY <1>3, <1>4, <1>5 DEF AnsweredTabs
<1> QED
  BY <1>2, <1>6

\* A code is added for the tab of an open page, not yet given, or for a tab nobody has
\* seen; and consent is recorded if it is needed.
LEMMA AddingKeeps ==
  ASSUME IInv, NEW state \in {"pending", "live"}, NEW u, NEW s, NEW c, NEW t \in TabIds,
         NEW proved, CodeAdded(state, u, s, c, t, proved),
         UNCHANGED pages, minted \subseteq minted', t \in minted', grants \subseteq grants',
         c \in ConsentClients => <<u, c>> \in grants',
         RootsKept, tabs'[t].root \in {None, s},
         state = "pending" \/ t \notin minted
  PROVE  AnsweredTabs' /\ ConsentBeforeLogin'
<1>1. ConsentBeforeLogin'
  BY DEF IInv, ConsentBeforeLogin, CodeAdded
<1>2. \A p \in pages' : p.tab \in minted'
  BY DEF IInv, AnsweredTabs
<1>3. ASSUME NEW k \in CodeIds, codes'[k].state # "none"
      PROVE  codes'[k].tab \in minted' /\ tabs'[codes'[k].tab].root \in {None, codes'[k].sid}
  <2>1. CASE k = NewCodeId
    BY <2>1 DEF CodeAdded
  <2>2. CASE k # NewCodeId
    <3>1. codes'[k] = codes[k]
      BY <2>2 DEF CodeAdded
    <3>2. /\ codes[k].tab \in minted /\ codes[k].tab \in TabIds
          /\ tabs[codes[k].tab].root \in {None, codes[k].sid}
      BY <1>3, <3>1 DEF IInv, Linked, AnsweredTabs
    <3> QED BY <3>1, <3>2 DEF RootsKept
  <2> QED BY <2>1, <2>2
<1>4. ASSUME NEW k \in CodeIds, NEW p \in pages', Given(k)', ~codes'[k].ending,
             p.tab = codes'[k].tab
      PROVE  tabs'[p.tab].root = None
  <2>1. p \in pages /\ p.tab \in TabIds /\ p.tab \in minted
    BY PageFacts DEF IInv, AnsweredTabs
  <2>2. CASE k = NewCodeId
    BY <1>4, <2>1, <2>2 DEF CodeAdded, Given
  <2>3. CASE k # NewCodeId
    <3>1. codes'[k] = codes[k]
      BY <2>3 DEF CodeAdded
    <3>2. tabs[p.tab].root = None
      BY <1>4, <2>1, <3>1 DEF IInv, AnsweredTabs, Given
    <3> QED BY <2>1, <3>2 DEF RootsKept
  <2> QED BY <2>2, <2>3
<1>5. AnsweredTabs'
  BY <1>2, <1>3, <1>4 DEF AnsweredTabs
<1> QED
  BY <1>1, <1>5

\* A tab that is newly open is new, so a step that only opens one is quiet.
LEMMA OpeningIsQuiet ==
  ASSUME NEW tab, TabOpened(tab), UNCHANGED <<codes, grants>>,
         pages' = pages \/ PagesOf(NewTabId)
  PROVE  Quiet
BY DEF TabOpened, PagesOf, Quiet, RootsKept, NoTab

\* GET /auth mints a code only for the tab it opens, after asking for consent.
LEMMA AuthorizeAnswers ==
  ASSUME IInv, NEW c \in Clients, NEW pr \in Prompts, NEW young \in BOOLEAN,
         \/ AuthorizeLogin(c, pr, young) \/ AuthorizeSilent(c, pr, young)
         \/ AuthorizeCreate(c, pr, young) \/ AuthorizeCode(c, pr, young)
         \/ AuthorizeStep(c, pr, young)
  PROVE  AnsweredTabs' /\ ConsentBeforeLogin'
<1> USE DEF IInv
<1>1. Fresh(young) => identity.user \in Users /\ identity.sid \in Sids
  BY DEF TypeOK, Linked, Fresh, resolveBrowserSession, Identity
<1>2. CASE AuthorizeLogin(c, pr, young)
  <2>1. TabOpened(RequestTab(c, pr))
    BY <1>2, BeginOpensTab, RequestTabType DEF AuthorizeLogin
  <2>2. PagesOf(NewTabId)
    BY <1>2, <2>1, LoginPageServed DEF AuthorizeLogin, TabOpened
  <2> QED BY <1>2, <2>1, <2>2, OpeningIsQuiet, QuietKeeps DEF AuthorizeLogin
<1>3. CASE AuthorizeSilent(c, pr, young) \/ AuthorizeCreate(c, pr, young)
  <2>1. TabOpened(RequestTab(c, pr))
    BY <1>3, BeginOpensTab, RequestTabType DEF AuthorizeSilent, AuthorizeCreate
  <2> QED BY <1>3, <2>1, OpeningIsQuiet, QuietKeeps DEF AuthorizeSilent, AuthorizeCreate
<1>4. CASE AuthorizeStep(c, pr, young)
  <2> DEFINE tab == [RequestTab(c, pr) EXCEPT !.user = identity.user]
  <2>1. identity.user \in Users /\ identity.sid \in Sids
    BY <1>1, <1>4 DEF AuthorizeStep
  <2>2. tab \in Tab /\ tab.client = c
    BY <2>1, RequestTabType
  <2>3. resumeAuthSession(identity.sid, tab)
    BY <1>4 DEF AuthorizeStep
  <2> HIDE DEF tab
  <2>4. TabOpened(tab)
    BY <2>1, <2>2, <2>3, ResumeOpensTab
  <2>5. PagesOf(NewTabId)
    <3>1. SSOStep(c, pr) \in Aliases \cup {OAuthGrant, NoStep}
      BY TabStepType DEF SSOStep
    <3> QED BY <1>4, <2>4, <3>1, RedirectServed DEF AuthorizeStep, TabOpened
  <2> QED BY <1>4, <2>4, <2>5, OpeningIsQuiet, QuietKeeps DEF AuthorizeStep
<1>5. CASE AuthorizeCode(c, pr, young)
  <2>1. identity.user \in Users /\ identity.sid \in Sids
    BY <1>1, <1>5 DEF AuthorizeCode
  <2>2. TabOpened(RequestTab(c, pr))
    BY <1>5, <2>1, ResumeOpensTab, RequestTabType DEF AuthorizeCode
  <2>3. CodeAdded("live", identity.user, identity.sid, c, NewTabId, FALSE)
    BY <1>5, <2>1, <2>2, NewCodeAdds DEF AuthorizeCode, TabOpened
  <2>4. ~consentNeeded(identity.user, c, "consent" \in pr)
    BY <1>5, TabStepNone DEF AuthorizeCode, SSOStep
  <2>5. c \in ConsentClients => <<identity.user, c>> \in grants
    BY <2>4 DEF consentNeeded
  <2>6. UNCHANGED <<grants, pages>>
    BY <1>5 DEF AuthorizeCode
  <2>7. tabs'[NewTabId].root = identity.sid
    <3>1. PICK n \in TabIds : n = NewTabId
      BY <2>2 DEF TabOpened
    <3>2. tabs'[n] = [RequestTab(c, pr) EXCEPT !.root = identity.sid]
      BY <1>5, <3>1 DEF AuthorizeCode, resumeAuthSession
    <3>3. RequestTab(c, pr) \in Tab
      BY RequestTabType
    <3> QED BY <3>1, <3>2, <3>3 DEF Tab
  <2>8. RootsKept
    BY <2>2 DEF TabOpened, RootsKept, NoTab
  <2> QED BY <2>2, <2>3, <2>5, <2>6, <2>7, <2>8, AddingKeeps DEF TabOpened
<1> QED
  BY <1>2, <1>3, <1>4, <1>5

\* A submit that is let through takes a code for the tab of an open page.
LEMMA LetThroughKeeps ==
  ASSUME IInv, NEW p \in pages, NEW u \in Users, tabs[p.tab].root \in Sids, NEW proved \in BOOLEAN,
         completeLogin(p.tab, u, proved), UNCHANGED <<pages, minted>>, grants \subseteq grants',
         \A t \in TabIds : tabs'[t].root = tabs[t].root,
         tabs[p.tab].client \in ConsentClients => <<u, tabs[p.tab].client>> \in grants'
  PROVE  AnsweredTabs' /\ ConsentBeforeLogin'
<1>1. p.tab \in TabIds /\ p.tab \in minted'
  BY PageFacts DEF IInv, AnsweredTabs
<1>2. CodeAdded("pending", u, tabs[p.tab].root, tabs[p.tab].client, p.tab, proved)
  BY <1>1, SubmitLetThrough DEF IInv
<1>3. RootsKept /\ tabs'[p.tab].root \in {None, tabs[p.tab].root}
  BY <1>1 DEF RootsKept
<1> QED
  BY <1>1, <1>2, <1>3, AddingKeeps

\* A handler that serves the tab of an open page, and lets nobody through, is quiet.
LEMMA ServingIsQuiet ==
  ASSUME NEW p \in pages, pages' = pages \/ PagesOf(p.tab),
         UNCHANGED <<codes, grants, minted>>,
         \A t \in TabIds : tabs'[t].root # None => tabs'[t].root = tabs[t].root
  PROVE  Quiet
BY DEF PagesOf, Quiet, RootsKept

\* A login-actions handler lets a submit through only for its tab, after asking for consent.
LEMMA LoginActionAnswers ==
  ASSUME IInv, NEW p \in pages,
         \/ RestartLogin(p) \/ LandLogin(p) \/ LoginRefused(p)
         \/ \E u \in Users : LoginAccepted(p, u)
         \/ LandStep(p)
         \/ \E ok \in BOOLEAN : SubmitAction(p, ok)
         \/ \E accept \in BOOLEAN : SubmitConsent(p, accept)
  PROVE  AnsweredTabs' /\ ConsentBeforeLogin'
<1> USE PageFacts DEF IInv
<1>1. CASE RestartLogin(p)
  <2> DEFINE tab == [NoTab EXCEPT !.client = p.client, !.req = restart.req]
  <2>1. tab \in Tab
    BY DEF TypeOK, Restart, Tab, NoTab
  <2>2. beginAuthSession(tab)
    BY <1>1 DEF RestartLogin
  <2> HIDE DEF tab
  <2>3. TabOpened(tab)
    BY <2>1, <2>2, BeginOpensTab
  <2>4. PagesOf(NewTabId)
    BY <1>1, <2>3, PageOfType DEF RestartLogin, TabOpened, PagesOf, TypeOK
  <2> QED BY <1>1, <2>3, <2>4, OpeningIsQuiet, QuietKeeps DEF RestartLogin
<1>2. CASE LandLogin(p) \/ LoginRefused(p)
  <2>1. PagesOf(p.tab)
    BY <1>2, LoginPageServed DEF LandLogin, LoginRefused
  <2> QED BY <1>2, <2>1, ServingIsQuiet, QuietKeeps DEF LandLogin, LoginRefused
<1>3. ASSUME NEW u \in Users, LoginAccepted(p, u)
      PROVE  AnsweredTabs' /\ ConsentBeforeLogin'
  <2> DEFINE step == tabStep(actions[u], u, p.client, tabs[p.tab].ask)
  <2>1. /\ tabByID(p.tab) /\ SameClient(p) /\ UNCHANGED <<grants, minted>>
        /\ tabs' = [tabs EXCEPT ![p.tab].user = u, ![p.tab].proved = TRUE]
    BY <1>3 DEF LoginAccepted, tabByCode
  <2>2. \A t \in TabIds : tabs'[t].root = tabs[t].root
    BY <2>1, UserSet
  <2>3. CASE step # NoStep
    <3>1. writeRequiredActionRedirect(p.tab, p.client, step) /\ UNCHANGED codes
      BY <1>3, <2>3 DEF LoginAccepted
    <3>2. PagesOf(p.tab)
      BY <3>1, TabStepType, RedirectServed
    <3> QED BY <2>1, <2>2, <3>1, <3>2, ServingIsQuiet, QuietKeeps
  <2>4. CASE step = NoStep
    <3>1. completeLogin(p.tab, u, TRUE) /\ UNCHANGED pages
      BY <1>3, <2>4 DEF LoginAccepted
    <3>2. ~consentNeeded(u, p.client, tabs[p.tab].ask)
      BY <2>4, TabStepNone
    <3>3. tabs[p.tab].client \in ConsentClients => <<u, tabs[p.tab].client>> \in grants'
      BY <2>1, <3>2 DEF consentNeeded, SameClient
    <3> QED BY <2>1, <2>2, <3>1, <3>3, LetThroughKeeps
  <2> QED BY <2>3, <2>4
<1>4. CASE LandStep(p)
  <2> DEFINE u == tabs[p.tab].user
             step == tabStep(actions[u], u, p.client, tabs[p.tab].ask)
  <2>1. tabByID(p.tab) /\ UNCHANGED <<tabs, codes, grants, minted>>
    BY <1>4 DEF LandStep
  <2>2. UNCHANGED pages \/ serveStep(p.tab, p.client, step)
    BY <1>4 DEF LandStep
  <2>3. step \in Aliases \cup {OAuthGrant, NoStep}
    BY TabStepType
  <2> HIDE DEF step
  <2>4. pages' = pages \/ PagesOf(p.tab)
    BY <2>1, <2>2, <2>3, StepServed
  <2> QED BY <2>1, <2>4, ServingIsQuiet, QuietKeeps
<1>5. ASSUME NEW ok \in BOOLEAN, SubmitAction(p, ok)
      PROVE  AnsweredTabs' /\ ConsentBeforeLogin'
  <2> DEFINE u == tabs[p.tab].user
             left == Settled(Settled(actions[u]) \ {p.step})
             due == tabStep(actions[u], u, p.client, tabs[p.tab].ask)
             nxt == tabStep(left, u, p.client, tabs[p.tab].ask)
  <2>1. /\ tabByID(p.tab) /\ u \in Users /\ SameClient(p)
        /\ UNCHANGED <<tabs, grants, minted>>
    BY <1>5 DEF SubmitAction, runStep
  <2>2. due \in Aliases \cup {OAuthGrant, NoStep} /\ nxt \in Aliases \cup {OAuthGrant, NoStep}
    BY TabStepType
  <2>3. nxt = NoStep => ~consentNeeded(u, p.client, tabs[p.tab].ask)
    BY TabStepNone
  <2>4. \/ /\ \/ writeRequiredActionRedirect(p.tab, p.client, due)
              \/ serveStep(p.tab, p.client, due) \/ serveStep(p.tab, p.client, nxt)
           /\ UNCHANGED codes
        \/ nxt = NoStep /\ completeLogin(p.tab, u, tabs[p.tab].proved) /\ UNCHANGED pages
    BY <1>5 DEF SubmitAction, runStep
  <2> HIDE DEF u, left, due, nxt
  <2>5. CASE /\ \/ writeRequiredActionRedirect(p.tab, p.client, due)
                \/ serveStep(p.tab, p.client, due) \/ serveStep(p.tab, p.client, nxt)
             /\ UNCHANGED codes
    <3>1. PagesOf(p.tab)
      BY <2>1, <2>2, <2>5, RedirectServed, StepServed
    <3> QED BY <2>1, <2>5, <3>1, ServingIsQuiet, QuietKeeps
  <2>6. CASE nxt = NoStep /\ completeLogin(p.tab, u, tabs[p.tab].proved) /\ UNCHANGED pages
    <3>1. tabs[p.tab].client \in ConsentClients => <<u, tabs[p.tab].client>> \in grants'
      BY <2>1, <2>3, <2>6 DEF consentNeeded, SameClient
    <3>2. PICK proved \in BOOLEAN : proved = tabs[p.tab].proved
      OBVIOUS
    <3> QED BY <2>1, <2>6, <3>1, <3>2, LetThroughKeeps
  <2> QED BY <2>4, <2>5, <2>6
<1>6. ASSUME NEW accept \in BOOLEAN, SubmitConsent(p, accept)
      PROVE  AnsweredTabs' /\ ConsentBeforeLogin'
  <2> DEFINE u == tabs[p.tab].user
  <2>1. tabByID(p.tab) /\ u \in Users /\ SameClient(p) /\ UNCHANGED <<pages, minted>>
    BY <1>6 DEF SubmitConsent
  <2>2. CASE accept
    <3>1. /\ grants' = grants \cup {<<u, p.client>>} /\ UNCHANGED tabs
          /\ completeLogin(p.tab, u, tabs[p.tab].proved)
      BY <1>6, <2>2 DEF SubmitConsent
    <3> HIDE DEF u
    <3>2. <<u, tabs[p.tab].client>> \in grants'
      BY <2>1, <3>1 DEF SameClient
    <3>3. PICK proved \in BOOLEAN : proved = tabs[p.tab].proved
      OBVIOUS
    <3> QED BY <2>1, <3>1, <3>2, <3>3, LetThroughKeeps
  <2>3. CASE ~accept
    <3>1. endSession(tabs[p.tab].root) /\ UNCHANGED <<codes, grants>>
      BY <1>6, <2>3 DEF SubmitConsent
    <3>2. SessionEnded(tabs[p.tab].root)
      BY <2>1, <3>1, EndSessionEnds
    <3>3. \A t \in TabIds : tabs'[t].root # None => tabs'[t].root = tabs[t].root
      BY <3>2 DEF SessionEnded, NoTab
    <3> QED BY <2>1, <3>1, <3>3, ServingIsQuiet, QuietKeeps
  <2> QED BY <2>2, <2>3
<1> QED
  BY <1>1, <1>2, <1>3, <1>4, <1>5, <1>6

\* The three steps of the end of a login: the last leaves no tab of the code's.
LEMMA CompletionAnswers ==
  ASSUME IInv, NEW k \in CodeIds, StartLogin(k) \/ MintCode(k) \/ EndLogin(k)
  PROVE  AnsweredTabs' /\ ConsentBeforeLogin'
<1> USE DEF IInv
<1>1. CodesMoved /\ UNCHANGED <<pages, minted, grants>>
  BY StepMovesCodes DEF StartLogin, MintCode, EndLogin
<1>2. \A j \in CodeIds : codes[j] \in Code
  BY DEF TypeOK
<1>3. CASE StartLogin(k)
  <2>1. codes[k].state = "pending" /\ codes' = [codes EXCEPT ![k].state = "started"] /\ tabs' = tabs
    BY <1>3 DEF StartLogin
  <2>2. \A j \in CodeIds : codes'[j].state \in {"pending", "started", "live"} =>
          codes[j].state \in {"pending", "started", "live"}
    BY <1>2, <2>1 DEF TypeOK, Code
  <2>3. \A j \in CodeIds : Given(j)' /\ ~codes'[j].ending => Given(j) /\ ~codes[j].ending
    BY <1>2, <2>1 DEF TypeOK, Code, Given
  <2> QED BY <1>1, <2>1, <2>2, <2>3, MovingKeeps
<1>4. CASE MintCode(k)
  <2>1. /\ codes[k].state = "started" /\ tabs' = tabs
        /\ codes' = [codes EXCEPT ![k].state = "live", ![k].ending = TRUE]
    BY <1>4 DEF MintCode
  <2>2. \A j \in CodeIds : codes'[j].state \in {"pending", "started", "live"} =>
          codes[j].state \in {"pending", "started", "live"}
    BY <1>2, <2>1 DEF TypeOK, Code
  <2>3. \A j \in CodeIds : Given(j)' /\ ~codes'[j].ending => Given(j) /\ ~codes[j].ending
    BY <1>2, <2>1 DEF TypeOK, Code, Given
  <2> QED BY <1>1, <2>1, <2>2, <2>3, MovingKeeps
<1>5. CASE EndLogin(k)
  <2>1. codes[k].ending /\ codes' = [codes EXCEPT ![k].ending = FALSE]
    BY <1>5 DEF EndLogin
  <2>2. PICK r \in Sids : r = codes[k].sid
    BY <2>1 DEF Linked
  <2>3. tabs' = [t \in TabIds |-> IF tabs[t].root = r THEN NoTab ELSE tabs[t]]
    BY <1>5, <2>2 DEF EndLogin, endSession
  <2>4. codes[k].tab \in TabIds /\ tabs[codes[k].tab].root \in {None, r}
    BY <2>1, <2>2 DEF Linked, AnsweredTabs
  <2>5. \A j \in CodeIds : codes'[j].state = codes[j].state /\ codes'[j].tab = codes[j].tab
    BY <1>2, <2>1 DEF TypeOK, Code
  <2>6. \A j \in CodeIds : j # k => codes'[j] = codes[j]
    BY <2>1 DEF TypeOK
  <2>7. ASSUME NEW p \in pages, p.tab = codes[k].tab PROVE tabs'[p.tab].root = None
    <3>1. NoTab.root = None
      BY DEF NoTab
    <3> QED BY <2>3, <2>4, <2>7, <3>1
  <2>8. ConsentBeforeLogin'
    BY <1>1, <2>5 DEF ConsentBeforeLogin, CodesMoved
  <2>9. \A t \in TabIds : tabs'[t] = tabs[t] \/ tabs'[t] = NoTab
    BY <2>3
  <2>10. ASSUME NEW j \in CodeIds, codes'[j].state # "none"
         PROVE  codes'[j].tab \in minted' /\ tabs'[codes'[j].tab].root \in {None, codes'[j].sid}
    <3>1. codes[j].state # "none" /\ codes'[j].sid = codes[j].sid /\ codes'[j].tab = codes[j].tab
      BY <1>1, <2>10 DEF CodesMoved
    <3> QED BY <1>1, <2>9, <3>1 DEF Linked, AnsweredTabs, NoTab
  <2>11. ASSUME NEW j \in CodeIds, NEW p \in pages, Given(j)', ~codes'[j].ending, p.tab = codes'[j].tab
         PROVE  tabs'[p.tab].root = None
    <3>1. CASE j = k
      BY <2>5, <2>7, <2>11, <3>1
    <3>2. CASE j # k
      <4>1. tabs[p.tab].root = None /\ p.tab \in TabIds
        BY <2>6, <2>11, <3>2, PageFacts DEF AnsweredTabs, Given
      <4> QED BY <2>9, <4>1 DEF NoTab
    <3> QED BY <3>1, <3>2
  <2>12. AnsweredTabs'
    <3>1. \A p \in pages' : p.tab \in minted'
      BY <1>1 DEF AnsweredTabs
    <3> QED BY <1>1, <2>10, <2>11, <3>1 DEF AnsweredTabs
  <2> QED BY <2>8, <2>12
<1> QED
  BY <1>3, <1>4, <1>5

\* The token endpoint, logout, the admin API, time and a restart let nobody through.
LEMMA OtherAnswers ==
  ASSUME IInv,
         \/ \E k \in CodeIds, ok \in BOOLEAN : ExchangeCode(k, ok)
         \/ \E tok \in tokens : RefreshToken(tok)
         \/ \E s \in Sids : LogoutSession(s)
         \/ \E u \in Users : LogoutUser(u)
         \/ \E u \in Users, on, temporary \in BOOLEAN : AdminUpdateUser(u, on, temporary)
         \/ \E u \in Users, temporary \in BOOLEAN : AdminResetPassword(u, temporary)
         \/ Tick \/ IdentityExpires \/ ServerRestart
  PROVE  AnsweredTabs' /\ ConsentBeforeLogin'
<1> USE DEF IInv
<1>1. \A k \in CodeIds : codes[k] \in Code
  BY DEF TypeOK
<1>2. ASSUME NEW k \in CodeIds, NEW ok \in BOOLEAN, ExchangeCode(k, ok)
      PROVE  AnsweredTabs' /\ ConsentBeforeLogin'
  <2>1. /\ codes[k].state = "live" /\ codes' = [codes EXCEPT ![k].state = "spent"]
        /\ UNCHANGED <<tabs, grants, pages, minted>>
    BY <1>2 DEF ExchangeCode, spendCode
  <2>2. CodesMoved
    BY <1>2, StepMovesCodes
  <2>3. \A j \in CodeIds : codes'[j].state \in {"pending", "started", "live"} =>
          codes[j].state \in {"pending", "started", "live"}
    BY <1>1, <2>1 DEF TypeOK, Code
  <2>4. \A j \in CodeIds : Given(j)' /\ ~codes'[j].ending => Given(j) /\ ~codes[j].ending
    BY <1>1, <2>1 DEF TypeOK, Code, Given
  <2> QED BY <2>1, <2>2, <2>3, <2>4, MovingKeeps
<1>3. CASE \/ \E tok \in tokens : RefreshToken(tok)
           \/ \E s \in Sids : LogoutSession(s)
           \/ \E u \in Users : LogoutUser(u)
           \/ \E u \in Users, on, temporary \in BOOLEAN : AdminUpdateUser(u, on, temporary)
           \/ \E u \in Users, temporary \in BOOLEAN : AdminResetPassword(u, temporary)
           \/ IdentityExpires
  <2>1. UNCHANGED <<tabs, codes, grants, pages, minted>>
    BY <1>3 DEF RefreshToken, LogoutSession, LogoutUser, EndUserSessions, AdminUpdateUser,
                AdminResetPassword, IdentityExpires
  <2>2. Quiet
    BY <2>1 DEF Quiet, RootsKept
  <2> QED BY <2>2, QuietKeeps
<1>4. CASE Tick
  <2>1. /\ codes' = [k \in CodeIds |-> IF codes[k].state = "live"
                                       THEN [codes[k] EXCEPT !.state = "spent"] ELSE codes[k]]
        /\ \A t \in TabIds : tabs'[t] = tabs[t] \/ tabs'[t] = NoTab
        /\ UNCHANGED <<grants, pages, minted>>
    BY <1>4 DEF Tick
  <2>2. CodesMoved
    BY <1>4, StepMovesCodes
  <2>3. \A j \in CodeIds : codes'[j].state \in {"pending", "started", "live"} =>
          codes[j].state \in {"pending", "started", "live"}
    BY <1>1, <2>1 DEF Code
  <2>4. \A j \in CodeIds : Given(j)' /\ ~codes'[j].ending => Given(j) /\ ~codes[j].ending
    BY <1>1, <2>1 DEF Code, Given
  <2> QED BY <2>1, <2>2, <2>3, <2>4, MovingKeeps
<1>5. CASE ServerRestart
  <2>1. /\ codes' = [k \in CodeIds |-> IF codes[k].state \in {"live", "spent"}
                                       THEN [codes[k] EXCEPT !.state = "spent", !.ending = FALSE]
                                       ELSE NoCode]
        /\ \A t \in TabIds : tabs'[t] = NoTab
        /\ UNCHANGED <<pages, minted>>
    BY <1>5 DEF ServerRestart
  <2>2. CodesMoved
    BY <1>5, StepMovesCodes
  <2>3. \A j \in CodeIds : codes'[j].state \notin {"pending", "started", "live"}
    BY <1>1, <2>1 DEF Code, NoCode
  <2>4. \A j \in CodeIds : Given(j)' => tabs'[codes[j].tab] = NoTab
    <3> SUFFICES ASSUME NEW j \in CodeIds, Given(j)' PROVE tabs'[codes[j].tab] = NoTab
      OBVIOUS
    <3>1. codes[j].tab \in TabIds
      BY <2>2 DEF CodesMoved, Given, Linked
    <3> QED BY <2>1, <3>1
  <2> QED BY <2>1, <2>2, <2>3, <2>4, MovingKeeps
<1> QED
  BY <1>2, <1>3, <1>4, <1>5

\* Every step preserves the invariant.
LEMMA StepInv == IInv /\ [Next]_vars => IInv'
<1> SUFFICES ASSUME IInv, [Next]_vars PROVE IInv'
  OBVIOUS
<1>1. TypeOK' /\ Linked'
  BY TypeStep DEF IInv
<1>2. AnsweredTabs' /\ ConsentBeforeLogin'
  <2>1. CASE UNCHANGED vars
    BY <2>1, QuietKeeps DEF vars, Quiet, RootsKept
  <2> QED
    BY <2>1, AuthorizeAnswers, LoginActionAnswers, CompletionAnswers, OtherAnswers DEF Next
<1> QED
  BY <1>1, <1>2 DEF IInv

\* The inductive invariant holds in every state of every behaviour.
LEMMA Invariance == Spec => []IInv
BY InitInv, StepInv, PTL DEF Spec

\* The variables keep their types.
THEOREM TypeCorrect == Spec => []TypeOK
BY Invariance, PTL DEF IInv

\* No live code of a client that requires consent without the user's consent on
\* record, for every number of users, clients, tabs, prompts and restarts.
THEOREM ConsentPrecedesCode == Spec => []ConsentBeforeCode
<1>1. IInv => ConsentBeforeCode
  BY DEF IInv, ConsentBeforeLogin, ConsentBeforeCode
<1> QED
  BY <1>1, Invariance, PTL

-----------------------------------------------------------------------------
(* Who is let through, and with what on record *)

\* A login that was let through is of a tab nobody has seen, or of the tab of an open
\* page that is still there; and its user owes no page, or the page is the consent page.
LetThroughRightly(k) ==
  LET asked == Stops(actions'[codes'[k].user]) = {} IN
  \/ codes'[k].tab \notin minted /\ asked
  \/ \E p \in pages : /\ p.tab = codes'[k].tab /\ tabs[p.tab].root # None
                      /\ asked \/ p.kind = "consent"

\* The login that was let through is the one a code was taken for.
LEMMA LetThroughIsNew ==
  ASSUME NEW state, NEW u, NEW s, NEW c, NEW t, NEW proved,
         CodeAdded(state, u, s, c, t, proved), NEW k \in CodeIds, LetThrough(k)
  PROVE  codes'[k].user = u /\ codes'[k].tab = t
BY DEF CodeAdded, LetThrough

\* No handler but the consent endpoint lets a login through without asking the queue,
\* and none for a tab that is gone.
LEMMA StepLetThrough ==
  ASSUME IInv, [Next]_vars, NEW k \in CodeIds, LetThrough(k)
  PROVE  LetThroughRightly(k)
<1> USE DEF IInv
<1>1. CASE codes' = codes
  BY <1>1 DEF LetThrough
<1>2. ASSUME NEW c \in Clients, NEW pr \in Prompts, NEW young \in BOOLEAN,
             AuthorizeCode(c, pr, young)
      PROVE  LetThroughRightly(k)
  <2>1. identity.user \in Users /\ identity.sid \in Sids
    BY <1>2 DEF AuthorizeCode, TypeOK, Linked, Fresh, resolveBrowserSession, Identity
  <2>2. TabOpened(RequestTab(c, pr))
    BY <1>2, <2>1, ResumeOpensTab, RequestTabType DEF AuthorizeCode
  <2>3. CodeAdded("live", identity.user, identity.sid, c, NewTabId, FALSE)
    BY <1>2, <2>1, <2>2, NewCodeAdds DEF AuthorizeCode, TabOpened
  <2>4. Stops(actions[identity.user]) = {}
    BY <1>2, TabStepNone DEF AuthorizeCode, SSOStep
  <2>5. actions'[identity.user] \subseteq actions[identity.user]
    BY <1>2, <2>1, SettledFacts DEF AuthorizeCode, resolveSSO, TypeOK
  <2>6. Stops(actions'[identity.user]) = {}
    BY <2>4, <2>5, StopsMonotone
  <2>7. codes'[k].user = identity.user /\ codes'[k].tab = NewTabId
    BY <2>3, LetThroughIsNew
  <2> QED BY <2>2, <2>6, <2>7 DEF LetThroughRightly, TabOpened
<1>3. ASSUME NEW p \in pages, NEW u \in Users, NEW proved \in BOOLEAN, tabByID(p.tab),
             completeLogin(p.tab, u, proved), Stops(actions'[u]) = {} \/ p.kind = "consent"
      PROVE  LetThroughRightly(k)
  <2>1. p.tab \in TabIds /\ tabs[p.tab].root \in Sids /\ tabs[p.tab].root # None
    BY <1>3, PageFacts
  <2>2. codes'[k].user = u /\ codes'[k].tab = p.tab
    BY <1>3, <2>1, SubmitLetThrough, LetThroughIsNew
  <2> QED BY <1>3, <2>1, <2>2 DEF LetThroughRightly
<1>4. ASSUME NEW p \in pages, NEW u \in Users, LoginAccepted(p, u) PROVE LetThroughRightly(k)
  <2> DEFINE step == tabStep(actions[u], u, p.client, tabs[p.tab].ask)
  <2>1. CASE step # NoStep
    <3>1. codes' = codes
      BY <1>4, <2>1 DEF LoginAccepted
    <3> QED BY <1>1, <3>1
  <2>2. CASE step = NoStep
    <3>1. /\ tabByID(p.tab) /\ actions' = [actions EXCEPT ![u] = Settled(@)]
          /\ completeLogin(p.tab, u, TRUE)
      BY <1>4, <2>2 DEF LoginAccepted, tabByCode
    <3>2. Stops(actions[u]) = {}
      BY <2>2, TabStepNone
    <3>3. Stops(actions'[u]) = {}
      BY <3>1, <3>2, SettledFacts, StopsMonotone DEF TypeOK
    <3> QED BY <1>3, <3>1, <3>3
  <2> QED BY <2>1, <2>2
<1>5. ASSUME NEW p \in pages, NEW ok \in BOOLEAN, SubmitAction(p, ok) PROVE LetThroughRightly(k)
  <2> DEFINE u == tabs[p.tab].user
             left == Settled(Settled(actions[u]) \ {p.step})
             nxt == tabStep(left, u, p.client, tabs[p.tab].ask)
  <2>1. tabByID(p.tab) /\ u \in Users /\ tabs[p.tab].proved \in BOOLEAN
    BY <1>5, PageFacts DEF SubmitAction, runStep
  <2>2. \/ codes' = codes
        \/ /\ nxt = NoStep /\ actions' = [actions EXCEPT ![u] = left]
           /\ completeLogin(p.tab, u, tabs[p.tab].proved)
    BY <1>5 DEF SubmitAction, runStep
  <2>3. CASE /\ nxt = NoStep /\ actions' = [actions EXCEPT ![u] = left]
             /\ completeLogin(p.tab, u, tabs[p.tab].proved)
    <3>1. Stops(left) = {}
      BY <2>3, TabStepNone
    <3> HIDE DEF u, left
    <3>2. Stops(actions'[u]) = {}
      BY <2>1, <2>3, <3>1 DEF TypeOK
    <3>3. PICK proved \in BOOLEAN : proved = tabs[p.tab].proved
      BY <2>1
    <3> QED BY <1>3, <2>1, <2>3, <3>2, <3>3
  <2> QED BY <1>1, <2>2, <2>3
<1>6. ASSUME NEW p \in pages, NEW accept \in BOOLEAN, SubmitConsent(p, accept)
      PROVE  LetThroughRightly(k)
  <2>1. PICK u \in Users, proved \in BOOLEAN :
          /\ p.kind = "consent" /\ tabByID(p.tab)
          /\ codes' = codes \/ completeLogin(p.tab, u, proved)
    BY <1>6, PageFacts DEF SubmitConsent
  <2> QED BY <1>1, <1>3, <2>1
<1>7. CASE \/ \E j \in CodeIds : StartLogin(j) \/ MintCode(j) \/ EndLogin(j)
           \/ \E j \in CodeIds, ok \in BOOLEAN : ExchangeCode(j, ok)
           \/ Tick \/ ServerRestart
  <2>1. CodesMoved
    BY <1>7, StepMovesCodes
  <2> QED BY <2>1 DEF CodesMoved, LetThrough
<1>8. CASE UNCHANGED vars
  BY <1>1, <1>8 DEF vars
<1>9. ASSUME NEW c \in Clients, NEW pr \in Prompts, NEW young \in BOOLEAN,
             \/ AuthorizeLogin(c, pr, young) \/ AuthorizeSilent(c, pr, young)
             \/ AuthorizeCreate(c, pr, young) \/ AuthorizeStep(c, pr, young)
      PROVE  codes' = codes
  BY <1>9 DEF AuthorizeLogin, AuthorizeSilent, AuthorizeCreate, AuthorizeStep
<1>10. ASSUME NEW p \in pages,
              RestartLogin(p) \/ LandLogin(p) \/ LoginRefused(p) \/ LandStep(p)
       PROVE  codes' = codes
  BY <1>10 DEF RestartLogin, LandLogin, LoginRefused, LandStep
<1>11. CASE \/ \E tok \in tokens : RefreshToken(tok)
            \/ \E s \in Sids : LogoutSession(s)
            \/ \E u \in Users : LogoutUser(u)
            \/ \E u \in Users, on, temporary \in BOOLEAN : AdminUpdateUser(u, on, temporary)
            \/ \E u \in Users, temporary \in BOOLEAN : AdminResetPassword(u, temporary)
            \/ IdentityExpires
  <2>1. codes' = codes
    BY <1>11 DEF RefreshToken, LogoutSession, LogoutUser, EndUserSessions,
                 AdminUpdateUser, AdminResetPassword, IdentityExpires
  <2> QED BY <1>1, <2>1
<1> QED
  BY <1>1, <1>2, <1>4, <1>5, <1>6, <1>7, <1>8, <1>9, <1>10, <1>11 DEF Next

\* Whatever the browser resubmits, in however many tabs and over however many restarts,
\* a second login for one authorization request is let through only while the login
\* that answered it has not ended the authentication session yet.
THEOREM RequestAnsweredOnce == Spec => OnlyOverlapsAnswerTwice
<1>1. ASSUME IInv, [Next]_vars, NEW j \in CodeIds, NEW k \in CodeIds,
             LetThrough(k), Given(j), codes[j].tab = codes'[k].tab
      PROVE  codes[j].ending
  <2>1. codes[j].tab \in minted
    BY <1>1 DEF IInv, AnsweredTabs, Given
  <2>2. PICK p \in pages : p.tab = codes[j].tab /\ tabs[p.tab].root # None
    BY <1>1, <2>1, StepLetThrough DEF LetThroughRightly
  <2> QED BY <1>1, <2>2 DEF IInv, AnsweredTabs
<1>2. IInv /\ [Next]_vars
        => [\A j, k \in CodeIds : LetThrough(k) /\ Given(j) /\ codes[j].tab = codes'[k].tab
              => codes[j].ending]_vars
  BY <1>1
<1> QED
  BY <1>2, Invariance, PTL DEF Spec, OnlyOverlapsAnswerTwice

\* The login form, the required-action forms and single sign-on never let a user through
\* over a required action, whatever list is configured and whenever an administrator
\* adds to a user's; only a tab's consent page can.
THEOREM QueueIsAsked == Spec => OnlyConsentSkipsTheQueue
<1>1. IInv /\ [Next]_vars
        => [\A k \in CodeIds :
              LetThrough(k) => \/ Stops(actions'[codes'[k].user]) = {}
                               \/ \E p \in pages : p.kind = "consent" /\ p.tab = codes'[k].tab]_vars
  BY StepLetThrough DEF LetThroughRightly
<1> QED
  BY <1>1, Invariance, PTL DEF Spec, OnlyConsentSkipsTheQueue

-----------------------------------------------------------------------------
(* Required actions leave the user row in the order of the list *)

\* What was taken from acts has a place in the list before every page left owed.
InOrder(acts, left) ==
  \A a \in acts \ left :
    \E i \in DOMAIN Providers : Providers[i].alias = a /\ \A j \in Stops(left) : i < j

LEMMA FewerStops ==
  ASSUME NEW acts, NEW fewer, fewer \subseteq acts
  PROVE  Stops(fewer) \subseteq Stops(acts)
BY DEF Stops

\* The walk takes the self-clearing actions before the first page.
LEMMA SettledInOrder ==
  ASSUME NEW acts
  PROVE  InOrder(acts, Settled(acts))
<1>1. Stops(Settled(acts)) \subseteq Stops(acts)
  BY SettledFacts, FewerStops
<1>2. ASSUME NEW a \in acts \ Settled(acts)
      PROVE  \E i \in DOMAIN Providers : Providers[i].alias = a /\ \A j \in Stops(acts) : i < j
  BY <1>2 DEF Settled
<1> QED
  BY <1>1, <1>2 DEF InOrder

\* A form that is due is the first page owed; it and what clears itself after it go.
LEMMA FormInOrder ==
  ASSUME NEW acts \in SUBSET Aliases, NEW u, NEW c, NEW ask, NEW step, tabStep(acts, u, c, ask) = step
  PROVE  InOrder(acts, Settled(runStep(acts, step)))
<1>1. PICK rest, left : rest = Settled(acts) \ {step} /\ left = Settled(rest)
  OBVIOUS
<1>2. rest \subseteq Settled(acts) /\ rest \subseteq acts /\ left \subseteq rest
  BY <1>1, SettledFacts
<1>3. Stops(left) \subseteq Stops(rest) /\ Stops(rest) \subseteq Stops(Settled(acts)) /\ Stops(rest) \subseteq Stops(acts)
  BY <1>2, FewerStops
<1>4. ASSUME NEW a \in acts \ left
      PROVE  \E i \in DOMAIN Providers : Providers[i].alias = a /\ \A j \in Stops(left) : i < j
  <2>1. CASE a \notin Settled(acts)
    BY <1>3, <2>1, SettledInOrder DEF InOrder
  <2>2. CASE a \in rest
    BY <1>1, <1>3, <2>2, <1>4, SettledInOrder DEF InOrder
  <2>3. CASE a = step
    <3>1. step \in Aliases /\ step # NoStep /\ step # OAuthGrant
      <4>1. \A b \in Aliases : b # NoStep /\ b # OAuthGrant
        <5> DEFINE Action == [alias : STRING \ {OAuthGrant, NoStep}, kind : Kinds]
        <5>1. \A i \in DOMAIN Providers : Providers[i] \in Action
          <6>1. Providers \in Seq(Action)
            BY ConstantsAssumption
          <6> HIDE DEF Action
          <6> QED
            BY <6>1
        <5>2. \A i \in DOMAIN Providers : Providers[i].alias \notin {OAuthGrant, NoStep}
          BY <5>1
        <5> QED
          BY <5>2 DEF Aliases
      <4> QED
        BY <1>4, <2>3, <4>1
    <3>2. step = nextRequiredAction(acts) /\ Stops(acts) # {}
      BY <3>1 DEF tabStep, nextRequiredAction
    <3>3. PICK i \in Stops(acts) : (\A j \in Stops(acts) : i <= j) /\ Providers[i].alias = step
      <4> DEFINE least == CHOOSE x \in Stops(acts) : \A j \in Stops(acts) : x <= j
      <4>1. least \in Stops(acts) /\ \A j \in Stops(acts) : least <= j
        BY <3>2, FirstStop
      <4>2. step = Providers[least].alias
        BY <3>2 DEF nextRequiredAction
      <4> QED
        BY <4>1, <4>2
    <3>4. \A j \in Stops(rest) : j # i
      BY <1>1, <3>3 DEF Stops
    <3>5. Stops(acts) \subseteq Nat /\ i \in DOMAIN Providers
      BY ConstantsAssumption DEF Stops
    <3>6. \A j \in Stops(left) : i < j
      BY <1>3, <3>3, <3>4, <3>5
    <3> QED
      BY <2>3, <3>3, <3>5, <3>6
  <2> QED
    BY <1>1, <1>4, <2>1, <2>2, <2>3
<1>5. left = Settled(runStep(acts, step))
  BY <1>1 DEF runStep
<1> QED
  BY <1>4, <1>5 DEF InOrder

\* Nobody but an administrator takes an action out of its order.
LEMMA StepInOrder ==
  ASSUME IInv, [Next]_vars, "admin" \notin Events, NEW u \in Users
  PROVE  InOrder(actions[u], actions'[u])
<1> USE DEF IInv
<1>1. CASE actions' = actions
  BY <1>1 DEF InOrder
<1>2. ASSUME NEW v \in Users, actions' = [actions EXCEPT ![v] = Settled(@)] PROVE InOrder(actions[u], actions'[u])
  <2>1. actions'[u] = IF u = v THEN Settled(actions[u]) ELSE actions[u]
    BY <1>2 DEF TypeOK
  <2>2. CASE u = v
    <3>1. PICK acts : acts = actions[u]
      OBVIOUS
    <3> QED
      BY <2>1, <2>2, <3>1, SettledInOrder
  <2>3. CASE u # v
    BY <2>1, <2>3 DEF InOrder
  <2> QED
    BY <2>2, <2>3
<1>3. ASSUME NEW young \in BOOLEAN, resolveSSO(young) PROVE InOrder(actions[u], actions'[u])
  <2>1. Fresh(young) => identity.user \in Users
    BY <1>3, ResolveSSOFacts
  <2>2. actions' = actions \/ (Fresh(young) /\ actions' = [actions EXCEPT ![identity.user] = Settled(@)])
    BY <1>3 DEF resolveSSO
  <2>3. PICK v : v = identity.user
    OBVIOUS
  <2> QED
    BY <1>1, <1>2, <2>1, <2>2, <2>3
<1>4. ASSUME NEW c \in Clients, NEW pr \in Prompts, NEW young \in BOOLEAN,
             \/ AuthorizeLogin(c, pr, young) \/ AuthorizeSilent(c, pr, young)
             \/ AuthorizeCreate(c, pr, young) \/ AuthorizeCode(c, pr, young) \/ AuthorizeStep(c, pr, young)
      PROVE  resolveSSO(young)
  BY <1>4 DEF AuthorizeLogin, AuthorizeSilent, AuthorizeCreate, AuthorizeCode, AuthorizeStep
<1>5. ASSUME NEW p \in pages, NEW v \in Users, LoginAccepted(p, v)
      PROVE  actions' = [actions EXCEPT ![v] = Settled(@)]
  BY <1>5 DEF LoginAccepted
<1>6. ASSUME NEW p \in pages, LandStep(p) PROVE InOrder(actions[u], actions'[u])
  <2>1. PICK v \in Users : v = tabs[p.tab].user
    BY <1>6, PageFacts DEF LandStep
  <2>2. actions' = [actions EXCEPT ![v] = Settled(@)]
    BY <1>6, <2>1 DEF LandStep
  <2> QED
    BY <1>2, <2>2
<1>7. ASSUME NEW p \in pages, NEW ok \in BOOLEAN, SubmitAction(p, ok) PROVE InOrder(actions[u], actions'[u])
  <2>1. PICK v \in Users : v = tabs[p.tab].user
    BY <1>7, PageFacts DEF SubmitAction
  <2>2. \/ actions' = [actions EXCEPT ![v] = Settled(@)]
        \/ /\ tabStep(actions[v], v, p.client, tabs[p.tab].ask) = p.step
           /\ actions' = [actions EXCEPT ![v] = Settled(runStep(actions[v], p.step))]
    BY <1>7, <2>1 DEF SubmitAction
  <2>3. CASE /\ tabStep(actions[v], v, p.client, tabs[p.tab].ask) = p.step
             /\ actions' = [actions EXCEPT ![v] = Settled(runStep(actions[v], p.step))]
    <3>1. PICK acts \in SUBSET Aliases : acts = actions[v]
      BY DEF TypeOK
    <3>2. InOrder(acts, Settled(runStep(acts, p.step)))
      BY <2>3, <3>1, FormInOrder
    <3>3. actions'[u] = IF u = v THEN Settled(runStep(acts, p.step)) ELSE actions[u]
      BY <2>3, <3>1 DEF TypeOK
    <3>4. CASE u = v
      BY <3>1, <3>2, <3>3, <3>4
    <3>5. CASE u # v
      BY <3>3, <3>5 DEF InOrder
    <3> QED
      BY <3>4, <3>5
  <2> QED
    BY <1>2, <2>2, <2>3
<1>8. ASSUME NEW p \in pages,
             \/ RestartLogin(p) \/ LandLogin(p) \/ LoginRefused(p) \/ \E accept \in BOOLEAN : SubmitConsent(p, accept)
      PROVE  actions' = actions
  BY <1>8 DEF RestartLogin, LandLogin, LoginRefused, SubmitConsent
<1>9. CASE \/ \E k \in CodeIds : StartLogin(k) \/ MintCode(k) \/ EndLogin(k)
           \/ \E k \in CodeIds, ok \in BOOLEAN : ExchangeCode(k, ok)
           \/ \E tok \in tokens : RefreshToken(tok)
           \/ \E s \in Sids : LogoutSession(s)
           \/ \E v \in Users : LogoutUser(v)
           \/ Tick \/ IdentityExpires \/ ServerRestart \/ UNCHANGED vars
  <2>1. actions' = actions
    BY <1>9 DEF StartLogin, MintCode, EndLogin, ExchangeCode, RefreshToken, LogoutSession,
                LogoutUser, EndUserSessions, Tick, IdentityExpires, ServerRestart, vars
  <2> QED
    BY <1>1, <2>1
<1>10. CASE \/ \E v \in Users, on, temporary \in BOOLEAN : AdminUpdateUser(v, on, temporary)
            \/ \E v \in Users, temporary \in BOOLEAN : AdminResetPassword(v, temporary)
  BY <1>10 DEF AdminUpdateUser, AdminResetPassword
<1> QED
  BY <1>1, <1>2, <1>3, <1>4, <1>5, <1>6, <1>7, <1>8, <1>9, <1>10 DEF Next

\* Whatever list is configured, even one with an alias twice, and however many tabs
\* submit their forms in whatever order, an action leaves the user row only when no
\* page before it is owed.  An administrator, who takes UPDATE_PASSWORD away out of
\* order, is left out.
THEOREM QueueInOrder == ASSUME "admin" \notin Events PROVE Spec => ActionsClearedInOrder
<1>1. IInv /\ [Next]_vars
        => [\A u \in Users : \A a \in actions[u] \ actions'[u] :
              \E i \in DOMAIN Providers :
                Providers[i].alias = a /\ \A j \in Stops(actions'[u]) : i < j]_vars
  BY StepInOrder DEF InOrder
<1> QED
  BY <1>1, Invariance, PTL DEF Spec, ActionsClearedInOrder

-----------------------------------------------------------------------------
(* A user session starts with a password, or where one was ended *)

\* A session id under which a user session is, or was.
Known(r) == sessions[r] # NoSession \/ r \in ended

\* A tab with a user has seen a password, or was opened at the root of a session.
UserVouched(t) ==
  tabs[t].user # None => tabs[t].root \in Sids /\ (tabs[t].proved \/ Known(tabs[t].root))

\* So is the login that was let through from it.
LoginVouched(k) == codes[k].state = "pending" => codes[k].proved \/ Known(codes[k].sid)

Vouched == (\A t \in TabIds : UserVouched(t)) /\ (\A k \in CodeIds : LoginVouched(k))

\* A session that is known stays known.
KnownStays == \A s \in Sids : Known(s) => Known(s)'

\* A session that was not there is started by a login that saw a password, or where a
\* session was ended.
StartProved ==
  \A s \in Sids : sessions[s] = NoSession /\ sessions'[s] # NoSession =>
    \E k \in CodeIds : /\ codes[k].state = "pending" /\ codes'[k].state = "started"
                       /\ codes[k].sid = s
                       /\ codes[k].proved \/ s \in ended

\* A tab that stays, or has no user, stays vouched for.
LEMMA StayingTabs ==
  ASSUME Vouched, KnownStays, NEW t \in TabIds, tabs'[t] = tabs[t] \/ tabs'[t].user = None
  PROVE  UserVouched(t)'
BY DEF Vouched, UserVouched, KnownStays

\* So does a login that moves on, and one that is not pending.
LEMMA StayingLogins ==
  ASSUME IInv, Vouched, KnownStays, NEW k \in CodeIds,
         codes'[k] = codes[k] \/ codes'[k].state # "pending"
  PROVE  LoginVouched(k)'
<1>1. codes[k].state = "pending" => codes[k].sid \in Sids
  BY DEF IInv, Linked
<1> QED
  BY <1>1 DEF Vouched, LoginVouched, KnownStays

LEMMA SameSessions ==
  ASSUME UNCHANGED <<sessions, ended>>
  PROVE  KnownStays /\ StartProved
BY DEF KnownStays, Known, StartProved

\* GET /auth sets a tab's user only at the root of a session that is there.
LEMMA AuthorizeVouches ==
  ASSUME IInv, Vouched, NEW c \in Clients, NEW pr \in Prompts, NEW young \in BOOLEAN,
         \/ AuthorizeLogin(c, pr, young) \/ AuthorizeSilent(c, pr, young)
         \/ AuthorizeCreate(c, pr, young) \/ AuthorizeCode(c, pr, young) \/ AuthorizeStep(c, pr, young)
  PROVE  StartProved /\ Vouched'
<1> USE DEF IInv
<1>1. RequestTab(c, pr).user = None
  BY DEF RequestTab, NoTab
<1>2. CASE \/ AuthorizeLogin(c, pr, young) \/ AuthorizeSilent(c, pr, young) \/ AuthorizeCreate(c, pr, young)
  <2>1. UNCHANGED <<sessions, codes, ended>> /\ beginAuthSession(RequestTab(c, pr))
    BY <1>2 DEF AuthorizeLogin, AuthorizeSilent, AuthorizeCreate
  <2>2. \A t \in TabIds : tabs'[t] = tabs[t] \/ tabs'[t].user = None
    <3>1. PICK n, tab, r : n = NewTabId /\ tab = RequestTab(c, pr) /\ r = (IF liveAuthSession THEN authCookie ELSE NewSid)
      OBVIOUS
    <3>2. tabs' = [tabs EXCEPT ![n] = [tab EXCEPT !.root = r]]
      BY <2>1, <3>1 DEF beginAuthSession
    <3>3. tab \in Tab /\ tab.user = None
      BY <1>1, <3>1, RequestTabType
    <3>4. [tab EXCEPT !.root = r].user = None
      BY <3>3 DEF Tab
    <3> QED
      BY <3>2, <3>4 DEF TypeOK
  <2>3. KnownStays /\ StartProved
    BY <2>1, SameSessions
  <2>4. (\A t \in TabIds : UserVouched(t)') /\ (\A k \in CodeIds : LoginVouched(k)')
    BY <2>1, <2>2, <2>3, StayingTabs, StayingLogins
  <2> QED
    BY <2>3, <2>4 DEF Vouched
<1>3. CASE AuthorizeCode(c, pr, young) \/ AuthorizeStep(c, pr, young)
  <2>1. /\ identity.user \in Users /\ identity.sid \in Sids /\ sessions[identity.sid] # NoSession
    BY <1>3 DEF AuthorizeCode, AuthorizeStep, TypeOK, Linked, Fresh, resolveBrowserSession, Identity
  <2>2. PICK s \in Sids : s = identity.sid
    BY <2>1
  <2>3. KnownStays /\ StartProved /\ sessions'[s] # NoSession
    <3>1. CASE AuthorizeStep(c, pr, young)
      BY <2>1, <2>2, <3>1, SameSessions DEF AuthorizeStep
    <3>2. CASE AuthorizeCode(c, pr, young)
      <4>1. sessions' = [sessions EXCEPT ![s].clients = @ \cup {c}] /\ ended' = ended
        BY <2>2, <3>2 DEF AuthorizeCode
      <4>2. \A x \in Sids : x # s => sessions'[x] = sessions[x]
        BY <4>1 DEF TypeOK
      <4>3. sessions'[s].clients = sessions[s].clients \cup {c}
        BY <4>1 DEF TypeOK, Session
      <4>4. sessions'[s] # NoSession
        BY <4>3 DEF NoSession
      <4> QED
        BY <2>1, <2>2, <4>1, <4>2, <4>4 DEF KnownStays, Known, StartProved
    <3> QED
      BY <1>3, <3>1, <3>2
  <2>4. PICK n, tab : /\ n = NewTabId /\ tab \in Tab
                      /\ tabs' = [t \in TabIds |-> IF t = n THEN [tab EXCEPT !.root = s]
                                                   ELSE IF tabs[t].root = s THEN NoTab ELSE tabs[t]]
    <3>1. PICK tab : tab \in Tab /\ resumeAuthSession(s, tab)
      <4>1. CASE AuthorizeCode(c, pr, young)
        BY <2>2, <4>1, RequestTabType DEF AuthorizeCode
      <4>2. CASE AuthorizeStep(c, pr, young)
        BY <2>1, <2>2, <4>2, RequestTabType DEF AuthorizeStep
      <4> QED
        BY <1>3, <4>1, <4>2
    <3> QED
      BY <3>1 DEF resumeAuthSession
  <2>5. ASSUME NEW t \in TabIds PROVE UserVouched(t)'
    <3>1. CASE t = n
      <4>1. tabs'[t].root = s
        BY <2>4, <3>1 DEF Tab
      <4> QED
        BY <2>3, <4>1 DEF UserVouched, Known
    <3>2. CASE t # n
      BY <2>3, <2>4, <3>2, StayingTabs DEF NoTab
    <3> QED
      BY <3>1, <3>2
  <2>6. \A k \in CodeIds : codes'[k] = codes[k] \/ codes'[k].state # "pending"
    <3>1. CASE AuthorizeStep(c, pr, young)
      BY <3>1 DEF AuthorizeStep
    <3>2. CASE AuthorizeCode(c, pr, young)
      <4>1. TabOpened(RequestTab(c, pr))
        BY <2>1, <3>2, ResumeOpensTab, RequestTabType DEF AuthorizeCode
      <4>2. CodeAdded("live", identity.user, identity.sid, c, NewTabId, FALSE)
        BY <2>1, <3>2, <4>1, NewCodeAdds DEF AuthorizeCode, TabOpened
      <4> QED BY <4>2 DEF CodeAdded
    <3> QED BY <1>3, <3>1, <3>2
  <2>7. \A k \in CodeIds : LoginVouched(k)'
    BY <2>3, <2>6, StayingLogins
  <2> QED
    BY <2>3, <2>5, <2>7 DEF Vouched
<1> QED
  BY <1>2, <1>3

\* A submit is let through with what its tab vouches for; a password vouches itself.
LEMMA LoginActionVouches ==
  ASSUME IInv, Vouched, NEW p \in pages,
         \/ RestartLogin(p) \/ LandLogin(p) \/ LoginRefused(p) \/ (\E u \in Users : LoginAccepted(p, u))
         \/ LandStep(p) \/ (\E ok \in BOOLEAN : SubmitAction(p, ok))
         \/ (\E accept \in BOOLEAN : SubmitConsent(p, accept))
  PROVE  StartProved /\ Vouched'
<1> USE DEF IInv
<1>1. KnownStays /\ StartProved
  <2>1. UNCHANGED <<sessions, ended>>
    BY DEF RestartLogin, LandLogin, LoginRefused, LoginAccepted, LandStep, SubmitAction, SubmitConsent
  <2> QED BY <2>1, SameSessions
<1>2. ASSUME \A t \in TabIds : tabs'[t] = tabs[t] \/ tabs'[t].user = None, codes' = codes
      PROVE  Vouched'
  <2>1. (\A t \in TabIds : UserVouched(t)') /\ (\A k \in CodeIds : LoginVouched(k)')
    BY <1>1, <1>2, StayingTabs, StayingLogins
  <2> QED BY <2>1 DEF Vouched
<1>3. ASSUME NEW u \in Users, NEW proved \in BOOLEAN, tabByID(p.tab),
             completeLogin(p.tab, u, proved), proved \/ Known(tabs[p.tab].root)
      PROVE  \A k \in CodeIds : LoginVouched(k)'
  <2>1. PICK t \in TabIds, r \in Sids : t = p.tab /\ r = tabs[t].root
    BY <1>3, PageFacts
  <2>2. CodeAdded("pending", u, r, tabs[t].client, t, proved)
    BY <1>3, <2>1, SubmitLetThrough
  <2>3. proved \/ Known(r)'
    BY <1>1, <1>3, <2>1 DEF KnownStays
  <2>4. ASSUME NEW k \in CodeIds PROVE LoginVouched(k)'
    <3>1. CASE k = NewCodeId
      BY <2>2, <2>3, <3>1 DEF CodeAdded, LoginVouched
    <3>2. CASE k # NewCodeId
      BY <1>1, <2>2, <3>2, StayingLogins DEF CodeAdded
    <3> QED BY <3>1, <3>2
  <2> QED BY <2>4
<1>4. ASSUME NEW u \in Users, u = tabs[p.tab].user, tabByID(p.tab), tabs' = tabs,
             completeLogin(p.tab, u, tabs[p.tab].proved)
      PROVE  Vouched'
  <2>1. p.tab \in TabIds /\ tabs[p.tab].proved \in BOOLEAN /\ u # None
    BY <1>4, PageFacts, ConstantsAssumption
  <2>2. tabs[p.tab].proved \/ Known(tabs[p.tab].root)
    BY <1>4, <2>1 DEF Vouched, UserVouched
  <2>3. PICK proved \in BOOLEAN : proved = tabs[p.tab].proved
    BY <2>1
  <2>4. \A k \in CodeIds : LoginVouched(k)'
    BY <1>3, <1>4, <2>2, <2>3
  <2>5. \A t \in TabIds : UserVouched(t)'
    BY <1>1, <1>4, StayingTabs
  <2> QED BY <2>4, <2>5 DEF Vouched
<1>5. CASE RestartLogin(p)
  <2>1. PICK tab : tab = [NoTab EXCEPT !.client = p.client, !.req = restart.req]
    OBVIOUS
  <2>2. PICK n, r : n = NewTabId /\ r = (IF liveAuthSession THEN authCookie ELSE NewSid)
    OBVIOUS
  <2>3. tabs' = [tabs EXCEPT ![n] = [tab EXCEPT !.root = r]] /\ codes' = codes
    BY <1>5, <2>1, <2>2 DEF RestartLogin, beginAuthSession
  <2>4. [tab EXCEPT !.root = r].user = None
    BY <2>1 DEF NoTab
  <2> QED
    BY <1>1, <1>2, <2>3, <2>4 DEF TypeOK
<1>6. CASE LandLogin(p) \/ LoginRefused(p) \/ LandStep(p)
  BY <1>1, <1>2, <1>6 DEF LandLogin, LoginRefused, LandStep
<1>7. ASSUME NEW u \in Users, LoginAccepted(p, u) PROVE Vouched'
  <2>1. /\ tabByID(p.tab) /\ p.tab \in TabIds /\ tabs[p.tab] \in Tab /\ tabs[p.tab].root \in Sids
        /\ tabs' = [tabs EXCEPT ![p.tab].user = u, ![p.tab].proved = TRUE]
    BY <1>7, PageFacts DEF LoginAccepted, tabByCode
  <2>2. \A t \in TabIds : UserVouched(t)'
    <3>1. tabs'[p.tab].root = tabs[p.tab].root /\ tabs'[p.tab].proved = TRUE
      BY <2>1 DEF TypeOK, Tab
    <3>2. \A t \in TabIds : t # p.tab => tabs'[t] = tabs[t]
      BY <2>1 DEF TypeOK
    <3>3. ASSUME NEW t \in TabIds PROVE UserVouched(t)'
      <4>1. CASE t = p.tab
        BY <2>1, <3>1, <4>1 DEF UserVouched
      <4>2. CASE t # p.tab
        BY <1>1, <3>2, <4>2, StayingTabs
      <4> QED
        BY <4>1, <4>2
    <3> QED BY <3>3
  <2>3. CASE completeLogin(p.tab, u, TRUE)
    <3>1. \A k \in CodeIds : LoginVouched(k)'
      BY <1>3, <2>1, <2>3
    <3> QED BY <2>2, <3>1 DEF Vouched
  <2>4. CASE codes' = codes
    <3>1. \A k \in CodeIds : LoginVouched(k)'
      BY <1>1, <2>4, StayingLogins
    <3> QED BY <2>2, <3>1 DEF Vouched
  <2> QED
    BY <1>7, <2>3, <2>4 DEF LoginAccepted
<1>8. ASSUME NEW ok \in BOOLEAN, SubmitAction(p, ok) PROVE Vouched'
  <2>1. PICK u \in Users : u = tabs[p.tab].user /\ tabByID(p.tab)
    BY <1>8, PageFacts DEF SubmitAction
  <2>2. tabs' = tabs /\ (codes' = codes \/ completeLogin(p.tab, u, tabs[p.tab].proved))
    BY <1>8, <2>1 DEF SubmitAction
  <2> QED
    BY <1>2, <1>4, <2>1, <2>2
<1>9. ASSUME NEW accept \in BOOLEAN, SubmitConsent(p, accept) PROVE Vouched'
  <2>1. PICK u \in Users : u = tabs[p.tab].user /\ tabByID(p.tab)
    BY <1>9, PageFacts DEF SubmitConsent
  <2>2. \/ codes' = codes /\ endSession(tabs[p.tab].root)
        \/ tabs' = tabs /\ completeLogin(p.tab, u, tabs[p.tab].proved)
    BY <1>9, <2>1 DEF SubmitConsent
  <2>3. endSession(tabs[p.tab].root) => \A t \in TabIds : tabs'[t] = tabs[t] \/ tabs'[t].user = None
    BY DEF endSession, NoTab
  <2> QED
    BY <1>2, <1>4, <2>1, <2>2, <2>3
<1> QED
  BY <1>1, <1>5, <1>6, <1>7, <1>8, <1>9

\* The end of a login starts a session only where its login vouches for it.
LEMMA CompletionVouches ==
  ASSUME IInv, Vouched, NEW k \in CodeIds, StartLogin(k) \/ MintCode(k) \/ EndLogin(k)
  PROVE  StartProved /\ Vouched'
<1> USE DEF IInv
<1>1. \A j \in CodeIds : codes[j] \in Code
  BY DEF TypeOK
<1>2. \A j \in CodeIds : codes'[j] = codes[j] \/ codes'[j].state # "pending"
  <2>1. CASE StartLogin(k)
    <3>1. codes' = [codes EXCEPT ![k].state = "started"]
      BY <2>1 DEF StartLogin
    <3> QED BY <1>1, <3>1 DEF TypeOK, Code
  <2>2. CASE MintCode(k)
    <3>1. codes' = [codes EXCEPT ![k].state = "live", ![k].ending = TRUE]
      BY <2>2 DEF MintCode
    <3> QED BY <1>1, <3>1 DEF TypeOK, Code
  <2>3. CASE EndLogin(k)
    <3>1. codes[k].ending /\ codes' = [codes EXCEPT ![k].ending = FALSE]
      BY <2>3 DEF EndLogin
    <3>2. codes[k].state # "pending"
      BY <3>1 DEF Linked
    <3> QED BY <1>1, <3>1, <3>2 DEF TypeOK, Code
  <2> QED BY <2>1, <2>2, <2>3
<1>3. \A t \in TabIds : tabs'[t] = tabs[t] \/ tabs'[t].user = None
  BY DEF StartLogin, MintCode, EndLogin, endSession, NoTab
<1>4. KnownStays /\ StartProved
  <2>1. CASE MintCode(k) \/ EndLogin(k)
    <3>1. UNCHANGED <<sessions, ended>>
      BY <2>1 DEF MintCode, EndLogin
    <3> QED BY <3>1, SameSessions
  <2>2. CASE StartLogin(k)
    <3>1. /\ codes[k].state = "pending" /\ codes' = [codes EXCEPT ![k].state = "started"]
          /\ ended' = ended /\ startSessionWithID(codes[k].sid, codes[k].user, codes[k].client)
      BY <2>2 DEF StartLogin
    <3>2. PICK r \in Sids, u \in Users, c \in Clients :
            r = codes[k].sid /\ u = codes[k].user /\ c = codes[k].client
      BY <3>1 DEF Linked
    <3>3. sessions' = [sessions EXCEPT ![r] = [user |-> IF @ = NoSession THEN u ELSE @.user, clients |-> @.clients \cup {c}]]
      BY <3>1, <3>2 DEF startSessionWithID
    <3>4. \A s \in Sids : s # r => sessions'[s] = sessions[s]
      BY <3>3 DEF TypeOK
    <3>5. sessions'[r] # NoSession
      <4>1. sessions'[r].clients = sessions[r].clients \cup {c}
        BY <3>3 DEF TypeOK
      <4>2. NoSession.clients = {}
        BY DEF NoSession
      <4> QED BY <4>1, <4>2
    <3>6. KnownStays
      BY <3>1, <3>4, <3>5 DEF KnownStays, Known
    <3>7. codes'[k].state = "started"
      BY <1>1, <3>1 DEF TypeOK, Code
    <3>8. codes[k].proved \/ Known(r)
      BY <3>1, <3>2 DEF Vouched, LoginVouched
    <3>9. StartProved
      BY <3>1, <3>2, <3>4, <3>7, <3>8 DEF StartProved, Known
    <3> QED BY <3>6, <3>9
  <2> QED BY <2>1, <2>2
<1>5. (\A t \in TabIds : UserVouched(t)') /\ (\A j \in CodeIds : LoginVouched(j)')
  BY <1>2, <1>3, <1>4, StayingTabs, StayingLogins
<1> QED
  BY <1>4, <1>5 DEF Vouched

\* Every step keeps what is vouched for, a logout too.
LEMMA StepVouches ==
  ASSUME IInv, Vouched, [Next]_vars
  PROVE  StartProved /\ Vouched'
<1> USE DEF IInv
<1>1. ASSUME KnownStays, StartProved, \A t \in TabIds : tabs'[t] = tabs[t] \/ tabs'[t].user = None,
             \A k \in CodeIds : codes'[k] = codes[k] \/ codes'[k].state # "pending"
      PROVE  StartProved /\ Vouched'
  <2>1. (\A t \in TabIds : UserVouched(t)') /\ (\A k \in CodeIds : LoginVouched(k)')
    BY <1>1, StayingTabs, StayingLogins
  <2> QED BY <1>1, <2>1 DEF Vouched
<1>2. CASE \/ \E tok \in tokens : RefreshToken(tok)
           \/ \E u \in Users, on, temporary \in BOOLEAN : AdminUpdateUser(u, on, temporary)
           \/ \E u \in Users, temporary \in BOOLEAN : AdminResetPassword(u, temporary)
           \/ IdentityExpires \/ UNCHANGED vars
  <2>1. UNCHANGED <<sessions, ended, tabs, codes>>
    BY <1>2 DEF RefreshToken, AdminUpdateUser, AdminResetPassword, IdentityExpires, vars
  <2> QED
    BY <1>1, <2>1, SameSessions
<1>3. CASE (\E k \in CodeIds, ok \in BOOLEAN : ExchangeCode(k, ok)) \/ Tick \/ ServerRestart
  <2>1. UNCHANGED <<sessions, ended>> /\ \A t \in TabIds : tabs'[t] = tabs[t] \/ tabs'[t].user = None
    <3>1. CASE \E k \in CodeIds, ok \in BOOLEAN : ExchangeCode(k, ok)
      BY <3>1 DEF ExchangeCode
    <3>2. CASE Tick
      BY <3>2 DEF Tick, NoTab
    <3>3. CASE ServerRestart
      BY <3>3 DEF ServerRestart, NoTab
    <3> QED BY <1>3, <3>1, <3>2, <3>3
  <2>2. \A k \in CodeIds : codes[k] \in Code
    BY DEF TypeOK
  <2>3. \A k \in CodeIds : codes'[k] = codes[k] \/ codes'[k].state # "pending"
    <3>1. ASSUME NEW k \in CodeIds, codes' = [codes EXCEPT ![k].state = "spent"]
          PROVE  \A j \in CodeIds : codes'[j] = codes[j] \/ codes'[j].state # "pending"
      BY <2>2, <3>1 DEF TypeOK, Code
    <3>2. CASE \E k \in CodeIds, ok \in BOOLEAN : ExchangeCode(k, ok)
      BY <3>1, <3>2 DEF ExchangeCode, spendCode
    <3>3. CASE Tick
      BY <2>2, <3>3 DEF Tick, Code
    <3>4. CASE ServerRestart
      <4>1. codes' = [k \in CodeIds |-> IF codes[k].state \in {"live", "spent"}
                                        THEN [codes[k] EXCEPT !.state = "spent", !.ending = FALSE]
                                        ELSE NoCode]
        BY <3>4 DEF ServerRestart
      <4>2. NoCode.state = "none"
        BY DEF NoCode
      <4> QED BY <2>2, <4>1, <4>2 DEF Code
    <3> QED BY <1>3, <3>2, <3>3, <3>4
  <2> QED
    BY <1>1, <2>1, <2>3, SameSessions
<1>4. CASE (\E s \in Sids : LogoutSession(s)) \/ (\E u \in Users : LogoutUser(u))
  <2>1. PICK S : EndUserSessions(S)
    BY <1>4 DEF LogoutSession, LogoutUser
  <2>2. /\ sessions' = [s \in Sids |-> IF s \in S THEN NoSession ELSE sessions[s]]
        /\ ended' = ended \cup S /\ UNCHANGED <<tabs, codes>>
    BY <2>1 DEF EndUserSessions
  <2>3. KnownStays /\ StartProved
    BY <2>2 DEF KnownStays, Known, StartProved
  <2> QED
    BY <1>1, <2>2, <2>3
<1> QED
  BY <1>2, <1>3, <1>4, AuthorizeVouches, LoginActionVouches, CompletionVouches DEF Next

\* However many tabs, restarts, logouts and single sign-ons there are, a user session
\* starts only at the end of a flow that verified a password, or under the id of a
\* session that was ended while a form opened at it was still to be submitted.
THEOREM PasswordStartsSession == Spec => SessionStartsWithPassword
<1>1. Init => Vouched
  BY DEF Init, Vouched, UserVouched, LoginVouched, NoTab, NoCode
<1>2. IInv /\ Vouched /\ [Next]_vars => Vouched'
  BY StepVouches
<1>3. IInv /\ Vouched /\ [Next]_vars
        => [\A s \in Sids : sessions[s] = NoSession /\ sessions'[s] # NoSession
              => \E k \in CodeIds : /\ codes[k].state = "pending" /\ codes'[k].state = "started"
                                    /\ codes[k].sid = s
                                    /\ codes[k].proved \/ s \in ended]_vars
  BY StepVouches DEF StartProved
<1> QED
  BY <1>1, <1>2, <1>3, Invariance, PTL DEF Spec, SessionStartsWithPassword
=============================================================================
