# A TLA+ model of Gloak

Gloak is an OpenID Connect provider in Go that answers the way Keycloak does. This
directory holds TLA+ specifications of the parts of it that keep state, TLC
configurations that check them on small instances, and TLAPS proofs of the
properties that matter most. `PROJECT.json` maps every definition to the lines it
models and lists components, runs, mutants, findings, hazards and theorems.

Run from this directory: `tlc -config X.cfg MCModule` for a run, `tlapm M.tla` for
the proofs of a module.

## The system

One process serves HTTP over an SQL database (SQLite or PostgreSQL). Several
processes may share a database. What a login leaves behind is split over four
places, and most of what is hard to test here comes from that split:

| place | state | lost by |
| --- | --- | --- |
| database | realms, users, clients, keys, user sessions and client sessions | nothing |
| process memory | `authStore` (auth sessions, tabs, restart records, codes), `consentStore`, `deviceStore`, registration tokens, DPoP proofs, key cache | a restart; not shared between processes |
| browser cookies | `AUTH_SESSION_ID`, `KEYCLOAK_IDENTITY`, `KC_RESTART` | their expiry, `Set-Cookie` |
| browser pages | forms with a session code, redirects without one, authorization codes in a URL | never: a page may be submitted twice or hours later |

### Inventory

| component | state | operations | what makes it correct |
| --- | --- | --- | --- |
| `oidc/authsession.go` | auth sessions with tabs, codes, restart records, consents | open, resume, end, rotate a session code, mint and spend a code, sweep | a request is answered once; nothing outlives its session |
| `oidc/authorize.go`, `sso.go` | the three cookies | `GET /auth`: reject, log in, answer silently, send to a step | a code only for a fresh session whose user owes nothing |
| `oidc/loginactions.go` | the tab's user, user sessions | login form, restart redirect, completion | a session belongs to who logged in |
| `oidc/requiredactions.go`, `consent.go` | the user's required actions, consents | ask the queue, serve a step, submit, grant, deny | no step is skipped, actions go in order |
| `oidc/token.go` | user and client sessions | code, refresh, password, client credentials grants | single use; a dead session's token stays dead |
| `oidc/logout.go`, `revoke.go`, `admin/sessions.go`, `channellogout.go` | sessions | end one, end all of a user, notify clients | everything that depends on the session stops |
| `oidc/device*.go` | device codes by code and by user code | draw, poll, approve, deny, sweep | single use; denial and success are final |
| `keys/manager.go` | a cache per process over key rows | load, create, add AES, forget | one key set per realm, whoever creates it |
| `oidc/registration*.go`, `admin/clientinitialaccess.go` | registration tokens, remaining counts | issue, rotate, use | a rotated token is dead, a count never goes below zero |
| `oidc/dpop.go` | used proof ids | use | a proof is used once |
| `roles/roles.go`, `oidc/roles.go` | role composites | expand, filter by scope | the closure, each role once, cycles included |
| `bootstrap/` | realms and their built-in rows | ensure master, create, delete a realm | idempotent across a crash |
| `admin/` groups, flows, organizations, workflows, users | one row or a tree of rows each | CRUD, move, raise and lower priority | trees stay trees, priorities stay an order |
| `token/`, `auth/`, `keystore/`, `javamap/`, `httpx/`, `model/` | none | cryptography, encoding, rendering | checked against recorded answers by the repository's own tests |

Handlers call each other inside a process and share its stores under a mutex per
method; across processes only the database is shared. The behaviours that are hard
are the interleavings of several pages of one browser, of two users of one browser,
of handlers between two store calls, of processes over the key table and over the
seeds of the master realm, the loss of memory at a restart, answers that never
arrive, and five clocks (auth session, code, restart record, identity cookie, DPoP
proof) that run out independently. Almost no handler has a transaction around its
store calls: the foreign keys, the unique columns, the cascades and the affected-row
checks of single statements are what keeps tables together, and the modules below
are about where that is enough.

## The modules

### BrowserLogin

One browser with any number of open pages drives one process. An HTTP handler is
one action, but for the end of a login: `AuthorizeLogin`, `AuthorizeSilent`, `AuthorizeCreate`,
`AuthorizeCode` and `AuthorizeStep` are the outcomes of step 10 of `GET /auth`
(`resolveSSO`); `LandLogin`, `LoginRefused`, `LoginAccepted` and `RestartLogin` are
`/login-actions/authenticate`; `LandStep` and `SubmitAction` are
`/login-actions/required-action`; `SubmitConsent` is `/login-actions/consent`;
`ExchangeCode` and `RefreshToken` are the two grants. The three submits that can end a
flow let it through to `completeLogin`, which then goes on in steps of its own:
`StartLogin` (the user session), `MintCode` (the code), `EndLogin` (the authentication
session ends, the response is written). Until the last of them the tab is still there and
its session code still good, so that a second submit of the same form is let through as
well. `Serving` holds the rest of the system back between these steps in an instance
without the event `"overlap"`; the theorems hold with and without it. Around them an administrator
changes users (`AdminUpdateUser`, `AdminResetPassword`), sessions are ended
(`LogoutSession`, `LogoutUser`), time passes (`Tick`, `IdentityExpires`) and the
process restarts (`ServerRestart`). The constant `Events` says which of these an
instance includes, and whether the codes are exchanged in it.

- Auth sessions are `ttl` (ticks left, by root id) and `tabs`; a user session and an
  auth session root share the id space `Sids`, because the code gives a user session
  the id of the auth session it was opened in, and resumes an auth session under the
  id of a user session.
- Session codes are abstracted to a page's `fresh` flag: `rotateSessionCode` turns
  the tab's earlier forms stale. Redirects carry no code and never go stale.
- The realm's required actions are a sequence of `[alias, kind]`. `nextRequiredAction`
  is the first action on the user that shows a page; `Settled` is what the same walk
  removes from the user row on its way.
- An authorization request is named by its client: `tab.client` is the tab's client,
  `tab.req` the request its parameters came from; they differ after a restart
  redirect. Nothing else in a request is told apart by the properties.
- `young` stands for the two inputs that make a browser session not fresh
  (`max_age`, the disabled cookie authenticator); `ok` for the checks of a form or of
  the code exchange that do not depend on the state modelled.
- Ghosts: `tab.proved` and `code.proved` (a password was verified), `token.ended`
  (the session was ended after issue), `minted` (ids are random and never repeat),
  `ended` (the user sessions that were ended), and the codes of logins under way
  (`pending`, `started`, `ending`).

What a handler does before a login is let through is atomic here: it finds its tab, checks
the form and asks the queue at one instant, that of finding the tab. The races between its
store calls are the subject of `SessionRace` (sessions) and `UserRows` (the user's row).

### SessionAuthority and SessionRace

`SessionAuthority` is what the endpoints that live off a user session promise, without
saying how: a request that is answered was, at one instant while it was served, admitted
by a session that was in the database, or it started the session itself. A request is
`idle`, `asked`, `admitted` by a session id, and then over; sessions end whenever
somebody ends them (`Ask`, `Admit`, `Open`, `Grant`, `Refuse`, `End`).

`SessionRace` is how the code does it. A request is a process whose `pc` is the store
call it makes next, and the tables `RefreshCalls`, `CodeCalls`, `PasswordCalls`,
`RobotCalls`, `LoginCalls`, `SSOCalls`, `RevokeCalls`, `LogoutCalls` ... give the order
of the calls of each handler; an action per store call says what it reads, writes and
refuses. `Fail` is a store call that returns an error, a client that goes away or a process that dies,
at any point. The administrator deletes sessions and users meanwhile. Which id a
request names comes from what was handed out before: forms, cookies, codes, tokens.
`late` records the rows that were created while a logout was being served. The errors that
`channelLogoutTargets` and `notifyBackchannel` swallow do not end the logout: the list of
clients that fails gives no targets, a client session that cannot be read or a logout
token that cannot be signed passes over that client, and the session is deleted all the
same. `missed` records who was passed over so.

`Authority == INSTANCE SessionAuthority WITH ...` maps the live sessions, and the phase
of a request, which is a function of its kind and `pc` (`PhaseOf`). A refresh is
admitted by the *touch* at the end of its reads, which fails when the row is gone, and
not by the read at the start; a code exchange, userinfo, introspection and a token
exchange by their read of the session.

### ServerParts and its eight parts

Eight smaller components, each a module with its own `Init`, `Next` and `Spec`.
`ServerParts` composes them for one run: one part moves and the others rest in one of
their initial states. As modelled the parts write disjoint tables and none waits for
another, and every property speaks of one part, so a behaviour of all of them violates
a property exactly when the steps of its own part do. Requests are served once; each
goes through the store calls of its handler one by one, may overlap with any other and
may be cut off between two of them.

- **CompositeRoles**: the composite table and the flag on the parent's row that says
  whether it has children. A write locates the parent, adds or removes child by child,
  and brings the flag up to date (`syncCompositeFlag`) by comparing with the flag it
  read at the start; deleting a role clears the flags of its parents in one
  transaction. `ExpandFrom`, `Effective`, `InScope` and `TokenRoles` are the walk that
  trusts the flags; `Reachable` is the reference it is checked against.
- **RealmSeeding**: `EnsureMaster`, family of rows by family (`Plan`), with what each family looks
  at before it writes: unique columns, a row by its name, or "any row at all". A client's
  row and its scopes are two writes (`WriteSeed`, `AttachScopes`), and a run that finds the
  row attaches nothing. Processes start, also together, and die anywhere; an administrator
  removes seeded rows, configurations too, and with them what the foreign keys take along
  (`Gone`). A deleted client's roles stay in the table (`orphans`).
- **RealmContainers**: creating, renaming, otherwise updating and deleting a realm against the client that
  administers it in master, its roles and their grants to the admin role. An update that
  does not rename still writes back the name it read (`PutRealm`, `WriteRealm`). `blurred`
  records the names on which two requests overlapped or one was cut off.
- **AuthFlows**: flows, executions, sub-flows, priorities, configurations and the deep
  copy with its stack of frames. `stale` records executions written by a request that
  met the deletion of a configuration, `mixed` flows whose numbering was disturbed by
  anything but appends and swaps one at a time.
- **GroupTree**: groups of the realm and of organizations in one table. A deletion
  walks the subtree group by group and then deletes what it saw in one transaction;
  `late` records the groups put below a parent the walk had already looked into.
- **UserRows**: the writers of a user's row, each of which reads it whole and writes it
  whole, with the password in a table of its own: create, update, reset-password, logout of
  a user (the stamp of its `notBefore`), the deletions, the required actions of a login.
  The partial import, which also writes users, is left out. `said` is whether the last create or
  update enabled the account; `lost` marks a user over whom a stale copy was written
  or whose writer was cut off.
- **ClientRegistration**: one registration token per client in the process's memory;
  an update writes the row, then rotates the token, then answers. Answers are lost and
  the process restarts.
- **ProofStore**: ids of used DPoP proofs, kept for lifetime plus skew after the use,
  against the window around the instant the client says the proof was made at. A request
  reads the clock and checks the window (`CheckProof`) before it enters the store under the
  mutex (`UseProof`), where it sweeps by the clock it has read; other requests come between.

### DeviceGrant

The device store and its two sides. A poll is a sequence of steps, because
`deviceCodeGrant` locks the store only inside its methods and reads the shared record
between them: lookup, checks, stamp, denied, user, spend, session, tokens. Approval
and denial come from any browser that typed the user code, in any order, repeatedly.
Expiry counts down through the grace window; only drawing a code sweeps. `late`,
`again` and `approver` are ghosts recording what was true when a poll arrived or read.

### KeyManager

Several processes run `ForRealm` for one realm over one table whose
`(realm_id, algorithm)` is unique. A process holds its mutex for the whole call, so
it has one call in flight; each store call is a step. A key is named by the
generation that made it. `Crash` empties a cache at any point of a call. The initial
table is empty, holds a set from before the AES key existed, or holds a whole set.

### Proof and instance modules

`BrowserLoginProofs`, `DeviceGrantProofs` and `KeyManagerProofs` extend their module
and hold the theorems. `SessionRaceProofs` holds the types and the refinement of
`SessionRace`, then what logouts leave behind and who knows a session id.
`BootstrapProofs` is about the seeding of master and the containers of realms,
`AuthFlowsProofs` about flows, `AdminTablesProofs` about roles, groups and the groups of
organizations, `ServerPartsProofs` about proofs, registered clients and user rows.
`MCBrowserLogin`,
`MCDeviceGrant`, `MCKeyManager`, `MCSessionRace` and `MCServerParts` instantiate the
models for TLC.

## Runs

| run | instance | states | checks |
| --- | --- | --- | --- |
| `login_flow` | 1 user with any subset of four actions, consent client, 2 tabs, 2 codes, every prompt, overlapping submits and restarts | 431,577 | `TypeOK`, `ConsentBeforeCode`, `OnlyOverlapsAnswerTwice`, `ActionsClearedInOrder` |
| `login_events` | 2 users, consent client, 2 tabs, 2 codes, code exchange, administrator, logouts and the clock | 631,564 | `ConsentBeforeCode`, `OnlyConsentSkipsTheQueue`, `SessionStartsWithPassword` |
| `device_polls` | 1 code, 3 polls, 2 users, 2 sessions | 365,949 | `TypeOK`, `TokensFromOneApproval`, `DeniedIsFinal`, `NotValidAfterSuccess` |
| `key_race` | 3 processes, 4 generations, 1 crash | 166,804 | `TypeOK`, `CacheIsStored`, `CachesAgree`, `CachedSetsAreWhole`, `EventuallyServed` |
| `session_race` | 3 requests, 2 session ids, a client with a back-channel URL and one with a service account, 1 user | 875,757 | `TypeOK`, `ImplementsAuthority`, `LogoutTellsMembers`, `LogoutAllMissesOnlyNew`, `AccountRaceHasNoLoser` |
| `server_parts` | the eight parts, see below | 649,405 | the properties of the next table |

| part | instance | properties |
| --- | --- | --- |
| roles | 2 realm roles and 1 of the client, 2 requests | `RolesTypeOK`, `FlagFollowsChildren`, `TokenHoldsReachable` |
| seeding | 2 starts, 2 seeds in each family, 1 removal | `SeedingTypeOK`, `StartConverges`, `RestartDuplicatesNothing` |
| containers | 2 realm names and ids, 2 container ids, 2 roles, 3 requests | `ContainersTypeOK`, `GrantsFollowRealms` |
| flows | a built-in flow with a configured sub-flow, a flow of two rows, 2 new flows, 2 new executions, 1 new configuration, 2 requests | `FlowsTypeOK`, `NoDanglingConfig`, `SubFlowsNotShared`, `PrioritiesDense` |
| groups | a realm group with a child, an organization's root with child and grandchild, 2 new groups, 1 new organization, 3 requests | `GroupsTypeOK`, `DeleteLeavesNoOrphans`, `OrganizationGroupsGo` |
| users | 1 user, at most 2 credentials in a request, 2 requests | `LastWordHolds` |
| registration | 2 clients, 3 tokens, 3 requests | `HolderKeepsAccess` |
| proofs | 2 proofs, 3 requests, lifetime 1, skew 1, clock to 4 | `ProofUsedOnce` |

What the larger ones say:

- `ImplementsAuthority`: however logouts, twin requests and administrators interleave,
  nobody is answered off a session that was never there while the request ran.
- `OnlyOverlapsAnswerTwice`: a second code for one authorization request needs two submits
  that overlap; a page submitted after the login has ended finds nothing. That two do
  overlap is the run `double_submit`. `SessionStartsWithPassword`: a session is started
  without a password only under the id of one that was ended.
- `LogoutTellsMembers`: a client whose session a logout deletes was posted to, unless it
  joined meanwhile or an error about it, or about the whole list, was swallowed. `LogoutAllMissesOnlyNew`: what survives is newer than the request.
- `StartConverges`: a run of `EnsureMaster` that ends well leaves every seed in place,
  whatever died before it, with the exceptions the two guarded families have, the
  configurations an administrator deleted, and the scopes of a client whose creation was
  cut off: nothing ever attaches those.
- `ProofUsedOnce`: a proof is accepted twice only across a restart, or after the window of
  its first use has passed, and then only if its client's clock was ahead or the second
  request had waited for the store since it read the clock.
- `FlagFollowsChildren`, `LastWordHolds`, `GrantsFollowRealms`, `NoDanglingConfig`,
  `DeleteLeavesNoOrphans`: two tables that one handler keeps together agree once nobody
  is writing; each names, in a history variable (`clash`, `lost`, `blurred`, `stale`,
  `mixed`, `late`), the overlap for which the code gives no such guarantee, and holds in
  every other interleaving. They do not catch that overlap: it is what the code does.
- `TokenHoldsReachable`: the breadth-first walk over flags computes reachability, also
  on cycles.

**Bounds.** `TabIds`, `Sids` and `CodeIds` bound how many tabs, sessions and codes a
behaviour draws; a handler that would need one more is disabled. Two tabs allow a
login and a restart of it, or a login and a single sign-on, or two forms of different
steps; two codes allow a replay to be told from a second request, and two submits to
overlap; two users are needed because the findings below need two people at one
browser, and users are symmetric. The four actions of `login_flow` are two
forms, an address that is not verified and an action that clears itself; the theorems
cover the placeholder page and the kind the queue passes over, which no run has; single
sign-on meets a consent that is not recorded after a restart. The two login runs divide the events between them; the theorems about the
login hold for all of them together, but for `QueueInOrder`. `Lifespan = 1` lets a session expire between any
two requests. `Gens` bounds the key sets drawn: three processes and one crash need
four. `MaxCrashes = 1` suffices for every torn set, since one crash tears it for good.
The device code is alone because the store never relates two codes except in the
sweep, which `OtherDeviceCode` stands for; three polls allow two to overlap and a
third to arrive after both. In
`session_race` three requests allow two to race and a third to end their session, and
two ids allow a request to meet a session that is not its own; both sets are
symmetric. In `server_parts` two requests are every race of two handlers; groups,
containers and registration take three, because an exception of theirs needs a third
to show that it is not wider than stated. The proof clock runs past the second
acceptance of a proof made ahead of time (lifetime + 2 skew), so that the exception of
`ProofUsedOnce` is met; two proofs and three requests allow one request to wait while two
others use a proof and sweep it. Two seeds a family are the least that lets a run die inside
one. Requests with three members and the ids that no seed uses are symmetric.
Deadlock is not checked: a browser may stop, ids run out,
requests are served once, and a process with a cached key set has nothing left to do.

**Fairness.** Only `key_race` has a liveness property. `WF_vars(Step(r))` says that
requests for the realm keep reaching every process and that a store call returns; a
failed call is retried by the next request. `Crash` is not fair. `EventuallyServed`
excepts the torn set: when a process dies between the first and the third row the
realm stays without keys, as `load` says it will. Browsers, users and devices are
never assumed to act. `session_race` and `server_parts` state safety alone and assume
no fairness: no handler waits for another.

### Runs that show a disagreement

| run | property | what happens |
| --- | --- | --- |
| `two_tabs` | `BothTabsLogIn` | the first tab's login ends the auth session of both, against the comment and the test that say both logins succeed |
| `double_submit` | `OneCodePerTab` | two overlapping submits of one login form each mint a code, against the comment that says there is nothing left to replay a session code against |
| `identity_owner` | `IdentityNamesSessionOwner` | after single sign-on and `prompt=login`, a second user's login reuses the first user's session; cookie and session row name different users |
| `ended_tokens` | `EndedTokensStayDead` | a login that ends after a logout brings the ended session's id back, and the old refresh token with it |
| `pending_action_at_consent` | `NoCodeOverPendingAction` | a consent page left open in a tab completes the login of a second user who owes a required action |
| `device_twice` | `RedeemedOnce` | two overlapping polls of one device code are both answered with tokens |

Each has an entry in `PROJECT.json` under `findings` that quotes the line it
contradicts. `OnlyConsentSkipsTheQueue` is `NoCodeOverPendingAction` without the one
path that breaks it, and `OnlyOverlapsAnswerTwice` is `OneCodePerTab` without the
overlap; both are proved. The sequence of `ended_tokens` also starts a session from a
single sign-on page, which is the exception of `SessionStartsWithPassword`.

More disagreements between a comment and the code were met while writing the other
modules. They are entries of `findings` that quote both sides and have no run of their own: the models follow the
code, and the property concerned names the case as its exception.

- the composite flag of a role two writers met on (`roles.go:745`);
- a process that dies inside the two families that return where any row exists leaves
  them half seeded for good, and a realm whose required actions were all deleted gets
  them back (`flows.go:105`, `requiredactions.go:60`);
- the scopes of a client that a dying process had only begun to create are never attached
  (`bootstrap.go:609`);
- a dead configuration id written back with a row, and two rows of one priority after
  a delete and an add (`flows.go:1437`, `flows.go:1015`);
- `moveOrganizationGroup` can put a group below its own child, after which the walks
  over the tree do not return (`organizationgroups.go:584`);
- leaving an organization keeps the memberships of its groups, and the realm's group
  routes reach an organization's groups (`organizationmembers.go:194`, `router.go:1653`);
- a comment that says nothing reparents a group (`sqlite.go:1418`);
- a DPoP proof made ahead of the server's clock, or one whose second request waits for the
  store while others sweep it, is accepted twice (`dpop.go:174`).

## Proofs

All theorems hold for every value of the constants that satisfies the named
assumptions: `ConstantsAssumption` (the absent value is not an id, sessions and tabs
have different ids, the lifespan is positive, the queue is a sequence of known
kinds), `DeviceGrantAssumption` and `KeyManagerAssumption` (the absent value is not an
id, the durations and the crash bound are natural numbers), `SessionRaceAssumption` and
`KindAssumption` (the special clients are clients, people are not service accounts, the
absent value is nobody), `CompositeRolesAssumption` (moreover the roles are finitely
many), `ClientRegistrationAssumption`, `UserRowsAssumption`, `RealmSeedingAssumption`,
`RealmContainersAssumption`, `ProofStoreAssumption`, `GroupTreeAssumption` and
`AuthFlowsAssumption` (moreover the seeded rows have parents that exist, and the ids
are finitely many). Two more say what a realm holds before the first request, which is
what the handlers themselves leave when they run alone: `GroupTreeSeedAssumption` (an organization's groups lie
below each other and it has one root) and `AuthFlowsSeedAssumption` (sub-flows and
configurations are there, no sub-flow has two rows, a flow that is not built in is
numbered from 0). TLC evaluates all of them on the instances of the runs.

An inductive invariant was checked by TLC, as an invariant of the run of its
component, before it was proved. Where requests are interleaved it has the same shape
in every module: what a request has read that is still true at the call it stands at,
unless somebody it met made it untrue and was recorded for it. A step lemma per action
shows what the step does to the tables and to its own request (`Good`, `Sound`,
`FlowSound`, ...); one lemma shows that such a step leaves every other request what it
knew.

**BrowserLogin.** `TypeCorrect`, `ConsentPrecedesCode`, `RequestAnsweredOnce`,
`QueueIsAsked`, `QueueInOrder` and `PasswordStartsSession`. The inductive invariant is
`TypeOK /\ Linked /\ AnsweredTabs /\ ConsentBeforeLogin`.

- `Linked`: a code that is live or on its way, an identity, a session and a tab in use name users, sessions
  and clients that exist. Without it the type of the next code is unknown.
- `AnsweredTabs`: once a code was minted for a tab and the login that minted it has ended,
  the tab is gone or no page refers to it, and tabs, pages and codes only name ids already
  drawn. Without it nothing stops the page of an answered tab from being let through again.
- `ConsentBeforeLogin`: the consent is recorded from the moment the login is let through,
  not only when its code is live. Consents are only forgotten when every code that is live
  or on its way is gone with them (`ServerRestart`).

A step either moves a code on, without changing whose it is (`CodesMoved`), or lets one more
login through (`LetThroughKeeps`, `LetThroughRightly`); the proof shows which for each
action, in three groups: `GET /auth`, login actions with the steps of `completeLogin`, the
rest. `RequestAnsweredOnce` is then immediate: a login that is let through names a tab in use,
and `AnsweredTabs` says that no ended login has answered it. `QueueIsAsked` is an action property: it
rests on the lemmas about the queue, chiefly that the empty answer of `tabStep` means
that no stop is left, and that the walk's own removals owe no new page. The first stop
of a queue of any length exists because the order on the natural numbers is
well-founded. `QueueInOrder` is about the same walk: what `Settled` removes stands
before the first stop that is left, and a form removes the stop it was shown for, which
the queue named as the first. It assumes `"admin" \notin Events`: an administrator who
resets a password takes `UPDATE_PASSWORD` from the middle of the queue. An alias may
stand in the queue twice, since `updateRequiredAction` lets an administrator change
one; the property asks for one place of the alias. `PasswordStartsSession` adds
`Vouched` to the invariant: a tab with a user, and a login that is let through, has seen a
password, or stands at the id of a session that is there or was ended (`Known`). It holds
under every event.

**DeviceGrant.** `TypeCorrect`, `OneApproval`, `DenialIsFinal`, `SuccessIsLast`. The
invariant adds that user and session of a code are set together (`DeviceInv`), that a
redeemed code is in neither map (`MapsInv`), and what a poll knows at each point
(`PollInv`): after the spend its code can no longer be approved, and a poll that came
after a denial never passes the denial check, one that came after a success never
passes the lookup.

**KeyManager.** `TypeCorrect`, `PublishedKeysAreStored`, `ReplicasAgree`,
`ServedSetsAreWhole`. The invariant adds that a creator's rows below its cursor are
its own (`CreatorInv`), that a set being completed was loaded whole and is still
stored (`LoaderInv`), and that core rows are stored in order by one generation
(`RowsInv`), which is why winning the first row means winning all three.

**SessionRace.** `TypeCorrect`; `AuthorityImplemented`, the refinement
`Spec => Authority!Spec`; `LogoutTells`, `LogoutAllSweeps` and `AccountRaceSettled`. The invariant `Inv` is `TypeOK /\ WellFormed`:
a request stands at a call of its own handler, and carries the session id, client and
user which that call needs. That is what makes the phase of every step known. Each
store call is then shown to keep `Inv` and, in the same lemma, to be a step of
`SessionAuthority` or a stutter (`Good`); the cases of `Next` only collect them. The
logouts add `Owing`: of the clients in the session a logout names, each is still to be
looked at, found, told, or passed over by an error, or came late (`Owed`), and likewise for the listed sessions
of a user (`Swept`). The service account adds `Owned`: a session id in use was drawn,
and the id drawn by a client_credentials request is known to nobody else before the
answer, so that the store turns it away only over the account.

**Proofs and registered clients** (`ServerPartsProofs`). `ProofsOnce`: a use is
remembered until the clock is past its window (`UsesRemembered`), and a request that is
about to enter the store has checked its proof by the clock it read (`RequestsChecked`). A
second request that has not waited since then read a clock past the window, by which a
proof that is not ahead of the clock has run out. `HolderKept`: at each point of an update either the token in
memory was handed to someone, or the request at work is about to hand it
(`Manageable`, `Delivers`).

**Seeding** (`BootstrapProofs`). `SeedingTypeCorrect`, `StartsConverge`, `NothingSeededTwice`. The invariant
`SeedInv` says what a run has behind it: a seed of a family it has passed is there, or
was removed while it ran, or is excused by a guard that found a row (`SeedPast`,
`SeedDealt`, `SeedHalf`, `SeedFound`, `Excused`), and that a client that is there has its
scopes, or some run created it without coming to attach them, or they were deleted
(`SeedLinks`). For the duplicates: while no two runs met, what a
run is about to write has no row yet (`OneRun`, `WritesFresh`, `FlowsInOrder`,
`SingleRows`), which for the configurations rests on the order of the flow families.

**Realms and their containers** (`BootstrapProofs`). `ContainersTypeCorrect`,
`GrantsFollow`. `GrantsFollowRealms` speaks of names at rest, and the invariant `CInv`
of what a request in the middle of a creation, renaming or deletion has made of its
names (`RealmStanding`: the roles composed so far are granted, the roles still to be
dropped are all there are, between the two writes of a renaming the container is still
under the old name). That holds of a request only while nobody has met it, so `CInv`
also follows the marks: requests with a common name are blurred together with all
their names and the containers under them (`Blurs`), and what a request holds by id
lies under a name of its own or under a blurred one (`HeldWhere`). The last is what a
renaming beside a deletion needs: the deletion goes on to delete by id a row that has
moved to a name it never mentioned.

**Flows** (`AuthFlowsProofs`). `FlowsTypeCorrect`, `ConfigsResolve`, `SubFlowsApart`,
`NumberingDense`, all from `FlowsInv`. `SubFlowsApart` needs that a flow a request has
made and not mounted yet is pending with that request alone (`Pending`, `Apart`), and
that a row read and written back has kept its parent and sub-flow meanwhile
(`RowsAgree`). `ConfigsResolve` needs the configurations a request carries, in rows
it will write back and in the frames of a copy, to be there, unless it met the deletion
(`HeldConfigs`). `NumberingDense` needs what the one request at work on a flow knows of
its numbering (`KnowsFlow`): between the two writes of a swap one number is there twice
and the missing one is in the request's hand; in a copy at any depth, the rows written
and the rows still to write make up the numbering together (`KnowsFrame`).

**Roles** (`AdminTablesProofs`). `RolesTypeCorrect`, `FlagsFollow`: a writer that is
alone knows the flag it read to be current, and the flag agrees with the children on
every role that no writer holds (`RolesInv`). `TokensHoldReachable`: the walk of
`ExpandFrom` takes as many levels as there are roles. After each level what was seen
and what is queued is reachable, the children of what was seen are seen or queued
(`Walking`), and either nothing new is queued or as many roles were seen as levels taken
(`Progress`); so after as many levels as there are roles nothing new is queued, and
what was seen is closed.

**Groups** (`AdminTablesProofs`). `GroupsTypeCorrect`, `NoOrphans`: a deletion that has
looked into a group holds all its children among the groups it will delete, or they
came late (`Walked`). `OrgGroupsFollow`: the invariant `OrgInv` adds that a group of an
organization lies below a group of the same one (`OrgFollows`), that an organization
has one root (`OneRoot`, which needs that no group of it is coming while its root is,
`RootAlone`), and that the root of an organization which is gone came late
(`RootsGone`, `RequestsOwned`). Climbing from a group of such an organization one
therefore meets a late group or never ends; and a climb that never ends in finitely
many groups is in a loop.

Both `ExpandFrom` and the climb (`Above`) are recursive functions over `0..n`. That
they are defined, and what each level holds, is shown from a least counterexample: a
set of levels that holds 0 and with each its successor holds all (`LevelInduction`),
because otherwise the first level outside has a predecessor inside.

**User rows** (`ServerPartsProofs`). `LastWord`: the writer that is alone on a user
carries a copy that differs from the row by its own changes only (`RequestKnows`,
`Announced`), so that its last write leaves password and demand together (`UserSound`).

**Model-checked only.** `EventuallyServed`: liveness under fairness is beyond the
provers. Every other property of a passing run is stated by a theorem;
`ActionsClearedInOrder` without an administrator, as in its run. The six disagreements
with a run are false.

## What is not modelled

- Cryptography, encodings and rendered pages (`token/`, `auth/`, `keystore/`,
  `javamap/`, `httpx/`): functions without state, compared with recorded answers by the
  repository's tests. A verified token is modelled by the facts it carries.
- The nine rejecting steps of `GET /auth` before the session is looked at, client
  authentication and discovery: they refuse and change nothing.
- SAML messages; the login they open is the browser login.
- Most of the admin API. It edits one row at a time: representation in, row out. What
  is modelled of it is where one request writes two tables or reads a row that another
  may change. Members and invitations of organizations, identity providers, workflows,
  client scopes, mappers, import and export are such conversions.
- The SQL of the stores. The constraints, cascades, affected-row checks and
  transactions the handlers rely on are in the actions that call them. `sqlite` and
  `postgres` implement one interface and are held together by `storetest`; the map
  names the lines of the first.
- `internal/conformance` and `storetest`, which are test tooling. With the catalogues
  of recorded answers, the fixtures, the second driver and the route tables they hold
  more than half of the repository's lines and no behaviour of their own, which is why
  the share of lines the map covers stays small.

A store call that fails answers 500 and, in `BrowserLogin`, is a call that was not
made; in `SessionRace` and the parts of `ServerParts` a request may fail between any
two calls.

Three hazards have no property: the repository states nothing about them that a model
could hold it to. `PROJECT.json` gives the reason with each.

## What is left to do

1. `Manager.Forget` across processes, together with realms imported under an id of
   their own.
2. Invitations of organizations and the steps of workflows, whose state is a row and a
   clock.
