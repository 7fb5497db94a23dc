---------------------------- MODULE DeviceGrant -----------------------------
(***************************************************************************)
(* The device authorization grant of internal/oidc: deviceStore, the poll  *)
(* at the token endpoint, and the two ways a browser ends the flow.        *)
(*                                                                         *)
(* The maps are guarded by a mutex but deviceCodeGrant holds it only       *)
(* inside the store's methods and reads the shared *deviceCode between     *)
(* them, so a poll is a sequence of steps that interleaves with other      *)
(* polls of the same code and with the browser.                            *)
(***************************************************************************)
EXTENDS Integers

CONSTANTS
  Codes,      \* device authorizations; each is its device_code and its user_code
  Users,      \* users at the browser
  Sids,       \* user sessions
  Polls,      \* poll requests the token endpoint can be serving at once
  Lifespan,   \* ticks until a code expires
  Grace,      \* deviceCodeGrace
  Interval,   \* the poll interval
  None        \* no user, no session

ASSUME DeviceGrantAssumption ==
  /\ None \notin Users \cup Sids \cup Codes
  /\ Lifespan \in Nat /\ Grace \in Nat /\ Interval \in Nat

VARIABLES
  byCode,    \* deviceStore.codes
  byUser,    \* deviceStore.userCodes
  minted,    \* codes drawn: a random code never repeats
  device,    \* the *deviceCode values, shared by both maps and by polls in flight
  owner,     \* user_session rows: the user of a live session
  poll,      \* the requests in flight
  tokens,    \* the token sets written, with the facts the properties need
  redeemed   \* how many token sets each code was exchanged for

vars == <<byCode, byUser, minted, device, owner, poll, tokens, redeemed>>

\* `left` counts down to the expiry and on through the grace window; `since` is
\* the time since LastPoll, Interval also standing for a code never polled.
Device == [left : -(Grace + 1)..Lifespan, since : 0..Interval, denied : BOOLEAN,
           user : Users \cup {None}, sid : Sids \cup {None}]
NewDevice == [left |-> Lifespan, since |-> Interval, denied |-> FALSE,
              user |-> None, sid |-> None]

\* `approver` is the user whose approval named the session the poll has read;
\* `late` and `again` record what was already true when the request arrived.
Poll == [pc : {"idle", "lookup", "checks", "stamp", "denied", "user", "spend",
               "session", "tokens"},
         code : Codes \cup {None}, client : BOOLEAN, approver : Users \cup {None},
         late : BOOLEAN, again : BOOLEAN]
NoPoll == [pc |-> "idle", code |-> None, client |-> FALSE, approver |-> None,
           late |-> FALSE, again |-> FALSE]

\* A token set: its subject, and the user who approved with its session.
Token == [code : Codes, user : Users, approver : Users, late : BOOLEAN, again : BOOLEAN]

TypeOK ==
  /\ byCode \in SUBSET Codes /\ byUser \in SUBSET Codes /\ minted \in SUBSET Codes
  /\ device \in [Codes -> Device]
  /\ owner \in [Sids -> Users \cup {None}]
  /\ poll \in [Polls -> Poll]
  /\ tokens \in SUBSET Token
  /\ redeemed \in [Codes -> Nat]

Init ==
  /\ byCode = {} /\ byUser = {} /\ minted = {}
  /\ device = [c \in Codes |-> NewDevice]
  /\ owner = [s \in Sids |-> None]
  /\ poll = [p \in Polls |-> NoPoll]
  /\ tokens = {}
  /\ redeemed = [c \in Codes |-> 0]

Expired(c) == device[c].left < 0

-----------------------------------------------------------------------------
(* The device asks, the browser answers *)

\* The codes sweepLocked leaves: those not past the grace window.
Kept == {c \in byCode : device[c].left >= -Grace}

\* newDeviceCode, which alone sweeps.
NewDeviceCode(c) ==
  /\ c \notin minted
  /\ minted' = minted \cup {c}
  /\ byCode' = Kept \cup {c}
  /\ byUser' = (byUser \ (byCode \ Kept)) \cup {c}
  /\ UNCHANGED <<device, owner, poll, tokens, redeemed>>

\* newDeviceCode for a device outside Codes: only its sweep matters here.
OtherDeviceCode ==
  /\ byCode' = Kept
  /\ byUser' = byUser \ (byCode \ Kept)
  /\ UNCHANGED <<minted, device, owner, poll, tokens, redeemed>>

\* completeDeviceApproval: the session under the browser's root is started, or
\* reused whoever it belongs to, and the code takes user and session only if it is
\* still there and in time.  Any browser that typed the user code may end up here,
\* more than once.
ApproveDeviceCode(c, u, s) ==
  /\ c \in minted
  /\ owner' = [owner EXCEPT ![s] = IF @ = None THEN u ELSE @]
  /\ device' = IF c \in byUser /\ ~Expired(c)
               THEN [device EXCEPT ![c].user = u, ![c].sid = s] ELSE device
  /\ UNCHANGED <<byCode, byUser, minted, poll, tokens, redeemed>>

\* denyDeviceCode
DenyDeviceCode(c) ==
  /\ c \in byUser /\ ~Expired(c)
  /\ device' = [device EXCEPT ![c].denied = TRUE]
  /\ UNCHANGED <<byCode, byUser, minted, owner, poll, tokens, redeemed>>

\* Logout or revocation of the session.
EndUserSession(s) ==
  /\ owner[s] # None
  /\ owner' = [owner EXCEPT ![s] = None]
  /\ UNCHANGED <<byCode, byUser, minted, device, poll, tokens, redeemed>>

-----------------------------------------------------------------------------
(* A poll: deviceCodeGrant and completeDeviceCode *)

At(p, label) == poll[p].pc = label
Goto(p, label) == poll' = [poll EXCEPT ![p].pc = label]

\* The request is answered.
Answer(p) == poll' = [poll EXCEPT ![p] = NoPoll]

\* A request arrives, from the code's client or from another one.
Arrive(p, c, client) ==
  /\ At(p, "idle") /\ c \in minted
  /\ poll' = [poll EXCEPT ![p] = [pc |-> "lookup", code |-> c, client |-> client,
                approver |-> None, late |-> device[c].denied, again |-> redeemed[c] > 0]]
  /\ UNCHANGED <<byCode, byUser, minted, device, owner, tokens, redeemed>>

\* deviceCodeByCode: unknown codes answer "Device code not valid".
Lookup(p) ==
  /\ At(p, "lookup")
  /\ IF poll[p].code \in byCode THEN Goto(p, "checks") ELSE Answer(p)
  /\ UNCHANGED <<byCode, byUser, minted, device, owner, tokens, redeemed>>

\* Expiry, the client match and the interval: three answers that move nothing.
Checks(p) ==
  LET c == poll[p].code IN
  /\ At(p, "checks")
  /\ IF Expired(c) \/ ~poll[p].client \/ device[c].since < Interval
     THEN Answer(p) ELSE Goto(p, "stamp")
  /\ UNCHANGED <<byCode, byUser, minted, device, owner, tokens, redeemed>>

\* Mutant: the time of the next allowed poll is stored as LastPoll.
StampNextPoll(p) ==
  /\ At(p, "stamp")
  /\ device' = [device EXCEPT ![poll[p].code].since = -Interval]
  /\ Goto(p, "denied")
  /\ UNCHANGED <<byCode, byUser, minted, owner, tokens, redeemed>>

\* stampPoll
StampPoll(p) ==
  /\ At(p, "stamp")
  /\ device' = [device EXCEPT ![poll[p].code].since = 0]
  /\ Goto(p, "denied")
  /\ UNCHANGED <<byCode, byUser, minted, owner, tokens, redeemed>>

\* Mutant: an approved code is redeemed before the denial is looked at.
ApprovalBeforeDenial(p) ==
  /\ At(p, "denied")
  /\ IF device[poll[p].code].user # None THEN Goto(p, "spend") ELSE Answer(p)
  /\ UNCHANGED <<byCode, byUser, minted, device, owner, tokens, redeemed>>

\* A denied code answers access_denied and stays where it is.
CheckDenied(p) ==
  /\ At(p, "denied")
  /\ IF device[poll[p].code].denied THEN Answer(p) ELSE Goto(p, "user")
  /\ UNCHANGED <<byCode, byUser, minted, device, owner, tokens, redeemed>>

\* A code nobody approved answers authorization_pending.
CheckUser(p) ==
  /\ At(p, "user")
  /\ IF device[poll[p].code].user = None THEN Answer(p) ELSE Goto(p, "spend")
  /\ UNCHANGED <<byCode, byUser, minted, device, owner, tokens, redeemed>>

\* Mutant: the code stays reachable by its user code.
SpendByCodeOnly(p) ==
  /\ At(p, "spend")
  /\ byCode' = byCode \ {poll[p].code}
  /\ Goto(p, "session")
  /\ UNCHANGED <<byUser, minted, device, owner, tokens, redeemed>>

\* Mutant: the code is only dropped from the verification page's map.
SpendByUserOnly(p) ==
  /\ At(p, "spend")
  /\ byUser' = byUser \ {poll[p].code}
  /\ Goto(p, "session")
  /\ UNCHANGED <<byCode, minted, device, owner, tokens, redeemed>>

\* spendDeviceCode takes the code out of both maps, whether or not it is there.
SpendDeviceCode(p) ==
  /\ At(p, "spend")
  /\ byCode' = byCode \ {poll[p].code}
  /\ byUser' = byUser \ {poll[p].code}
  /\ Goto(p, "session")
  /\ UNCHANGED <<minted, device, owner, tokens, redeemed>>

\* UserSessionByID on the code's session.
ReadSession(p) ==
  LET s == device[poll[p].code].sid IN
  /\ At(p, "session")
  /\ poll' = IF owner[s] = None THEN [poll EXCEPT ![p] = NoPoll]
             ELSE [poll EXCEPT ![p].pc = "tokens",
                                ![p].approver = device[poll[p].code].user]
  /\ UNCHANGED <<byCode, byUser, minted, device, owner, tokens, redeemed>>

\* Users().ByID on the code's user, and writeTokens.
WriteTokens(p) ==
  LET q == poll[p] IN
  /\ At(p, "tokens")
  /\ tokens' = tokens \cup {[code |-> q.code, user |-> device[q.code].user,
                             approver |-> q.approver, late |-> q.late, again |-> q.again]}
  /\ redeemed' = [redeemed EXCEPT ![q.code] = @ + 1]
  /\ Answer(p)
  /\ UNCHANGED <<byCode, byUser, minted, device, owner>>

-----------------------------------------------------------------------------
\* Time passes for the codes that exist, down to just past the grace window.
Tick ==
  /\ device' = [c \in Codes |->
       IF c \notin minted THEN device[c]
       ELSE [device[c] EXCEPT !.left = IF @ < -Grace THEN @ ELSE @ - 1,
                              !.since = IF @ = Interval THEN @ ELSE @ + 1]]
  /\ UNCHANGED <<byCode, byUser, minted, owner, poll, tokens, redeemed>>

\* The process restarts: the maps are memory and the requests are gone.
Restart ==
  /\ byCode' = {} /\ byUser' = {}
  /\ poll' = [p \in Polls |-> NoPoll]
  /\ UNCHANGED <<minted, device, owner, tokens, redeemed>>

Next ==
  \/ \E c \in Codes : NewDeviceCode(c) \/ DenyDeviceCode(c)
  \/ \E c \in Codes, u \in Users, s \in Sids : ApproveDeviceCode(c, u, s)
  \/ \E s \in Sids : EndUserSession(s)
  \/ \E p \in Polls, c \in Codes, client \in BOOLEAN : Arrive(p, c, client)
  \/ \E p \in Polls : \/ Lookup(p)
                      \/ Checks(p)
                      \/ StampPoll(p)
                      \/ CheckDenied(p)
                      \/ CheckUser(p)
                      \/ SpendDeviceCode(p)
                      \/ ReadSession(p)
                      \/ WriteTokens(p)
  \/ OtherDeviceCode
  \/ Tick
  \/ Restart

Spec == Init /\ [][Next]_vars

-----------------------------------------------------------------------------
(* Properties *)

\* A device's subject and session come from one approval, although the poll reads
\* them at different moments and two browsers may approve the same code:
\* completeDeviceCode spends the code, and with it the way to approve it, before
\* it reads either.
TokensFromOneApproval == \A t \in tokens : t.user = t.approver

\* A poll that arrives after the denial gets no tokens, whether the code was
\* approved before or is approved afterwards (devicestore.go: "a denied code
\* answers access_denied for as long as it lives").
DeniedIsFinal == \A t \in tokens : ~t.late

\* A poll that arrives after a successful exchange gets no tokens (devicestore.go:
\* "the poll after a success answers Device code not valid").
NotValidAfterSuccess == \A t \in tokens : ~t.again

\* A device code is exchanged at most once (device.go, completeDeviceCode: "The
\* code is spent first and unconditionally, the way the authorization code grant
\* spends its own").
RedeemedOnce == \A c \in Codes : redeemed[c] <= 1

=============================================================================
