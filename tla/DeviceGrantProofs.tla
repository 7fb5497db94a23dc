-------------------------- MODULE DeviceGrantProofs -------------------------
(***************************************************************************)
(* What holds of DeviceGrant for any number of codes, users, sessions and  *)
(* polls in flight.                                                        *)
(***************************************************************************)
EXTENDS DeviceGrant, TLAPS

\* Where a poll is when the code it holds has been approved, and when it has
\* been taken out of the maps.
Approved == {"spend", "session", "tokens"}
Spent == {"session", "tokens"}

\* An approval sets user and session together; an unminted code has neither.
DeviceInv ==
  \A c \in Codes : (device[c].user = None) <=> (device[c].sid = None)

\* The maps hold minted codes, and a redeemed code is in neither.
MapsInv ==
  /\ byCode \subseteq minted /\ byUser \subseteq minted
  /\ \A c \in Codes : redeemed[c] > 0 => c \in minted /\ c \notin byCode

\* What a poll knows about its code at each point.
PollInv ==
  \A p \in Polls : poll[p].pc # "idle" =>
    /\ poll[p].code \in minted
    /\ poll[p].pc \in Approved => device[poll[p].code].user # None
    /\ poll[p].pc \in Spent => poll[p].code \notin byCode /\ poll[p].code \notin byUser
    /\ poll[p].pc = "tokens" => poll[p].approver = device[poll[p].code].user
    /\ poll[p].late => device[poll[p].code].denied
    /\ poll[p].late => poll[p].pc \notin Approved \cup {"user"}
    /\ poll[p].again => redeemed[poll[p].code] > 0 /\ poll[p].pc = "lookup"

IInv ==
  /\ TypeOK
  /\ DeviceInv
  /\ MapsInv
  /\ PollInv
  /\ TokensFromOneApproval
  /\ DeniedIsFinal
  /\ NotValidAfterSuccess

-----------------------------------------------------------------------------
\* The invariant holds before the first device code is drawn.
LEMMA InitInv == Init => IInv
<1> SUFFICES ASSUME Init PROVE IInv
  OBVIOUS
<1> USE DeviceGrantAssumption DEF Init
<1>1. TypeOK
  BY DEF TypeOK, Device, NewDevice, Poll, NoPoll
<1>2. DeviceInv /\ MapsInv /\ PollInv
  BY DEF DeviceInv, MapsInv, PollInv, NewDevice, NoPoll
<1>3. TokensFromOneApproval /\ DeniedIsFinal /\ NotValidAfterSuccess
  BY DEF TokensFromOneApproval, DeniedIsFinal, NotValidAfterSuccess
<1> QED
  BY <1>1, <1>2, <1>3 DEF IInv

\* The browser's side, the clock and the sweep: a step that moves no poll.
\* `device` may lose neither an approval of a code that has left the maps nor a
\* denial, and no code comes back into a map.
Around ==
  /\ UNCHANGED <<poll, tokens, redeemed>>
  /\ minted \subseteq minted' /\ minted' \in SUBSET Codes
  /\ byCode' \in SUBSET minted' /\ byUser' \in SUBSET minted'
  /\ \A c \in minted : /\ c \in byCode' => c \in byCode
                       /\ c \in byUser' => c \in byUser
  /\ device' \in [Codes -> Device]
  /\ \A c \in Codes : /\ device[c].denied => device'[c].denied
                      /\ device[c].user # None => device'[c].user # None
                      /\ c \in minted /\ c \notin byUser => device'[c].user = device[c].user
                      /\ (device'[c].user = None) <=> (device'[c].sid = None)
  /\ owner' \in [Sids -> Users \cup {None}]

\* Whatever happens around the polls keeps the invariant.
LEMMA AroundKeeps == IInv /\ Around => IInv'
<1> SUFFICES ASSUME IInv, Around PROVE IInv'
  OBVIOUS
<1>1. TypeOK'
  BY DEF IInv, TypeOK, Around
<1>2. DeviceInv'
  BY DEF DeviceInv, Around
<1>3. MapsInv'
  BY DEF IInv, MapsInv, Around
<1>4. PollInv'
  <2> SUFFICES ASSUME NEW p \in Polls, poll[p].pc # "idle"
               PROVE  /\ poll[p].code \in minted'
                      /\ poll[p].pc \in Approved => device'[poll[p].code].user # None
                      /\ poll[p].pc \in Spent =>
                           poll[p].code \notin byCode' /\ poll[p].code \notin byUser'
                      /\ poll[p].pc = "tokens" => poll[p].approver = device'[poll[p].code].user
                      /\ poll[p].late => device'[poll[p].code].denied
                      /\ poll[p].late => poll[p].pc \notin Approved \cup {"user"}
                      /\ poll[p].again => redeemed[poll[p].code] > 0 /\ poll[p].pc = "lookup"
    BY DEF PollInv, Around
  <2>1. poll[p].code \in minted /\ poll[p].code \in Codes
    BY DEF IInv, PollInv, TypeOK
  <2>2. poll[p].pc = "tokens" => poll[p].pc \in Spent
    BY DEF Spent
  <2> QED BY <2>1, <2>2 DEF IInv, PollInv, Around
<1>5. TokensFromOneApproval' /\ DeniedIsFinal' /\ NotValidAfterSuccess'
  BY DEF IInv, TokensFromOneApproval, DeniedIsFinal, NotValidAfterSuccess, Around
<1> QED
  BY <1>1, <1>2, <1>3, <1>4, <1>5 DEF IInv

\* The store's writers, the browser, time and a restart are such steps.
LEMMA AroundSteps ==
  ASSUME IInv,
         \/ \E c \in Codes : NewDeviceCode(c) \/ DenyDeviceCode(c)
         \/ \E c \in Codes, u \in Users, s \in Sids : ApproveDeviceCode(c, u, s)
         \/ \E s \in Sids : EndUserSession(s)
         \/ OtherDeviceCode \/ Tick
  PROVE  Around
<1> USE DeviceGrantAssumption DEF IInv
<1>1. ASSUME NEW c \in Codes, NewDeviceCode(c) PROVE Around
  <2>1. Kept \subseteq byCode
    BY DEF Kept
  <2> QED BY <1>1, <2>1 DEF NewDeviceCode, Around, TypeOK, DeviceInv, MapsInv
<1>2. ASSUME NEW c \in Codes, DenyDeviceCode(c) PROVE Around
  <2>1. /\ device' \in [Codes -> Device]
        /\ \A d \in Codes : /\ device'[d].user = device[d].user /\ device'[d].sid = device[d].sid
                            /\ device[d].denied => device'[d].denied
    BY ZenonT(60), <1>2 DEF DenyDeviceCode, TypeOK, Device
  <2> QED BY <1>2, <2>1 DEF DenyDeviceCode, Around, TypeOK, DeviceInv, MapsInv
<1>3. ASSUME NEW c \in Codes, NEW u \in Users, NEW s \in Sids, ApproveDeviceCode(c, u, s)
      PROVE  Around
  <2>1. /\ device' \in [Codes -> Device]
        /\ \A d \in Codes : device'[d].denied = device[d].denied
        /\ \A d \in Codes : d # c \/ c \notin byUser => device'[d] = device[d]
        /\ device'[c] = device[c] \/ (device'[c].user = u /\ device'[c].sid = s)
    BY <1>3 DEF ApproveDeviceCode, TypeOK, Device
  <2>2. owner' \in [Sids -> Users \cup {None}]
    BY <1>3 DEF ApproveDeviceCode, TypeOK
  <2>3. UNCHANGED <<byCode, byUser, minted, poll, tokens, redeemed>>
    BY <1>3 DEF ApproveDeviceCode
  <2> QED BY <2>1, <2>2, <2>3 DEF Around, TypeOK, DeviceInv, MapsInv
<1>4. ASSUME NEW s \in Sids, EndUserSession(s) PROVE Around
  BY <1>4 DEF EndUserSession, Around, TypeOK, DeviceInv, MapsInv
<1>5. CASE OtherDeviceCode
  <2>1. Kept \subseteq byCode
    BY DEF Kept
  <2> QED BY <1>5, <2>1 DEF OtherDeviceCode, Around, TypeOK, DeviceInv, MapsInv
<1>6. CASE Tick
  <2> DEFINE aged(d) == [d EXCEPT !.left = IF @ < -Grace THEN @ ELSE @ - 1,
                                  !.since = IF @ = Interval THEN @ ELSE @ + 1]
  <2>1. \A d \in Device : /\ aged(d) \in Device
                          /\ aged(d).user = d.user /\ aged(d).sid = d.sid
                          /\ aged(d).denied = d.denied
    <3>1. \A n \in -(Grace + 1)..Lifespan :
            (IF n < -Grace THEN n ELSE n - 1) \in -(Grace + 1)..Lifespan
      OBVIOUS
    <3>2. \A n \in 0..Interval : (IF n = Interval THEN n ELSE n + 1) \in 0..Interval
      OBVIOUS
    <3> QED BY <3>1, <3>2 DEF Device
  <2>2. device' = [c \in Codes |-> IF c \notin minted THEN device[c] ELSE aged(device[c])]
    BY <1>6 DEF Tick
  <2> HIDE DEF aged
  <2>3. /\ device' \in [Codes -> Device]
        /\ \A d \in Codes : /\ device'[d].user = device[d].user /\ device'[d].sid = device[d].sid
                            /\ device'[d].denied = device[d].denied
    BY <2>1, <2>2 DEF TypeOK
  <2> QED BY ZenonT(60), <1>6, <2>3 DEF Tick, Around, TypeOK, DeviceInv, MapsInv
<1> QED
  BY <1>1, <1>2, <1>3, <1>4, <1>5, <1>6

-----------------------------------------------------------------------------
(* The polls *)

\* What a poll's own record may look like after a step of it.
Known(q, dev, red, codesLeft, userCodesLeft) ==
  q.pc # "idle" =>
    /\ q.code \in minted
    /\ q.pc \in Approved => dev[q.code].user # None
    /\ q.pc \in Spent => q.code \notin codesLeft /\ q.code \notin userCodesLeft
    /\ q.pc = "tokens" => q.approver = dev[q.code].user
    /\ q.late => dev[q.code].denied
    /\ q.late => q.pc \notin Approved \cup {"user"}
    /\ q.again => red[q.code] > 0 /\ q.pc = "lookup"

\* A step of poll p: it moves to q, the maps only lose codes, and a code is
\* redeemed only when the maps have lost it.
PollMoves(p, q) ==
  /\ q \in Poll
  /\ poll' = [poll EXCEPT ![p] = q]
  /\ Known(q, device', redeemed', byCode', byUser')
  /\ byCode' \subseteq byCode /\ byUser' \subseteq byUser
  /\ UNCHANGED <<minted, owner>>
  /\ device' \in [Codes -> Device]
  /\ \A c \in Codes : /\ device'[c].user = device[c].user /\ device'[c].sid = device[c].sid
                      /\ device'[c].denied = device[c].denied
  /\ redeemed' \in [Codes -> Nat]
  /\ \A c \in Codes : redeemed[c] > 0 => redeemed'[c] > 0
  /\ \A c \in Codes : redeemed'[c] > 0 => c \in minted /\ c \notin byCode'
  /\ tokens' \in SUBSET Token
  /\ \A t \in tokens' : t \in tokens \/ (t.user = t.approver /\ ~t.late /\ ~t.again)

\* A poll that moves in the ways of PollMoves keeps the invariant.
LEMMA PollMovesKeeps ==
  ASSUME IInv, NEW p \in Polls, NEW q, PollMoves(p, q)
  PROVE  IInv'
<1>1. TypeOK'
  BY DEF IInv, TypeOK, PollMoves
<1>2. DeviceInv' /\ MapsInv'
  BY DEF IInv, DeviceInv, MapsInv, PollMoves
<1>3. TokensFromOneApproval' /\ DeniedIsFinal' /\ NotValidAfterSuccess'
  BY DEF IInv, TokensFromOneApproval, DeniedIsFinal, NotValidAfterSuccess, PollMoves
<1>4. ASSUME NEW r \in Polls PROVE Known(poll'[r], device', redeemed', byCode', byUser')
  <2>1. CASE r = p
    BY <2>1 DEF IInv, TypeOK, PollMoves
  <2>2. CASE r # p
    <3>1. poll'[r] = poll[r] /\ poll[r] \in Poll
      BY <2>2 DEF IInv, TypeOK, PollMoves
    <3>2. Known(poll[r], device, redeemed, byCode, byUser)
      BY DEF IInv, PollInv, Known
    <3>3. poll[r].pc # "idle" => poll[r].code \in Codes
      BY <3>2 DEF IInv, TypeOK, Known
    <3> QED BY <3>1, <3>2, <3>3 DEF Known, PollMoves
  <2> QED BY <2>1, <2>2
<1>5. PollInv'
  BY <1>4 DEF PollInv, Known, PollMoves
<1> QED
  BY <1>1, <1>2, <1>3, <1>5 DEF IInv

\* The record of a poll that is not idle, as PollInv knows it.
LEMMA PollFacts ==
  ASSUME IInv, NEW p \in Polls, poll[p].pc # "idle"
  PROVE  /\ poll[p] \in Poll /\ poll[p].code \in Codes /\ poll[p].code \in minted
         /\ Known(poll[p], device, redeemed, byCode, byUser)
         /\ [poll[p] EXCEPT !.pc = "idle"] \in Poll
<1>1. poll[p] \in Poll
  BY DEF IInv, TypeOK
<1>2. Known(poll[p], device, redeemed, byCode, byUser)
  BY DEF IInv, PollInv, Known
<1>3. poll[p].code \in minted /\ poll[p].code \in Codes
  BY <1>2 DEF IInv, TypeOK, Known
<1> QED
  BY <1>1, <1>2, <1>3 DEF Poll

\* An answered request leaves nothing behind but what the step wrote.
LEMMA AnsweredMoves ==
  ASSUME IInv, NEW p \in Polls, Answer(p),
         UNCHANGED <<byCode, byUser, minted, device, owner, tokens, redeemed>>
  PROVE  PollMoves(p, NoPoll)
<1>1. NoPoll \in Poll /\ NoPoll.pc = "idle"
  BY DEF NoPoll, Poll
<1> QED
  BY <1>1 DEF Answer, PollMoves, Known, IInv, TypeOK, MapsInv

\* A request that goes on at another label.
LEMMA GotoMoves ==
  ASSUME IInv, NEW p \in Polls, poll[p].pc # "idle",
         NEW label \in {"checks", "stamp", "denied", "user", "spend", "session"},
         Goto(p, label),
         ~poll[p].again, poll[p].late => label \notin Approved \cup {"user"},
         label \in Approved => device[poll[p].code].user # None,
         label \in Spent => poll[p].code \notin byCode' /\ poll[p].code \notin byUser',
         byCode' \subseteq byCode, byUser' \subseteq byUser,
         UNCHANGED <<minted, owner, tokens, redeemed>>,
         device' \in [Codes -> Device],
         \A c \in Codes : /\ device'[c].user = device[c].user /\ device'[c].sid = device[c].sid
                          /\ device'[c].denied = device[c].denied
  PROVE  PollMoves(p, [poll[p] EXCEPT !.pc = label])
<1> DEFINE q == [poll[p] EXCEPT !.pc = label]
<1>1. /\ q \in Poll /\ q.pc = label /\ q.code = poll[p].code /\ q.late = poll[p].late
      /\ q.again = poll[p].again
  BY PollFacts DEF Poll
<1>2. poll' = [poll EXCEPT ![p] = q]
  BY DEF Goto
<1> HIDE DEF q
<1>3. Known(q, device', redeemed', byCode', byUser')
  BY ZenonT(60), <1>1, PollFacts DEF Known
<1>4. PollMoves(p, q)
  BY <1>1, <1>2, <1>3 DEF PollMoves, IInv, TypeOK, MapsInv
<1> QED
  BY <1>4 DEF q

\* Every step of a poll preserves the invariant.
LEMMA PollSteps ==
  ASSUME IInv, NEW p \in Polls,
         \/ \E c \in Codes, client \in BOOLEAN : Arrive(p, c, client)
         \/ Lookup(p) \/ Checks(p) \/ StampPoll(p) \/ CheckDenied(p) \/ CheckUser(p)
         \/ SpendDeviceCode(p) \/ ReadSession(p) \/ WriteTokens(p)
  PROVE  IInv'
<1> DEFINE rest == <<byCode, byUser, minted, device, owner, tokens, redeemed>>
<1> USE DEF At, Approved, Spent
<1>a. /\ device \in [Codes -> Device] /\ byCode \subseteq byCode /\ byUser \subseteq byUser
  BY DEF IInv, TypeOK
<1>b. ASSUME Answer(p), UNCHANGED rest PROVE IInv'
  BY <1>b, AnsweredMoves, PollMovesKeeps
<1>1. ASSUME NEW c \in Codes, NEW client \in BOOLEAN, Arrive(p, c, client) PROVE IInv'
  <2> DEFINE q == [pc |-> "lookup", code |-> c, client |-> client, approver |-> None,
                   late |-> device[c].denied, again |-> redeemed[c] > 0]
  <2>1. device[c].denied \in BOOLEAN /\ (redeemed[c] > 0) \in BOOLEAN
    BY DEF IInv, TypeOK, Device
  <2>2. /\ q \in Poll /\ q.pc = "lookup" /\ q.code = c
        /\ q.late = device[c].denied /\ q.again = (redeemed[c] > 0)
    BY <2>1 DEF Poll
  <2>3. poll' = [poll EXCEPT ![p] = q] /\ c \in minted /\ UNCHANGED rest
    BY <1>1 DEF Arrive
  <2> HIDE DEF q
  <2>4. Known(q, device', redeemed', byCode', byUser')
    BY <2>2, <2>3 DEF Known
  <2>5. PollMoves(p, q)
    BY <2>2, <2>3, <2>4 DEF PollMoves, IInv, TypeOK, MapsInv
  <2> QED BY <2>5, PollMovesKeeps
<1>2. CASE Lookup(p)
  <2>1. CASE poll[p].code \in byCode
    <3>1. ~poll[p].again
      BY <1>2, <2>1, PollFacts DEF Lookup, Known, IInv, MapsInv
    <3> QED BY <1>2, <1>a, <2>1, <3>1, GotoMoves, PollMovesKeeps DEF Lookup
  <2>2. CASE poll[p].code \notin byCode
    BY <1>2, <1>b, <2>2 DEF Lookup
  <2> QED BY <2>1, <2>2
<1>3. CASE Checks(p)
  <2>1. Answer(p) \/ Goto(p, "stamp")
    BY <1>3 DEF Checks
  <2>2. ~poll[p].again
    BY <1>3, PollFacts DEF Checks, Known
  <2>3. CASE Goto(p, "stamp")
    BY <1>3, <1>a, <2>2, <2>3, GotoMoves, PollMovesKeeps DEF Checks
  <2> QED BY <1>3, <1>b, <2>1, <2>3 DEF Checks
<1>4. CASE StampPoll(p)
  <2>1. poll[p].code \in Codes /\ ~poll[p].again
    BY <1>4, PollFacts DEF StampPoll, Known
  <2>2. /\ device' \in [Codes -> Device]
        /\ \A c \in Codes : /\ device'[c].user = device[c].user /\ device'[c].sid = device[c].sid
                            /\ device'[c].denied = device[c].denied
    BY <1>4, <2>1, DeviceGrantAssumption DEF StampPoll, IInv, TypeOK, Device
  <2> QED BY <1>4, <1>a, <2>1, <2>2, GotoMoves, PollMovesKeeps DEF StampPoll
<1>5. CASE CheckDenied(p)
  <2>1. CASE device[poll[p].code].denied
    BY <1>5, <1>b, <2>1 DEF CheckDenied
  <2>2. CASE ~device[poll[p].code].denied
    <3>1. ~poll[p].again /\ ~poll[p].late
      BY <1>5, <2>2, PollFacts DEF CheckDenied, Known
    <3> QED BY <1>5, <1>a, <2>2, <3>1, GotoMoves, PollMovesKeeps DEF CheckDenied
  <2> QED BY <2>1, <2>2
<1>6. CASE CheckUser(p)
  <2>1. CASE device[poll[p].code].user = None
    BY <1>6, <1>b, <2>1 DEF CheckUser
  <2>2. CASE device[poll[p].code].user # None
    <3>1. ~poll[p].again /\ ~poll[p].late
      BY <1>6, PollFacts DEF CheckUser, Known
    <3> QED BY <1>6, <1>a, <2>2, <3>1, GotoMoves, PollMovesKeeps DEF CheckUser
  <2> QED BY <2>1, <2>2
<1>7. CASE SpendDeviceCode(p)
  <2>1. ~poll[p].again /\ ~poll[p].late /\ device[poll[p].code].user # None
    BY <1>7, PollFacts DEF SpendDeviceCode, Known
  <2> QED BY <1>7, <1>a, <2>1, GotoMoves, PollMovesKeeps DEF SpendDeviceCode
<1>8. CASE ReadSession(p)
  <2> DEFINE c == poll[p].code
             q == [poll[p] EXCEPT !.pc = "tokens", !.approver = device[c].user]
  <2>1. UNCHANGED rest /\ (Answer(p) \/ poll' = [poll EXCEPT ![p] = q])
    BY <1>8 DEF ReadSession, Answer
  <2>2. /\ poll[p].pc = "session" /\ poll[p] \in Poll /\ c \in Codes /\ c \in minted
        /\ Known(poll[p], device, redeemed, byCode, byUser)
    BY <1>8, PollFacts DEF ReadSession
  <2>3. device[c].user \in Users \cup {None}
    BY <2>2 DEF IInv, TypeOK, Device
  <2>4. /\ q \in Poll /\ q.pc = "tokens" /\ q.code = c /\ q.approver = device[c].user
        /\ q.late = poll[p].late /\ q.again = poll[p].again
    BY <2>2, <2>3 DEF Poll
  <2> HIDE DEF c, q
  <2>5. Known(q, device, redeemed, byCode, byUser)
    BY <2>2, <2>4 DEF Known, c
  <2>6. CASE poll' = [poll EXCEPT ![p] = q]
    <3>1. PollMoves(p, q)
      BY <2>1, <2>4, <2>5, <2>6 DEF PollMoves, IInv, TypeOK, MapsInv
    <3> QED BY <3>1, PollMovesKeeps
  <2> QED BY <1>b, <2>1, <2>6
<1>9. CASE WriteTokens(p)
  <2> DEFINE c == poll[p].code
             t == [code |-> c, user |-> device[c].user, approver |-> poll[p].approver,
                   late |-> poll[p].late, again |-> poll[p].again]
  <2>1. /\ poll[p].pc = "tokens" /\ poll[p] \in Poll /\ c \in Codes /\ c \in minted
        /\ Known(poll[p], device, redeemed, byCode, byUser)
    BY <1>9, PollFacts DEF WriteTokens
  <2>2. /\ ~poll[p].late /\ ~poll[p].again /\ poll[p].approver = device[c].user
        /\ device[c].user # None /\ c \notin byCode
    BY <2>1 DEF Known
  <2>3. device[c].user \in Users
    BY <2>1, <2>2 DEF IInv, TypeOK, Device
  <2>4. t \in Token /\ t.user = t.approver /\ ~t.late /\ ~t.again
    BY <2>1, <2>2, <2>3 DEF Token, Poll
  <2>5. /\ tokens' = tokens \cup {t} /\ redeemed' = [redeemed EXCEPT ![c] = @ + 1]
        /\ poll' = [poll EXCEPT ![p] = NoPoll]
        /\ UNCHANGED <<byCode, byUser, minted, device, owner>>
    BY <1>9 DEF WriteTokens, Answer
  <2> HIDE DEF c, t
  <2>6. NoPoll \in Poll /\ NoPoll.pc = "idle"
    BY DEF NoPoll, Poll
  <2>7. /\ redeemed' \in [Codes -> Nat]
        /\ \A d \in Codes : redeemed[d] > 0 => redeemed'[d] > 0
        /\ \A d \in Codes : redeemed'[d] > 0 => d \in minted /\ d \notin byCode
    BY <2>1, <2>2, <2>5 DEF IInv, TypeOK, MapsInv
  <2>8. /\ tokens' \in SUBSET Token
        /\ \A x \in tokens' : x \in tokens \/ (x.user = x.approver /\ ~x.late /\ ~x.again)
    BY <2>4, <2>5 DEF IInv, TypeOK
  <2>9. PollMoves(p, NoPoll)
    BY <2>5, <2>6, <2>7, <2>8 DEF PollMoves, Known, IInv, TypeOK
  <2> QED BY <2>9, PollMovesKeeps
<1> QED
  BY <1>1, <1>2, <1>3, <1>4, <1>5, <1>6, <1>7, <1>8, <1>9

\* Every step preserves the invariant.
LEMMA StepInv == IInv /\ [Next]_vars => IInv'
<1> SUFFICES ASSUME IInv, [Next]_vars PROVE IInv'
  OBVIOUS
<1>1. CASE UNCHANGED vars
  <2>1. Around
    BY <1>1 DEF vars, Around, IInv, TypeOK, DeviceInv, MapsInv
  <2> QED BY <2>1, AroundKeeps
<1>2. CASE Restart
  <2>1. TypeOK'
    BY <1>2 DEF Restart, IInv, TypeOK, Poll, NoPoll
  <2>2. DeviceInv' /\ MapsInv' /\ PollInv'
    BY <1>2 DEF Restart, IInv, DeviceInv, MapsInv, PollInv, NoPoll
  <2>3. TokensFromOneApproval' /\ DeniedIsFinal' /\ NotValidAfterSuccess'
    BY <1>2 DEF Restart, IInv, TokensFromOneApproval, DeniedIsFinal, NotValidAfterSuccess
  <2> QED BY <2>1, <2>2, <2>3 DEF IInv
<1> QED
  BY <1>1, <1>2, AroundSteps, AroundKeeps, PollSteps DEF Next

\* The inductive invariant holds in every state of every behaviour.
LEMMA Invariance == Spec => []IInv
BY InitInv, StepInv, PTL DEF Spec

\* The variables keep their types.
THEOREM TypeCorrect == Spec => []TypeOK
BY Invariance, PTL DEF IInv

\* The subject and the session of a device's tokens come from one approval,
\* however many browsers approve and however many polls race.
THEOREM OneApproval == Spec => []TokensFromOneApproval
BY Invariance, PTL DEF IInv

\* A poll that starts after a denial never gets tokens.
THEOREM DenialIsFinal == Spec => []DeniedIsFinal
BY Invariance, PTL DEF IInv

\* A poll that starts after a successful exchange never gets tokens: only polls
\* that were already in flight can redeem a code a second time.
THEOREM SuccessIsLast == Spec => []NotValidAfterSuccess
BY Invariance, PTL DEF IInv

=============================================================================
