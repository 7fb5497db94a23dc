-------------------------- MODULE ClientRegistration --------------------------
(***************************************************************************)
(* Dynamic client registration.  A registered client is a row; the token    *)
(* that may read, change and delete it is known by an id that the process   *)
(* keeps in memory, one per client, and every update puts a new one in its  *)
(* place.                                                                   *)
(***************************************************************************)
EXTENDS Naturals, FiniteSets

CONSTANTS
  RegClients,    \* client ids
  RegTokens,     \* token ids; random, so none is drawn twice
  RegRequests,   \* requests, each served once
  NoToken        \* absent value

ASSUME ClientRegistrationAssumption == NoToken \notin RegTokens \cup RegClients

VARIABLES
  clientRows,   \* client: the registered ones
  notYet,       \* client and token ids not drawn yet
  current,      \* registrationStore.current
  handed,       \* the tokens that reached whoever acts on the client
  regReq,       \* the requests under way
  stranded      \* clients whose token a restart or a lost answer took (history)

regVars == <<clientRows, notYet, current, handed, regReq, stranded>>

RegSteps == {"idle", "holds", "update", "mint", "delete", "forget", "answer", "over"}
RegRequest == [step : RegSteps, kind : {"create", "read", "update", "delete"},
               client : RegClients \cup {NoToken}, token : RegTokens \cup {NoToken}]
IdleRegRequest == [step |-> "idle", kind |-> "read", client |-> NoToken, token |-> NoToken]
OverRegRequest == [IdleRegRequest EXCEPT !.step = "over"]

RegistrationInit ==
  /\ clientRows = {}
  /\ notYet = RegClients \cup RegTokens
  /\ current = [c \in RegClients |-> NoToken]
  /\ handed = [c \in RegClients |-> {}]
  /\ regReq = [q \in RegRequests |-> IdleRegRequest]
  /\ stranded = {}

RegRequestEnds(q) == regReq' = [regReq EXCEPT ![q] = OverRegRequest]

-----------------------------------------------------------------------------
\* registerClient, for a caller with create-client: Clients().Create.
RegisterClient(q) ==
  /\ regReq[q].step = "idle"
  /\ \E c \in RegClients \cap notYet :
       /\ clientRows' = clientRows \cup {c}
       /\ notYet' = notYet \ {c}
       /\ regReq' = [regReq EXCEPT ![q] = [IdleRegRequest EXCEPT !.step = "mint", !.kind = "create",
                                                                 !.client = c]]
  /\ UNCHANGED <<current, handed, stranded>>

\* authorizeRegistered has looked the client up; the caller presents a token that
\* was handed out for it, or is an administrator.
FindRegistered(q) ==
  /\ regReq[q].step = "idle"
  /\ \E c \in clientRows, kind \in {"read", "update", "delete"} :
       \E t \in handed[c] \cup {NoToken} :
         regReq' = [regReq EXCEPT ![q] = [step |-> "holds", kind |-> kind, client |-> c, token |-> t]]
  /\ UNCHANGED <<clientRows, notYet, current, handed, stranded>>

\* registrationCaller: only the current token opens the client; a read answers
\* with the token that was presented.
CheckHolder(q) ==
  LET r == regReq[q] IN
  /\ r.step = "holds"
  /\ IF r.token \in {current[r.client], NoToken} /\ r.kind # "read"
     THEN regReq' = [regReq EXCEPT ![q].step = r.kind]
     ELSE RegRequestEnds(q)
  /\ UNCHANGED <<clientRows, notYet, current, handed, stranded>>

\* Clients().Update; a row that is gone is an error.
UpdateRegistered(q) ==
  LET r == regReq[q] IN
  /\ r.step = "update"
  /\ IF r.client \in clientRows THEN regReq' = [regReq EXCEPT ![q].step = "mint"]
     ELSE RegRequestEnds(q)
  /\ UNCHANGED <<clientRows, notYet, current, handed, stranded>>

\* mintRegistrationToken: issue overwrites what was there.
MintRegistrationToken(q) ==
  /\ regReq[q].step = "mint"
  /\ \E t \in RegTokens \cap notYet :
       /\ current' = [current EXCEPT ![regReq[q].client] = t]
       /\ notYet' = notYet \ {t}
       /\ regReq' = [regReq EXCEPT ![q].step = "answer", ![q].token = t]
  /\ UNCHANGED <<clientRows, handed, stranded>>

\* The body with the new token arrives.
AnswerRegistration(q) ==
  LET r == regReq[q] IN
  /\ r.step = "answer"
  /\ handed' = [handed EXCEPT ![r.client] = @ \cup {r.token}]
  /\ RegRequestEnds(q)
  /\ UNCHANGED <<clientRows, notYet, current, stranded>>

\* Mutant: the token is forgotten first.
ForgetThenDelete(q) ==
  LET r == regReq[q] IN
  /\ r.step = "delete"
  /\ IF current[r.client] # NoToken
     THEN current' = [current EXCEPT ![r.client] = NoToken] /\ UNCHANGED <<clientRows, regReq>>
     ELSE clientRows' = clientRows \ {r.client} /\ RegRequestEnds(q) /\ UNCHANGED current
  /\ UNCHANGED <<notYet, handed, stranded>>

\* deleteRegisteredClient: the row, and then its token.
DeleteRegistered(q) ==
  LET r == regReq[q] IN
  /\ r.step = "delete"
  /\ clientRows' = clientRows \ {r.client}
  /\ IF r.client \in clientRows THEN regReq' = [regReq EXCEPT ![q].step = "forget"]
     ELSE RegRequestEnds(q)
  /\ UNCHANGED <<notYet, current, handed, stranded>>

ForgetToken(q) ==
  /\ regReq[q].step = "forget"
  /\ current' = [current EXCEPT ![regReq[q].client] = NoToken]
  /\ RegRequestEnds(q)
  /\ UNCHANGED <<clientRows, notYet, handed, stranded>>

\* The request is cancelled or the store fails; an answer that is lost takes the
\* new token with it, and a client without one never had any.
CutRegistration(q) ==
  LET r == regReq[q] IN
  /\ r.step \notin {"idle", "over"}
  /\ stranded' = IF r.kind = "create" \/ (r.step = "answer" /\ current[r.client] = r.token)
                 THEN stranded \cup {r.client} ELSE stranded
  /\ RegRequestEnds(q)
  /\ UNCHANGED <<clientRows, notYet, current, handed>>

\* The process restarts: its memory and the requests it was serving are gone.
RestartRegistration ==
  /\ \E c \in RegClients : current[c] # NoToken
  /\ current' = [c \in RegClients |-> NoToken]
  /\ stranded' = stranded \cup clientRows
  /\ regReq' = [q \in RegRequests |-> IF regReq[q].step = "idle" THEN IdleRegRequest ELSE OverRegRequest]
  /\ UNCHANGED <<clientRows, notYet, handed>>

RegistrationNext ==
  \/ \E q \in RegRequests :
       \/ RegisterClient(q) \/ FindRegistered(q) \/ CheckHolder(q) \/ UpdateRegistered(q)
       \/ MintRegistrationToken(q) \/ AnswerRegistration(q) \/ DeleteRegistered(q) \/ ForgetToken(q)
       \/ CutRegistration(q)
  \/ RestartRegistration

RegistrationSpec == RegistrationInit /\ [][RegistrationNext]_regVars

-----------------------------------------------------------------------------
(* Properties *)

\* updateRegisteredClient writes the row before it rotates the token, and forget
\* comes after the delete: a client that is there can still be managed by a token
\* somebody was given, however updates and deletes overlap or fail - unless the
\* answer that carried the token was lost or the process restarted.
HolderKeepsAccess ==
  \A c \in clientRows :
    \/ \E q \in RegRequests : regReq[q].client = c
    \/ c \in stranded
    \/ current[c] \in handed[c]
=============================================================================
