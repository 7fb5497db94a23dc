------------------------------ MODULE UserRows ------------------------------
(***************************************************************************)
(* Writes to a user's row and password: the administrator's create, update, *)
(* reset-password, logout and deletes, and the required actions of a login. *)
(*                                                                         *)
(* Every writer reads the row, computes and writes the whole row back, with *)
(* the password in a table of its own and no transaction around the two.   *)
(* Nothing in the database says that a password is temporary but the       *)
(* UPDATE_PASSWORD in the row.                                             *)
(***************************************************************************)
EXTENDS Naturals, Sequences

CONSTANTS
  People,           \* user ids; random, so none is drawn twice
  SilentActions,    \* required actions that clear themselves
  MaxCredentials,   \* bound: credentials in one body
  UserRequests,     \* requests, each served once
  NoUser            \* absent value

ASSUME UserRowsAssumption ==
  /\ MaxCredentials \in Nat
  /\ NoUser \notin People
  /\ SilentActions \cap {"UPDATE_PASSWORD", "UPDATE_PROFILE"} = {}

Forms == {"UPDATE_PASSWORD", "UPDATE_PROFILE"}
UserActions == SilentActions \cup Forms
UserRow == [enabled : BOOLEAN, actions : SUBSET UserActions]
NoRow == [enabled |-> FALSE, actions |-> {}]

\* The credentials of a body, each temporary or not.
CredentialBatches == UNION {[1..n -> BOOLEAN] : n \in 0..MaxCredentials}

VARIABLES
  known,      \* user_entity: the ids that have a row
  userRow,    \* the row
  password,   \* credential: as it was meant, which the table does not say
  fresh,      \* ids not drawn yet
  userReq,    \* the requests under way
  said,       \* enabled as the last create or update put it (history)
  lost        \* users a late writer or a cut-off one wrote (history)

userVars == <<known, userRow, password, fresh, userReq, said, lost>>

Passwords == {"none", "permanent", "temporary"}
UserSteps == {"idle", "undo", "row", "credentials", "actions", "walk", "profile", "clear", "stamp",
              "over"}

\* `row` is the row as it was read and since written by this request, `late` that
\* somebody else has written it meanwhile, `form` the submitted action, `mode`
\* what follows the credentials and `temporary` what they have come to.
IdleUserRequest == [step |-> "idle", user |-> NoUser, row |-> NoRow, creds |-> <<>>, form |-> "none",
                    mode |-> "inline", temporary |-> FALSE, late |-> FALSE]
OverUserRequest == [IdleUserRequest EXCEPT !.step = "over"]

UsersInit ==
  /\ \E start \in SUBSET People :
       /\ known = start
       /\ fresh = People \ start
       /\ userRow \in [People -> {NoRow, [enabled |-> TRUE, actions |-> UserActions]}]
       /\ password = [u \in People |-> IF u \in start THEN "permanent" ELSE "none"]
       /\ \A u \in People \ start : userRow[u] = NoRow
  /\ said = [u \in People |-> userRow[u].enabled]
  /\ userReq = [q \in UserRequests |-> IdleUserRequest]
  /\ lost = {}

-----------------------------------------------------------------------------
\* A request that has read user u.
UserRequestArrives(q, u, request) ==
  /\ userReq[q].step = "idle"
  /\ u \in known
  /\ userReq' = [userReq EXCEPT ![q] = [request EXCEPT !.user = u, !.row = userRow[u]]]

UserRequestEnds(q) == userReq' = [userReq EXCEPT ![q] = OverUserRequest]

\* userRepo.Update of the whole row, after which q goes on as `next`; the copies
\* that others hold are out of date.  A row that is gone is an error.
UpdateUserRow(q, row, next) ==
  LET u == userReq[q].user IN
  IF u \in known
  THEN /\ userRow' = [userRow EXCEPT ![u] = row]
       /\ lost' = IF userReq[q].late THEN lost \cup {u} ELSE lost
       /\ userReq' = [p \in UserRequests |->
                        IF p = q THEN next
                        ELSE IF userReq[p].user = u THEN [userReq[p] EXCEPT !.late = TRUE]
                        ELSE userReq[p]]
  ELSE UserRequestEnds(q) /\ UNCHANGED <<userRow, lost>>

withoutAction(row, a) == [row EXCEPT !.actions = @ \ {a}]
withPasswordAction(row, want) ==
  [row EXCEPT !.actions = IF want THEN @ \cup {"UPDATE_PASSWORD"} ELSE @ \ {"UPDATE_PASSWORD"}]

-----------------------------------------------------------------------------
(* The administrator *)

\* createUser: the row first; a credential without a value takes it away again.
CreateUser(q) ==
  /\ userReq[q].step = "idle"
  /\ \E u \in fresh, e \in BOOLEAN, creds \in CredentialBatches, next \in {"undo", "credentials"} :
       LET row == [enabled |-> e, actions |-> {}] IN
       /\ known' = known \cup {u}
       /\ fresh' = fresh \ {u}
       /\ userRow' = [userRow EXCEPT ![u] = row]
       /\ said' = [said EXCEPT ![u] = e]
       /\ userReq' = [userReq EXCEPT ![q] = [IdleUserRequest EXCEPT !.step = next, !.user = u,
                                                                    !.row = row, !.creds = creds]]
  /\ UNCHANGED <<password, lost>>

\* userRepo.Delete; the credentials follow by cascade.
DropUser(u) ==
  /\ known' = known \ {u}
  /\ userRow' = [userRow EXCEPT ![u] = NoRow]
  /\ password' = [password EXCEPT ![u] = "none"]

UndoCreate(q) ==
  /\ userReq[q].step = "undo"
  /\ DropUser(userReq[q].user)
  /\ UserRequestEnds(q)
  /\ UNCHANGED <<fresh, said, lost>>

\* updateUser has read the row and merged the body into it.
PutUser(q) ==
  /\ \E u \in People, creds \in CredentialBatches :
       UserRequestArrives(q, u, [IdleUserRequest EXCEPT !.step = "row", !.creds = creds])
  /\ UNCHANGED <<known, userRow, password, fresh, said, lost>>

\* Mutant: the credentials are applied to the row that was read.
WriteUserKeepRead(q) ==
  /\ userReq[q].step = "row"
  /\ \E e \in BOOLEAN :
       LET row == [userReq[q].row EXCEPT !.enabled = e] IN
       /\ UpdateUserRow(q, row, [userReq[q] EXCEPT !.step = "credentials"])
       /\ said' = [said EXCEPT ![userReq[q].user] = e]
  /\ UNCHANGED <<known, password, fresh>>

WriteUser(q) ==
  /\ userReq[q].step = "row"
  /\ \E e \in BOOLEAN :
       LET row == [userReq[q].row EXCEPT !.enabled = e] IN
       /\ UpdateUserRow(q, row, [userReq[q] EXCEPT !.step = "credentials", !.row = row])
       /\ said' = [said EXCEPT ![userReq[q].user] = e]
  /\ UNCHANGED <<known, password, fresh>>

\* resetPassword has read the row.
PutPassword(q) ==
  /\ \E u \in People, temporary \in BOOLEAN :
       UserRequestArrives(q, u, [IdleUserRequest EXCEPT !.step = "credentials", !.mode = "reset",
                                                        !.creds = <<temporary>>])
  /\ UNCHANGED <<known, userRow, password, fresh, said, lost>>

\* SetCredential replaces the one there is; the user is a foreign key.
SetCredential(q) ==
  LET u == userReq[q].user IN
  /\ userReq[q].step = "credentials" /\ userReq[q].creds # <<>>
  /\ IF u \in known
     THEN /\ password' = [password EXCEPT ![u] = IF Head(userReq[q].creds) THEN "temporary"
                                                 ELSE "permanent"]
          /\ userReq' = [userReq EXCEPT ![q].creds = Tail(@),
                                        ![q].temporary = @ \/ Head(userReq[q].creds)]
     ELSE UserRequestEnds(q) /\ UNCHANGED password
  /\ UNCHANGED <<known, userRow, fresh, said, lost>>

\* What follows them: reset-password always writes the row, a form goes on to
\* clear its action, and a body writes it when one of them was temporary.
CredentialsSet(q) ==
  /\ userReq[q].step = "credentials" /\ userReq[q].creds = <<>>
  /\ IF userReq[q].mode = "form" THEN userReq' = [userReq EXCEPT ![q].step = "clear"]
     ELSE IF userReq[q].mode = "reset" \/ userReq[q].temporary
     THEN userReq' = [userReq EXCEPT ![q].step = "actions"]
     ELSE UserRequestEnds(q)
  /\ UNCHANGED <<known, userRow, password, fresh, said, lost>>

\* The row with UPDATE_PASSWORD added or, by a reset, removed.
WriteActions(q) ==
  /\ userReq[q].step = "actions"
  /\ UpdateUserRow(q, withPasswordAction(userReq[q].row, userReq[q].temporary), OverUserRequest)
  /\ UNCHANGED <<known, password, fresh, said>>

\* logoutUser has read the row; the sessions it deletes are SessionRace's.
PostLogout(q) ==
  /\ \E u \in People : UserRequestArrives(q, u, [IdleUserRequest EXCEPT !.step = "stamp"])
  /\ UNCHANGED <<known, userRow, password, fresh, said, lost>>

\* logoutUser: the row with a new notBefore, the rest as read.
StampLogout(q) ==
  /\ userReq[q].step = "stamp"
  /\ UpdateUserRow(q, userReq[q].row, OverUserRequest)
  /\ UNCHANGED <<known, password, fresh, said>>

DeleteUser(q) ==
  /\ userReq[q].step = "idle"
  /\ \E u \in known : DropUser(u)
  /\ UserRequestEnds(q)
  /\ UNCHANGED <<fresh, said, lost>>

DeleteCredential(q) ==
  /\ userReq[q].step = "idle"
  /\ \E u \in known : password' = [password EXCEPT ![u] = "none"]
  /\ UserRequestEnds(q)
  /\ UNCHANGED <<known, userRow, fresh, said, lost>>

-----------------------------------------------------------------------------
(* A login's required actions *)

\* requiredAction has read the user; a form is submitted for a pending action.
PostAction(q) ==
  /\ \E u \in People, form \in Forms \cup {"none"} :
       /\ form \in userRow[u].actions \cup {"none"}
       /\ UserRequestArrives(q, u, [IdleUserRequest EXCEPT !.step = "walk", !.form = form])
  /\ UNCHANGED <<known, userRow, password, fresh, said, lost>>

\* nextRequiredAction clears an action that asks nothing of the user.
ClearSilent(q) ==
  /\ userReq[q].step = "walk"
  /\ \E a \in SilentActions \cap userReq[q].row.actions :
       LET row == withoutAction(userReq[q].row, a) IN
       UpdateUserRow(q, row, [userReq[q] EXCEPT !.row = row])
  /\ UNCHANGED <<known, password, fresh, said>>

\* runStep, or the end of the walk.
RunStep(q) ==
  /\ userReq[q].step = "walk"
  /\ CASE userReq[q].form = "UPDATE_PASSWORD" ->
            userReq' = [userReq EXCEPT ![q].step = "credentials", ![q].mode = "form",
                                       ![q].creds = <<FALSE>>]
       [] userReq[q].form = "UPDATE_PROFILE" -> userReq' = [userReq EXCEPT ![q].step = "profile"]
       [] OTHER -> UserRequestEnds(q)
  /\ UNCHANGED <<known, userRow, password, fresh, said, lost>>

\* runUpdateProfile: the row with new names, the rest as read.
WriteProfile(q) ==
  /\ userReq[q].step = "profile"
  /\ UpdateUserRow(q, userReq[q].row, [userReq[q] EXCEPT !.step = "clear"])
  /\ UNCHANGED <<known, password, fresh, said>>

\* clearRequiredAction of the form's action; the queue is asked again.
ClearForm(q) ==
  LET row == withoutAction(userReq[q].row, userReq[q].form) IN
  /\ userReq[q].step = "clear"
  /\ UpdateUserRow(q, row, [userReq[q] EXCEPT !.step = "walk", !.row = row, !.form = "none"])
  /\ UNCHANGED <<known, password, fresh, said>>

-----------------------------------------------------------------------------
\* The request is cancelled or the store fails.
CutUserRequest(q) ==
  /\ userReq[q].step \notin {"idle", "over"}
  /\ lost' = IF userReq[q].temporary THEN lost \cup {userReq[q].user} ELSE lost
  /\ UserRequestEnds(q)
  /\ UNCHANGED <<known, userRow, password, fresh, said>>

UsersNext ==
  \E q \in UserRequests :
    \/ CreateUser(q) \/ UndoCreate(q) \/ PutUser(q) \/ WriteUser(q) \/ PutPassword(q)
    \/ SetCredential(q) \/ CredentialsSet(q) \/ WriteActions(q) \/ DeleteUser(q) \/ DeleteCredential(q)
    \/ PostAction(q) \/ ClearSilent(q) \/ RunStep(q) \/ WriteProfile(q) \/ ClearForm(q)
    \/ PostLogout(q) \/ StampLogout(q) \/ CutUserRequest(q)

UsersSpec == UsersInit /\ [][UsersNext]_userVars

-----------------------------------------------------------------------------
(* Properties *)

\* "temporary true adds UPDATE_PASSWORD" (resetPassword, applyCredentials), and
\* an account is enabled as the last update said: once nobody is writing a user,
\* a temporary password comes with the demand to change it - unless a writer that
\* had read the row before somebody else's write put its copy over it, or one was
\* cut off between the password and the row.
LastWordHolds ==
  \A u \in known :
    \/ \E q \in UserRequests : userReq[q].user = u
    \/ u \in lost
    \/ /\ userRow[u].enabled = said[u]
       /\ password[u] = "temporary" => "UPDATE_PASSWORD" \in userRow[u].actions
=============================================================================
