-------------------------- MODULE SessionAuthority --------------------------
(***************************************************************************)
(* What the endpoints that live off a user session promise: a request is   *)
(* answered with tokens, a code or a user only when, at one instant while  *)
(* it was served, the session it names was in the database - or when it    *)
(* started that session itself.  Sessions end whenever somebody ends them, *)
(* also between that instant and the answer.                               *)
(***************************************************************************)
CONSTANTS
  Requests,   \* requests, each served once
  Sids,       \* session ids
  None        \* absent value

VARIABLES
  live,    \* the sessions in the database
  phase,   \* where each request is
  by       \* the session that admitted it, while it is served

vars == <<live, phase, by>>

Phases == {"idle", "asked", "admitted", "granted", "refused"}

Init ==
  /\ live \in SUBSET Sids
  /\ phase = [p \in Requests |-> "idle"]
  /\ by = [p \in Requests |-> None]

Ask(p) ==
  /\ phase[p] = "idle"
  /\ phase' = [phase EXCEPT ![p] = "asked"]
  /\ UNCHANGED <<live, by>>

\* The one instant at which the session has to be there.
Admit(p, s) ==
  /\ phase[p] = "asked"
  /\ s \in live
  /\ phase' = [phase EXCEPT ![p] = "admitted"]
  /\ by' = [by EXCEPT ![p] = s]
  /\ UNCHANGED live

\* A request that starts a session of its own.  The id must be free.
Open(p, s) ==
  /\ phase[p] = "asked"
  /\ s \notin live
  /\ live' = live \cup {s}
  /\ phase' = [phase EXCEPT ![p] = "admitted"]
  /\ by' = [by EXCEPT ![p] = s]

Grant(p) ==
  /\ phase[p] = "admitted"
  /\ phase' = [phase EXCEPT ![p] = "granted"]
  /\ by' = [by EXCEPT ![p] = None]
  /\ UNCHANGED live

Refuse(p) ==
  /\ phase[p] \in {"asked", "admitted"}
  /\ phase' = [phase EXCEPT ![p] = "refused"]
  /\ by' = [by EXCEPT ![p] = None]
  /\ UNCHANGED live

End(gone) ==
  /\ live' = live \ gone
  /\ UNCHANGED <<phase, by>>

Next ==
  \/ \E p \in Requests : Ask(p) \/ Grant(p) \/ Refuse(p)
  \/ \E p \in Requests, s \in Sids : Admit(p, s) \/ Open(p, s)
  \/ \E gone \in SUBSET Sids : End(gone)

Spec == Init /\ [][Next]_vars
=============================================================================
