----------------------------- MODULE ProofStore -----------------------------
(***************************************************************************)
(* DPoP proofs.  A proof is good for a while around the instant its client *)
(* says it was made at, and for one request: the process remembers the ids *)
(* it has seen for as long as it takes a proof to run out, counted from    *)
(* the request and not from the proof.  A request reads the clock before   *)
(* it enters the store, and sweeps the store by what it has read.          *)
(***************************************************************************)
EXTENDS Naturals, Sequences

CONSTANTS
  Proofs,          \* proof ids (jti)
  ProofLifetime,   \* dpopProofLifetime
  ProofSkew,       \* dpopClockSkew
  ProofRequests,   \* requests with a proof, each served once
  NoProof,         \* absent value
  MaxTime          \* bound: the clock stops here

ASSUME ProofStoreAssumption ==
  /\ ProofLifetime \in Nat /\ ProofSkew \in Nat /\ MaxTime \in Nat
  /\ NoProof \notin Proofs

VARIABLES
  clock,      \* time.Now
  madeAt,     \* the iat of each proof, by its client's clock
  seen,       \* proofStore.seen: ids with the instant they were used at
  proofReq,   \* the requests under way: the proof and the instant read
  uses,       \* the acceptances of each proof: the instant read, the instant of it (history)
  forgetful   \* the process has restarted (history)

proofVars == <<clock, madeAt, seen, proofReq, uses, forgetful>>

Window == ProofLifetime + ProofSkew
IdleProofRequest == [step |-> "idle", proof |-> NoProof, now |-> 0]
OverProofRequest == [IdleProofRequest EXCEPT !.step = "over"]

ProofsInit ==
  /\ clock = 0
  /\ madeAt \in [Proofs -> 0..MaxTime]
  /\ seen = {}
  /\ proofReq = [q \in ProofRequests |-> IdleProofRequest]
  /\ uses = [p \in Proofs |-> <<>>]
  /\ forgetful = FALSE

\* verifyDPoPProof: the proof is neither too old nor too far ahead.
ProofActive(p) == madeAt[p] + Window >= clock /\ madeAt[p] <= clock + ProofSkew

\* verifyDPoPProof reads the clock and checks the window, outside the store's mutex.
CheckProof(q, p) ==
  /\ proofReq[q].step = "idle"
  /\ ProofActive(p)
  /\ proofReq' = [proofReq EXCEPT ![q] = [step |-> "use", proof |-> p, now |-> clock]]
  /\ UNCHANGED <<clock, madeAt, seen, uses, forgetful>>

\* Mutant: an entry is dropped at the last instant its proof is still good.
KeptTooShort(now) == {e \in seen : e.at + Window > now}

\* What the sweep at the start of use leaves, by the clock the request has read.
KeptProofs(now) == {e \in seen : e.at + Window >= now}

\* proofStore.use, under the mutex: a proof that is there is refused, and the
\* instant it was first used at stays.
UseProof(q) ==
  LET p == proofReq[q].proof
      now == proofReq[q].now IN
  /\ proofReq[q].step = "use"
  /\ \/ /\ \E e \in KeptProofs(now) : e.proof = p
        /\ seen' = KeptProofs(now)
        /\ UNCHANGED uses
     \/ /\ \A e \in KeptProofs(now) : e.proof # p
        /\ seen' = KeptProofs(now) \cup {[proof |-> p, at |-> now]}
        /\ uses' = [uses EXCEPT ![p] = Append(@, [now |-> now, at |-> clock])]
  /\ proofReq' = [proofReq EXCEPT ![q] = OverProofRequest]
  /\ UNCHANGED <<clock, madeAt, forgetful>>

ClockTick ==
  /\ clock < MaxTime
  /\ clock' = clock + 1
  /\ UNCHANGED <<madeAt, seen, proofReq, uses, forgetful>>

\* The process restarts: the store is empty and the requests are gone.
ForgetProofs ==
  /\ seen # {}
  /\ seen' = {}
  /\ proofReq' = [q \in ProofRequests |->
                    IF proofReq[q].step = "use" THEN OverProofRequest ELSE proofReq[q]]
  /\ forgetful' = TRUE
  /\ UNCHANGED <<clock, madeAt, uses>>

ProofsNext ==
  \/ \E q \in ProofRequests : (\E p \in Proofs : CheckProof(q, p)) \/ UseProof(q)
  \/ ClockTick
  \/ ForgetProofs

ProofsSpec == ProofsInit /\ [][ProofsNext]_proofVars

-----------------------------------------------------------------------------
(* Properties *)

\* "Entries are dropped once no proof carrying them could still be inside the iat
\* window" (use): short of a restart a proof is never accepted twice inside the
\* window counted from its first use, and not later either - unless it was made by
\* a clock ahead of this one, for which the window the entry is kept for is too
\* short, or its second request had read the clock and then waited for the store
\* until requests with a later clock had swept the entry away.
ProofUsedOnce ==
  \A p \in Proofs :
    \A i, j \in DOMAIN uses[p] :
      LET first == uses[p][i]
          second == uses[p][j] IN
      i < j => \/ forgetful
               \/ /\ first.now + Window < second.at
                  /\ first.now < madeAt[p] \/ second.now < second.at
=============================================================================
