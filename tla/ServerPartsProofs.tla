------------------------- MODULE ServerPartsProofs --------------------------
(***************************************************************************)
(* Theorems about DPoP proofs, registered clients and the credentials of   *)
(* users, each from the part's own specification.                          *)
(***************************************************************************)
EXTENDS ServerParts, SequenceTheorems, TLAPS

-----------------------------------------------------------------------------
(* DPoP proofs *)

Acceptance == [now : Nat, at : Nat]
ProofRequest == [step : {"idle", "use", "over"}, proof : Proofs \cup {NoProof}, now : Nat]

ProofsTyped ==
  /\ clock \in Nat
  /\ madeAt \in [Proofs -> Nat]
  /\ seen \in SUBSET [proof : Proofs, at : Nat]
  /\ proofReq \in [ProofRequests -> ProofRequest]
  /\ uses \in [Proofs -> Seq(Acceptance)]

\* A request that waits for the store has read a clock that is not ahead, and its
\* proof was good by it.
RequestsChecked ==
  \A q \in ProofRequests :
    proofReq[q].step = "use" =>
      /\ proofReq[q].proof \in Proofs
      /\ proofReq[q].now <= clock
      /\ madeAt[proofReq[q].proof] + Window >= proofReq[q].now

\* A use is remembered until the window from the instant its request read is over.
UsesRemembered ==
  \A p \in Proofs : \A i \in DOMAIN uses[p] :
    \/ forgetful
    \/ \E e \in seen : e.proof = p /\ e.at = uses[p][i].now
    \/ clock > uses[p][i].now + Window

ProofsInv == ProofsTyped /\ RequestsChecked /\ UsesRemembered /\ ProofUsedOnce

LEMMA WindowNat == Window \in Nat
BY ProofStoreAssumption DEF Window

LEMMA AcceptanceTyped ==
  ASSUME NEW s \in Seq(Acceptance), NEW i \in DOMAIN s
  PROVE  s[i] \in Acceptance /\ s[i].now \in Nat
<1>1. s[i] \in Acceptance
  OBVIOUS
<1> QED BY <1>1 DEF Acceptance

LEMMA UseProofKeeps ==
  ASSUME ProofsInv, NEW q \in ProofRequests, UseProof(q)
  PROVE  ProofsInv'
<1> USE WindowNat
<1> DEFINE p == proofReq[q].proof
           now == proofReq[q].now
           used == [now |-> now, at |-> clock]
<1>0. /\ ProofsTyped /\ clock' = clock /\ madeAt' = madeAt /\ forgetful' = forgetful
      /\ proofReq' = [proofReq EXCEPT ![q] = OverProofRequest]
      /\ p \in Proofs /\ now \in Nat /\ clock \in Nat /\ now <= clock
      /\ madeAt[p] \in Nat /\ madeAt[p] + Window >= now
  BY DEF ProofsInv, ProofsTyped, RequestsChecked, UseProof, ProofRequest
<1>1. KeptProofs(now) \in SUBSET [proof : Proofs, at : Nat] /\ KeptProofs(now) \subseteq seen
  BY <1>0 DEF KeptProofs, ProofsTyped
<1>2. \A e \in seen : e \in KeptProofs(now) \/ clock > e.at + Window
  BY <1>0 DEF KeptProofs, ProofsTyped
<1>3. /\ proofReq' \in [ProofRequests -> ProofRequest]
      /\ RequestsChecked'
  <2>1. OverProofRequest \in ProofRequest /\ OverProofRequest.step = "over"
    BY DEF OverProofRequest, IdleProofRequest, ProofRequest
  <2> QED BY <1>0, <2>1 DEF ProofsInv, ProofsTyped, RequestsChecked
<1>4. CASE seen' = KeptProofs(now) /\ UNCHANGED uses
  <2>1. ProofsTyped'
    BY <1>0, <1>1, <1>3, <1>4 DEF ProofsTyped
  <2>2. UsesRemembered'
    BY <1>0, <1>2, <1>4 DEF UsesRemembered, ProofsInv, ProofsTyped
  <2>3. ProofUsedOnce'
    BY <1>0, <1>4 DEF ProofUsedOnce, ProofsInv
  <2> QED BY <1>3, <2>1, <2>2, <2>3 DEF ProofsInv
<1>5. CASE /\ \A e \in KeptProofs(now) : e.proof # p
           /\ seen' = KeptProofs(now) \cup {[proof |-> p, at |-> now]}
           /\ uses' = [uses EXCEPT ![p] = Append(@, used)]
  <2>0. /\ [proof |-> p, at |-> now] \in [proof : Proofs, at : Nat]
        /\ used \in Acceptance /\ used.now = now /\ used.at = clock
    BY <1>0 DEF Acceptance
  <2>1. /\ \A r \in Proofs : uses[r] \in Seq(Acceptance)
        /\ Append(uses[p], used) \in Seq(Acceptance)
        /\ \A r \in Proofs : uses'[r] = IF r = p THEN Append(uses[p], used) ELSE uses[r]
    BY <1>0, <1>5, <2>0 DEF ProofsTyped
  <2>2. ProofsTyped'
    <3>1. uses' \in [Proofs -> Seq(Acceptance)]
      BY <1>0, <1>5, <2>1 DEF ProofsTyped
    <3>2. seen' \in SUBSET [proof : Proofs, at : Nat]
      BY <1>1, <1>5, <2>0
    <3> QED BY <1>0, <1>3, <3>1, <3>2 DEF ProofsTyped
  \* The acceptances are those there were, and the new one at the end.
  <2>3. ASSUME NEW r \in Proofs, NEW i \in DOMAIN uses'[r]
        PROVE  /\ uses'[r][i] \in Acceptance
               /\ \/ i \in DOMAIN uses[r] /\ uses'[r][i] = uses[r][i]
                  \/ /\ r = p /\ uses'[r][i] = used
                     /\ i = Len(uses[r]) + 1 /\ \A k \in DOMAIN uses[r] : k < i
    <3>1. CASE r # p
      <4>1. uses'[r] = uses[r] /\ uses[r] \in Seq(Acceptance) /\ i \in DOMAIN uses[r]
        BY <2>1, <2>3, <3>1
      <4>2. uses[r][i] \in Acceptance
        BY <4>1, AcceptanceTyped
      <4> QED BY <4>1, <4>2
    <3>2. CASE r = p
      <4> DEFINE s == uses[p]
      <4>1. s \in Seq(Acceptance) /\ uses'[r] = Append(s, used)
        BY <1>0, <2>1, <3>2
      <4>2. /\ Len(s) \in Nat /\ DOMAIN s = 1..Len(s) /\ DOMAIN uses'[r] = 1..(Len(s) + 1)
            /\ uses'[r][Len(s) + 1] = used
            /\ \A k \in 1..Len(s) : uses'[r][k] = s[k] /\ s[k] \in Acceptance
        BY <2>0, <4>1
      <4> HIDE DEF s
      <4>3. i \in 1..Len(s) \/ i = Len(s) + 1
        BY <2>3, <4>2
      <4>4. \A k \in DOMAIN s : k < Len(s) + 1
        BY <4>2
      <4> QED BY <2>0, <3>2, <4>2, <4>3, <4>4 DEF s
    <3> QED BY <3>1, <3>2
  <2>4. ASSUME NEW r \in Proofs, NEW i \in DOMAIN uses[r]
        PROVE  forgetful \/ (\E e \in seen' : e.proof = r /\ e.at = uses[r][i].now)
                         \/ clock > uses[r][i].now + Window
    <3>1. forgetful \/ (\E e \in seen : e.proof = r /\ e.at = uses[r][i].now)
                    \/ clock > uses[r][i].now + Window
      BY <2>4 DEF ProofsInv, UsesRemembered
    <3>2. \A e \in seen : e \in seen' \/ clock > e.at + Window
      BY <1>2, <1>5
    <3> QED BY <3>1, <3>2
  <2>5. [proof |-> p, at |-> now] \in seen'
    BY <1>5
  <2>6. ASSUME NEW r \in Proofs, NEW i \in DOMAIN uses'[r]
        PROVE  forgetful \/ (\E e \in seen' : e.proof = r /\ e.at = uses'[r][i].now)
                         \/ clock > uses'[r][i].now + Window
    <3>1. CASE r = p /\ uses'[r][i] = used
      <4>1. [proof |-> p, at |-> now].proof = p /\ [proof |-> p, at |-> now].at = now
        OBVIOUS
      <4> QED BY <2>0, <2>5, <3>1, <4>1
    <3>2. CASE i \in DOMAIN uses[r] /\ uses'[r][i] = uses[r][i]
      BY <2>4, <3>2
    <3> QED BY <2>3, <2>6, <3>1, <3>2
  <2>7. UsesRemembered'
    BY <1>0, <2>6 DEF UsesRemembered
  <2>8. ASSUME NEW r \in Proofs, NEW i \in DOMAIN uses'[r], NEW j \in DOMAIN uses'[r], i < j
        PROVE  \/ forgetful
               \/ /\ uses'[r][i].now + Window < uses'[r][j].at
                  /\ uses'[r][i].now < madeAt[r] \/ uses'[r][j].now < uses'[r][j].at
    <3>1. CASE /\ i \in DOMAIN uses[r] /\ uses'[r][i] = uses[r][i]
               /\ j \in DOMAIN uses[r] /\ uses'[r][j] = uses[r][j]
      BY <2>8, <3>1 DEF ProofsInv, ProofUsedOnce
    <3>2. CASE i = Len(uses[r]) + 1 /\ \A k \in DOMAIN uses[r] : k < i
      <4>1. Len(uses[r]) \in Nat /\ j \in Nat
        <5>1. uses[r] \in Seq(Acceptance) /\ uses'[r] \in Seq(Acceptance)
          BY <2>1
        <5> QED BY <5>1, <2>8
      <4>2. j = Len(uses[r]) + 1 \/ j < i
        BY <2>3, <2>8, <3>2
      <4> QED BY <2>8, <3>2, <4>1, <4>2
    <3>3. CASE /\ i \in DOMAIN uses[r] /\ uses'[r][i] = uses[r][i]
               /\ r = p /\ uses'[r][j] = used
      <4>1. forgetful \/ clock > uses[r][i].now + Window
        <5>1. forgetful \/ (\E e \in seen : e.proof = r /\ e.at = uses[r][i].now)
                        \/ clock > uses[r][i].now + Window
          BY <3>3 DEF ProofsInv, UsesRemembered
        <5> QED BY <1>2, <1>5, <3>3, <5>1
      <4>2. uses[r][i].now \in Nat
        BY <2>1, <3>3, AcceptanceTyped
      <4> QED BY <1>0, <2>0, <3>3, <4>1, <4>2
    <3> QED BY <2>3, <2>8, <3>1, <3>2, <3>3
  <2>9. ProofUsedOnce'
    BY <1>0, <2>8 DEF ProofUsedOnce
  <2> QED BY <1>3, <2>2, <2>7, <2>9 DEF ProofsInv
<1> QED BY <1>4, <1>5 DEF UseProof

LEMMA ProofsStep == ProofsInv /\ [ProofsNext]_proofVars => ProofsInv'
<1> SUFFICES ASSUME ProofsInv, [ProofsNext]_proofVars PROVE ProofsInv'
  OBVIOUS
<1> USE WindowNat
<1>1. ASSUME NEW q \in ProofRequests, NEW p \in Proofs, CheckProof(q, p) PROVE ProofsInv'
  <2>1. /\ clock' = clock /\ madeAt' = madeAt /\ seen' = seen /\ uses' = uses /\ forgetful' = forgetful
        /\ proofReq' = [proofReq EXCEPT ![q] = [step |-> "use", proof |-> p, now |-> clock]]
        /\ madeAt[p] + Window >= clock /\ clock \in Nat
    BY <1>1 DEF CheckProof, ProofActive, ProofsInv, ProofsTyped
  <2>2. ProofsTyped'
    BY <2>1 DEF ProofsInv, ProofsTyped, ProofRequest
  <2>3. RequestsChecked'
    BY <2>1 DEF ProofsInv, ProofsTyped, RequestsChecked
  <2>4. UsesRemembered' /\ ProofUsedOnce'
    BY <2>1 DEF ProofsInv, UsesRemembered, ProofUsedOnce
  <2> QED BY <2>2, <2>3, <2>4 DEF ProofsInv
<1>2. CASE ClockTick
  <2>1. clock' = clock + 1 /\ UNCHANGED <<madeAt, seen, proofReq, uses, forgetful>>
    BY <1>2 DEF ClockTick
  <2>2. ProofsTyped' /\ clock \in Nat /\ uses \in [Proofs -> Seq(Acceptance)]
    BY <2>1 DEF ProofsInv, ProofsTyped
  <2>3. UsesRemembered'
    <3>1. \A p \in Proofs : \A i \in DOMAIN uses[p] : uses[p][i].now \in Nat
      BY <2>2, AcceptanceTyped
    <3> QED BY <2>1, <2>2, <3>1 DEF ProofsInv, UsesRemembered
  <2>4. RequestsChecked'
    BY <2>1, <2>2 DEF ProofsInv, ProofsTyped, RequestsChecked, ProofRequest
  <2>5. ProofUsedOnce'
    BY <2>1 DEF ProofsInv, ProofUsedOnce
  <2> QED BY <2>2, <2>3, <2>4, <2>5 DEF ProofsInv
<1>3. CASE ForgetProofs
  <2>1. OverProofRequest \in ProofRequest /\ OverProofRequest.step = "over"
    BY DEF OverProofRequest, IdleProofRequest, ProofRequest
  <2>2. ProofsTyped' /\ RequestsChecked'
    BY <1>3, <2>1 DEF ForgetProofs, ProofsInv, ProofsTyped, RequestsChecked
  <2>3. UsesRemembered' /\ ProofUsedOnce'
    BY <1>3 DEF ForgetProofs, UsesRemembered, ProofUsedOnce
  <2> QED BY <2>2, <2>3 DEF ProofsInv
<1>4. CASE UNCHANGED proofVars
  BY <1>4 DEF proofVars, ProofsInv, ProofsTyped, RequestsChecked, UsesRemembered, ProofUsedOnce
<1>5. ASSUME NEW q \in ProofRequests, UseProof(q) PROVE ProofsInv'
  BY <1>5, UseProofKeeps
<1> QED BY <1>1, <1>2, <1>3, <1>4, <1>5 DEF ProofsNext

\* verifyDPoPProof and proofStore.use: for every lifetime, skew, clock and any number
\* of requests, a proof is accepted twice only across a restart, or once the window
\* from its first use is over, because its client's clock ran ahead or because the
\* second request was overtaken on its way to the store.
THEOREM ProofsOnce == ProofsSpec => []ProofUsedOnce
<1>1. ProofsInit => ProofsInv
  <2> SUFFICES ASSUME ProofsInit PROVE ProofsInv
    OBVIOUS
  <2>1. IdleProofRequest \in ProofRequest /\ IdleProofRequest.step = "idle"
    BY DEF IdleProofRequest, ProofRequest
  <2>2. ProofsTyped /\ RequestsChecked
    BY ProofStoreAssumption, <2>1 DEF ProofsInit, ProofsTyped, RequestsChecked
  <2>3. UsesRemembered /\ ProofUsedOnce
    BY DEF ProofsInit, UsesRemembered, ProofUsedOnce
  <2> QED BY <2>2, <2>3 DEF ProofsInv
<1>2. ProofsInv => ProofUsedOnce
  BY DEF ProofsInv
<1> QED BY <1>1, <1>2, ProofsStep, PTL DEF ProofsSpec

-----------------------------------------------------------------------------
(* Dynamic client registration *)

\* An update or a creation that still has the client's token to deliver.
Delivers(q, c) ==
  /\ regReq[q].client = c
  /\ \/ regReq[q].step = "answer" /\ regReq[q].token = current[c]
     \/ regReq[q].step = "mint" /\ regReq[q].kind = "create"

Manageable ==
  \A c \in clientRows :
    \/ c \in stranded
    \/ current[c] \in handed[c]
    \/ \E q \in RegRequests : Delivers(q, c)

RegTyped ==
  /\ clientRows \subseteq RegClients /\ clientRows \cap notYet = {}
  /\ current \in [RegClients -> RegTokens \cup {NoToken}]
  /\ handed \in [RegClients -> SUBSET RegTokens]
  /\ regReq \in [RegRequests -> RegRequest]
  /\ \A q \in RegRequests :
       /\ regReq[q].step \notin {"idle", "over"} => regReq[q].client \in RegClients \ notYet
       /\ regReq[q].step = "answer" => regReq[q].token \in RegTokens
       /\ regReq[q].step = "holds" => regReq[q].kind # "create"
       /\ regReq[q].step = "forget" => regReq[q].client \notin clientRows

RegInv == RegTyped /\ Manageable

LEMMA RegRequestTypes == IdleRegRequest \in RegRequest /\ OverRegRequest \in RegRequest
                         /\ IdleRegRequest.step = "idle" /\ OverRegRequest.step = "over"
BY DEF IdleRegRequest, OverRegRequest, RegRequest, RegSteps

\* A step that touches neither rows nor tokens, of a request that delivers nothing.
LEMMA RegQuiet ==
  ASSUME RegInv, NEW q \in RegRequests, NEW r \in RegRequest, regReq' = [regReq EXCEPT ![q] = r],
         UNCHANGED <<clientRows, notYet, current, handed, stranded>>,
         ~(\E c \in RegClients : Delivers(q, c)),
         r.step \notin {"idle", "over"} => r.client \in RegClients \ notYet,
         r.step \notin {"forget", "answer"}, r.step = "holds" => r.kind # "create"
  PROVE  RegInv'
<1>1. RegTyped'
  BY DEF RegInv, RegTyped
<1>2. Manageable'
  BY DEF RegInv, RegTyped, Manageable, Delivers
<1> QED BY <1>1, <1>2 DEF RegInv

LEMMA RegisterKeeps ==
  ASSUME RegInv, NEW q \in RegRequests, RegisterClient(q)
  PROVE  RegInv'
<1>1. PICK c \in RegClients \cap notYet :
        /\ clientRows' = clientRows \cup {c} /\ notYet' = notYet \ {c}
        /\ regReq' = [regReq EXCEPT ![q] = [IdleRegRequest EXCEPT !.step = "mint", !.kind = "create",
                                                                  !.client = c]]
  BY DEF RegisterClient
<1> DEFINE r == [IdleRegRequest EXCEPT !.step = "mint", !.kind = "create", !.client = c]
<1>2. r \in RegRequest /\ r.step = "mint" /\ r.kind = "create" /\ r.client = c
  BY DEF IdleRegRequest, RegRequest, RegSteps
<1> HIDE DEF r
<1>3. regReq' = [regReq EXCEPT ![q] = r] /\ UNCHANGED <<current, handed, stranded>> /\ regReq[q].step = "idle"
  BY <1>1 DEF RegisterClient, r
<1>4. RegTyped'
  BY <1>1, <1>2, <1>3 DEF RegInv, RegTyped
<1>5. regReq'[q] = r /\ \A p \in RegRequests \ {q} : regReq'[p] = regReq[p]
  BY <1>3 DEF RegInv, RegTyped
<1>6. Manageable'
  BY <1>1, <1>2, <1>3, <1>5 DEF RegInv, Manageable, Delivers
<1> QED BY <1>4, <1>6 DEF RegInv

LEMMA MintKeeps ==
  ASSUME RegInv, NEW q \in RegRequests, MintRegistrationToken(q)
  PROVE  RegInv'
<1> DEFINE c == regReq[q].client
<1>1. PICK t \in RegTokens \cap notYet :
        /\ current' = [current EXCEPT ![c] = t] /\ notYet' = notYet \ {t}
        /\ regReq' = [regReq EXCEPT ![q].step = "answer", ![q].token = t]
  BY DEF MintRegistrationToken
<1>2. regReq[q].step = "mint" /\ UNCHANGED <<clientRows, handed, stranded>> /\ c \in RegClients \ notYet
  BY DEF MintRegistrationToken, RegInv, RegTyped
<1> DEFINE r == [regReq[q] EXCEPT !.step = "answer", !.token = t]
<1>3. r \in RegRequest /\ r.step = "answer" /\ r.token = t /\ r.client = c
  BY DEF RegInv, RegTyped, RegRequest, RegSteps
<1>4. regReq' = [regReq EXCEPT ![q] = r]
  BY <1>1
<1> HIDE DEF r
<1>5. regReq'[q] = r /\ \A p \in RegRequests \ {q} : regReq'[p] = regReq[p]
  BY <1>4 DEF RegInv, RegTyped
<1>6. RegTyped'
  BY <1>1, <1>2, <1>3, <1>4, <1>5 DEF RegInv, RegTyped
<1>7. ASSUME NEW d \in clientRows'
      PROVE  d \in stranded' \/ current'[d] \in handed'[d] \/ \E p \in RegRequests : Delivers(p, d)'
  <2>1. d \in RegClients
    BY <1>2, <1>7 DEF RegInv, RegTyped
  <2>2. CASE d = c
    BY <1>1, <1>2, <1>3, <1>5, <2>2 DEF Delivers, RegInv, RegTyped
  <2>3. CASE d # c
    <3>1. current'[d] = current[d]
      BY <1>1, <2>1, <2>3 DEF RegInv, RegTyped
    <3>2. \A p \in RegRequests : Delivers(p, d) => Delivers(p, d)'
      BY <1>3, <1>5, <2>3, <3>1 DEF Delivers
    <3> QED BY <1>2, <1>7, <3>1, <3>2 DEF RegInv, Manageable
  <2> QED BY <2>2, <2>3
<1> QED BY <1>6, <1>7 DEF RegInv, Manageable

LEMMA AnswerKeeps ==
  ASSUME RegInv, NEW q \in RegRequests, AnswerRegistration(q)
  PROVE  RegInv'
<1> DEFINE r == regReq[q]
<1>1. /\ r.step = "answer" /\ handed' = [handed EXCEPT ![r.client] = @ \cup {r.token}]
      /\ regReq' = [regReq EXCEPT ![q] = OverRegRequest]
      /\ UNCHANGED <<clientRows, notYet, current, stranded>> /\ r.client \in RegClients
  BY DEF AnswerRegistration, RegRequestEnds, RegInv, RegTyped
<1>2. regReq'[q] = OverRegRequest /\ \A p \in RegRequests \ {q} : regReq'[p] = regReq[p]
  BY <1>1 DEF RegInv, RegTyped
<1>3. RegTyped'
  BY <1>1, <1>2, RegRequestTypes DEF RegInv, RegTyped
<1>4. \A d \in RegClients : handed'[d] = IF d = r.client THEN handed[d] \cup {r.token} ELSE handed[d]
  BY <1>1 DEF RegInv, RegTyped
<1>5. ASSUME NEW d \in clientRows, NEW p \in RegRequests, Delivers(p, d)
      PROVE  current'[d] \in handed'[d] \/ Delivers(p, d)'
  <2>1. d \in RegClients
    BY DEF RegInv, RegTyped
  <2>2. CASE p = q
    BY <1>1, <1>4, <1>5, <2>1, <2>2 DEF Delivers
  <2>3. CASE p # q
    BY <1>1, <1>2, <1>5, <2>3 DEF Delivers
  <2> QED BY <2>2, <2>3
<1>6. \A d \in clientRows : current[d] \in handed[d] => current'[d] \in handed'[d]
  BY <1>1, <1>4 DEF RegInv, RegTyped
<1>7. Manageable'
  BY <1>1, <1>5, <1>6 DEF RegInv, Manageable
<1> QED BY <1>3, <1>7 DEF RegInv

\* A request that ends without an answer: if it still had a token to deliver, its
\* client is stranded or has gone.
LEMMA RegEnds ==
  ASSUME RegInv, NEW q \in RegRequests, RegRequestEnds(q), UNCHANGED <<notYet, handed>>,
         current' \in [RegClients -> RegTokens \cup {NoToken}],
         clientRows' \subseteq clientRows, stranded \subseteq stranded',
         \A c \in clientRows' : c \in stranded' \/ (current'[c] = current[c] /\ ~Delivers(q, c))
  PROVE  RegInv'
<1>1. regReq' = [regReq EXCEPT ![q] = OverRegRequest]
  BY DEF RegRequestEnds
<1>2. regReq'[q] = OverRegRequest /\ \A p \in RegRequests \ {q} : regReq'[p] = regReq[p]
  BY <1>1 DEF RegInv, RegTyped
<1>3. RegTyped'
  BY <1>1, <1>2, RegRequestTypes DEF RegInv, RegTyped
<1>4. Manageable'
  BY <1>2 DEF RegInv, Manageable, Delivers
<1> QED BY <1>3, <1>4 DEF RegInv

LEMMA CutKeeps ==
  ASSUME RegInv, NEW q \in RegRequests, CutRegistration(q)
  PROVE  RegInv'
<1> DEFINE r == regReq[q]
<1>1. /\ stranded' = IF r.kind = "create" \/ (r.step = "answer" /\ current[r.client] = r.token)
                     THEN stranded \cup {r.client} ELSE stranded
      /\ RegRequestEnds(q) /\ UNCHANGED <<clientRows, notYet, current, handed>>
  BY DEF CutRegistration
<1>2. \A c : Delivers(q, c) => c \in stranded'
  BY <1>1 DEF Delivers
<1>3. current' \in [RegClients -> RegTokens \cup {NoToken}]
  BY <1>1 DEF RegInv, RegTyped
<1> QED BY <1>1, <1>2, <1>3, RegEnds

LEMMA HolderStepsKeep ==
  ASSUME RegInv, NEW q \in RegRequests, FindRegistered(q) \/ CheckHolder(q) \/ UpdateRegistered(q)
  PROVE  RegInv'
<1> DEFINE r == regReq[q]
<1>0. r \in RegRequest /\ UNCHANGED <<clientRows, notYet, current, handed, stranded>>
      /\ clientRows \subseteq RegClients \ notYet
  BY DEF FindRegistered, CheckHolder, UpdateRegistered, RegInv, RegTyped
<1>1. CASE FindRegistered(q)
  <2>1. PICK c \in clientRows, kind \in {"read", "update", "delete"} :
          \E t \in handed[c] \cup {NoToken} :
            regReq' = [regReq EXCEPT ![q] = [step |-> "holds", kind |-> kind, client |-> c, token |-> t]]
    BY <1>1 DEF FindRegistered
  <2>2. PICK t \in handed[c] \cup {NoToken} :
          regReq' = [regReq EXCEPT ![q] = [step |-> "holds", kind |-> kind, client |-> c, token |-> t]]
    BY <2>1
  <2> DEFINE n == [step |-> "holds", kind |-> kind, client |-> c, token |-> t]
  <2>3. n \in RegRequest /\ n.step = "holds" /\ n.kind # "create" /\ n.client \in RegClients \ notYet
    BY <1>0 DEF RegInv, RegTyped, RegRequest, RegSteps
  <2>4. regReq' = [regReq EXCEPT ![q] = n]
    BY <2>2
  <2> HIDE DEF n
  <2>5. ~(\E d \in RegClients : Delivers(q, d))
    BY <1>1 DEF FindRegistered, Delivers
  <2> QED BY <1>0, <2>3, <2>4, <2>5, RegQuiet
<1>2. CASE CheckHolder(q) \/ UpdateRegistered(q)
  <2>1. r.step \in {"holds", "update"}
    BY <1>2 DEF CheckHolder, UpdateRegistered
  <2>2. ~(\E d \in RegClients : Delivers(q, d)) /\ r.client \in RegClients \ notYet
    BY <2>1 DEF Delivers, RegInv, RegTyped
  <2>3. CASE RegRequestEnds(q)
    <3>1. current' \in [RegClients -> RegTokens \cup {NoToken}]
      BY <1>0 DEF RegInv, RegTyped
    <3>2. \A c \in clientRows' : current'[c] = current[c] /\ ~Delivers(q, c)
      BY <1>0, <2>2
    <3> QED BY <1>0, <2>3, <3>1, <3>2, RegEnds
  <2>4. ASSUME NEW n \in {"update", "delete", "mint"}, regReq' = [regReq EXCEPT ![q].step = n]
        PROVE  RegInv'
    <3> DEFINE m == [r EXCEPT !.step = n]
    <3>1. m \in RegRequest /\ m.step = n /\ m.client = r.client /\ regReq' = [regReq EXCEPT ![q] = m]
      BY <1>0, <2>4 DEF RegRequest, RegSteps
    <3> HIDE DEF m
    <3> QED BY <1>0, <2>2, <3>1, RegQuiet
  <2>5. CASE CheckHolder(q)
    <3>1. r.kind # "read" => r.kind \in {"create", "update", "delete"}
      BY <1>0 DEF RegRequest
    <3>2. r.kind # "create"
      BY <2>5 DEF CheckHolder, RegInv, RegTyped
    <3> QED BY <2>3, <2>4, <2>5, <3>1, <3>2 DEF CheckHolder
  <2>6. CASE UpdateRegistered(q)
    BY <2>3, <2>4, <2>6 DEF UpdateRegistered
  <2> QED BY <1>2, <2>5, <2>6
<1> QED BY <1>1, <1>2
LEMMA DeleteRegisteredKeeps ==
  ASSUME RegInv, NEW q \in RegRequests, DeleteRegistered(q) \/ ForgetToken(q)
  PROVE  RegInv'
<1> DEFINE r == regReq[q]
<1>1. CASE ForgetToken(q)
  <2>1. /\ r.client \in RegClients /\ r.client \notin clientRows /\ current' = [current EXCEPT ![r.client] = NoToken]
        /\ RegRequestEnds(q) /\ UNCHANGED <<clientRows, notYet, handed, stranded>>
    BY <1>1 DEF ForgetToken, RegInv, RegTyped
  <2>2. current' \in [RegClients -> RegTokens \cup {NoToken}]
    BY <2>1 DEF RegInv, RegTyped
  <2>3. \A c \in clientRows : current'[c] = current[c] /\ ~Delivers(q, c)
    BY <1>1, <2>1 DEF RegInv, RegTyped, Delivers, ForgetToken
  <2> QED BY <2>1, <2>2, <2>3, RegEnds
<1>2. CASE DeleteRegistered(q)
  <2>1. /\ r.step = "delete" /\ clientRows' = clientRows \ {r.client}
        /\ UNCHANGED <<notYet, current, handed, stranded>> /\ r.client \in RegClients \ notYet /\ r \in RegRequest
    BY <1>2 DEF DeleteRegistered, RegInv, RegTyped
  <2>2. \A c : ~Delivers(q, c)
    BY <2>1 DEF Delivers
  <2>3. CASE RegRequestEnds(q)
    <3>1. current' \in [RegClients -> RegTokens \cup {NoToken}]
      BY <2>1 DEF RegInv, RegTyped
    <3> QED BY <2>1, <2>2, <2>3, <3>1, RegEnds
  <2>4. CASE regReq' = [regReq EXCEPT ![q].step = "forget"]
    <3> DEFINE m == [r EXCEPT !.step = "forget"]
    <3>1. m \in RegRequest /\ m.step = "forget" /\ m.client = r.client /\ regReq' = [regReq EXCEPT ![q] = m]
      BY <2>1, <2>4 DEF RegRequest, RegSteps
    <3> HIDE DEF m
    <3>2. regReq'[q] = m /\ \A p \in RegRequests \ {q} : regReq'[p] = regReq[p]
      BY <3>1 DEF RegInv, RegTyped
    <3>3. RegTyped'
      BY <2>1, <3>1, <3>2 DEF RegInv, RegTyped
    <3>4. Manageable'
      BY <2>1, <2>2, <3>2 DEF RegInv, Manageable, Delivers
    <3> QED BY <3>3, <3>4 DEF RegInv
  <2> QED BY <1>2, <2>3, <2>4 DEF DeleteRegistered
<1> QED BY <1>1, <1>2

LEMMA RestartKeeps ==
  ASSUME RegInv, RestartRegistration
  PROVE  RegInv'
<1>1. /\ current' = [c \in RegClients |-> NoToken] /\ stranded' = stranded \cup clientRows
      /\ UNCHANGED <<clientRows, notYet, handed>>
      /\ \A q \in RegRequests : regReq'[q] \in {IdleRegRequest, OverRegRequest}
      /\ regReq' \in [RegRequests -> RegRequest]
  BY RegRequestTypes DEF RestartRegistration
<1>2. RegTyped'
  BY <1>1, RegRequestTypes DEF RegInv, RegTyped
<1>3. Manageable'
  BY <1>1 DEF Manageable
<1> QED BY <1>2, <1>3 DEF RegInv

LEMMA RegStep == RegInv /\ [RegistrationNext]_regVars => RegInv'
<1> SUFFICES ASSUME RegInv, [RegistrationNext]_regVars PROVE RegInv'
  OBVIOUS
<1>1. CASE UNCHANGED regVars
  BY <1>1 DEF regVars, RegInv, RegTyped, Manageable, Delivers
<1>2. CASE RegistrationNext
  BY <1>2, RegisterKeeps, HolderStepsKeep, MintKeeps, AnswerKeeps, DeleteRegisteredKeeps, CutKeeps, RestartKeeps
     DEF RegistrationNext
<1> QED BY <1>1, <1>2

\* registerClient, updateRegisteredClient and deleteRegisteredClient: however many of
\* them overlap or fail, a client that is there can be managed by a token somebody
\* holds, is being served, or lost its token to a restart or a lost answer.
THEOREM HolderKept == RegistrationSpec => []HolderKeepsAccess
<1>1. RegistrationInit => RegInv
  BY RegRequestTypes DEF RegistrationInit, RegInv, RegTyped, Manageable
<1>2. RegInv => HolderKeepsAccess
  BY DEF RegInv, Manageable, Delivers, HolderKeepsAccess
<1> QED BY <1>1, <1>2, RegStep, PTL DEF RegistrationSpec
-----------------------------------------------------------------------------
(* User rows *)

UserRequest ==
  [step : UserSteps, user : People \cup {NoUser}, row : UserRow, creds : Seq(BOOLEAN),
   form : Forms \cup {"none"}, mode : {"inline", "reset", "form"}, temporary : BOOLEAN, late : BOOLEAN]

UsersTyped ==
  /\ known \in SUBSET People /\ fresh \in SUBSET (People \ known)
  /\ userRow \in [People -> UserRow]
  /\ password \in [People -> Passwords]
  /\ userReq \in [UserRequests -> UserRequest]
  /\ said \in [People -> BOOLEAN]
  /\ lost \in SUBSET (People \cup {NoUser})

\* What the steps of one request make of its record.
Shaped(r) ==
  /\ r.temporary => r.step \in {"credentials", "actions"} /\ r.mode # "form"
  /\ r.step = "credentials" /\ r.mode # "inline" => Len(r.creds) \in {0, 1}
  /\ r.step = "credentials" /\ r.mode = "form" => r.creds = <<>> \/ Head(r.creds) = FALSE
  /\ r.step = "row" => r.mode = "inline"
  /\ r.step = "profile" => r.form = "UPDATE_PROFILE"
  /\ r.step = "actions" => r.mode = "reset" \/ r.temporary

\* It has set a permanent password and will take UPDATE_PASSWORD from the row.
Cleared(r) ==
  \/ r.step = "actions" /\ ~r.temporary
  \/ r.step = "credentials" /\ r.creds = <<>> /\ r.mode # "inline" /\ ~r.temporary
  \/ r.step = "clear" /\ r.form = "UPDATE_PASSWORD"

\* A request that has set a temporary password has yet to write the row.
Announced(u) == \E p \in UserRequests : userReq[p].user = u /\ userReq[p].temporary

RequestKnows(q) ==
  LET r == userReq[q] IN
  /\ Shaped(r)
  /\ r.user \notin fresh
  /\ r.user \in known /\ ~r.late => r.row = userRow[r.user]
  /\ r.user \in known \ lost /\ ~r.late /\ Cleared(r) /\ password[r.user] = "temporary"
       => Announced(r.user)

UserSound(u) ==
  /\ u \notin lost => userRow[u].enabled = said[u]
  /\ u \notin lost /\ password[u] = "temporary" => "UPDATE_PASSWORD" \in userRow[u].actions \/ Announced(u)

UsersInv ==
  /\ UsersTyped
  /\ \A u \in People \ known : password[u] = "none"
  /\ \A u \in known : UserSound(u)
  /\ \A q \in UserRequests : RequestKnows(q)

LEMMA UserRequestTypes ==
  /\ IdleUserRequest \in UserRequest /\ OverUserRequest \in UserRequest
  /\ NoRow \in UserRow
  /\ OverUserRequest.user = NoUser /\ OverUserRequest.temporary = FALSE /\ OverUserRequest.step = "over"
  /\ Shaped(OverUserRequest) /\ ~Cleared(OverUserRequest)
<1>1. NoRow \in UserRow
  BY DEF NoRow, UserRow
<1>2. IdleUserRequest \in UserRequest
  BY <1>1 DEF IdleUserRequest, UserRequest, UserSteps
<1>3. OverUserRequest \in UserRequest
  BY <1>2 DEF OverUserRequest, UserRequest, UserSteps
<1>4. OverUserRequest.user = NoUser /\ OverUserRequest.temporary = FALSE /\ OverUserRequest.step = "over"
  BY DEF OverUserRequest, IdleUserRequest
<1>5. Shaped(OverUserRequest) /\ ~Cleared(OverUserRequest)
  BY <1>4 DEF Shaped, Cleared
<1> QED BY <1>1, <1>2, <1>3, <1>4, <1>5

LEMMA UserRequestTyped ==
  ASSUME UsersInv, NEW q \in UserRequests
  PROVE  /\ userReq[q] \in UserRequest /\ userReq[q].step \in UserSteps
         /\ userReq[q].user \in People \cup {NoUser} /\ userReq[q].row \in UserRow
         /\ userReq[q].creds \in Seq(BOOLEAN) /\ userReq[q].temporary \in BOOLEAN
         /\ userReq[q].late \in BOOLEAN /\ userReq[q].form \in Forms \cup {"none"}
         /\ userReq[q].mode \in {"inline", "reset", "form"}
BY DEF UsersInv, UsersTyped, UserRequest

\* A step of request q that writes neither a row nor a password.
LEMMA RequestStepKeeps ==
  ASSUME UsersInv, NEW q \in UserRequests, NEW next \in UserRequest,
         userReq' = [userReq EXCEPT ![q] = next],
         UNCHANGED <<known, userRow, password, fresh, said>>,
         lost \subseteq lost', lost' \in SUBSET (People \cup {NoUser}),
         Shaped(next), next.user \notin fresh,
         next.user \in known /\ ~next.late => next.row = userRow[next.user],
         next.user \in known /\ Cleared(next)
           => next.user = userReq[q].user /\ next.late = userReq[q].late /\ Cleared(userReq[q]),
         userReq[q].temporary
           => \/ userReq[q].user \in lost' \/ userReq[q].user \notin known
              \/ next.temporary /\ next.user = userReq[q].user
  PROVE  UsersInv'
<1>1. UsersTyped'
  BY DEF UsersInv, UsersTyped
<1>2. \A p \in UserRequests : userReq'[p] = IF p = q THEN next ELSE userReq[p]
  BY DEF UsersInv, UsersTyped
<1>3. ASSUME NEW u \in known, u \notin lost', Announced(u) PROVE Announced(u)'
  BY <1>2, <1>3 DEF Announced
<1>4. ASSUME NEW u \in known PROVE UserSound(u)'
  BY <1>3 DEF UsersInv, UserSound
<1>5. ASSUME NEW p \in UserRequests, p # q PROVE RequestKnows(p)'
  BY <1>2, <1>3, <1>5 DEF UsersInv, RequestKnows
<1>6. RequestKnows(q)'
  BY <1>2, <1>3 DEF UsersInv, RequestKnows
<1> QED BY <1>1, <1>4, <1>5, <1>6 DEF UsersInv

\* A step of request q that writes a row and goes on as `next`.
LEMMA RowWriteKeeps ==
  ASSUME UsersInv, NEW q \in UserRequests, NEW row \in UserRow, NEW next \in UserRequest,
         UpdateUserRow(q, row, next),
         UNCHANGED <<known, password, fresh>>, said' \in [People -> BOOLEAN],
         \A u \in People : u # userReq[q].user => said'[u] = said[u],
         \/ userReq[q].late \/ userReq[q].user \notin known \ lost
         \/ row.enabled = said'[userReq[q].user],
         Shaped(next), ~Cleared(next), next.temporary = FALSE,
         next.user = NoUser \/ (next.user = userReq[q].user /\ next.row = row),
         \/ "UPDATE_PASSWORD" \in row.actions
         \/ /\ ~userReq[q].temporary
            /\ Cleared(userReq[q]) \/ "UPDATE_PASSWORD" \notin userReq[q].row.actions
  PROVE  UsersInv'
<1>0. PICK u0 : u0 = userReq[q].user
  OBVIOUS
<1> USE <1>0
<1>1. CASE u0 \notin known
  <2>1. userReq' = [userReq EXCEPT ![q] = OverUserRequest] /\ UNCHANGED <<userRow, lost>>
    BY <1>1 DEF UpdateUserRow, UserRequestEnds
  <2>2. \A p \in UserRequests : userReq'[p] = IF p = q THEN OverUserRequest ELSE userReq[p]
    BY <2>1 DEF UsersInv, UsersTyped
  <2>3. UsersTyped'
    BY <2>1, UserRequestTypes DEF UsersInv, UsersTyped
  <2>4. ASSUME NEW u \in known, Announced(u) PROVE Announced(u)'
    BY <1>1, <2>2, <2>4 DEF Announced
  <2>5. ASSUME NEW u \in known PROVE UserSound(u)'
    <3>1. u \in People /\ said'[u] = said[u]
      BY <1>1 DEF UsersInv, UsersTyped
    <3> QED BY <2>1, <2>4, <3>1 DEF UsersInv, UserSound
  <2>6. ASSUME NEW p \in UserRequests PROVE RequestKnows(p)'
    <3>1. CASE p = q
      BY <2>2, <3>1, UserRequestTypes, UserRowsAssumption DEF UsersInv, UsersTyped, RequestKnows
    <3>2. CASE p # q
      BY <2>1, <2>2, <2>4, <3>2 DEF UsersInv, RequestKnows
    <3> QED BY <3>1, <3>2
  <2> QED BY <2>3, <2>5, <2>6 DEF UsersInv
<1>2. CASE u0 \in known
  <2>1. /\ userRow' = [userRow EXCEPT ![u0] = row]
        /\ lost' = IF userReq[q].late THEN lost \cup {u0} ELSE lost
        /\ userReq' = [p \in UserRequests |->
                         IF p = q THEN next
                         ELSE IF userReq[p].user = u0 THEN [userReq[p] EXCEPT !.late = TRUE]
                         ELSE userReq[p]]
    BY <1>2 DEF UpdateUserRow
  <2>2. ASSUME NEW p \in UserRequests, p # q
        PROVE  /\ userReq'[p] \in UserRequest
               /\ userReq[p].user # u0 => userReq'[p] = userReq[p]
               /\ userReq[p].user = u0 => userReq'[p] = [userReq[p] EXCEPT !.late = TRUE]
               /\ userReq'[p].user = userReq[p].user /\ userReq'[p].temporary = userReq[p].temporary
               /\ userReq'[p].step = userReq[p].step /\ userReq'[p].creds = userReq[p].creds
               /\ userReq'[p].mode = userReq[p].mode /\ userReq'[p].form = userReq[p].form
               /\ userReq[p].user = u0 => userReq'[p].late = TRUE
    BY <2>1, <2>2 DEF UsersInv, UsersTyped, UserRequest
  <2>3. userReq'[q] = next
    BY <2>1
  <2>4. UsersTyped'
    <3>1. userReq' \in [UserRequests -> UserRequest]
      BY <2>1, <2>2, <2>3
    <3>2. u0 \in People
      BY <1>2 DEF UsersInv, UsersTyped
    <3> QED BY <2>1, <3>1, <3>2 DEF UsersInv, UsersTyped
  <2>5. ASSUME NEW u \in known, u # u0, Announced(u) PROVE Announced(u)'
    BY <2>2, <2>5 DEF Announced
  <2>6. ASSUME NEW u \in known, u # u0 PROVE UserSound(u)'
    <3>1. u \in People /\ said'[u] = said[u] /\ userRow'[u] = userRow[u] /\ (u \in lost' <=> u \in lost)
      BY <2>1, <2>6 DEF UsersInv, UsersTyped
    <3> QED BY <2>5, <2>6, <3>1 DEF UsersInv, UserSound
  <2>7. UserSound(u0)'
    <3>1. SUFFICES ASSUME u0 \notin lost' PROVE UserSound(u0)'
      BY DEF UserSound
    <3>2. ~userReq[q].late /\ u0 \notin lost /\ userRow'[u0] = row /\ userReq[q].row = userRow[u0]
      BY <1>2, <2>1, <3>1, UserRequestTyped DEF UsersInv, UsersTyped, RequestKnows
    <3>3. ASSUME ~userReq[q].temporary, Announced(u0) PROVE Announced(u0)'
      BY <2>2, <3>3 DEF Announced
    <3>4. ASSUME password[u0] = "temporary", "UPDATE_PASSWORD" \notin row.actions PROVE Announced(u0)'
      <4>1. ~userReq[q].temporary /\ Announced(u0)
        BY <1>2, <3>2, <3>4 DEF UsersInv, RequestKnows, UserSound
      <4> QED BY <3>3, <4>1
    <3> QED BY <1>2, <3>2, <3>4 DEF UserSound
  <2>8. RequestKnows(q)'
    <3>1. next.user \notin fresh
      BY UserRowsAssumption DEF UsersInv, UsersTyped, RequestKnows
    <3>2. next.user \in known => next.row = userRow'[next.user]
      BY <2>1, UserRowsAssumption DEF UsersInv, UsersTyped
    <3> QED BY <2>3, <3>1, <3>2 DEF RequestKnows
  <2>9. ASSUME NEW p \in UserRequests, p # q PROVE RequestKnows(p)'
    <3>1. CASE userReq[p].user = u0
      <4>1. /\ userReq'[p].late = TRUE /\ userReq'[p].user = u0
            /\ userReq'[p].step = userReq[p].step /\ userReq'[p].temporary = userReq[p].temporary
            /\ userReq'[p].creds = userReq[p].creds /\ userReq'[p].mode = userReq[p].mode
            /\ userReq'[p].form = userReq[p].form
        BY <2>2, <2>9, <3>1
      <4>2. Shaped(userReq[p]) /\ u0 \notin fresh
        BY <3>1 DEF UsersInv, RequestKnows
      <4>3. Shaped(userReq'[p])
        BY <4>1, <4>2 DEF Shaped
      <4> QED BY <4>1, <4>2, <4>3 DEF RequestKnows
    <3>2. CASE userReq[p].user # u0
      <4>1. userReq'[p] = userReq[p] /\ RequestKnows(p)
        BY <2>2, <2>9, <3>2 DEF UsersInv
      <4>2. ASSUME userReq[p].user \in known
            PROVE  /\ userRow'[userReq[p].user] = userRow[userReq[p].user]
                   /\ userReq[p].user \in lost' <=> userReq[p].user \in lost
        BY <2>1, <3>2, <4>2 DEF UsersInv, UsersTyped
      <4> QED BY <2>5, <3>2, <4>1, <4>2 DEF RequestKnows
    <3> QED BY <3>1, <3>2
  <2>10. \A u \in known' : UserSound(u)'
    BY <2>6, <2>7
  <2>11. \A p \in UserRequests : RequestKnows(p)'
    BY <2>8, <2>9
  <2> QED BY <2>4, <2>10, <2>11 DEF UsersInv
<1> QED BY <1>1, <1>2

-----------------------------------------------------------------------------
(* The steps, one lemma for each kind *)

LEMMA OneCredential ==
  ASSUME NEW t \in BOOLEAN
  PROVE  \E c \in Seq(BOOLEAN) : c = <<t>> /\ Len(c) = 1 /\ Head(c) = t /\ c # <<>>
<1>1. <<t>> \in Seq(BOOLEAN)
  OBVIOUS
<1>2. Len(<<t>>) = 1 /\ <<t>> # <<>>
  OBVIOUS
<1>3. Head(<<t>>) = t
  OBVIOUS
<1> QED BY <1>1, <1>2, <1>3

LEMMA UserEndKeeps ==
  ASSUME UsersInv, NEW q \in UserRequests, UserRequestEnds(q),
         UNCHANGED <<known, userRow, password, fresh, said>>,
         lost \subseteq lost', lost' \in SUBSET (People \cup {NoUser}),
         userReq[q].temporary => userReq[q].user \in lost' \/ userReq[q].user \notin known
  PROVE  UsersInv'
<1>1. NoUser \notin fresh /\ NoUser \notin known
  BY UserRowsAssumption DEF UsersInv, UsersTyped
<1> QED BY <1>1, UserRequestTypes, RequestStepKeeps DEF UserRequestEnds

LEMMA UserArrivalsKeep ==
  ASSUME UsersInv, NEW q \in UserRequests,
         PutUser(q) \/ PutPassword(q) \/ PostAction(q) \/ PostLogout(q)
  PROVE  UsersInv'
<1>1. UNCHANGED <<known, userRow, password, fresh, said, lost>> /\ lost' \in SUBSET (People \cup {NoUser})
  BY DEF PutUser, PutPassword, PostAction, PostLogout, UsersInv, UsersTyped
<1>2. ASSUME NEW u \in People, NEW request \in UserRequest, UserRequestArrives(q, u, request),
             Shaped(request), ~Cleared(request)
      PROVE  UsersInv'
  <2> DEFINE next == [request EXCEPT !.user = u, !.row = userRow[u]]
  <2>1. /\ next \in UserRequest /\ next.user = u /\ next.row = userRow[u]
        /\ next.step = request.step /\ next.creds = request.creds /\ next.form = request.form
        /\ next.mode = request.mode /\ next.temporary = request.temporary
    BY DEF UsersInv, UsersTyped, UserRequest
  <2>2. userReq' = [userReq EXCEPT ![q] = next] /\ userReq[q].step = "idle" /\ u \in known
    BY <1>2 DEF UserRequestArrives
  <2> HIDE DEF next
  <2>3. Shaped(next) /\ ~Cleared(next)
    BY <1>2, <2>1 DEF Shaped, Cleared
  <2>4. u \notin fresh /\ ~userReq[q].temporary
    BY <2>2, UserRequestTyped DEF UsersInv, UsersTyped, RequestKnows, Shaped
  <2> QED BY <1>1, <2>1, <2>2, <2>3, <2>4, RequestStepKeeps
<1>3. CASE PutUser(q)
  <2> DEFINE request(c) == [IdleUserRequest EXCEPT !.step = "row", !.creds = c]
  <2>1. PICK u \in People, c \in CredentialBatches : UserRequestArrives(q, u, request(c))
    BY <1>3 DEF PutUser
  <2>2. c \in Seq(BOOLEAN)
    BY UserRowsAssumption DEF CredentialBatches
  <2>3. /\ request(c) \in UserRequest /\ request(c).step = "row" /\ request(c).temporary = FALSE
        /\ request(c).mode = "inline"
    BY <2>2, UserRequestTypes DEF IdleUserRequest, UserRequest, UserSteps
  <2> HIDE DEF request
  <2> QED BY <1>2, <2>1, <2>3 DEF Shaped, Cleared
<1>4. CASE PutPassword(q)
  <2> DEFINE request(c) == [IdleUserRequest EXCEPT !.step = "credentials", !.mode = "reset", !.creds = c]
  <2>1. PICK u \in People, t \in BOOLEAN : UserRequestArrives(q, u, request(<<t>>))
    BY <1>4 DEF PutPassword
  <2>2. PICK c \in Seq(BOOLEAN) : c = <<t>> /\ Len(c) = 1 /\ c # <<>>
    BY OneCredential
  <2>3. /\ request(c) \in UserRequest /\ request(c).step = "credentials" /\ request(c).temporary = FALSE
        /\ request(c).mode = "reset" /\ request(c).creds = c
    BY UserRequestTypes DEF IdleUserRequest, UserRequest, UserSteps
  <2> HIDE DEF request
  <2>4. Shaped(request(c)) /\ ~Cleared(request(c))
    <3>1. Len(c) = 1 /\ c # <<>>
      BY <2>2
    <3>2. Shaped(request(c))
      BY <2>3, <3>1 DEF Shaped
    <3>3. ~Cleared(request(c))
      BY <2>3, <3>1 DEF Cleared
    <3> QED BY <3>2, <3>3
  <2>5. UserRequestArrives(q, u, request(c))
    BY <2>1, <2>2
  <2> QED BY <1>2, <2>3, <2>4, <2>5
<1>5. CASE PostAction(q)
  <2> DEFINE request(f) == [IdleUserRequest EXCEPT !.step = "walk", !.form = f]
  <2>1. PICK u \in People, f \in Forms \cup {"none"} : UserRequestArrives(q, u, request(f))
    BY <1>5 DEF PostAction
  <2>2. request(f) \in UserRequest /\ request(f).step = "walk" /\ request(f).temporary = FALSE
    BY UserRequestTypes DEF IdleUserRequest, UserRequest, UserSteps
  <2> HIDE DEF request
  <2> QED BY <1>2, <2>1, <2>2 DEF Shaped, Cleared
<1>6. CASE PostLogout(q)
  <2> DEFINE request == [IdleUserRequest EXCEPT !.step = "stamp"]
  <2>1. PICK u \in People : UserRequestArrives(q, u, request)
    BY <1>6 DEF PostLogout
  <2>2. request \in UserRequest /\ request.step = "stamp" /\ request.temporary = FALSE
    BY UserRequestTypes DEF IdleUserRequest, UserRequest, UserSteps
  <2> HIDE DEF request
  <2> QED BY <1>2, <2>1, <2>2 DEF Shaped, Cleared
<1> QED BY <1>3, <1>4, <1>5, <1>6

LEMMA CredentialsSetKeeps ==
  ASSUME UsersInv, NEW q \in UserRequests, CredentialsSet(q)
  PROVE  UsersInv'
<1>1. /\ UNCHANGED <<known, userRow, password, fresh, said, lost>> /\ lost' \in SUBSET (People \cup {NoUser})
      /\ userReq[q].step = "credentials" /\ userReq[q].creds = <<>>
  BY DEF CredentialsSet, UsersInv, UsersTyped
<1>2. RequestKnows(q)
  BY DEF UsersInv
<1>3. ASSUME NEW s \in {"clear", "actions"}, userReq' = [userReq EXCEPT ![q].step = s],
             s = "clear" => userReq[q].mode = "form",
             s = "actions" => userReq[q].mode = "reset" \/ userReq[q].temporary
      PROVE  UsersInv'
  <2> DEFINE next == [userReq[q] EXCEPT !.step = s]
  <2>1. /\ next \in UserRequest /\ next.step = s
        /\ next.user = userReq[q].user /\ next.row = userReq[q].row
        /\ next.creds = userReq[q].creds /\ next.form = userReq[q].form /\ next.late = userReq[q].late
        /\ next.mode = userReq[q].mode /\ next.temporary = userReq[q].temporary
    BY UserRequestTyped DEF UserRequest, UserSteps
  <2>2. userReq' = [userReq EXCEPT ![q] = next]
    BY <1>3
  <2> HIDE DEF next
  <2>3. Shaped(next)
    BY <1>1, <1>2, <1>3, <2>1 DEF Shaped, RequestKnows
  <2>4. Cleared(next) => Cleared(userReq[q])
    BY <1>1, <1>2, <1>3, <2>1 DEF Shaped, Cleared, RequestKnows
  <2> QED BY <1>1, <1>2, <2>1, <2>2, <2>3, <2>4, RequestStepKeeps DEF RequestKnows
<1>4. CASE UserRequestEnds(q) /\ ~userReq[q].temporary
  BY <1>1, <1>4, UserEndKeeps
<1> QED BY <1>1, <1>3, <1>4 DEF CredentialsSet

LEMMA RunStepKeeps ==
  ASSUME UsersInv, NEW q \in UserRequests, RunStep(q)
  PROVE  UsersInv'
<1>1. /\ UNCHANGED <<known, userRow, password, fresh, said, lost>> /\ lost' \in SUBSET (People \cup {NoUser})
      /\ userReq[q].step = "walk"
  BY DEF RunStep, UsersInv, UsersTyped
<1>2. RequestKnows(q) /\ userReq[q].temporary = FALSE
  BY <1>1, UserRequestTyped DEF UsersInv, RequestKnows, Shaped
<1>3. ASSUME NEW next \in UserRequest, userReq' = [userReq EXCEPT ![q] = next],
             next.user = userReq[q].user, next.row = userReq[q].row, next.late = userReq[q].late,
             Shaped(next), ~Cleared(next)
      PROVE  UsersInv'
  BY <1>1, <1>2, <1>3, RequestStepKeeps DEF RequestKnows
<1>4. CASE userReq' = [userReq EXCEPT ![q].step = "credentials", ![q].mode = "form", ![q].creds = <<FALSE>>]
  <2>0. PICK c \in Seq(BOOLEAN) : c = <<FALSE>> /\ Len(c) = 1 /\ Head(c) = FALSE /\ c # <<>>
    BY OneCredential
  <2> DEFINE next == [userReq[q] EXCEPT !.step = "credentials", !.mode = "form", !.creds = c]
  <2>1. userReq' = [userReq EXCEPT ![q] = next]
    BY <1>4, <2>0
  <2>2. /\ next \in UserRequest /\ next.step = "credentials" /\ next.mode = "form" /\ next.creds = c
        /\ next.user = userReq[q].user /\ next.row = userReq[q].row /\ next.late = userReq[q].late
        /\ next.temporary = userReq[q].temporary
    BY UserRequestTyped DEF UserRequest, UserSteps
  <2>3. Len(c) = 1 /\ c # <<>> /\ Head(c) = FALSE
    BY <2>0
  <2> HIDE DEF next
  <2>4. Shaped(next)
    BY <1>2, <2>2, <2>3 DEF Shaped
  <2>5. ~Cleared(next)
    BY <1>2, <2>2, <2>3 DEF Cleared
  <2> QED BY <1>3, <2>1, <2>2, <2>4, <2>5
<1>5. CASE userReq' = [userReq EXCEPT ![q].step = "profile"] /\ userReq[q].form = "UPDATE_PROFILE"
  <2> DEFINE next == [userReq[q] EXCEPT !.step = "profile"]
  <2>1. userReq' = [userReq EXCEPT ![q] = next]
    BY <1>5
  <2>2. /\ next \in UserRequest /\ next.step = "profile" /\ next.form = userReq[q].form
        /\ next.user = userReq[q].user /\ next.row = userReq[q].row /\ next.late = userReq[q].late
        /\ next.temporary = userReq[q].temporary
    BY UserRequestTyped DEF UserRequest, UserSteps
  <2> HIDE DEF next
  <2>3. Shaped(next) /\ ~Cleared(next)
    BY <1>2, <1>5, <2>2 DEF Shaped, Cleared
  <2> QED BY <1>3, <2>1, <2>2, <2>3
<1>6. CASE UserRequestEnds(q)
  BY <1>1, <1>2, <1>6, UserEndKeeps
<1> QED BY <1>4, <1>5, <1>6 DEF RunStep

LEMMA MoreCredentials ==
  ASSUME NEW c \in Seq(BOOLEAN), c # <<>>
  PROVE  /\ Head(c) \in BOOLEAN /\ Tail(c) \in Seq(BOOLEAN) /\ Len(c) # 0
         /\ Len(c) = 1 => Len(Tail(c)) = 0 /\ Tail(c) = <<>>
<1>1. Head(c) \in BOOLEAN /\ Tail(c) \in Seq(BOOLEAN) /\ Len(Tail(c)) = Len(c) - 1 /\ Len(c) \in Nat
  BY HeadTailProperties
<1>2. Len(c) # 0 /\ (Len(Tail(c)) = 0 => Tail(c) = <<>>)
  BY <1>1, EmptySeq
<1> QED BY <1>1, <1>2

LEMMA SetCredentialKeeps ==
  ASSUME UsersInv, NEW q \in UserRequests, SetCredential(q)
  PROVE  UsersInv'
<1>0. PICK u : u = userReq[q].user
  OBVIOUS
<1>1. /\ UNCHANGED <<known, userRow, fresh, said, lost>> /\ lost' \in SUBSET (People \cup {NoUser})
      /\ userReq[q].step = "credentials" /\ userReq[q].creds # <<>>
  BY DEF SetCredential, UsersInv, UsersTyped
<1>2. CASE u \notin known
  BY <1>0, <1>1, <1>2, UserEndKeeps DEF SetCredential
<1>3. CASE u \in known
  <2> DEFINE c == userReq[q].creds
             next == [userReq[q] EXCEPT !.creds = Tail(c), !.temporary = @ \/ Head(c)]
  <2>1. /\ password' = [password EXCEPT ![u] = IF Head(c) THEN "temporary" ELSE "permanent"]
        /\ userReq' = [userReq EXCEPT ![q] = next]
    BY <1>0, <1>3 DEF SetCredential
  <2>2. c \in Seq(BOOLEAN) /\ c # <<>>
    BY <1>1, UserRequestTyped
  <2>3. /\ Head(c) \in BOOLEAN /\ Tail(c) \in Seq(BOOLEAN) /\ Len(c) # 0
        /\ Len(c) = 1 => Len(Tail(c)) = 0 /\ Tail(c) = <<>>
    BY <2>2, MoreCredentials
  <2>4. /\ next \in UserRequest /\ next.step = userReq[q].step /\ next.user = userReq[q].user
        /\ next.row = userReq[q].row /\ next.creds = Tail(c) /\ next.form = userReq[q].form
        /\ next.mode = userReq[q].mode /\ next.temporary = (userReq[q].temporary \/ Head(c))
        /\ next.late = userReq[q].late
    BY <2>3, UserRequestTyped DEF UserRequest
  <2>5. RequestKnows(q)
    BY DEF UsersInv
  <2> HIDE DEF next, c
  <2>6. Shaped(next)
    <3>1. next.step = "credentials" /\ Len(c) # 0
      BY <1>1, <2>3, <2>4
    <3>2. next.mode # "inline" => Len(c) = 1
      BY <1>1, <2>3, <2>4, <2>5, <3>1 DEF RequestKnows, Shaped, c
    <3>3. next.mode # "inline" => Len(next.creds) = 0 /\ next.creds = <<>>
      BY <2>3, <2>4, <3>2
    <3>4. next.mode = "form" => next.temporary = FALSE
      BY <1>1, <2>2, <2>3, <2>4, <2>5, UserRequestTyped DEF RequestKnows, Shaped, c
    <3> QED BY <3>1, <3>3, <3>4 DEF Shaped
  <2>7. \A p \in UserRequests : userReq'[p] = IF p = q THEN next ELSE userReq[p]
    BY <2>1 DEF UsersInv, UsersTyped
  <2>8. UsersTyped'
    BY <1>1, <2>1, <2>4 DEF UsersInv, UsersTyped, Passwords
  <2>9. ASSUME NEW v \in known, Announced(v) PROVE Announced(v)'
    BY <2>4, <2>7, <2>9 DEF Announced
  <2>10. ASSUME NEW v \in known, v = u, Head(c) PROVE Announced(v)'
    BY <1>0, <2>4, <2>7, <2>10 DEF Announced
  <2>11. \A v \in People : password'[v] = IF v = u THEN (IF Head(c) THEN "temporary" ELSE "permanent") ELSE password[v]
    BY <2>1 DEF UsersInv, UsersTyped
  <2>12. ASSUME NEW v \in known, password'[v] = "temporary" 
         PROVE  Announced(v)' \/ (password[v] = "temporary" /\ v # u)
    <3>1. v \in People
      BY DEF UsersInv, UsersTyped
    <3>2. CASE v # u
      BY <2>11, <2>12, <3>1, <3>2
    <3>3. CASE v = u
      <4>1. Head(c)
        BY <2>3, <2>11, <2>12, <3>1, <3>3
      <4> QED BY <2>10, <3>3, <4>1
    <3> QED BY <3>2, <3>3
  <2>13. ASSUME NEW v \in known PROVE UserSound(v)'
    BY <1>1, <2>9, <2>12 DEF UsersInv, UserSound
  <2>14. ASSUME NEW p \in UserRequests, p # q PROVE RequestKnows(p)'
    <3>1. RequestKnows(p) /\ userReq'[p] = userReq[p]
      BY <2>7, <2>14 DEF UsersInv
    <3> QED BY <1>1, <2>9, <2>12, <3>1 DEF RequestKnows
  <2>15. RequestKnows(q)'
    <3>1. Cleared(next) => ~Head(c)
      BY <1>1, <2>3, <2>4 DEF Cleared
    <3>2. u \in People /\ (Cleared(next) => password'[u] # "temporary")
      BY <1>3, <2>11, <3>1 DEF UsersInv, UsersTyped
    <3>3. next.user = u /\ userReq'[q] = next /\ u \notin fresh /\ (~next.late => next.row = userRow[u])
      BY <1>0, <1>3, <2>4, <2>5, <2>7 DEF RequestKnows
    <3> QED BY <1>1, <2>6, <3>2, <3>3 DEF RequestKnows
  <2>16. \A v \in People \ known : password'[v] = "none"
    BY <1>3, <2>11 DEF UsersInv
  <2> QED BY <1>1, <2>8, <2>13, <2>14, <2>15, <2>16 DEF UsersInv
<1> QED BY <1>2, <1>3

LEMMA EnabledTypes ==
  ASSUME NEW row \in UserRow, NEW e \in BOOLEAN
  PROVE  /\ [row EXCEPT !.enabled = e] \in UserRow /\ [row EXCEPT !.enabled = e].enabled = e
         /\ [row EXCEPT !.enabled = e].actions = row.actions
BY DEF UserRow

LEMMA withoutActionTypes ==
  ASSUME NEW row \in UserRow, NEW a
  PROVE  /\ withoutAction(row, a) \in UserRow /\ withoutAction(row, a).enabled = row.enabled
         /\ withoutAction(row, a).actions = row.actions \ {a}
BY DEF UserRow, withoutAction

LEMMA withPasswordActionTypes ==
  ASSUME NEW row \in UserRow, NEW want \in BOOLEAN
  PROVE  /\ withPasswordAction(row, want) \in UserRow /\ withPasswordAction(row, want).enabled = row.enabled
         /\ want => "UPDATE_PASSWORD" \in withPasswordAction(row, want).actions
BY DEF UserRow, withPasswordAction, UserActions, Forms

LEMMA UserRowWritesKeep ==
  ASSUME UsersInv, NEW q \in UserRequests,
         \/ WriteUser(q) \/ WriteActions(q) \/ ClearSilent(q) \/ WriteProfile(q) \/ ClearForm(q)
         \/ StampLogout(q)
  PROVE  UsersInv'
<1>1. UNCHANGED <<known, password, fresh>> /\ said \in [People -> BOOLEAN]
  BY DEF WriteUser, WriteActions, ClearSilent, WriteProfile, ClearForm, StampLogout, UsersInv, UsersTyped
<1>2. RequestKnows(q)
  BY DEF UsersInv
<1>3. CASE WriteUser(q)
  <2>1. PICK e \in BOOLEAN :
          LET row == [userReq[q].row EXCEPT !.enabled = e] IN
          /\ UpdateUserRow(q, row, [userReq[q] EXCEPT !.step = "credentials", !.row = row])
          /\ said' = [said EXCEPT ![userReq[q].user] = e]
    BY <1>3 DEF WriteUser
  <2> DEFINE row == [userReq[q].row EXCEPT !.enabled = e]
             next == [userReq[q] EXCEPT !.step = "credentials", !.row = row]
  <2>2. row \in UserRow /\ row.enabled = e /\ row.actions = userReq[q].row.actions
    BY EnabledTypes, UserRequestTyped
  <2>3. UpdateUserRow(q, row, next) /\ said' = [said EXCEPT ![userReq[q].user] = e] /\ userReq[q].step = "row"
    BY <1>3, <2>1 DEF WriteUser
  <2> HIDE DEF row
  <2>4. /\ next \in UserRequest /\ next.user = userReq[q].user /\ next.row = row /\ next.step = "credentials"
        /\ next.mode = userReq[q].mode /\ next.temporary = userReq[q].temporary /\ next.creds = userReq[q].creds
    BY <2>2, UserRequestTyped DEF UserRequest, UserSteps
  <2> HIDE DEF next
  <2>5. userReq[q].temporary = FALSE /\ userReq[q].mode = "inline"
    BY <1>2, <2>3, UserRequestTyped DEF RequestKnows, Shaped
  <2>6. Shaped(next) /\ ~Cleared(next)
    BY <2>4, <2>5 DEF Shaped, Cleared
  <2>7. \A u \in People : u # userReq[q].user => said'[u] = said[u]
    BY <1>1, <2>3
  <2>8. userReq[q].user \notin known \/ row.enabled = said'[userReq[q].user]
    BY <1>1, <2>2, <2>3 DEF UsersInv, UsersTyped
  <2>9. said' \in [People -> BOOLEAN]
    BY <1>1, <2>3
  <2>10. "UPDATE_PASSWORD" \in row.actions \/ "UPDATE_PASSWORD" \notin userReq[q].row.actions
    BY <2>2
  <2> QED BY <1>1, <2>2, <2>3, <2>4, <2>5, <2>6, <2>7, <2>8, <2>9, <2>10, RowWriteKeeps
<1>4. ASSUME NEW row \in UserRow, NEW next \in UserRequest, UpdateUserRow(q, row, next), UNCHANGED said,
             row.enabled = userReq[q].row.enabled, Shaped(next), ~Cleared(next), next.temporary = FALSE,
             next.user = NoUser \/ (next.user = userReq[q].user /\ next.row = row),
             \/ "UPDATE_PASSWORD" \in row.actions
             \/ /\ ~userReq[q].temporary
                /\ Cleared(userReq[q]) \/ "UPDATE_PASSWORD" \notin userReq[q].row.actions
      PROVE  UsersInv'
  <2>1. \/ userReq[q].late \/ userReq[q].user \notin known \ lost
        \/ row.enabled = said'[userReq[q].user]
    BY <1>2, <1>4 DEF UsersInv, RequestKnows, UserSound
  <2>2. said' \in [People -> BOOLEAN]
    BY <1>1, <1>4
  <2>3. \A u \in People : u # userReq[q].user => said'[u] = said[u]
    BY <1>4
  <2> QED BY <1>1, <1>4, <2>1, <2>2, <2>3, RowWriteKeeps
<1>5. CASE WriteActions(q)
  <2> DEFINE row == withPasswordAction(userReq[q].row, userReq[q].temporary)
  <2>1. UpdateUserRow(q, row, OverUserRequest) /\ UNCHANGED said /\ userReq[q].step = "actions"
    BY <1>5 DEF WriteActions
  <2>2. /\ row \in UserRow /\ row.enabled = userReq[q].row.enabled
        /\ userReq[q].temporary => "UPDATE_PASSWORD" \in row.actions
    BY withPasswordActionTypes, UserRequestTyped
  <2>3. ~userReq[q].temporary => Cleared(userReq[q])
    BY <2>1 DEF Cleared
  <2> HIDE DEF row
  <2>4. /\ Shaped(OverUserRequest) /\ ~Cleared(OverUserRequest) /\ OverUserRequest \in UserRequest
        /\ OverUserRequest.temporary = FALSE /\ OverUserRequest.user = NoUser
    BY UserRequestTypes
  <2>5. \/ "UPDATE_PASSWORD" \in row.actions
        \/ ~userReq[q].temporary /\ Cleared(userReq[q])
    BY <2>2, <2>3
  <2> QED BY <1>4, <2>1, <2>2, <2>4, <2>5
<1>6. CASE ClearSilent(q)
  <2>1. PICK a \in SilentActions :
          LET row == withoutAction(userReq[q].row, a) IN UpdateUserRow(q, row, [userReq[q] EXCEPT !.row = row])
    BY <1>6 DEF ClearSilent
  <2> DEFINE row == withoutAction(userReq[q].row, a)
             next == [userReq[q] EXCEPT !.row = row]
  <2>2. UpdateUserRow(q, row, next) /\ UNCHANGED said /\ userReq[q].step = "walk"
    BY <1>6, <2>1 DEF ClearSilent
  <2>3. /\ row \in UserRow /\ row.enabled = userReq[q].row.enabled
        /\ row.actions = userReq[q].row.actions \ {a} /\ a # "UPDATE_PASSWORD"
    BY withoutActionTypes, UserRequestTyped, UserRowsAssumption
  <2> HIDE DEF row
  <2>4. /\ next \in UserRequest /\ next.user = userReq[q].user /\ next.row = row /\ next.step = "walk"
        /\ next.temporary = userReq[q].temporary
    BY <2>2, <2>3, UserRequestTyped DEF UserRequest
  <2>5. userReq[q].temporary = FALSE
    BY <1>2, <2>2, UserRequestTyped DEF RequestKnows, Shaped
  <2> HIDE DEF next
  <2>6. Shaped(next) /\ ~Cleared(next)
    BY <2>4, <2>5 DEF Shaped, Cleared
  <2> QED BY <1>4, <2>2, <2>3, <2>4, <2>5, <2>6
<1>7. CASE WriteProfile(q)
  <2> DEFINE next == [userReq[q] EXCEPT !.step = "clear"]
  <2>1. UpdateUserRow(q, userReq[q].row, next) /\ UNCHANGED said /\ userReq[q].step = "profile"
    BY <1>7 DEF WriteProfile
  <2>2. /\ next \in UserRequest /\ next.user = userReq[q].user /\ next.row = userReq[q].row
        /\ next.step = "clear" /\ next.form = userReq[q].form /\ next.temporary = userReq[q].temporary
    BY UserRequestTyped DEF UserRequest, UserSteps
  <2>3. userReq[q].temporary = FALSE /\ userReq[q].form = "UPDATE_PROFILE"
    BY <1>2, <2>1, UserRequestTyped DEF RequestKnows, Shaped
  <2> HIDE DEF next
  <2>4. Shaped(next) /\ ~Cleared(next)
    BY <2>2, <2>3 DEF Shaped, Cleared
  <2> QED BY <1>4, <2>1, <2>2, <2>3, <2>4, UserRequestTyped
<1>8. CASE ClearForm(q)
  <2> DEFINE row == withoutAction(userReq[q].row, userReq[q].form)
             next == [userReq[q] EXCEPT !.step = "walk", !.row = row, !.form = "none"]
  <2>1. UpdateUserRow(q, row, next) /\ UNCHANGED said /\ userReq[q].step = "clear"
    BY <1>8 DEF ClearForm
  <2>2. /\ row \in UserRow /\ row.enabled = userReq[q].row.enabled
        /\ row.actions = userReq[q].row.actions \ {userReq[q].form}
    BY withoutActionTypes, UserRequestTyped
  <2> HIDE DEF row
  <2>3. /\ next \in UserRequest /\ next.user = userReq[q].user /\ next.row = row /\ next.step = "walk"
        /\ next.temporary = userReq[q].temporary
    BY <2>2, UserRequestTyped DEF UserRequest, UserSteps
  <2>4. userReq[q].temporary = FALSE
    BY <1>2, <2>1, UserRequestTyped DEF RequestKnows, Shaped
  <2>5. userReq[q].form = "UPDATE_PASSWORD" => Cleared(userReq[q])
    BY <2>1 DEF Cleared
  <2> HIDE DEF next
  <2>6. Shaped(next) /\ ~Cleared(next)
    BY <2>3, <2>4 DEF Shaped, Cleared
  <2> QED BY <1>4, <2>1, <2>2, <2>3, <2>4, <2>5, <2>6
<1>9. CASE StampLogout(q)
  <2>1. /\ UpdateUserRow(q, userReq[q].row, OverUserRequest) /\ UNCHANGED said /\ userReq[q].step = "stamp"
        /\ userReq[q].row \in UserRow
    BY <1>9, UserRequestTyped DEF StampLogout
  <2>2. userReq[q].temporary = FALSE
    BY <1>2, <2>1, UserRequestTyped DEF RequestKnows, Shaped
  <2>3. /\ Shaped(OverUserRequest) /\ ~Cleared(OverUserRequest) /\ OverUserRequest \in UserRequest
        /\ OverUserRequest.temporary = FALSE /\ OverUserRequest.user = NoUser
    BY UserRequestTypes
  <2> QED BY <1>4, <2>1, <2>2, <2>3
<1> QED BY <1>3, <1>5, <1>6, <1>7, <1>8, <1>9

LEMMA CreateUserKeeps ==
  ASSUME UsersInv, NEW q \in UserRequests, CreateUser(q)
  PROVE  UsersInv'
<1>1. PICK u \in fresh, e \in BOOLEAN, creds \in CredentialBatches, s \in {"undo", "credentials"} :
        /\ known' = known \cup {u}
        /\ fresh' = fresh \ {u}
        /\ userRow' = [userRow EXCEPT ![u] = [enabled |-> e, actions |-> {}]]
        /\ said' = [said EXCEPT ![u] = e]
        /\ userReq' = [userReq EXCEPT ![q] = [IdleUserRequest EXCEPT !.step = s, !.user = u,
                                                !.row = [enabled |-> e, actions |-> {}], !.creds = creds]]
  BY ZenonT(30) DEF CreateUser
<1> DEFINE row == [enabled |-> e, actions |-> {}]
           next == [IdleUserRequest EXCEPT !.step = s, !.user = u, !.row = row, !.creds = creds]
<1>2. userReq[q].step = "idle" /\ UNCHANGED <<password, lost>>
  BY DEF CreateUser
<1>3. u \in People /\ u \notin known /\ row \in UserRow /\ row.enabled = e /\ creds \in Seq(BOOLEAN)
  BY UserRowsAssumption DEF UsersInv, UsersTyped, UserRow, CredentialBatches
<1>4. /\ known' = known \cup {u} /\ fresh' = fresh \ {u} /\ userRow' = [userRow EXCEPT ![u] = row]
      /\ said' = [said EXCEPT ![u] = e] /\ userReq' = [userReq EXCEPT ![q] = next]
  BY <1>1
<1> HIDE DEF row
<1>5. /\ next \in UserRequest /\ next.step = s /\ next.user = u /\ next.row = row
      /\ next.mode = "inline" /\ next.temporary = FALSE
  BY <1>3, UserRequestTypes DEF IdleUserRequest, UserRequest, UserSteps
<1> HIDE DEF next
<1>6. Shaped(next) /\ ~Cleared(next)
  BY <1>5 DEF Shaped, Cleared
<1>7. UsersTyped'
  BY <1>2, <1>3, <1>4, <1>5 DEF UsersInv, UsersTyped
<1>8. \A p \in UserRequests : userReq'[p] = IF p = q THEN next ELSE userReq[p]
  BY <1>4 DEF UsersInv, UsersTyped
<1>9. userReq[q].temporary = FALSE /\ password[u] = "none"
  BY <1>2, <1>3, UserRequestTyped DEF UsersInv, RequestKnows, Shaped
<1>10. ASSUME NEW v, Announced(v) PROVE Announced(v)'
  BY <1>8, <1>9, <1>10 DEF Announced
<1>11. ASSUME NEW v \in known' PROVE UserSound(v)'
  <2>1. CASE v = u
    <3>1. userRow'[v].enabled = said'[v] /\ password'[v] = "none"
      BY <1>2, <1>3, <1>4, <1>9, <2>1 DEF UsersInv, UsersTyped
    <3> QED BY <3>1 DEF UserSound
  <2>2. CASE v # u
    <3>1. v \in known /\ userRow'[v] = userRow[v] /\ said'[v] = said[v]
      BY <1>3, <1>4, <2>2 DEF UsersInv, UsersTyped
    <3> QED BY <1>2, <1>10, <3>1 DEF UsersInv, UserSound
  <2> QED BY <2>1, <2>2
<1>12. ASSUME NEW p \in UserRequests, p # q PROVE RequestKnows(p)'
  <2>1. RequestKnows(p) /\ userReq'[p] = userReq[p] /\ userReq[p].user # u
    BY <1>8, <1>12 DEF UsersInv, RequestKnows
  <2>2. /\ userReq[p].user \in known' => userReq[p].user \in known
        /\ userReq[p].user \in known => userRow'[userReq[p].user] = userRow[userReq[p].user]
    BY <1>4, <2>1 DEF UsersInv, UsersTyped
  <2> QED BY <1>2, <1>4, <1>10, <2>1, <2>2 DEF RequestKnows
<1>13. RequestKnows(q)'
  <2>1. userReq'[q] = next /\ userRow'[u] = row
    BY <1>3, <1>4, <1>8 DEF UsersInv, UsersTyped
  <2> QED BY <1>4, <1>5, <1>6, <2>1 DEF RequestKnows
<1> QED BY <1>2, <1>4, <1>7, <1>11, <1>12, <1>13 DEF UsersInv

LEMMA DropUserKeeps ==
  ASSUME UsersInv, NEW q \in UserRequests, UndoCreate(q) \/ DeleteUser(q)
  PROVE  UsersInv'
<1>1. /\ UNCHANGED <<fresh, said, lost>> /\ UserRequestEnds(q) /\ userReq[q].temporary = FALSE
  BY UserRequestTyped DEF UndoCreate, DeleteUser, UsersInv, RequestKnows, Shaped
<1>2. PICK u : DropUser(u)
  BY DEF UndoCreate, DeleteUser
<1>3. /\ known' = known \ {u} /\ userRow' = [userRow EXCEPT ![u] = NoRow]
      /\ password' = [password EXCEPT ![u] = "none"] /\ userReq' = [userReq EXCEPT ![q] = OverUserRequest]
  BY <1>1, <1>2 DEF DropUser, UserRequestEnds
<1>4. \A p \in UserRequests : userReq'[p] = IF p = q THEN OverUserRequest ELSE userReq[p]
  BY <1>3 DEF UsersInv, UsersTyped
<1>5. UsersTyped'
  BY <1>1, <1>3, UserRequestTypes DEF UsersInv, UsersTyped, Passwords
<1>6. ASSUME NEW v, Announced(v) PROVE Announced(v)'
  BY <1>1, <1>4, <1>6 DEF Announced
<1>7. ASSUME NEW v \in known'
      PROVE  v \in known /\ userRow'[v] = userRow[v] /\ password'[v] = password[v] /\ said'[v] = said[v]
  BY <1>1, <1>3, <1>7 DEF UsersInv, UsersTyped
<1>8. ASSUME NEW v \in known' PROVE UserSound(v)'
  BY <1>1, <1>6, <1>7 DEF UsersInv, UserSound
<1>9. ASSUME NEW p \in UserRequests PROVE RequestKnows(p)'
  <2>1. CASE p = q
    BY <1>4, <1>5, <2>1, UserRequestTypes, UserRowsAssumption DEF UsersTyped, RequestKnows
  <2>2. CASE p # q
    BY <1>1, <1>4, <1>6, <1>7, <2>2 DEF UsersInv, RequestKnows
  <2> QED BY <2>1, <2>2
<1>10. \A v \in People \ known' : password'[v] = "none"
  BY <1>3 DEF UsersInv, UsersTyped
<1> QED BY <1>5, <1>8, <1>9, <1>10 DEF UsersInv

LEMMA DeleteCredentialKeeps ==
  ASSUME UsersInv, NEW q \in UserRequests, DeleteCredential(q)
  PROVE  UsersInv'
<1>1. /\ UNCHANGED <<known, userRow, fresh, said, lost>> /\ UserRequestEnds(q) /\ userReq[q].temporary = FALSE
  BY UserRequestTyped DEF DeleteCredential, UsersInv, RequestKnows, Shaped
<1>2. PICK u \in known : password' = [password EXCEPT ![u] = "none"]
  BY DEF DeleteCredential
<1>3. \A p \in UserRequests : userReq'[p] = IF p = q THEN OverUserRequest ELSE userReq[p]
  BY <1>1 DEF UsersInv, UsersTyped, UserRequestEnds
<1>4. UsersTyped'
  BY <1>1, <1>2, UserRequestTypes DEF UsersInv, UsersTyped, Passwords, UserRequestEnds
<1>5. ASSUME NEW v, Announced(v) PROVE Announced(v)'
  BY <1>1, <1>3, <1>5 DEF Announced
<1>6. \A v \in People : password'[v] = IF v = u THEN "none" ELSE password[v]
  BY <1>2 DEF UsersInv, UsersTyped
<1>7. ASSUME NEW v \in known PROVE UserSound(v)'
  BY <1>1, <1>5, <1>6 DEF UsersInv, UsersTyped, UserSound
<1>8. ASSUME NEW p \in UserRequests PROVE RequestKnows(p)'
  <2>1. CASE p = q
    BY <1>3, <1>4, <2>1, UserRequestTypes, UserRowsAssumption DEF UsersTyped, RequestKnows
  <2>2. CASE p # q
    <3>1. RequestKnows(p) /\ userReq'[p] = userReq[p]
      BY <1>3, <2>2 DEF UsersInv
    <3>2. userReq[p].user \in known /\ password'[userReq[p].user] = "temporary"
            => password[userReq[p].user] = "temporary"
      BY <1>6 DEF UsersInv, UsersTyped
    <3> QED BY <1>1, <1>5, <3>1, <3>2 DEF RequestKnows
  <2> QED BY <2>1, <2>2
<1> QED BY <1>1, <1>4, <1>6, <1>7, <1>8 DEF UsersInv

LEMMA CutUserKeeps ==
  ASSUME UsersInv, NEW q \in UserRequests, CutUserRequest(q)
  PROVE  UsersInv'
<1>1. userReq[q].user \in People \cup {NoUser}
  BY UserRequestTyped
<1> QED BY <1>1, UserEndKeeps DEF CutUserRequest, UsersInv, UsersTyped

LEMMA UsersStart == UsersInit => UsersInv
<1> SUFFICES ASSUME UsersInit PROVE UsersInv
  OBVIOUS
<1>1. \A q \in UserRequests : userReq[q] = IdleUserRequest
  BY DEF UsersInit
<1>2. [enabled |-> TRUE, actions |-> UserActions] \in UserRow
  BY DEF UserRow
<1>3. UsersTyped
  <2>1. userRow \in [People -> UserRow]
    BY <1>2, UserRequestTypes DEF UsersInit
  <2>2. said \in [People -> BOOLEAN]
    BY <2>1 DEF UsersInit, UserRow
  <2>3. known \in SUBSET People /\ fresh \in SUBSET (People \ known) /\ password \in [People -> Passwords]
    BY DEF UsersInit, Passwords
  <2>4. userReq \in [UserRequests -> UserRequest] /\ lost \in SUBSET (People \cup {NoUser})
    BY UserRequestTypes DEF UsersInit
  <2> QED BY <2>1, <2>2, <2>3, <2>4 DEF UsersTyped
<1>4. ASSUME NEW q \in UserRequests PROVE RequestKnows(q)
  <2>1. /\ userReq[q].user = NoUser /\ userReq[q].temporary = FALSE /\ userReq[q].step = "idle"
    BY <1>1 DEF IdleUserRequest
  <2> QED BY <1>3, <2>1, UserRowsAssumption DEF RequestKnows, Shaped, UsersTyped
<1>5. ASSUME NEW u \in known PROVE UserSound(u)
  BY <1>3 DEF UsersInit, UserSound, UsersTyped
<1> QED BY <1>3, <1>4, <1>5 DEF UsersInv, UsersInit

LEMMA UsersStep == UsersInv /\ [UsersNext]_userVars => UsersInv'
<1> SUFFICES ASSUME UsersInv, [UsersNext]_userVars PROVE UsersInv'
  OBVIOUS
<1>1. CASE UNCHANGED userVars
  BY <1>1 DEF userVars, UsersInv, UsersTyped, UserSound, RequestKnows, Announced
<1>2. CASE UsersNext
  BY <1>2, CreateUserKeeps, DropUserKeeps, UserArrivalsKeep, UserRowWritesKeep, SetCredentialKeeps,
     CredentialsSetKeeps, RunStepKeeps, DeleteCredentialKeeps, CutUserKeeps DEF UsersNext
<1> QED BY <1>1, <1>2

\* applyCredentials, resetPassword, updateUser and the required actions: of any number
\* of requests on any number of users, only one that wrote a row it had read before
\* somebody else's write, or was cut off after a temporary password, can leave a user
\* with a temporary password and no demand to change it, or enabled otherwise than the
\* last update said.
THEOREM LastWord == UsersSpec => []LastWordHolds
<1>1. UsersInv => LastWordHolds
  BY DEF UsersInv, UserSound, Announced, LastWordHolds
<1> QED BY <1>1, UsersStart, UsersStep, PTL DEF UsersSpec
=============================================================================
