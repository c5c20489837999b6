--------------------------- MODULE PenalizerProofs ---------------------------
(***************************************************************************)
(* Proofs about the Penalizer and the hub together.                        *)
(***************************************************************************)
EXTENDS Penalizer, RelayHubProofs

\* The hub promises penalize to its penalizer alone; the Penalizer uses it only
\* as the hub allows, and a report made with another hub does not touch it.  So
\* whatever is proved of RelayHub, where any worker may be penalized at any time,
\* holds with the Penalizer in place.
THEOREM PenalizerImplementsHub == PenalizerSpec => Spec
  <1>1. PenalizerInit => Init
    BY DEF PenalizerInit
  <1>2. [PenalizerNext]_allVars => [Next]_hubVars
    BY DEF PenalizerNext, PenalizeRepeatedNonce, HubPenalizes, Next, allVars, hubVars
  <1>. QED
    BY <1>1, <1>2, PTL DEF PenalizerSpec, Spec

\* A penalty takes the stake of a manager only when one of its own workers
\* signed two different calls for one nonce.
THEOREM OnlyDoubleSignersPenalized == PenalizerSpec => OnlyDoubleSignersLoseStake
  <1>. DEFINE Justified(m) ==
                (stakes'[m].stake < stakes[m].stake /\ stakes'[m].owner # NoAddress)
                    => \E w \in Address : ManagerOf(w) = m /\ DoubleSigner(w)
  <1>1. ASSUME HubTypes, [PenalizerNext]_allVars, NEW m \in Address
        PROVE  Justified(m)
    <2>. USE <1>1 DEF HubTypes
    <2>0. stakes[m] \in StakeInfo /\ stakes[m].stake \in Nat
      BY DEF StakeInfo
    <2>1. CASE UNCHANGED stakes
      BY <2>0, <2>1
    <2>2. ASSUME NEW s \in Address, NEW x \in Address, NEW d \in UnstakeDelays,
                 NEW v \in MsgValues, StakeForAddress(s, x, d, v)
          PROVE  ~(stakes'[m].stake < stakes[m].stake)
      BY <2>0, <2>2, HubAssumption DEF StakeForAddress
    <2>3. ASSUME NEW s \in Address, NEW x \in Address, UnlockStake(s, x)
          PROVE  ~(stakes'[m].stake < stakes[m].stake)
      BY <2>0, <2>3 DEF UnlockStake, StakeInfo
    <2>4. ASSUME NEW s \in Address, NEW x \in Address, WithdrawStake(s, x)
          PROVE  Justified(m)
      BY <2>0, <2>4 DEF WithdrawStake, EmptyStake
    <2>5. ASSUME NEW hub \in Hubs, NEW reporter \in Address, NEW signer \in Address,
                 NEW t1 \in Tx, NEW t2 \in Tx,
                 PenalizeRepeatedNonce(hub, reporter, signer, t1, t2)
          PROVE  Justified(m)
      <3>1. DoubleSigner(signer)
        BY <2>5 DEF PenalizeRepeatedNonce, EvidenceAccepted, BothSignedBy, DoubleSigner, SignedBy
      <3>2. stakes' = stakes \/ stakes' = [stakes EXCEPT ![ManagerOf(signer)].stake = 0]
        BY <2>5 DEF PenalizeRepeatedNonce, HubPenalizes, Penalize, hubVars
      <3>3. CASE stakes' = stakes \/ m # ManagerOf(signer)
        BY <2>0, <3>2, <3>3
      <3>. QED
        BY <3>1, <3>3
    <2>. QED
      BY <1>1, <2>0, <2>1, <2>2, <2>3, <2>4, <2>5 DEF PenalizerNext, AccountNext,
         AddRelayWorkers, DisableRelayWorkers, RegisterRelayServer, RelayCall, DeployCall,
         MineBlock, allVars, hubVars
  <1>2. HubInv /\ [PenalizerNext]_allVars => [\A m \in Address : Justified(m)]_allVars
    BY <1>1 DEF HubInv
  <1>. QED
    BY <1>2, PenalizerImplementsHub, HubInvariant, PTL
    DEF PenalizerSpec, OnlyDoubleSignersLoseStake

-----------------------------------------------------------------------------
(* How often one nonce can cost a stake *)

\* Transactions with nonce n of worker w that are in the penalizer's records.
Evidence(w, n) == {t \in SignedBy(w) : t.nonce = n /\ t \in penalizedTransactions}

\* Every penalty used up a transaction, the first one two.
EvidenceInv ==
    /\ penalties \in [Address \X Nonces -> Nat]
    /\ \A w \in Address, n \in Nonces :
          penalties[<<w, n>>] > 0 => penalties[<<w, n>>] < Cardinality(Evidence(w, n))

LEMMA FiniteEvidence ==
  ASSUME NEW S, S \subseteq Tx
  PROVE  IsFiniteSet(S) /\ Cardinality(S) \in Nat
  BY PenalizerAssumption, FS_Subset, FS_CardinalityType

LEMMA OneMoreElement ==
  ASSUME NEW S, NEW T, IsFiniteSet(T), S \subseteq T, NEW x \in T, x \notin S
  PROVE  Cardinality(S) < Cardinality(T)
  <1>1. IsFiniteSet(S) /\ Cardinality(S) \in Nat /\ Cardinality(T) \in Nat
    BY FS_Subset, FS_CardinalityType
  <1>2. Cardinality(S \cup {x}) = Cardinality(S) + 1
    BY <1>1, FS_AddElement
  <1>3. Cardinality(S \cup {x}) <= Cardinality(T)
    BY FS_Subset
  <1>. QED
    BY <1>1, <1>2, <1>3

LEMMA NextEvidence ==
  ASSUME EvidenceInv, [PenalizerNext]_allVars
  PROVE  EvidenceInv'
  <1>1. CASE UNCHANGED penalizerVars
    BY <1>1 DEF EvidenceInv, Evidence, penalizerVars
  <1>2. ASSUME NEW hub \in Hubs, NEW reporter \in Address, NEW signer \in Address,
               NEW t1 \in Tx, NEW t2 \in Tx,
               PenalizeRepeatedNonce(hub, reporter, signer, t1, t2),
               hub # ThisHub
        PROVE  EvidenceInv'
    <2>1. penalties' = penalties /\ penalizedTransactions \subseteq penalizedTransactions'
      BY <1>2 DEF PenalizeRepeatedNonce, HubPenalizes
    <2>2. ASSUME NEW w \in Address, NEW n \in Nonces, penalties[<<w, n>>] > 0
          PROVE  penalties[<<w, n>>] < Cardinality(Evidence(w, n)')
      <3>. DEFINE E == Evidence(w, n)
      <3>1. E \subseteq Tx /\ E' \subseteq Tx /\ E \subseteq E'
        BY <2>1 DEF Evidence, SignedBy
      <3>2. /\ IsFiniteSet(E) /\ Cardinality(E) \in Nat
            /\ IsFiniteSet(E') /\ Cardinality(E') \in Nat
            /\ Cardinality(E) <= Cardinality(E')
        BY <3>1, FiniteEvidence, FS_Subset
      <3>3. penalties[<<w, n>>] \in Nat /\ penalties[<<w, n>>] < Cardinality(E)
        BY <2>2 DEF EvidenceInv
      <3>. HIDE DEF E
      <3>4. penalties[<<w, n>>] < Cardinality(E')
        BY <3>2, <3>3
      <3>. QED
        BY <3>4 DEF E
    <2>. QED
      BY <2>1, <2>2 DEF EvidenceInv
  <1>3. ASSUME NEW reporter \in Address, NEW signer \in Address, NEW t1 \in Tx, NEW t2 \in Tx,
               PenalizeRepeatedNonce(ThisHub, reporter, signer, t1, t2)
        PROVE  EvidenceInv'
    <2>1. /\ t1 \in SignedBy(signer) /\ t2 \in SignedBy(signer)
          /\ t1.nonce = t2.nonce /\ t1 # t2
          /\ t1 \notin penalizedTransactions \/ t2 \notin penalizedTransactions
          /\ penalizedTransactions' = penalizedTransactions \cup {t1, t2}
          /\ penalties' = [penalties EXCEPT ![<<signer, t1.nonce>>] = @ + 1]
      BY <1>3 DEF PenalizeRepeatedNonce, HubPenalizes, EvidenceAccepted, BothSignedBy,
         SameNonceOtherBody, NotBothPenalized, SignedBy
    <2>2. t1.nonce \in Nonces /\ <<signer, t1.nonce>> \in Address \X Nonces
      BY DEF Nonces
    <2>3. penalties' \in [Address \X Nonces -> Nat]
      BY <2>1, <2>2 DEF EvidenceInv
    <2>4. ASSUME NEW w \in Address, NEW n \in Nonces, penalties'[<<w, n>>] > 0
          PROVE  penalties'[<<w, n>>] < Cardinality(Evidence(w, n)')
      <3>. DEFINE E == Evidence(w, n)
      <3>1. E \subseteq Tx /\ E' \subseteq Tx /\ E \subseteq E'
        BY <2>1 DEF Evidence, SignedBy
      <3>2. /\ IsFiniteSet(E) /\ Cardinality(E) \in Nat
            /\ IsFiniteSet(E') /\ Cardinality(E') \in Nat
        BY <3>1, FiniteEvidence
      <3>3. penalties[<<w, n>>] \in Nat
        BY DEF EvidenceInv
      <3>4. CASE <<w, n>> = <<signer, t1.nonce>>
        <4>1. t1 \in E' /\ t2 \in E'
          BY <2>1, <3>4 DEF Evidence
        <4>2. \E t \in E' : t \notin E
          BY <2>1, <4>1 DEF Evidence
        <4>3. Cardinality(E) < Cardinality(E')
          BY <3>1, <3>2, <4>2, OneMoreElement
        <4>4. penalties'[<<w, n>>] = penalties[<<w, n>>] + 1
          BY <2>1, <2>2, <3>4 DEF EvidenceInv
        <4>5. CASE penalties[<<w, n>>] > 0
          <5>1. penalties[<<w, n>>] < Cardinality(E)
            BY <4>5 DEF EvidenceInv
          <5>. HIDE DEF E
          <5>. QED
            BY <3>2, <3>3, <4>3, <4>4, <5>1 DEF E
        <4>6. CASE penalties[<<w, n>>] = 0
          <5>1. Cardinality({t1}) = 1
            BY FS_Singleton
          <5>2. Cardinality({t1}) < Cardinality(E')
            BY <2>1, <3>2, <4>1, OneMoreElement
          <5>. QED
            BY <3>2, <4>4, <4>6, <5>1, <5>2
        <4>. QED
          BY <3>3, <4>5, <4>6
      <3>5. CASE <<w, n>> # <<signer, t1.nonce>>
        <4>1. penalties'[<<w, n>>] = penalties[<<w, n>>]
          BY <2>1, <3>5 DEF EvidenceInv
        <4>2. penalties[<<w, n>>] < Cardinality(E)
          BY <2>4, <4>1 DEF EvidenceInv
        <4>3. Cardinality(E) <= Cardinality(E')
          BY <3>1, <3>2, FS_Subset
        <4>. QED
          BY <3>2, <3>3, <4>1, <4>2, <4>3
      <3>. QED
        BY <3>4, <3>5
    <2>. QED
      BY <2>3, <2>4 DEF EvidenceInv
  <1>. QED
    BY <1>1, <1>2, <1>3 DEF PenalizerNext, allVars, Hubs

\* k transactions signed for one nonce cost a worker's manager at most k - 1
\* penalties, however often the stake is renewed.
THEOREM PenaltiesAreBounded == PenalizerSpec => []PenaltiesBoundedByEvidence
  <1>1. PenalizerInit => EvidenceInv
    BY DEF PenalizerInit, EvidenceInv
  <1>2. EvidenceInv /\ [PenalizerNext]_allVars => EvidenceInv'
    BY NextEvidence
  <1>3. EvidenceInv => PenaltiesBoundedByEvidence
    <2>. SUFFICES ASSUME EvidenceInv, NEW w \in Address, NEW n \in Nonces, penalties[<<w, n>>] > 0
                  PROVE  penalties[<<w, n>>] < Cardinality({t \in SignedBy(w) : t.nonce = n})
      BY DEF PenaltiesBoundedByEvidence
    <2>. DEFINE E == Evidence(w, n)
                F == {t \in SignedBy(w) : t.nonce = n}
    <2>1. E \subseteq F /\ E \subseteq Tx /\ F \subseteq Tx
      BY DEF Evidence, SignedBy
    <2>2. /\ Cardinality(E) \in Nat /\ Cardinality(F) \in Nat /\ Cardinality(E) <= Cardinality(F)
      BY <2>1, FiniteEvidence, FS_Subset
    <2>3. penalties[<<w, n>>] \in Nat /\ penalties[<<w, n>>] < Cardinality(E)
      BY DEF EvidenceInv
    <2>. HIDE DEF E, F
    <2>4. penalties[<<w, n>>] < Cardinality(F)
      BY <2>2, <2>3
    <2>. QED
      BY <2>4 DEF F
  <1>. QED
    BY <1>1, <1>2, <1>3, PTL DEF PenalizerSpec

-----------------------------------------------------------------------------
(* What the stake is for *)

\* Whatever the penalizer has in its records was submitted with another hub, or
\* cost a stake of this one, that of the worker or of a twin.
UsedInv ==
    /\ penalties \in [Address \X Nonces -> Nat]
    /\ \A t \in Tx \cap penalizedTransactions :
          \/ t \in usedElsewhere
          \/ \E v \in Address : t \in SignedBy(v) /\ penalties[<<v, t.nonce>>] > 0

LEMMA NextUsed ==
  ASSUME UsedInv, [PenalizerNext]_allVars
  PROVE  UsedInv'
  <1>1. CASE UNCHANGED penalizerVars
    BY <1>1 DEF UsedInv, SignedBy, penalizerVars
  <1>2. ASSUME NEW hub \in Hubs, NEW reporter \in Address, NEW signer \in Address,
               NEW t1 \in Tx, NEW t2 \in Tx,
               PenalizeRepeatedNonce(hub, reporter, signer, t1, t2)
        PROVE  UsedInv'
    <2>1. /\ penalizedTransactions' = penalizedTransactions \cup {t1, t2}
          /\ t1 \in SignedBy(signer) /\ t2 \in SignedBy(signer) /\ t1.nonce = t2.nonce
      BY <1>2 DEF PenalizeRepeatedNonce, EvidenceAccepted, BothSignedBy, SameNonceOtherBody, SignedBy
    <2>2. CASE hub # ThisHub
      <3>1. usedElsewhere' = usedElsewhere \cup {t1, t2} /\ penalties' = penalties
        BY <1>2, <2>2 DEF PenalizeRepeatedNonce, HubPenalizes
      <3>. QED
        BY <2>1, <3>1 DEF UsedInv, SignedBy
    <2>3. CASE hub = ThisHub
      <3>1. /\ penalties' = [penalties EXCEPT ![<<signer, t1.nonce>>] = @ + 1]
            /\ usedElsewhere' = usedElsewhere
        BY <1>2, <2>3 DEF PenalizeRepeatedNonce, HubPenalizes
      <3>2. <<signer, t1.nonce>> \in Address \X Nonces
        BY DEF Nonces
      <3>3. /\ penalties' \in [Address \X Nonces -> Nat]
            /\ penalties'[<<signer, t1.nonce>>] > 0
            /\ \A p \in Address \X Nonces : penalties'[p] >= penalties[p]
        BY <3>1, <3>2 DEF UsedInv
      <3>4. ASSUME NEW t \in Tx, t \in penalizedTransactions'
            PROVE  \/ t \in usedElsewhere'
                   \/ \E v \in Address : t \in SignedBy(v) /\ penalties'[<<v, t.nonce>>] > 0
        <4>1. CASE t \in {t1, t2}
          BY <2>1, <3>3, <4>1
        <4>2. CASE t \in usedElsewhere
          BY <3>1, <4>2
        <4>3. CASE t \notin {t1, t2} /\ t \notin usedElsewhere
          <5>1. PICK v \in Address : t \in SignedBy(v) /\ penalties[<<v, t.nonce>>] > 0
            BY <2>1, <3>4, <4>3 DEF UsedInv
          <5>2. <<v, t.nonce>> \in Address \X Nonces
            BY DEF Nonces
          <5>3. penalties'[<<v, t.nonce>>] \in Nat /\ penalties[<<v, t.nonce>>] \in Nat
            BY <3>3, <5>2 DEF UsedInv
          <5>. QED
            BY <3>3, <5>1, <5>2, <5>3
        <4>. QED
          BY <4>1, <4>2, <4>3
      <3>. QED
        BY <3>3, <3>4 DEF UsedInv, SignedBy
    <2>. QED
      BY <2>2, <2>3
  <1>. QED
    BY <1>1, <1>2 DEF PenalizerNext, allVars

\* Unused evidence against a worker whose relay is still backed is never refused:
\* the hub finds the manager, there is at least minimumStake to take from it, and
\* the RBTC that is burned and paid out is in the hub.  That needs the three parts
\* of the hub's invariant together: the backing of relays, the types and solvency.
\* And evidence stays unused until the worker itself is penalized for the nonce,
\* if one transaction of the pair has no twin and was not given to another hub.
THEOREM OffendersArePenalizable == PenalizerSpec => []OffenderCanBePenalized
  <1>1. HubInv /\ UsedInv => OffenderCanBePenalized
    <2>. SUFFICES ASSUME HubInv, UsedInv,
                         NEW w \in Address,
                         relayedAt[w] > 0, block < relayedAt[w] + MinimumUnstakeDelay,
                         NEW t1 \in SignedBy(w), NEW t2 \in SignedBy(w),
                         SameNonceOtherBody(t1, t2),
                         \/ NotBothPenalized(t1, t2)
                         \/ /\ penalties[<<w, t1.nonce>>] = 0
                            /\ OnlyUsableAgainst(w, t1) \/ OnlyUsableAgainst(w, t2)
                  PROVE  /\ \A reporter \in Address :
                              IsRelayManagerStaked(reporter) => ReportAccepted(reporter, w, t1, t2)
                         /\ stakes[ManagerOf(w)].stake \in MinimumStake..hubBalance
      BY DEF OffenderCanBePenalized
    <2>. DEFINE m == ManagerOf(w)
    <2>1. HasManager(w) /\ stakes[m].stake >= MinimumStake
      BY HubAssumption DEF HubInv, HubTypes, BackingInv, Backed, HasManager
    <2>2. m \in Address
      BY <2>1 DEF HubInv, HubTypes, HasManager, ManagerOf, ManagerEntry
    <2>3. stakes[m].stake \in Nat /\ stakes[m].stake <= hubBalance /\ hubBalance \in Nat
      BY <2>2, StakeIsCovered, SolvencyType DEF HubInv, HubTypes, StakeInfo
    <2>4. PenaltyAccepted(w)
      BY <2>1, <2>3, HubAssumption DEF PenaltyAccepted
    <2>5. NotBothPenalized(t1, t2)
      <3>1. SUFFICES ASSUME penalties[<<w, t1.nonce>>] = 0,
                            OnlyUsableAgainst(w, t1) \/ OnlyUsableAgainst(w, t2)
                     PROVE  NotBothPenalized(t1, t2)
        OBVIOUS
      <3>2. ASSUME NEW t \in {t1, t2}, OnlyUsableAgainst(w, t)
            PROVE  t \notin penalizedTransactions
        <4>1. t \in Tx /\ t.nonce = t1.nonce
          BY DEF SignedBy, SameNonceOtherBody
        <4>2. ASSUME NEW v \in Address, t \in SignedBy(v), penalties[<<v, t.nonce>>] > 0
              PROVE  FALSE
          <5>1. v = w
            BY <3>2, <4>2 DEF OnlyUsableAgainst, SignedBy
          <5>. QED
            BY <3>1, <4>1, <4>2, <5>1
        <4>. QED
          BY <3>2, <4>1, <4>2 DEF UsedInv, OnlyUsableAgainst
      <3>. QED
        BY <3>1, <3>2 DEF NotBothPenalized
    <2>6. ASSUME NEW reporter \in Address, IsRelayManagerStaked(reporter)
          PROVE  EvidenceAccepted(ThisHub, reporter, w, t1, t2)
      BY <2>5, <2>6 DEF EvidenceAccepted, ReporterKnown, BothSignedBy, SignedBy
    <2>. QED
      BY <2>1, <2>3, <2>4, <2>6, HubAssumption DEF ReportAccepted
  <1>2. PenalizerInit => UsedInv
    BY DEF PenalizerInit, UsedInv
  <1>3. UsedInv /\ [PenalizerNext]_allVars => UsedInv'
    BY NextUsed
  <1>. QED
    BY <1>1, <1>2, <1>3, PenalizerImplementsHub, HubInvariant, PTL DEF PenalizerSpec
=============================================================================
