------------------------------ MODULE Penalizer ------------------------------
(***************************************************************************)
(* The Penalizer contract (contracts/Penalizer.sol) together with a hub it *)
(* slashes through.  A staked relay manager submits two transactions       *)
(* signed by the same worker with the same nonce; when they differ in more *)
(* than the gas price, RelayHub.penalize takes the stake of the worker's   *)
(* manager.  The caller names the hub: the Penalizer keeps no address of   *)
(* one, and keeps a single record of evidence for all the hubs it is used  *)
(* with.  One of them is the hub of RelayHub.tla, the others are contracts *)
(* of which nothing is assumed.                                            *)
(***************************************************************************)
EXTENDS RelayHub

CONSTANTS
    ThisHub,    \* the hub modelled by RelayHub, which trusts this Penalizer
    OtherHubs,  \* other contracts that callers name as the hub
    Tx,         \* unsigned transactions: nonce, gasPrice and body, where the body
                \* stands for the fields (data, gasLimit, to, value)
    SignedTxs   \* pairs <<signer, tx>>: every transaction a key ever signs.  The
                \* contract recovers the signer with ECDSA, so no others verify.

ASSUME PenalizerAssumption ==
    /\ ThisHub \notin OtherHubs
    /\ IsFiniteSet(Tx)
    /\ SignedTxs \subseteq Address \X Tx

VARIABLES
    penalizedTransactions,  \* hashes of unsigned transactions used as evidence
    penalties,              \* history: penalties[<<w, n>>] counts how often worker
                            \* w was penalized at this hub for nonce n
    usedElsewhere           \* history: transactions submitted with another hub

Nonces == {t.nonce : t \in Tx}

Hubs == {ThisHub} \cup OtherHubs

penalizerVars == <<penalizedTransactions, penalties, usedElsewhere>>
allVars == <<hubVars, penalizerVars>>

-----------------------------------------------------------------------------
\* keccak256(data, gasLimit, to, value) differs: the gas price is left out, so
\* that a transaction may be replaced with a better paid copy of itself.
SameNonceOtherBody(t1, t2) ==
    /\ t1.nonce = t2.nonce
    /\ t1.body # t2.body

AnyEvidence(t1, t2) == TRUE  \* mutant: evidence can be used again

\* The hash is taken over the unsigned transaction: it does not depend on who
\* signed it.  One of the two must be new.
NotBothPenalized(t1, t2) ==
    t1 \notin penalizedTransactions \/ t2 \notin penalizedTransactions

FirstSignedBy(signer, t1, t2) == <<signer, t1>> \in SignedTxs  \* mutant: other signer
BothSignedBy(signer, t1, t2) == <<signer, t1>> \in SignedTxs /\ <<signer, t2>> \in SignedTxs

\* The modifier relayManagerOnly asks the hub that the caller named.  Another
\* hub answers what it likes.
ReporterKnown(hub, reporter) == hub = ThisHub => IsRelayManagerStaked(reporter)

\* What penalizeRepeatedNonce requires of the caller and of the evidence.
EvidenceAccepted(hub, reporter, signer, t1, t2) ==
    /\ ReporterKnown(hub, reporter)
    /\ NotBothPenalized(t1, t2)
    /\ BothSignedBy(signer, t1, t2)
    /\ SameNonceOtherBody(t1, t2)

\* The call hub.penalize(signer, reporter) that ends a report.  What another hub
\* does with it is its own affair; when it reverts, so does the report.
HubPenalizes(hub, signer, t1, t2) ==
    IF hub = ThisHub
    THEN /\ Penalize(signer)
         /\ penalties' = [penalties EXCEPT ![<<signer, t1.nonce>>] = @ + 1]
         /\ UNCHANGED usedElsewhere
    ELSE /\ usedElsewhere' = usedElsewhere \cup {t1, t2}
         /\ UNCHANGED <<hubVars, penalties>>

PenalizeRepeatedNonce(hub, reporter, signer, t1, t2) ==
    /\ EvidenceAccepted(hub, reporter, signer, t1, t2)
    /\ penalizedTransactions' = penalizedTransactions \cup {t1, t2}
    /\ HubPenalizes(hub, signer, t1, t2)

-----------------------------------------------------------------------------
PenalizerInit ==
    /\ Init
    /\ penalizedTransactions = {}
    /\ penalties = [p \in Address \X Nonces |-> 0]
    /\ usedElsewhere = {}

PenalizerNext ==
    \/ (AccountNext \/ MineBlock) /\ UNCHANGED penalizerVars
    \/ \E hub \in Hubs, reporter, signer \in Address, t1, t2 \in Tx :
            PenalizeRepeatedNonce(hub, reporter, signer, t1, t2)

PenalizerSpec == PenalizerInit /\ [][PenalizerNext]_allVars

-----------------------------------------------------------------------------
(* Properties *)

SignedBy(w) == {t \in Tx : <<w, t>> \in SignedTxs}

\* Worker w signed two different bodies for one nonce.
DoubleSigner(w) == \E t1, t2 \in SignedBy(w) : SameNonceOtherBody(t1, t2)

\* A manager loses stake to a penalty only when one of its own workers signed
\* two different calls for one nonce: replacing a transaction by the same one
\* with another gas price, or another manager's offence, costs it nothing.
OnlyDoubleSignersLoseStake ==
    [][\A m \in Address :
        (stakes'[m].stake < stakes[m].stake /\ stakes'[m].owner # NoAddress)
            => \E w \in Address : ManagerOf(w) = m /\ DoubleSigner(w)
      ]_allVars

\* The check that one of the two transactions is new bounds what one nonce can
\* cost: k transactions signed for it lead to at most k - 1 penalties, however
\* often the stake is renewed and whoever reports.
PenaltiesBoundedByEvidence ==
    \A w \in Address, n \in Nonces :
        penalties[<<w, n>>] > 0 =>
            penalties[<<w, n>>] < Cardinality({t \in SignedBy(w) : t.nonce = n})

\* Every require() on the way of a report to this hub holds: those of the
\* Penalizer and those of the hub it calls.
ReportAccepted(reporter, w, t1, t2) ==
    EvidenceAccepted(ThisHub, reporter, w, t1, t2) /\ PenaltyAccepted(w)

\* Nothing but a penalty of worker w at this hub can have used transaction t up:
\* it was not submitted with another hub, and no other key signed the same
\* unsigned transaction.
OnlyUsableAgainst(w, t) ==
    /\ t \notin usedElsewhere
    /\ \A v \in Address : <<v, t>> \in SignedTxs => v = w

\* What the stake is for: while a relayed call of a worker is backed (see
\* RelayIsBacked), a staked manager that holds evidence against it can have it
\* penalized, also after it was disabled or its manager scheduled a withdrawal:
\* no require() refuses the report, at least minimumStake is taken, and the hub
\* holds the RBTC that it burns and pays out.  The evidence must be unused
\* (Penalizer.sol, line 61).  It is, when the worker was not yet penalized here
\* for that nonce and one of the two transactions is usable against nobody else
\* and was never submitted with another hub.  The code promises no more: the
\* record is shared, so a pair of which both were submitted with another hub, or
\* used against a twin, is refused although nobody lost stake here.
OffenderCanBePenalized ==
    \A w \in Address :
        relayedAt[w] > 0 /\ block < relayedAt[w] + MinimumUnstakeDelay =>
            \A t1, t2 \in SignedBy(w) :
                /\ SameNonceOtherBody(t1, t2)
                /\ \/ NotBothPenalized(t1, t2)
                   \/ /\ penalties[<<w, t1.nonce>>] = 0
                      /\ OnlyUsableAgainst(w, t1) \/ OnlyUsableAgainst(w, t2)
                => /\ \A reporter \in Address :
                        IsRelayManagerStaked(reporter) => ReportAccepted(reporter, w, t1, t2)
                   /\ stakes[ManagerOf(w)].stake \in MinimumStake..hubBalance

\* Penalizer.sol, lines 49-51: when the two transactions differ, are signed by
\* the same address and have the same nonce, that address is an offending
\* relay.  Evidence against a worker that was never penalized is accepted.
FirstOffenceIsPenalizable ==
    \A w, reporter \in Address : \A t1, t2 \in SignedBy(w) :
        /\ \A n \in Nonces : penalties[<<w, n>>] = 0
        /\ ManagerOf(w) # NoAddress
        /\ stakes[ManagerOf(w)].stake > 0
        /\ IsRelayManagerStaked(reporter)
        /\ SameNonceOtherBody(t1, t2)
        => ReportAccepted(reporter, w, t1, t2)
=============================================================================
