----------------------------- MODULE MCPenalizer -----------------------------
(* Penalizer for TLC: a1 is a worker key that only replaces its transaction  *)
(* with a better paid copy, a2 signs two calls for one nonce.                *)
EXTENDS Penalizer

CONSTANTS a1, a2, a3

UnsignedTx(n, p, b) == [nonce |-> n, gasPrice |-> p, body |-> b]

MCTx == {UnsignedTx(0, 1, "call"), UnsignedTx(0, 1, "other"), UnsignedTx(0, 2, "other")}

\* a2 signs two calls and a better paid copy of one of them, a1 only the copies.
MCSignedTxs ==
    {<<a2, t>> : t \in MCTx} \cup {<<a1, t>> : t \in {x \in MCTx : x.body = "other"}}

\* Two workers that sign the same two unsigned transactions.
MCTwinSignedTxs ==
    {<<w, UnsignedTx(0, 1, b)>> : w \in {a1, a2}, b \in {"call", "other"}}

\* No guard reads the registration events or the histories, and the invariants
\* only look at relays of the double signer a2 that are still backed and, until
\* its first penalty, at the transactions that were submitted with another hub.
RelevantState ==
    <<stakes, workerToManager, workerCount, hubBalance, block, penalizedTransactions, penalties,
      IF block < relayedAt[a2] + MinimumUnstakeDelay THEN relayedAt[a2] ELSE 0,
      IF penalties[<<a2, 0>>] = 0 THEN usedElsewhere ELSE {}>>
=============================================================================
