---------------------------- MODULE RelayedCalls ----------------------------
(***************************************************************************)
(* What the wallets promise to those who sign requests and to those who    *)
(* relay them: a wallet comes to be once; it does only what its owner      *)
(* signed, at most one of all the requests that carry the same nonce, and  *)
(* with it the worker named in the request earns exactly the signed amount.*)
(***************************************************************************)
EXTENDS Integers, Sequences

CONSTANTS Wallet, Worker, Token, RelayRequest, DeployRequest

VARIABLES
    deployed,  \* the wallets there are
    executed,  \* executed[w]: the relay requests wallet w has executed
    created,   \* the deploy requests that were executed
    earned     \* earned[<<t, k>>]: what worker k has got in token t

vars == <<deployed, executed, created, earned>>

Earn(q) == earned' = [earned EXCEPT ![<<q.token, q.worker>>] = @ + q.amount]

Init ==
    /\ deployed = {}
    /\ executed = [w \in Wallet |-> << >>]
    /\ created = {}
    /\ earned = [a \in Token \X Worker |-> 0]

\* The owner has the wallet created without a relay.
Create(w) ==
    /\ w \notin deployed
    /\ deployed' = deployed \cup {w}
    /\ UNCHANGED <<executed, created, earned>>

CreateByRelay(d) ==
    /\ d.wallet \notin deployed
    /\ d.signer = d.wallet.owner
    /\ \A e \in created : ~(/\ e.wallet.factory = d.wallet.factory
                            /\ e.from = d.from
                            /\ e.nonce = d.nonce)
    /\ deployed' = deployed \cup {d.wallet}
    /\ created' = created \cup {d}
    /\ Earn(d)
    /\ UNCHANGED executed

Execute(r) ==
    /\ r.wallet \in deployed
    /\ r.signer = r.wallet.owner
    /\ \A i \in 1..Len(executed[r.wallet]) : executed[r.wallet][i].nonce # r.nonce
    /\ executed' = [executed EXCEPT ![r.wallet] = Append(@, r)]
    /\ Earn(r)
    /\ UNCHANGED <<deployed, created>>

Next ==
    \/ \E w \in Wallet : Create(w)
    \/ \E d \in DeployRequest : CreateByRelay(d)
    \/ \E r \in RelayRequest : Execute(r)

Spec == Init /\ [][Next]_vars
=============================================================================
