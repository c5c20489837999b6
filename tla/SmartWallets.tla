---------------------------- MODULE SmartWallets ----------------------------
(***************************************************************************)
(* The smart wallets, their factories and the verifiers                    *)
(* (contracts/smartwallet, contracts/factory, contracts/verifier,          *)
(* contracts/utils/Eip712Library.sol), and what a relay server checks      *)
(* before it sends a request.                                              *)
(*                                                                         *)
(* A wallet is named by what its CREATE2 address is computed from: a       *)
(* record with the fields factory, owner, recoverer, logic and index.      *)
(* "plain" is SmartWalletFactory, "custom" CustomSmartWalletFactory; the   *)
(* code at a "foreign" address is not the template.  A signed request is   *)
(* a record; the gate of RelayHub in front of it is in module RelayHub.    *)
(***************************************************************************)
EXTENDS Integers, Sequences

CONSTANTS
    Owner, NoOne,    \* EOAs that own wallets; "no owner yet"
    Logic, NoLogic,  \* contracts with custom logic; "none"
    Wallet,          \* the addresses of wallets, see above
    Worker,          \* relay workers
    Token,           \* ERC20 tokens
    RelayRequest,    \* signer, from, wallet, domain, token, amount, nonce, worker,
                     \* and the factory whose verifiers the server asks
    DeployRequest,   \* the same; wallet is the address computed from it
    MaxTokens        \* bound: tokens of one kind in a wallet

Factory == {"plain", "custom"}
Verifier == {"relay", "deploy"} \X Factory
Genuine == {w \in Wallet : w.factory \in Factory}

ASSUME WalletAssumption ==
    /\ NoOne \notin Owner
    /\ \A w \in Wallet :
          /\ w.owner \in Owner
          /\ w.logic \in Logic \cup {NoLogic}
          /\ w.factory = "plain" => w.logic = NoLogic
    /\ Wallet \cap Worker = {}

ASSUME RequestAssumption ==
    /\ RelayRequest \cap DeployRequest = {}
    /\ \A q \in RelayRequest \cup DeployRequest :
          /\ q.from \in Owner
          /\ q.wallet \in Wallet
          /\ q.token \in Token
          /\ q.worker \in Worker
          /\ q.amount \in Nat
          /\ q.nonce \in Nat
          /\ q.verifier \in Factory
    /\ \A d \in DeployRequest :
          d.wallet \in Genuine /\ d.from = d.wallet.owner

ASSUME BoundAssumption == MaxTokens \in Nat

VARIABLES
    owner,     \* owner[w]: the owner stored in w; NoOne as long as w is not deployed
    logic,     \* logic[w]: the logic contract stored in a custom wallet
    nonce,     \* nonce[w] of the wallet
    nonces,    \* nonces[<<f, o>>] of the factory f
    tokens,    \* tokens[<<t, a>>]: the balance of a in token t
    accepted,  \* the pairs <<verifier, token>> of the verifiers' tokens maps
    checked,   \* checked[q]: how far a server is with the request q
    executed,  \* executed[w]: the requests whose execution the hub reported
    created    \* history: the deploy requests that were executed

vars == <<owner, logic, nonce, nonces, tokens, accepted, checked, executed, created>>

chain == <<owner, logic, nonce, nonces, tokens, executed, created>>

-----------------------------------------------------------------------------
(* Payment *)

AnyBalance(q) == TRUE  \* mutant: the result of the transfer is not looked at
CanPay(q) == tokens[<<q.token, q.wallet>>] >= q.amount

\* transfer(tx.origin, tokenAmount), which the worker itself has sent.
Paid(q) == [tokens EXCEPT ![<<q.token, q.wallet>>] = @ - q.amount,
                          ![<<q.token, q.worker>>] = @ + q.amount]

\* A call made by wallet w may move its tokens away; after a failed one none has
\* moved.
Spend(w, before) ==
    \E t \in Token : \E left \in 0..before[<<t, w>>] :
        tokens' = [before EXCEPT ![<<t, w>>] = left]

-----------------------------------------------------------------------------
(* SmartWalletFactory and SmartWallet.initialize *)

NotInitialized(w) == owner[w] = NoOne

\* deploy: CREATE2 yields no second wallet at an address; it is initialized in the
\* same transaction, which fails as a whole.
Deploy(w) ==
    /\ NotInitialized(w)
    /\ owner' = [owner EXCEPT ![w] = w.owner]

CreateUserSmartWallet(w) ==
    /\ w.factory = "plain"
    /\ Deploy(w)
    /\ UNCHANGED <<logic, nonce, nonces, tokens, accepted, checked, executed, created>>

SignedBy(q) == q.signer = q.from

\* SmartWalletFactory._verifySig.
VerifyDeploySig(d) ==
    /\ nonces[<<d.wallet.factory, d.from>>] = d.nonce
    /\ SignedBy(d)

Deployable(d) ==
    /\ VerifyDeploySig(d)
    /\ NotInitialized(d.wallet)
    /\ CanPay(d)

RelayedCreation(d) ==
    /\ VerifyDeploySig(d)
    /\ CanPay(d)
    /\ nonces' = [nonces EXCEPT ![<<d.wallet.factory, d.from>>] = @ + 1]
    /\ tokens' = Paid(d)
    /\ created' = created \cup {d}
    /\ UNCHANGED <<nonce, accepted, checked, executed>>

RelayedUserSmartWalletCreation(d) ==
    /\ d.wallet.factory = "plain"
    /\ Deploy(d.wallet)
    /\ RelayedCreation(d)
    /\ UNCHANGED logic

-----------------------------------------------------------------------------
(* CustomSmartWalletFactory and CustomSmartWallet.initialize *)

DeployWithoutLogic(w) == Deploy(w) /\ UNCHANGED logic  \* mutant

\* The logic contract's own initialize(bytes) may fail and take everything with it.
CustomDeploy(w) ==
    /\ Deploy(w)
    /\ logic' = [logic EXCEPT ![w] = w.logic]

CustomCreateUserSmartWallet(w) ==
    /\ w.factory = "custom"
    /\ CustomDeploy(w)
    /\ UNCHANGED <<nonce, nonces, tokens, accepted, checked, executed, created>>

CustomRelayedUserSmartWalletCreation(d) ==
    /\ d.wallet.factory = "custom"
    /\ CustomDeploy(d.wallet)
    /\ RelayedCreation(d)

-----------------------------------------------------------------------------
(* SmartWallet *)

OldNonce(r) == nonce[r.wallet] >= r.nonce  \* mutant: used nonces are good, too
NonceMatches(r) == nonce[r.wallet] = r.nonce

VerifySig(r) ==
    /\ owner[r.wallet] = r.from
    /\ NonceMatches(r)
    /\ r.domain = r.wallet
    /\ SignedBy(r)

Executable(r) ==
    /\ r.wallet \in Genuine
    /\ VerifySig(r)
    /\ CanPay(r)

\* The nonce and the payment come before the call to the destination, and stay
\* when it fails.
Executed(r) ==
    /\ Executable(r)
    /\ nonce' = [nonce EXCEPT ![r.wallet] = @ + 1]
    /\ Spend(r.wallet, Paid(r))
    /\ executed' = [executed EXCEPT ![r.wallet] = Append(@, r)]
    /\ UNCHANGED <<owner, logic, nonces, accepted, checked, created>>

Execute(r) == r.wallet.factory = "plain" /\ Executed(r)

Acts(w) ==
    /\ Spend(w, tokens)
    /\ UNCHANGED <<owner, logic, nonce, nonces, accepted, checked, executed, created>>

\* The owner or the recoverer makes the wallet call somebody; no nonce is used.
DirectExecute(w) == w \in Genuine /\ owner[w] # NoOne /\ Acts(w)
Recover(w)       == w \in Genuine /\ owner[w] # NoOne /\ Acts(w)

-----------------------------------------------------------------------------
(* CustomSmartWallet *)

\* A wallet with logic delegates the call to it.  The logic, like any destination,
\* can spend what the wallet has; it keeps clear of the wallet's own variables.
CustomExecute(r) == r.wallet.factory = "custom" /\ Executed(r)

\* Whatever the wallet itself does not know goes to its logic.
Fallback(w) == owner[w] # NoOne /\ logic[w] \in Logic /\ Acts(w)

-----------------------------------------------------------------------------
(* The verifiers, and the two checks of a server *)

Accepts(kind, q) == <<<<kind, q.verifier>>, q.token>> \in accepted

AcceptToken(v, t) ==
    /\ <<v, t>> \notin accepted
    /\ accepted' = accepted \cup {<<v, t>>}
    /\ UNCHANGED <<chain, checked>>

AnyCode(r) == TRUE  \* mutant: any contract may be the payer
TemplateCode(r) == r.wallet.factory = r.verifier /\ owner[r.wallet] # NoOne

\* RelayVerifier.verifyRelayedCall.
VerifyRelayedCall(r) ==
    /\ Accepts("relay", r)
    /\ TemplateCode(r)
    /\ CanPay(r)

\* DeployVerifier.verifyRelayedCall.
VerifyDeployCall(d) ==
    /\ d.verifier = "plain" /\ d.wallet.factory = "plain"
    /\ Accepts("deploy", d)
    /\ NotInitialized(d.wallet)
    /\ CanPay(d)

\* CustomSmartWalletDeployVerifier.verifyRelayedCall.
VerifyCustomDeployCall(d) ==
    /\ d.verifier = "custom" /\ d.wallet.factory = "custom"
    /\ Accepts("deploy", d)
    /\ NotInitialized(d.wallet)
    /\ CanPay(d)

Check(q, pc) ==
    /\ checked' = [checked EXCEPT ![q] =
          [pc |-> pc, tokens |-> tokens[<<q.token, q.wallet>>]]]
    /\ UNCHANGED <<chain, accepted>>

\* validateRequestWithVerifier.
Verify(q) ==
    /\ checked[q].pc = "new"
    /\ \/ q \in RelayRequest /\ VerifyRelayedCall(q)
       \/ q \in DeployRequest /\ (VerifyDeployCall(q) \/ VerifyCustomDeployCall(q))
    /\ Check(q, "verified")

\* validateViewCallSucceeds, later; a contract that is not the template may answer
\* anything.  Then the transaction is sent.
ViewCall(q) ==
    /\ checked[q].pc = "verified"
    /\ \/ q \in RelayRequest /\ (Executable(q) \/ q.wallet \notin Genuine)
       \/ q \in DeployRequest /\ Deployable(q)
    /\ Check(q, "sent")

-----------------------------------------------------------------------------
\* Tokens arrive at a wallet, or at the address of one to be.
Fund(t, w) ==
    /\ tokens[<<t, w>>] < MaxTokens
    /\ tokens' = [tokens EXCEPT ![<<t, w>>] = @ + 1]
    /\ UNCHANGED <<owner, logic, nonce, nonces, accepted, checked, executed, created>>

Init ==
    /\ owner = [w \in Wallet |-> NoOne]
    /\ logic = [w \in Wallet |-> NoLogic]
    /\ nonce = [w \in Wallet |-> 0]
    /\ nonces = [f \in Factory \X Owner |-> 0]
    /\ tokens = [a \in Token \X (Wallet \cup Worker) |-> 0]
    /\ accepted = {}
    /\ checked = [q \in RelayRequest \cup DeployRequest |-> [pc |-> "new", tokens |-> 0]]
    /\ executed = [w \in Wallet |-> << >>]
    /\ created = {}

\* The worker of a request may send it at any time, checked or not.
Next ==
    \/ \E w \in Wallet :
          \/ CreateUserSmartWallet(w) \/ CustomCreateUserSmartWallet(w)
          \/ DirectExecute(w) \/ Recover(w) \/ Fallback(w)
    \/ \E t \in Token, w \in Genuine : Fund(t, w)
    \/ \E d \in DeployRequest :
          RelayedUserSmartWalletCreation(d) \/ CustomRelayedUserSmartWalletCreation(d)
    \/ \E r \in RelayRequest : Execute(r) \/ CustomExecute(r)
    \/ \E v \in Verifier, t \in Token : AcceptToken(v, t)
    \/ \E q \in RelayRequest \cup DeployRequest : Verify(q) \/ ViewCall(q)

Spec == Init /\ [][Next]_vars
-----------------------------------------------------------------------------
(* Properties *)

TypeOK ==
    /\ owner \in [Wallet -> Owner \cup {NoOne}]
    /\ logic \in [Wallet -> Logic \cup {NoLogic}]
    /\ nonce \in [Wallet -> Nat]
    /\ nonces \in [Factory \X Owner -> Nat]
    /\ tokens \in [Token \X (Wallet \cup Worker) -> Nat]
    /\ accepted \subseteq Verifier \X Token
    /\ checked \in [RelayRequest \cup DeployRequest ->
                       [pc : {"new", "verified", "sent"}, tokens : Nat]]
    /\ executed \in [Wallet -> Seq(RelayRequest)]
    /\ created \subseteq DeployRequest

\* Whoever has a wallet created, directly or through a relay: it belongs to the
\* owner its address was computed from, and has that address' logic, for good.
WalletsAreTheirOwners ==
    \A w \in Wallet : owner[w] # NoOne => owner[w] = w.owner /\ logic[w] = w.logic

\* A server that sent a request after both checks pays for a failed transaction only
\* when something happened in between: another request of this owner was executed
\* for its nonce, the wallet was created, or it has fewer tokens than at the check.
CheckedRequestsStayGood ==
    /\ \A r \in RelayRequest : checked[r].pc = "sent" =>
          \/ Executable(r)
          \/ nonce[r.wallet] > r.nonce
          \/ tokens[<<r.token, r.wallet>>] < checked[r].tokens
    /\ \A d \in DeployRequest : checked[d].pc = "sent" =>
          \/ Deployable(d)
          \/ nonces[<<d.wallet.factory, d.from>>] > d.nonce
          \/ owner[d.wallet] # NoOne
          \/ tokens[<<d.token, d.wallet>>] < checked[d].tokens

Promise == INSTANCE RelayedCalls WITH
    deployed <- {w \in Wallet : owner[w] # NoOne},
    earned <- [a \in Token \X Worker |-> tokens[a]]

\* The wallets and factories implement RelayedCalls: with any number of relays that
\* send the same or competing requests in any order, nothing runs twice, nothing
\* runs unsigned, and nobody is paid for anything else.
ImplementsRelayedCalls == Promise!Spec
=============================================================================
