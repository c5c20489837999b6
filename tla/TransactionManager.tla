------------------------- MODULE TransactionManager -------------------------
(***************************************************************************)
(* The relay server's TransactionManager with its persistent TxStore       *)
(* (src/relayserver/TransactionManager.ts, TxStoreManager.ts,              *)
(* StoredTransaction.ts), run against a node that may lose, drop, replace  *)
(* and reorder transactions.                                               *)
(*                                                                         *)
(* Any number of sendTransaction calls are under way at once (HTTP relay   *)
(* requests, registration, replenishing); one worker at a time runs a      *)
(* round: removeConfirmedTransactions, then                                *)
(* boostUnderpricedPendingTransactionsForSigner for each signer.  A step   *)
(* is what happens between two awaits.  The server may crash at any point  *)
(* and restarts with the store it left on disk.                            *)
(***************************************************************************)
EXTENDS Integers, Sequences, FiniteSets

CONSTANTS
    SignerOrder,         \* the signing accounts, in the order a round boosts them
    Call,                \* calls of sendTransaction
    CallSigner,          \* CallSigner[c]: the account that signs for c
    CallValue,           \* CallValue[c]: the RBTC c transfers, 0 for a hub call
    CallGasPrice,        \* CallGasPrice[c]: the gas price c was called with
    NoCall,
    ConfirmationsNeeded,              \* config.confirmationsNeeded
    PendingTransactionTimeoutBlocks,  \* config.pendingTransactionTimeoutBlocks
    RetryGasPriceFactor,              \* config.retryGasPriceFactor
    MaxGasPrice,                      \* config.maxGasPrice
    MaxBlock,            \* bound: block height
    MaxCrashes,          \* bound: restarts of the server
    MaxLost,             \* bound: requests that fail, or whose answer is lost
    MaxDrops,            \* bound: transactions the network forgets
    MaxReorgs            \* bound: chain reorganizations

Signer == {SignerOrder[i] : i \in 1..Len(SignerOrder)}

\* A nonce is consumed by a call at most once, so there are never more of them.
Nonce == 0..Cardinality(Call)

ASSUME TransactionManagerAssumption ==
    /\ IsFiniteSet(Call)
    /\ NoCall \notin Call
    /\ SignerOrder \in Seq(Signer)
    /\ CallSigner \in [Call -> Signer]
    /\ CallValue \in [Call -> Nat]
    /\ CallGasPrice \in [Call -> Nat \ {0}]
    /\ ConfirmationsNeeded \in Nat \ {0}
    /\ PendingTransactionTimeoutBlocks \in Nat \ {0}
    /\ RetryGasPriceFactor \in Nat \ {0}
    /\ MaxGasPrice \in Nat

VARIABLES
    (* On disk *)
    store,       \* store[s][n]: the stored transaction of signer s with nonce n
    (* In the memory of the server *)
    nonces,      \* nonces[s]: the next nonce to use, 0 after a restart
    mutex,       \* the call that holds nonceMutex
    calls,       \* calls[c]: where call c is, and what it has read or signed
    round,       \* the worker's round
    scanned,     \* lastScannedBlock
    (* The node and the network *)
    block,       \* the latest block
    chain,       \* chain[s]: the transactions of s on the chain, in nonce order
    pool,        \* transactions that were accepted and may still be mined
    sent,        \* history: every transaction eth_sendRawTransaction accepted
    faults       \* how many faults of each kind happened

serverVars == <<nonces, mutex, calls, round, scanned>>
nodeVars   == <<block, chain, pool, sent>>
vars       == <<store, serverVars, nodeVars, faults>>

-----------------------------------------------------------------------------
(* Data *)

\* A signed transaction; the record stands for its hash.  call stands for
\* (to, data, gasLimit).
Tx == [from : Signer, nonce : Nonce, gasPrice : Nat, call : Call, value : Nat]

\* A StoredTransaction.  lastSent is boostBlockNumber ?? creationBlockNumber and
\* mined is minedBlockNumber, 0 when null.  The value is part of the hash txId
\* but is no field of its own.
Stored == [tx : Tx, lastSent : Nat, mined : Nat]

Empty == [tx |-> NoCall]

IsStored(s, n)  == store[s][n] # Empty
StoredNonces(s) == {n \in Nonce : IsStored(s, n)}
IsOldest(s, n)  == IsStored(s, n) /\ \A k \in StoredNonces(s) : n <= k

MaxOf(x, y) == IF x < y THEN y ELSE x

-----------------------------------------------------------------------------
(* What the node answers *)

AccountNonce(s) == Len(chain[s])

\* eth_getTransactionCount(s, 'pending'): the account nonce plus the executable
\* transactions of the pool.
InPool(s, n) == \E t \in pool : t.from = s /\ t.nonce = n

IsPendingNonce(s, n) ==
    /\ n >= AccountNonce(s)
    /\ ~InPool(s, n)
    /\ \A k \in AccountNonce(s)..n-1 : InPool(s, k)

\* The block that holds t, 0 when it is pending, replaced or unknown.
MinedIn(t) ==
    IF t.nonce < AccountNonce(t.from) /\ chain[t.from][t.nonce + 1].tx = t
    THEN chain[t.from][t.nonce + 1].block
    ELSE 0

\* eth_sendRawTransaction takes t unless its nonce is used on the chain or the
\* pool has one as well paid for the same nonce.
Accepts(t) ==
    /\ t.nonce >= AccountNonce(t.from)
    /\ \A u \in pool : u.from = t.from /\ u.nonce = t.nonce => u.gasPrice < t.gasPrice

-----------------------------------------------------------------------------
(* sendTransaction *)

\* nonceMutex.acquire, and the request of pollNonce inside it.  The caller read
\* creationBlockNumber some time before.
AcquireAndPoll(c) ==
    /\ calls[c].pc = "new"
    /\ mutex = NoCall
    /\ mutex' = c
    /\ \E n \in Nonce, b \in 1..block :
          /\ IsPendingNonce(CallSigner[c], n)
          /\ calls' = [calls EXCEPT ![c] = [pc |-> "polled", created |-> b, pending |-> n]]
    /\ UNCHANGED <<store, nonces, round, scanned, nodeVars, faults>>

Overwrites(s, n) == FALSE  \* mutant: putTx with updateExisting
InsertFails(s, n) == IsStored(s, n)

\* The answer of pollNonce arrives: sign, advance the local nonce, putTx without
\* updateExisting, release the mutex.  The unique index on nonceSigner makes the
\* insert fail when that nonce is still in the store: the call throws, the local
\* nonce stays advanced.  (n \in Nonce always holds: NonceBoundNeverBinds.)
SignAndStore(c) ==
    LET s == CallSigner[c]
        n == MaxOf(nonces[s], calls[c].pending)
        t == [from |-> s, nonce |-> n, gasPrice |-> CallGasPrice[c],
              call |-> c, value |-> CallValue[c]]
    IN  /\ calls[c].pc = "polled"
        /\ n \in Nonce
        /\ nonces' = [nonces EXCEPT ![s] = n + 1]
        /\ mutex' = NoCall
        /\ IF InsertFails(s, n)
           THEN /\ calls' = [calls EXCEPT ![c] = [pc |-> "failed"]]
                /\ UNCHANGED store
           ELSE /\ calls' = [calls EXCEPT ![c] = [pc |-> "stored", tx |-> t]]
                /\ store' = [store EXCEPT ![s][n] =
                        [tx |-> t, lastSent |-> calls[c].created, mined |-> 0]]
        /\ UNCHANGED <<round, scanned, nodeVars, faults>>

\* broadcastTransaction, outside the mutex: the node takes the transaction or
\* rejects it (the call then throws); the store keeps it either way.
Broadcast(c) ==
    LET t == calls[c].tx
    IN  /\ calls[c].pc = "stored"
        /\ calls' = [calls EXCEPT ![c] = [pc |-> "done"]]
        /\ IF Accepts(t) THEN pool' = pool \cup {t} /\ sent' = sent \cup {t}
                         ELSE UNCHANGED <<pool, sent>>
        /\ UNCHANGED <<store, nonces, mutex, round, scanned, block, chain, faults>>

\* The request never reaches the node.
BroadcastFails(c) ==
    /\ calls[c].pc = "stored"
    /\ faults.lost < MaxLost
    /\ calls' = [calls EXCEPT ![c] = [pc |-> "failed"]]
    /\ faults' = [faults EXCEPT !.lost = @ + 1]
    /\ UNCHANGED <<store, nonces, mutex, round, scanned, nodeVars>>

\* pollNonce outside the mutex, from RelayServer.validateMaxNonce.
PollNonce(s) ==
    /\ \E n \in Nonce :
          /\ IsPendingNonce(s, n)
          /\ nonces' = [nonces EXCEPT ![s] = MaxOf(@, n)]
    /\ UNCHANGED <<store, mutex, calls, round, scanned, nodeVars, faults>>

-----------------------------------------------------------------------------
(* The worker's round *)

Idle == [pc |-> "idle"]

\* intervalHandler finds a block later than lastScannedBlock and no round is on.
\* MaxBlock stands for every later block too: rounds go on there.
StartRound ==
    /\ round.pc = "idle"
    /\ block > scanned \/ block = MaxBlock
    /\ round' = [pc |-> "started", block |-> block]
    /\ UNCHANGED <<store, nonces, mutex, calls, scanned, nodeVars, faults>>

\* getAll, at the start of removeConfirmedTransactions.  Balance, events and
\* registration were looked after since the block was read: the chain and the
\* store may have moved on.
LoadStored ==
    /\ round.pc = "started"
    /\ round' = [pc |-> "confirm", block |-> round.block,
                 todo |-> UNION {{store[s][n] : n \in StoredNonces(s)} : s \in Signer}]
    /\ UNCHANGED <<store, nonces, mutex, calls, scanned, nodeVars, faults>>

\* One of the round's requests to the node fails: the exception ends the round,
\* what was written to the store stays, lastScannedBlock does not advance.
RoundFails ==
    /\ round.pc \in {"started", "confirm", "boost"}
    /\ faults.lost < MaxLost
    /\ faults' = [faults EXCEPT !.lost = @ + 1]
    /\ round' = Idle
    /\ UNCHANGED <<store, nonces, mutex, calls, scanned, nodeVars>>

\* removeConfirmedTransactions goes through its snapshot by nonce.
FirstOf(todo) == {e \in todo : \A f \in todo : e.tx.nonce <= f.tx.nonce}

RecheckAlways(e) == TRUE        \* mutant: mined is taken for confirmed
RecheckPending(e) == e.mined = 0 \* mutant: a mined entry is not looked at again
ShouldRecheck(e) == e.mined = 0 \/ round.block - e.mined >= ConfirmationsNeeded

\* Mined, or moved to another block, with too few confirmations.
OnlyMined(e) ==
    /\ MinedIn(e.tx) # e.mined
    /\ round.block - MinedIn(e.tx) < ConfirmationsNeeded

RemoveAllTxs(s, n) ==  \* mutant: the nonce is ignored
    [store EXCEPT ![s] = [k \in Nonce |-> Empty]]

\* removeTxsUntilNonce.
RemoveTxsUntilNonce(s, n) ==
    [store EXCEPT ![s] = [k \in Nonce |-> IF k <= n THEN Empty ELSE store[s][k]]]

ConfirmOne(e) ==
    /\ round.pc = "confirm"
    /\ e \in FirstOf(round.todo)
    /\ round' = [pc |-> "confirm", block |-> round.block, todo |-> round.todo \ {e}]
    /\ store' = IF ~ShouldRecheck(e) \/ MinedIn(e.tx) = 0 THEN store
                ELSE IF OnlyMined(e)
                THEN [store EXCEPT ![e.tx.from][e.tx.nonce] =
                        [e EXCEPT !.mined = MinedIn(e.tx)]]
                ELSE RemoveTxsUntilNonce(e.tx.from, e.tx.nonce)
    /\ UNCHANGED <<nonces, mutex, calls, scanned, nodeVars, faults>>

ConfirmDone ==
    /\ round.pc = "confirm"
    /\ round.todo = {}
    /\ round' = [pc |-> "boost", block |-> round.block, signers |-> SignerOrder]
    /\ UNCHANGED <<store, nonces, mutex, calls, scanned, nodeVars, faults>>

LoweredGasPrice(oldGasPrice) == oldGasPrice - RetryGasPriceFactor  \* mutant

ResolveNewGasPrice(oldGasPrice) ==
    IF oldGasPrice * RetryGasPriceFactor > MaxGasPrice
    THEN MaxGasPrice
    ELSE oldGasPrice * RetryGasPriceFactor

NeedsBoostLate(s, n) ==  \* mutant: off by one in the account nonce
    /\ IsOldest(s, n)
    /\ n > AccountNonce(s)
    /\ round.block - store[s][n].lastSent >= PendingTransactionTimeoutBlocks

\* The oldest stored transaction of s is not mined and was sent long ago.
NeedsBoost(s, n) ==
    /\ IsOldest(s, n)
    /\ n >= AccountNonce(s)
    /\ round.block - store[s][n].lastSent >= PendingTransactionTimeoutBlocks

Underpriced(s, price) ==
    {store[s][n] : n \in {k \in StoredNonces(s) : store[s][k].tx.gasPrice < price}}

\* boostUnderpricedPendingTransactionsForSigner up to its loop.
BoostSigner ==
    LET s == Head(round.signers)
    IN  /\ round.pc = "boost"
        /\ round.signers # <<>>
        /\ \/ \E n \in Nonce :
                LET price == ResolveNewGasPrice(store[s][n].tx.gasPrice)
                IN  /\ NeedsBoost(s, n)
                    /\ round' = [pc |-> "resend", block |-> round.block,
                                 signers |-> Tail(round.signers),
                                 todo |-> Underpriced(s, price), price |-> price]
           \/ /\ \A n \in Nonce : ~NeedsBoost(s, n)
              /\ round' = [pc |-> "boost", block |-> round.block,
                           signers |-> Tail(round.signers)]
        /\ UNCHANGED <<store, nonces, mutex, calls, scanned, nodeVars, faults>>

ResentUnderNext(t, price) ==  \* mutant: signed with the next nonce
    [t EXCEPT !.gasPrice = price, !.value = 0, !.nonce = @ + 1]

ResentPayingPrice(t, price) ==  \* mutant: a value is there, but the wrong argument
    [t EXCEPT !.gasPrice = price, !.value = price]

\* resendTransaction builds the transaction anew from the fields of the stored
\* one; the value is not among them, so the new one transfers nothing.
Resent(t, price) == [t EXCEPT !.gasPrice = price, !.value = 0]

\* updateTransactionWithAttempt: the new hash replaces the old one in the store
\* before the new transaction is broadcast.
ResendStore(e) ==
    LET t == Resent(e.tx, round.price)
    IN  /\ round.pc = "resend"
        /\ e \in FirstOf(round.todo)
        /\ store' = [store EXCEPT ![t.from][t.nonce] =
                        [tx |-> t, lastSent |-> round.block, mined |-> e.mined]]
        /\ round' = [pc |-> "broadcast", block |-> round.block, signers |-> round.signers,
                     todo |-> round.todo \ {e}, price |-> round.price, tx |-> t]
        /\ UNCHANGED <<nonces, mutex, calls, scanned, nodeVars, faults>>

ResendBroadcast ==
    /\ round.pc = "broadcast"
    /\ Accepts(round.tx)
    /\ sent' = sent \cup {round.tx}
    /\ pool' = pool \cup {round.tx}
    /\ round' = [pc |-> "resend", block |-> round.block, signers |-> round.signers,
                 todo |-> round.todo, price |-> round.price]
    /\ UNCHANGED <<store, nonces, mutex, calls, scanned, block, chain, faults>>

\* The node rejects the transaction, or the request or its answer is lost: the
\* exception ends the round, lastScannedBlock stays.
ResendFails ==
    /\ round.pc = "broadcast"
    /\ round' = Idle
    /\ \/ /\ ~Accepts(round.tx)
          /\ UNCHANGED <<pool, sent, faults>>
       \/ /\ Accepts(round.tx)
          /\ faults.lost < MaxLost
          /\ faults' = [faults EXCEPT !.lost = @ + 1]
          /\ \/ UNCHANGED <<pool, sent>>
             \/ sent' = sent \cup {round.tx} /\ pool' = pool \cup {round.tx}
    /\ UNCHANGED <<store, nonces, mutex, calls, scanned, block, chain>>

SignerDone ==
    /\ round.pc = "resend"
    /\ round.todo = {}
    /\ round' = [pc |-> "boost", block |-> round.block, signers |-> round.signers]
    /\ UNCHANGED <<store, nonces, mutex, calls, scanned, nodeVars, faults>>

EndRound ==
    /\ round.pc = "boost"
    /\ round.signers = <<>>
    /\ scanned' = round.block
    /\ round' = Idle
    /\ UNCHANGED <<store, nonces, mutex, calls, nodeVars, faults>>

-----------------------------------------------------------------------------
(* Restarts of the server *)

\* Calls under way are gone; the constructor sets the nonces to 0.
Crash ==
    /\ faults.crash < MaxCrashes
    /\ faults' = [faults EXCEPT !.crash = @ + 1]
    /\ nonces' = [s \in Signer |-> 0]
    /\ mutex' = NoCall
    /\ calls' = [c \in Call |-> IF calls[c].pc = "new" THEN calls[c] ELSE [pc |-> "failed"]]
    /\ round' = Idle
    /\ scanned' = 0
    /\ UNCHANGED <<store, nodeVars>>

-----------------------------------------------------------------------------
(* The network *)

\* Transactions of s that the next block may hold.  A replaced transaction may
\* still be mined: the miner need not have heard of its replacement.
Minable(s) == {t \in pool : t.from = s /\ t.nonce = AccountNonce(s)}

MineBlock ==
    /\ block < MaxBlock
    /\ block' = block + 1
    /\ \E txs \in SUBSET UNION {Minable(s) : s \in Signer} :
          /\ \A t, u \in txs : t.from = u.from => t = u
          /\ chain' = [s \in Signer |->
                IF \E t \in txs : t.from = s
                THEN Append(chain[s], [tx |-> CHOOSE t \in txs : t.from = s,
                                       block |-> block + 1])
                ELSE chain[s]]
    /\ UNCHANGED <<store, serverVars, pool, sent, faults>>

\* A node forgets a transaction that is not mined.
Drop(t) ==
    /\ t \in pool
    /\ t.nonce >= AccountNonce(t.from)
    /\ faults.drop < MaxDrops
    /\ faults' = [faults EXCEPT !.drop = @ + 1]
    /\ pool' = pool \ {t}
    /\ UNCHANGED <<store, serverVars, block, chain, sent>>

\* A branch without the last transactions of s wins.  What has
\* ConfirmationsNeeded confirmations is final.
Reorg(s) ==
    /\ faults.reorg < MaxReorgs
    /\ faults' = [faults EXCEPT !.reorg = @ + 1]
    /\ \E n \in 0..AccountNonce(s)-1 :
          /\ block - chain[s][n + 1].block < ConfirmationsNeeded
          /\ chain' = [chain EXCEPT ![s] = SubSeq(@, 1, n)]
    /\ UNCHANGED <<store, serverVars, block, pool, sent>>

-----------------------------------------------------------------------------
Init ==
    /\ store = [s \in Signer |-> [n \in Nonce |-> Empty]]
    /\ nonces = [s \in Signer |-> 0]
    /\ mutex = NoCall
    /\ calls = [c \in Call |-> [pc |-> "new"]]
    /\ round = Idle
    /\ scanned = 0
    /\ block = 1
    /\ chain = [s \in Signer |-> << >>]
    /\ pool = {}
    /\ sent = {}
    /\ faults = [crash |-> 0, lost |-> 0, drop |-> 0, reorg |-> 0]

CallStep(c) == AcquireAndPoll(c) \/ SignAndStore(c) \/ Broadcast(c) \/ BroadcastFails(c)

WorkerStep ==
    \/ StartRound
    \/ LoadStored
    \/ RoundFails
    \/ round.pc = "confirm" /\ \E e \in round.todo : ConfirmOne(e)
    \/ ConfirmDone
    \/ BoostSigner
    \/ round.pc = "resend" /\ \E e \in round.todo : ResendStore(e)
    \/ ResendBroadcast
    \/ ResendFails
    \/ SignerDone
    \/ EndRound

Next ==
    \/ \E c \in Call : CallStep(c)
    \/ \E s \in Signer : PollNonce(s)
    \/ WorkerStep
    \/ Crash
    \/ MineBlock
    \/ \E t \in pool : Drop(t)
    \/ \E s \in Signer : Reorg(s)

Spec == Init /\ [][Next]_vars

\* setInterval keeps starting rounds and the event loop runs each of them to its
\* end; blocks keep coming.  (A round whose manager is below managerMinBalance
\* returns before it gets here: the balance is assumed to suffice.)  Nothing is
\* assumed of the callers, and nothing of the network: a transaction in the pool
\* need never be mined.
FairSpec == Spec /\ WF_vars(WorkerStep) /\ WF_vars(MineBlock)

-----------------------------------------------------------------------------
(* Properties *)

CallState ==
    [pc : {"new", "failed", "done"}]
    \cup [pc : {"polled"}, created : Nat, pending : Nat]
    \cup [pc : {"stored"}, tx : Tx]

\* What the worker holds at each point of its round.
RoundOK ==
    /\ round.pc \in {"idle", "started", "confirm", "boost", "resend", "broadcast"}
    /\ round.pc # "idle" => round.block \in Nat
    /\ round.pc \in {"confirm", "resend", "broadcast"} => round.todo \subseteq Stored
    /\ round.pc \in {"boost", "resend", "broadcast"} => round.signers \in Seq(Signer)
    /\ round.pc \in {"resend", "broadcast"} => round.price \in Nat
    /\ round.pc = "broadcast" => round.tx \in Tx

\* Types of the state of the server and of the node.
TypeOK ==
    /\ store \in [Signer -> [Nonce -> Stored \cup {Empty}]]
    /\ nonces \in [Signer -> Nat]
    /\ mutex \in Call \cup {NoCall}
    /\ calls \in [Call -> CallState]
    /\ RoundOK
    /\ scanned \in Nat /\ block \in Nat
    /\ chain \in [Signer -> Seq([tx : Tx, block : Nat])]
    /\ pool \subseteq sent
    /\ sent \subseteq Tx

\* The transaction with nonce n of s has all the confirmations it needs.
Final(s, n) ==
    /\ n < AccountNonce(s)
    /\ block - chain[s][n + 1].block >= ConfirmationsNeeded

\* Whatever crashes, drops and concurrent calls do, the server never gets two
\* different calls into the network under one nonce: the unique index of the store rejects
\* the nonce that pollNonce hands out a second time after a restart, before the
\* transaction is broadcast.
SameNonceSameCall ==
    \A t, u \in sent : t.from = u.from /\ t.nonce = u.nonce => t.call = u.call

\* A transaction is in the store, so that it can be confirmed or sent again,
\* from before its first broadcast until its nonce is final: neither a crash
\* between putTx and the broadcast nor a chain reorganization between two
\* rounds of removeConfirmedTransactions loses it.
UnconfirmedIsStored ==
    \A t \in sent : IsStored(t.from, t.nonce) \/ Final(t.from, t.nonce)

\* nonces[signer]++ comes before putTx and the broadcast, either of which may
\* fail: still, every nonce passed over is in the store, so a gap in front of
\* later transactions can be filled by a boost.
NoLostNonce ==
    \A s \in Signer : \A n \in AccountNonce(s)..nonces[s]-1 : IsStored(s, n)

\* TransactionManager.ts:170: "Resend transaction with exactly the same values
\* except for gas price": two transactions sent under one nonce transfer the
\* same amount.
ResentTransfersTheSame ==
    \A t, u \in sent : t.from = u.from /\ t.nonce = u.nonce => t.value = u.value

\* Penalizer.sol, lines 77-83: what two transactions of one nonce must agree in.
\* call stands for (to, data, gasLimit).
EvidenceBody(t) == <<t.call, t.value>>

\* The server gives nobody evidence to have its own worker penalized: whatever is
\* repeated, boosted or sent after a restart under the nonce of a relayed call,
\* which transfers no RBTC, differs from it in the gas price only.
RelaysAreNoEvidence ==
    \A t, u \in sent :
        t.from = u.from /\ t.nonce = u.nonce /\ CallValue[t.call] = 0
            => EvidenceBody(t) = EvidenceBody(u)

\* The slots of module Outbox: what is final stands, what is not is in the store.
SlotOf(s, n) ==
    IF Final(s, n) THEN chain[s][n + 1].tx.call
    ELSE IF IsStored(s, n) THEN store[s][n].tx.call ELSE NoCall

Promise == INSTANCE Outbox WITH
    assigned <- [s \in Signer |-> [n \in Nonce |-> SlotOf(s, n)]],
    executed <- [s \in Signer |-> [i \in 1..Len(chain[s]) |-> chain[s][i].tx.call]],
    final    <- [s \in Signer |-> {n \in Nonce : Final(s, n)}]

\* Through crashes, lost answers, drops, replacements and reorganizations the
\* store and the chain together are an Outbox: a call gets one nonce at most, the
\* first free one of its signer, and no boost, restart or removal takes it away;
\* the chain holds the calls in that order.
ImplementsOutbox == Promise!Spec

\* A transaction mined under the hash the store knows leaves the store once it
\* has its confirmations (within the blocks of the model).
StoredAndMined(s, n) ==
    /\ IsStored(s, n)
    /\ MinedIn(store[s][n].tx) # 0
    /\ MinedIn(store[s][n].tx) + ConfirmationsNeeded <= MaxBlock

MinedEntriesLeave == \A s \in Signer, n \in Nonce : []<>~StoredAndMined(s, n)

\* The stored transaction with nonce n of s was last sent long before the end of
\* the model and could still be paid better.
Stale(s, n) ==
    /\ IsStored(s, n)
    /\ n >= AccountNonce(s)
    /\ store[s][n].lastSent + PendingTransactionTimeoutBlocks <= MaxBlock
    /\ store[s][n].tx.gasPrice < MaxGasPrice

\* A transaction that is not mined and is the oldest one in the store does not
\* stay unattended: it is sent again with a higher gas price.
OldestStoredIsResent ==
    \A s \in Signer, n \in Nonce :
        []<>~(Stale(s, n) /\ IsOldest(s, n))

\* TransactionManager.ts:262: "uses the oldest pending transaction for reference.
\* If it was not mined in a reasonable time, it is boosted": the oldest one that
\* is not mined, when all those before it are final.
OldestPendingIsResent ==
    \A s \in Signer, n \in Nonce :
        []<>~(Stale(s, n) /\ \A k \in StoredNonces(s) : k < n => Final(s, k))
=============================================================================
