----------------------------- MODULE RelayChain -----------------------------
(***************************************************************************)
(* The chain as one relay server sees it: the RelayHub with one manager,   *)
(* one worker and their owner, the events the hub emits for the manager,   *)
(* the accounts' RBTC, and the transactions the server handed to its       *)
(* TransactionManager (modelled in full in TransactionManager).            *)
(*                                                                         *)
(* MineBlock opens a block; at most one transaction of the owner, then     *)
(* those of the manager, then those of the worker run in it; SealBlock     *)
(* completes it, and only then can anyone read it.                         *)
(***************************************************************************)
EXTENDS Lists, FiniteSets, SequencesExt

CONSTANTS
    UnstakeDelay,   \* the delay the owner stakes with, and the hub's minimum
    OptionStake,    \* what the owner wants to stake, options.stake of registerRelay
    MaxStakes,      \* bound: how often the owner runs registerRelay
    MaxTxs,         \* bound: transactions of one signer
    MaxBlock        \* bound: block height

\* The hub reverts a stake with a smaller delay than its minimum, which is not 0.
ASSUME RelayChainAssumption ==
    /\ UnstakeDelay \in Nat \ {0} /\ OptionStake \in Nat \ {0}
    /\ MaxStakes \in Nat /\ MaxBlock \in Nat

Manager   == "manager"
Worker    == "worker"
Owner     == "owner"
HubItself == "hub"
NoAddress == "undefined"
Signer    == {Manager, Worker}
Account   == {Manager, Worker, Owner, HubItself}

VARIABLES
    stakes, workerToManager, workerCount, hubBalance, block, registered, relayedAt,
                \* the state of the RelayHub contract
    phase,      \* whose transactions the block holds so far
    log,        \* the events of the hub that carry the manager's topic
    balance,    \* balance[a]: RBTC of account a in the latest block
    txs,        \* txs[s]: transactions stored for signer s, in nonce order
    mined,      \* mined[s]: how many of them are on the chain
    seen        \* seen[s]: how many the TxStore knows to be mined

Hub == INSTANCE RelayHub WITH
    Address <- {Manager, Worker, Owner}, MaxWorkerCount <- 1,
    MinimumEntryDepositValue <- 1, MinimumUnstakeDelay <- UnstakeDelay,
    MinimumStake <- 1, MsgValues <- Nat, UnstakeDelays <- {UnstakeDelay},
    MaxUint <- MaxBlock + UnstakeDelay, MaxHubBalance <- MaxStakes * OptionStake, MaxBatch <- 1

hubVars ==
    <<stakes, workerToManager, workerCount, hubBalance, block, registered, relayedAt>>

chainVars == <<hubVars, phase, log, balance, txs, mined, seen>>

-----------------------------------------------------------------------------
(* What the node answers *)

\* The indexes of the events with one of these names, from this block on.
Events(names, from) ==
    Keep([i \in 1..Len(log) |-> i],
         {i \in 1..Len(log) : log[i].event \in names /\ log[i].block >= from})

\* Applies the transfer of t, signed by s, to the balances b.
Transfer(b, s, t) ==
    [a \in Account |-> b[a] - (IF a = s THEN t.value ELSE 0)
                            + (IF a = t.to THEN t.value ELSE 0)]

Unmined(s) == SubSeq(txs[s], mined[s] + 1, Len(txs[s]))

\* The node takes a transaction with a recipient that its signer can pay for.
Payable(b, s, t) == t.to # NoAddress /\ b[s] >= t.value

\* The balances b after the transactions of s that the node took and did not mine.
Settle(b, s) ==
    LET Apply(c, t) == IF Payable(c, s, t) THEN Transfer(c, s, t) ELSE c
    IN  FoldOver(Apply, b, Unmined(s))

\* getBalance(a, 'pending'): every transaction the node took has been applied.
PendingBalances == Settle(Settle(balance, Manager), Worker)

-----------------------------------------------------------------------------
(* The TransactionManager, as the rest of the server uses it *)

Tx(action, to, value) == [action |-> action, to |-> to, value |-> value]

\* isActionPending: stored, and not marked as mined.
IsActionPending(s, action) ==
    \E i \in seen[s] + 1..Len(txs[s]) : txs[s][i].action = action

IsTransferPending(to) ==
    \E s \in Signer : \E i \in seen[s] + 1..Len(txs[s]) :
        txs[s][i].action = "VALUE_TRANSFER" /\ txs[s][i].to = to

\* sendTransaction stores the transaction and broadcasts it.
Send(s, t) ==
    /\ Len(txs[s]) < MaxTxs
    /\ txs' = [txs EXCEPT ![s] = Append(@, t)]

-----------------------------------------------------------------------------
(* Blocks *)

Phases == {"sealed", "open", Owner, Manager, Worker}

MineBlock ==
    /\ phase = "sealed"
    /\ phase' = "open"
    /\ Hub!MineBlock
    /\ UNCHANGED <<log, balance, txs, mined, seen>>

SealBlock ==
    /\ phase # "sealed"
    /\ phase' = "sealed"
    /\ UNCHANGED <<hubVars, log, balance, txs, mined, seen>>

ByOwner   == phase = "open" /\ phase' = Owner
Emit(e)   == log' = Append(log, [event |-> e, block |-> block])
NoTx      == UNCHANGED <<balance, txs, mined, seen>>

\* StakeUnlocked carries the block from which the stake can be withdrawn.
Unlock ==
    /\ ByOwner
    /\ Hub!UnlockStake(Owner, Manager)
    /\ log' = Append(log, [event |-> "StakeUnlocked", block |-> block,
                           withdrawBlock |-> block + UnstakeDelay])
    /\ NoTx

Withdraw ==
    /\ ByOwner
    /\ Hub!WithdrawStake(Owner, Manager)
    /\ Emit("StakeWithdrawn")
    /\ NoTx

\* Anyone reports an offence of the worker.  The event has the manager's topic,
\* but the server does not ask for it.
Penalize ==
    /\ ByOwner
    /\ Hub!Penalize(Worker)
    /\ Emit("StakePenalized")
    /\ NoTx

Executes(t) ==
    \/ /\ t.action = "ADD_WORKER"
       /\ Hub!AddRelayWorkers(Manager, <<Worker>>)
       /\ Emit("RelayWorkersAdded")
    \/ /\ t.action = "REGISTER_SERVER"
       /\ Hub!RegisterRelayServer(Manager)
       /\ Emit("RelayServerRegistered")
    \/ /\ t.action = "RELAY_CALL"
       /\ Hub!RelayCall(Worker)
       /\ \E e \in {"TransactionRelayed", "TransactionRelayedButRevertedByRecipient"} :
              Emit(e)
    \/ /\ t.action = "VALUE_TRANSFER"
       /\ UNCHANGED <<hubVars, log>>

Reverts(t) ==
    \/ /\ t.action = "ADD_WORKER"
       /\ ~(Hub!IsRelayManagerStaked(Manager) /\ Hub!Unassigned(Worker))
    \/ /\ t.action = "REGISTER_SERVER"
       /\ ~(Hub!IsRelayManagerStaked(Manager) /\ workerCount[Manager] > 0)
    \/ /\ t.action = "RELAY_CALL"
       /\ ~Hub!RelayAllowed(Worker)

\* The next transaction of s runs; a reverted one is on the chain all the same.
Execute(s) ==
    /\ phase \in {"open", Owner, Manager, s}
    /\ phase' = s
    /\ mined[s] < Len(txs[s])
    /\ LET t == txs[s][mined[s] + 1]
       IN  /\ Payable(balance, s, t)
           /\ balance' = Transfer(balance, s, t)
           /\ \/ Executes(t)
              \/ Reverts(t) /\ UNCHANGED <<hubVars, log>>
    /\ mined' = [mined EXCEPT ![s] = @ + 1]
    /\ UNCHANGED <<txs, seen>>

ChainInit ==
    /\ Hub!Init
    /\ phase = "sealed"
    /\ log = << >>
    /\ balance = [a \in Account |-> 0]
    /\ txs = [s \in Signer |-> << >>]
    /\ mined = [s \in Signer |-> 0]
    /\ seen = [s \in Signer |-> 0]

ChainNext ==
    \/ MineBlock \/ SealBlock
    \/ Unlock \/ Withdraw \/ Penalize
    \/ \E s \in Signer : Execute(s)
=============================================================================
