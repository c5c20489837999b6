------------------------------ MODULE RelayHub ------------------------------
(***************************************************************************)
(* The RelayHub contract (contracts/RelayHub.sol): the stake book, the     *)
(* registry of relay workers and the gate every relayed call goes through. *)
(*                                                                         *)
(* A transaction is atomic, so every external function is one action whose *)
(* guard is the conjunction of its require()s; a call that reverts changes *)
(* nothing and is no step.  The caller (msg.sender) and the arguments are  *)
(* the parameters of the action.  Any account may play any of the roles    *)
(* owner, manager and worker, also several of them at once.                *)
(***************************************************************************)
EXTENDS Integers, FiniteSets, Sequences

CONSTANTS
    Address,                  \* accounts that call the hub or are named by a call
    NoAddress,                \* address(0)
    MaxWorkerCount,           \* maxWorkerCount
    MinimumEntryDepositValue, \* minimumEntryDepositValue
    MinimumUnstakeDelay,      \* minimumUnstakeDelay
    MinimumStake,             \* minimumStake
    MsgValues,                \* amounts a caller may attach to stakeForAddress
    UnstakeDelays,            \* delays a caller may ask for
    MaxUint,                  \* type(uint256).max
    MaxHubBalance,            \* bound: RBTC that can be in the hub at once
    MaxBatch,                 \* bound: length of an address[] argument
    MaxBlock                  \* bound: block height

\* What the constructor requires, plus the shape of the inputs.
ASSUME HubAssumption ==
    /\ IsFiniteSet(Address)
    /\ NoAddress \notin Address
    /\ MaxWorkerCount \in Nat \ {0}
    /\ MinimumEntryDepositValue \in Nat \ {0}
    /\ MinimumUnstakeDelay \in Nat \ {0}
    /\ MinimumStake \in Nat \ {0}
    /\ MsgValues \subseteq Nat
    /\ UnstakeDelays \subseteq Nat
    /\ MaxUint \in Nat /\ MaxHubBalance \in Nat
    /\ MaxBatch \in Nat /\ MaxBlock \in Nat

VARIABLES
    stakes,           \* stakes[m]: StakeInfo of relay manager m
    workerToManager,  \* workerToManager[w]: manager and enabled bit of worker w
    workerCount,      \* workerCount[m]: number of enabled workers of m
    hubBalance,       \* address(this).balance
    block,            \* block.number
    registered,       \* managers that emitted RelayServerRegistered
    relayedAt         \* history: block of the last relay accepted from worker w
                      \* since its manager was last penalized, 0 if none

hubVars ==
    <<stakes, workerToManager, workerCount, hubBalance, block, registered, relayedAt>>

-----------------------------------------------------------------------------
(* Data *)

StakeInfo ==
    [stake : Nat, unstakeDelay : Nat, withdrawBlock : Nat,
     owner : Address \cup {NoAddress}]

\* An entry of the mapping that was never written, or was deleted.
EmptyStake ==
    [stake |-> 0, unstakeDelay |-> 0, withdrawBlock |-> 0, owner |-> NoAddress]

\* The bytes32 word of workerToManager: the manager shifted left by one nibble,
\* with the enabled flag in the lowest bit.
ManagerEntry == [manager : Address \cup {NoAddress}, enabled : BOOLEAN]

NoEntry          == [manager |-> NoAddress, enabled |-> FALSE]
EnabledWorker(m)  == [manager |-> m, enabled |-> TRUE]
ForgottenWorker(m) == NoEntry  \* mutant: disabling deletes the entry
DisabledWorker(m) == [manager |-> m, enabled |-> FALSE]

\* address[] arguments; they may repeat an address.
AddressArrays == UNION {[1..n -> Address] : n \in 0..MaxBatch}

Elements(arr) == {arr[i] : i \in 1..Len(arr)}

AnyArray(arr) == TRUE  \* mutant: an address may be counted twice

\* The loops over an address[] check each entry after writing the previous
\* ones, so an address that occurs twice fails the check the second time.
NoRepeats(arr) == \A i, j \in 1..Len(arr) : i # j => arr[i] # arr[j]

-----------------------------------------------------------------------------
(* requireManagerStaked / isRelayManagerStaked *)

IsRelayManagerStaked(m) ==
    /\ stakes[m].stake >= MinimumStake
    /\ stakes[m].unstakeDelay >= MinimumUnstakeDelay
    /\ stakes[m].withdrawBlock = 0

ManagerOf(w) == workerToManager[w].manager

-----------------------------------------------------------------------------
(* The stake book *)

AnyDelay(m, unstakeDelay) == TRUE  \* mutant: the delay may be decreased
DelayNotDecreased(m, unstakeDelay) == unstakeDelay >= stakes[m].unstakeDelay

StakeForAddress(sender, m, unstakeDelay, value) ==
    /\ stakes[m].owner \in {NoAddress, sender}
    /\ DelayNotDecreased(m, unstakeDelay)
    /\ sender # m
    /\ stakes[sender].owner = NoAddress
    /\ stakes[m].owner = NoAddress => value >= MinimumEntryDepositValue
    /\ hubBalance + value <= MaxHubBalance
    /\ stakes' = [stakes EXCEPT ![m] =
            [stake |-> @.stake + value, unstakeDelay |-> unstakeDelay,
             withdrawBlock |-> @.withdrawBlock, owner |-> sender]]
    /\ hubBalance' = hubBalance + value
    /\ UNCHANGED <<workerToManager, workerCount, block, registered, relayedAt>>

\* block.number.add(delay) is SafeMath: it reverts on overflow.
UnlockStake(sender, m) ==
    /\ stakes[m].owner = sender
    /\ stakes[m].withdrawBlock = 0
    /\ block + stakes[m].unstakeDelay <= MaxUint
    /\ stakes' = [stakes EXCEPT ![m].withdrawBlock = block + stakes[m].unstakeDelay]
    /\ UNCHANGED <<workerToManager, workerCount, hubBalance, block, registered, relayedAt>>

WithdrawalScheduled(m) == stakes[m].withdrawBlock > 0  \* mutant: due at once
WithdrawalDue(m) ==
    /\ stakes[m].withdrawBlock > 0
    /\ stakes[m].withdrawBlock <= block

WithdrawStake(sender, m) ==
    /\ stakes[m].owner = sender
    /\ WithdrawalDue(m)
    /\ stakes' = [stakes EXCEPT ![m] = EmptyStake]
    /\ hubBalance' = hubBalance - stakes[m].stake
    /\ UNCHANGED <<workerToManager, workerCount, block, registered, relayedAt>>

ToBurn(amount) == amount \div 2

WholeAmount(amount) == amount       \* mutant: nothing is held back for the burn
HalfAmount(amount) == amount \div 2 \* mutant: a remainder is left in the hub
Reward(amount) == amount - ToBurn(amount)

EnabledOnly(worker) == workerToManager[worker].enabled \* mutant: disabled ones escape
HasManager(worker) == ManagerOf(worker) # NoAddress

\* The worker is known and its manager has something to lose.
PenaltyAccepted(worker) == HasManager(worker) /\ stakes[ManagerOf(worker)].stake > 0

\* Half of the stake is burned, the rest goes to the beneficiary; owner, delay
\* and a scheduled withdrawal stay.  The worker may be enabled or disabled.
Penalize(worker) ==
    LET m      == ManagerOf(worker)
        amount == stakes[m].stake
    IN  /\ PenaltyAccepted(worker)
        /\ stakes' = [stakes EXCEPT ![m].stake = 0]
        /\ hubBalance' = (hubBalance - ToBurn(amount)) - Reward(amount)
        /\ relayedAt' = [w \in Address |-> IF ManagerOf(w) = m THEN 0 ELSE relayedAt[w]]
        /\ UNCHANGED <<workerToManager, workerCount, block, registered>>

-----------------------------------------------------------------------------
(* The registry of workers *)

NotEnabled(w) == ~workerToManager[w].enabled  \* mutant: disabled workers are free
Unassigned(w) == workerToManager[w] = NoEntry

AddRelayWorkers(sender, newRelayWorkers) ==
    /\ workerCount[sender] + Len(newRelayWorkers) <= MaxWorkerCount
    /\ IsRelayManagerStaked(sender)
    /\ \A w \in Elements(newRelayWorkers) : Unassigned(w)
    /\ NoRepeats(newRelayWorkers)
    /\ workerCount' = [workerCount EXCEPT ![sender] = @ + Len(newRelayWorkers)]
    /\ workerToManager' = [w \in Address |->
            IF w \in Elements(newRelayWorkers) THEN EnabledWorker(sender)
                                               ELSE workerToManager[w]]
    /\ UNCHANGED <<stakes, hubBalance, block, registered, relayedAt>>

DisableRelayWorkers(sender, relayWorkers) ==
    /\ workerCount[sender] >= Len(relayWorkers)
    /\ IsRelayManagerStaked(sender)
    /\ \A w \in Elements(relayWorkers) : workerToManager[w] = EnabledWorker(sender)
    /\ NoRepeats(relayWorkers)
    /\ workerCount' = [workerCount EXCEPT ![sender] = @ - Len(relayWorkers)]
    /\ workerToManager' = [w \in Address |->
            IF w \in Elements(relayWorkers) THEN DisabledWorker(sender)
                                            ELSE workerToManager[w]]
    /\ UNCHANGED <<stakes, hubBalance, block, registered, relayedAt>>

RegisterRelayServer(sender) ==
    /\ IsRelayManagerStaked(sender)
    /\ workerCount[sender] > 0
    /\ registered' = registered \cup {sender}
    /\ UNCHANGED <<stakes, workerToManager, workerCount, hubBalance, block, relayedAt>>

-----------------------------------------------------------------------------
(* The relay gate.  Eip712Library.execute/deploy calls the smart wallet or   *)
(* its factory; when that reverts, so does the hub call.  Neither call       *)
(* writes the hub's own state: the history variable records it.              *)

RelayAllowed(w) ==
    /\ workerToManager[w].enabled
    /\ IsRelayManagerStaked(ManagerOf(w))

RelayCall(w) ==
    /\ RelayAllowed(w)
    /\ relayedAt' = [relayedAt EXCEPT ![w] = block]
    /\ UNCHANGED <<stakes, workerToManager, workerCount, hubBalance, block, registered>>

DeployCall(w) ==
    /\ RelayAllowed(w)
    /\ relayedAt' = [relayedAt EXCEPT ![w] = block]
    /\ UNCHANGED <<stakes, workerToManager, workerCount, hubBalance, block, registered>>

\* The chain grows.
MineBlock ==
    /\ block < MaxBlock
    /\ block' = block + 1
    /\ UNCHANGED <<stakes, workerToManager, workerCount, hubBalance, registered, relayedAt>>

-----------------------------------------------------------------------------
Init ==
    /\ stakes = [m \in Address |-> EmptyStake]
    /\ workerToManager = [w \in Address |-> NoEntry]
    /\ workerCount = [m \in Address |-> 0]
    /\ hubBalance = 0
    /\ block = 1
    /\ registered = {}
    /\ relayedAt = [w \in Address |-> 0]

\* What the accounts can do without the Penalizer contract.
AccountNext ==
    \/ \E s, m \in Address : \E d \in UnstakeDelays, v \in MsgValues :
            StakeForAddress(s, m, d, v)
    \/ \E s, m \in Address : UnlockStake(s, m)
    \/ \E s, m \in Address : WithdrawStake(s, m)
    \/ \E s \in Address, arr \in AddressArrays : AddRelayWorkers(s, arr)
    \/ \E s \in Address, arr \in AddressArrays : DisableRelayWorkers(s, arr)
    \/ \E s \in Address : RegisterRelayServer(s)
    \/ \E w \in Address : RelayCall(w)
    \/ \E w \in Address : DeployCall(w)

Next ==
    \/ AccountNext
    \/ \E w \in Address : Penalize(w)
    \/ MineBlock

Spec == Init /\ [][Next]_hubVars

-----------------------------------------------------------------------------
(* Properties *)

\* Every variable of the hub keeps its Solidity type.
TypeOK ==
    /\ stakes \in [Address -> StakeInfo]
    /\ workerToManager \in [Address -> ManagerEntry]
    /\ workerCount \in [Address -> Nat]
    /\ hubBalance \in Nat
    /\ block \in Nat \ {0}
    /\ registered \in SUBSET Address
    /\ relayedAt \in [Address -> Nat]

EnabledWorkersOf(m) == {w \in Address : workerToManager[w] = EnabledWorker(m)}

\* addRelayWorkers and disableRelayWorkers adjust workerCount by the length of
\* their argument before they look at its elements: the counter is still the
\* number of distinct enabled workers of the manager, and never above the limit.
WorkerCountExact ==
    \A m \in Address :
        /\ workerCount[m] = Cardinality(EnabledWorkersOf(m))
        /\ workerCount[m] <= MaxWorkerCount

\* One pair per unit of RBTC staked; its size is the sum of all the stakes.
StakedCoins == UNION {{m} \X (1..stakes[m].stake) : m \in Address}

\* The RBTC the hub holds is the sum of the stakes it owes: withdrawStake and
\* penalize can always pay, and neither strands a unit of RBTC in the hub
\* (amount/2 rounds down, the reward takes the remainder).
HubSolvent == hubBalance = Cardinality(StakedCoins)

\* For minimumUnstakeDelay blocks after a relay or a deploy was accepted from a
\* worker, the manager that worker is still bound to has at least minimumStake
\* to lose, unless it was penalized since: neither unlocking and withdrawing,
\* nor staking again, nor disabling the worker gets the stake out of reach of
\* the Penalizer earlier.
RelayIsBacked ==
    \A w \in Address :
        relayedAt[w] > 0 /\ block < relayedAt[w] + MinimumUnstakeDelay
            => /\ ManagerOf(w) # NoAddress
               /\ stakes[ManagerOf(w)].stake >= MinimumStake

\* What keeps the stake of manager m within reach after a relay at block b: while
\* it is locked, the delay alone is long enough or has already passed; once it
\* is unlocked, the withdrawal was scheduled late enough.
Backed(m, b) ==
    /\ block < b + MinimumUnstakeDelay => stakes[m].stake >= MinimumStake
    /\ stakes[m].withdrawBlock = 0 =>
            \/ b + MinimumUnstakeDelay <= block
            \/ MinimumUnstakeDelay <= stakes[m].unstakeDelay
    /\ stakes[m].withdrawBlock # 0 => b + MinimumUnstakeDelay <= stakes[m].withdrawBlock

\* RelayIsBacked made inductive: every relay accepted from a worker, through
\* relayCall or deployCall, is backed by the manager the worker is bound to now.
BackingInv ==
    \A w \in Address :
        /\ workerToManager[w].enabled => ManagerOf(w) # NoAddress
        /\ relayedAt[w] <= block
        /\ relayedAt[w] > 0 => ManagerOf(w) # NoAddress /\ Backed(ManagerOf(w), relayedAt[w])

\* A manager that announced itself with registerRelayServer stays accountable:
\* some worker, enabled or disabled, can still be traced back to it.
RegisteredIsAccountable ==
    \A m \in registered : \E w \in Address : ManagerOf(w) = m

\* IRelayHub: "Once disabled, a relay worker cannot be re-enabled", and a worker
\* never changes manager, whoever stakes, withdraws or registers in between.
WorkersAreForLife ==
    [][\A w \in Address :
        ManagerOf(w) # NoAddress =>
            workerToManager'[w] \in {workerToManager[w], DisabledWorker(ManagerOf(w))}
      ]_hubVars

\* The RBTC behind a manager goes down only in two ways: its owner takes all of
\* it, unstakeDelay blocks or more after the unlock and with the entry deleted,
\* or a penalty takes all of it and leaves the entry to its owner.
StakeLeavesWhole ==
    [][\A m \in Address :
        stakes'[m].stake < stakes[m].stake =>
            \/ stakes'[m] = EmptyStake /\ 0 < stakes[m].withdrawBlock
                                      /\ stakes[m].withdrawBlock <= block
            \/ stakes'[m] = [stakes[m] EXCEPT !.stake = 0]
      ]_hubVars
=============================================================================
