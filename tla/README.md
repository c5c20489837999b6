# RIF Relay in TLA+

TLA+ models of the RIF Relay (Enveloping) system: relay servers that pay the gas
of users' transactions, a hub contract that holds their stakes, and a penalizer
that takes a stake when a relay worker signs two calls for one nonce. The modules
are translated from `contracts/`, `src/relayserver/`, `src/relayclient/` and the parts
of `src/common/` they use; `PROJECT.json` maps every definition to the lines it models.

## The system

| Part | State | Operations | Talks to |
|---|---|---|---|
| RelayHub (`contracts/RelayHub.sol`) | `stakes`, `workerToManager`, `workerCount`, its RBTC | stake, unlock, withdraw, add/disable workers, register, relayCall, deployCall, penalize | wallets, factories, Penalizer |
| Penalizer (`contracts/Penalizer.sol`) | hashes of used evidence | penalizeRepeatedNonce | RelayHub |
| SmartWallet, CustomSmartWallet, factories | owner, nonce; per-owner factory nonce | execute, directExecute, deploy | token, destination contract |
| Verifiers | accepted tokens | verifyRelayedCall (view) | wallet, token |
| TransactionManager, TxStoreManager | local nonces, mutex; NeDB file of unconfirmed transactions | sendTransaction, pollNonce, removeConfirmedTransactions, boost | node, key managers |
| RelayServer | ready, alerted, lastScannedBlock, lastSuccessfulRounds, worker semaphore | createRelayTransaction, interval handler, worker round | TransactionManager, RegistrationManager, replenish |
| RegistrationManager | stake and balance seen, owner, last events, delayed events | handlePastEvents, attemptRegistration, withdrawAllFunds | hub events, TransactionManager |
| Client (KnownRelaysManager, RelaySelectionManager, RelayClient, RelayedTransactionValidator) | known relays, remaining relays, errors | refresh, select, relay, validate | relay servers over HTTP, node |
| Enveloping (facade) | none | create, sign and send requests by hand | relay servers, node |
| registerRelay (`src/cli/CommandsLogic.ts`) | none | stake, fund, wait for a ready server | server's ping, hub |
| SmartWalletDiscovery, VersionRegistry, other scripts, providers | little or none | scans, lookups, scripts | node |

Contracts interact through calls inside one atomic transaction. The server's parts
share one JavaScript event loop: every `await` is a point where HTTP requests, the
worker round and the timeout callback interleave. Server and chain interact through
a node that may lose requests and answers, forget transactions, mine a replaced one
and reorganize its last blocks. The server restarts with what is in the NeDB file.

What makes each part correct:

- **RelayHub**: it owes exactly what it holds; its worker counter matches the
  registry; a worker's manager stays known and keeps a stake that can be taken for
  long enough after a relay.
- **Penalizer**: it hits double signers only, no more often than the evidence
  supports, and while evidence is unused it can hit one whose relay is still backed.
- **TransactionManager**: one call per nonce and one nonce per call; nothing sent is
  forgotten before it is final; nothing relayed can be used against the worker; no nonce gap that cannot be filled; stuck transactions are boosted.
- **RelayServer, RegistrationManager**: it registers once; an alert about rejected calls
  is not lost; the worker is refilled to its target, not beyond; the owner's RBTC goes
  back only when the stake is unlocked or withdrawn, and no withdrawal is passed over; when it says that it is
  ready, which is all the owner's registration command looks at, it is registered.
- **Wallets, factories, verifiers**: a signed request executes at most once and only for
  the owner; the worker is paid exactly what was signed; a request that was checked fails
  only because something happened since.
- **Client**: no relay is used twice and none is forgotten; a call ends; the relays
  offered are the registered ones; a request is executed again only after a relay that
  held it was given up.
- **SmartWalletDiscovery**: it lists what the gap limits define, neither more nor less,
  and ends, however the chain grows and the node fails.

`PROJECT.json` lists under `hazards` the lines where each of these can go wrong in a
way a test would hardly reach, with the property that covers it or the reason why none
does.

## Modules

How they build on each other:

    RelayHub <--EXTENDS-- Penalizer
    Lists, RelayHub (INSTANCE) <-- RelayChain <--EXTENDS-- RegisterRelay, RegistrationManager
    RegisterRelay, RegistrationManager <--EXTENDS-- RelayServer
    RelayedCalls <--INSTANCE-- SmartWallets
    Lists <--EXTENDS-- RelaySelection <--EXTENDS-- RelayClient
    Outbox <--INSTANCE-- TransactionManager          SmartWalletDiscovery

**`RelayHub`** One action per external function. A transaction is atomic and a
revert changes nothing, so the guard is the conjunction of the `require`s. The
`bytes32` word of `workerToManager` is a record of manager and enabled bit. The loops
over an `address[]` become one step with the condition that no address repeats: the
second occurrence fails the check that the first one's write made false. The call
into the wallet or factory behind `relayCall` and `deployCall` either succeeds (the
step) or reverts (no step); it writes no hub state itself, and hub calls it makes in
turn are steps of their own. `relayedAt` is a history variable for the properties.
Owner, manager and worker are roles any account may play.

**`Outbox`** is the abstract specification of the transaction manager and has no code of its
own: each signer has a row of slots; a call gets at most one, the first that is free, and
keeps it; calls are executed in the order of the slots, and the network may undo the last
of them unless they are final. The refinement maps a slot to the call of the final
transaction with that nonce, or else to the stored one's.

**`Penalizer`** The hub with the evidence set and `penalizeRepeatedNonce`. An unsigned
transaction is a record of nonce, gas price and body (data, gas limit, destination,
value); the hash is the record. Recovering a signer is membership in `SignedTxs`, the
pairs of a key and a transaction it ever signed. `EvidenceAccepted` and the hub's
`PenaltyAccepted` are what the two contracts require of a report. The caller names the hub:
`ThisHub` is the one of `RelayHub`; `OtherHubs` are other contracts, which answer the
modifier `relayManagerOnly` as they like (`ReporterKnown`) and whose `penalize` does nothing
to this hub (`HubPenalizes`). All share one record of evidence, and `usedElsewhere` is the
history of what was submitted with another hub. What such a contract calls in turn is a
step of its own: the evidence is recorded before `hub.penalize`, and the modifier's question
is a view call.

**`TransactionManager`** The server's transaction manager and store, and the node.
`calls[c]` goes through `sendTransaction`: mutex and request of the nonce; answer,
signature and `putTx`; broadcast. `round` goes through a worker round: read the block,
load the store, confirm entry by entry, then boost signer by signer, with the store
update and the broadcast of a resend as separate steps. Other code between two awaits
is one step; where a step joins a node request with the store write after it
(`ConfirmOne`, `BoostSigner`), only the one worker writes the entries concerned and the
node does not look at the store, so what other actors do in between commutes with one
half. `store` survives `Crash`, everything else of the server does not. A transaction
is a record that stands for its hash: `call` stands for destination, data and gas
limit. The node's side (pending nonce, pool, mining, drops, reorganizations) is
external and modelled from how the server uses it; a transaction with
`confirmationsNeeded` confirmations is final, which is the assumption behind that
parameter. Gas prices are integers and `retryGasPriceFactor` is an integer.

**`RelayChain`** The chain as one server sees it: the `RelayHub` module instantiated for a
manager, a worker and their owner, the log of events with the manager's topic, RBTC
balances, and per signer the transactions it has sent (`txs`), how many of them are mined
and how many the store knows to be mined. It stands for `TransactionManager` where
nothing is dropped or boosted: nonces are used in order, and `isActionPending` asks for
stored entries not known to be mined. A block is open while transactions run in it and
can be read once it is sealed; transactions of one block run in the order owner, manager,
worker, which reaches every order of the hub's calls over several blocks. A reverted
transaction is on the chain too.

**`RegisterRelay`** The command with which the owner registers a server, one step per
answer it waits for: ping, stake info, stake, balance, funding, and the pings of
`waitForRelay`. It may fail at every step and be run again. Its ping is the server's
`pingHandler`, which `RelayServer` supplies: `HttpServer` answers once the server is
initialized and goes on answering after 'unstaked' has stopped the polling.

**`Lists`** Filtering and folding of lists by a recursive function. They do what `SelectSeq`
and `FoldLeft` do, in a form the proofs can unfold.

**`RegistrationManager`** `reg` holds the fields of the class, `round` what the round has
read and what it still has to do. `handlePastEvents` is: the query for stake events, one
step per event (`refreshStake` reads the stake as it is then), the extraction of due
unlocks, one step per transfer of `withdrawAllFunds`, and the two transactions of
`attemptRegistration`. Transfers cost nothing here, so an account with no balance is one
the code would skip. `stopped` is the effect of 'unstaked': `HttpServer` stops polling.

**`RelayServer`** The worker round (`StartRound`, balance, hub events, registration,
`EndScan`, replenishing, `EndRound`), `createRelayTransaction` (`Accept`, `Validate`,
`Relay`, then replenishing) and `replenishServer` in three steps, which the round and
every request may run at once on the shared `workerBalanceRequired`. A round that throws
(`RoundFails`), the callback of `readyTimeout` (`Timeout`, which does not stop the round)
and a restart (`Crash`, after which only chain and store are left) may come at any step.
`LatestTxBlock` is the block of the latest event rather than the cached value: what the
code caches is what it scanned, and a query from the first block when it has none.

**`RelayedCalls`** is the abstract specification of the wallets and has no code of its own:
a wallet comes to be once; it executes what its owner signed, at most one request per
nonce; with it the worker named in the request earns exactly the signed amount.

**`SmartWallets`** Wallets, both factories and the verifiers. A wallet is named by what its
CREATE2 address is computed from; `owner` is the stored hash and tells whether it exists.
`execute` increments the nonce and pays before it calls the destination, so the call, which
may reenter or fail, is `Spend`: any tokens the wallet has left may move away, and what it
calls in turn are steps of their own. A payment of 0 is the code's branch without a token
transfer. Whoever signs is a field of the request (`signer`): EIP-712 recovery compares it
with `from`. `Verify` and `ViewCall` are the two checks a server makes at two moments, on
two states of the chain; relays are not bound by them, and `Execute` may come without. A
"foreign" address has other code, which `RelayVerifier` must notice.

**`RelaySelection`** `KnownRelaysManager` and `RelaySelectionManager`: `known` and `sel` are
their fields. `SplitRange`, the merge of the two event lists (`ApplyEvent` is `Map.set` and
`Map.delete` in insertion order), the stable sort by score, the two lists and the race are
operators; the score 0.9^failures is represented by the number of failures, which orders
the relays the other way round.

**`RelayClient`** The two entry points of the provider and `relayTransaction` step by step
around them, from the lookup over the estimates to the receipt, and the chain: a server
that got a request may have it executed whenever the nonce allows, whatever it answered. A
request is the number of its call, its kind and the nonce it was signed with. Amounts of
gas are left out, their failures are not: a failed estimate of the token transfer ends the
call, a user who does not sign only the attempt. The facade `Enveloping` makes requests by
hand (`CreateRequest`, numbered below 0) and sends them, any number of times and without
looking at the nonce again (`SendTransaction`). `ActsElsewhere` is the user's wallet used
by other means.

**`SmartWalletDiscovery`** The three entry points share `NextAccount` and the nested loops;
the code holds the loops twice, which is why the map names either copy. `scan` is the
position in the loops with the gap counters and `searchTrx`'s locals. An address is
`<<account, index, wallet>>`; deriving keys and computing addresses are abstracted to that.

**`MC...`** modules and `.cfg` files instantiate these for TLC; **`...Proofs`** modules
hold the theorems. Operators marked `mutant` are wrong variants of the definition next
to them; they are not part of the models.

## Runs

| Run | Checks | Instance |
|---|---|---|
| `hub` | `TypeOK`, `HubSolvent`, `RelayIsBacked`, `WorkerCountExact`, `RegisteredIsAccountable`, `StakeLeavesWhole`, `WorkersAreForLife` | 3 accounts, minimum stake 2, entry deposit 1, delays 0 and 2, 2 workers per manager, batches of 2, 3 blocks |
| `penalizer` | `PenaltiesBoundedByEvidence`, `OffenderCanBePenalized`, `OnlyDoubleSignersLoseStake` | one key that only raises its gas price, one that signs two calls and a copy; this hub and another |
| `txs_safety` | `TypeOK`, `SameNonceSameCall`, `UnconfirmedIsStored`, `NoLostNonce`, `RelaysAreNoEvidence`, `ImplementsOutbox` | 2 interchangeable calls of one signer, none of which transfers RBTC, 4 blocks, 2 confirmations, one crash, lost request, drop and reorganization each |
| `txs_liveness` | `MinedEntriesLeave`, `OldestStoredIsResent` | 2 signers with a call each, a crash and a lost request, fairness |
| `server` | `TypeOK`, `NoDuplicateRegistration`, `AlertsNotLost`, `ReadyIsRegistered`, `RefillKeepsBounds`, `WithdrawnFundsReturned`, `PayoutJustified`, `BecomesReady` | one run of `registerRelay` with delay 2, 6 blocks, one relay request, one fault (failed or slow round, or restart), fairness |
| `wallets` | `TypeOK`, `WalletsAreTheirOwners`, `CheckedRequestsStayGood`, `ImplementsRelayedCalls` | a wallet of each factory and a foreign contract, 5 requests and 2 creations, 2 workers, one token |
| `client` | `TypeOK`, `RepeatedOnlyAfterLoss`, `NoRelayTwice`, `EveryRelayTried`, `KnownAreRegistered`, `CallEnds` | 3 servers, one preferred, 4 logs (among them: moved, left, same URL), slices of 2, one call, one request by hand or use of the wallet elsewhere, fairness |
| `discovery` | `TypeOK`, `DiscoversAll`, `GivenUpWhenUnreachable`, `SearchEnds` | both gap limits 1, 16 patterns of activity and one address that becomes active later, 2 tokens, 2 attempts, 2 searches, 2 failed requests, fairness |
| `penalizer_twins` | violates `FirstOffenceIsPenalizable` | two keys that sign the same two transactions |
| `txs_boost` | violates `OldestPendingIsResent` | two calls, no faults |
| `txs_value` | violates `ResentTransfersTheSame` | one value transfer, no faults |
| `client_preferred` | violates `EveryPreferredTried` | 2 preferred relays, slices of 1 |

Bounds.

- `hub`: three accounts let owner, manager and worker be different, and let two managers
  compete for a worker. Payments of 0, 1 and 2 with minimum stake 2 give a change of delay
  alone, insufficient, sufficient and, topped up, odd amounts; 3 blocks fit relay, unlock,
  the delay and the withdrawal; `MaxUint` 4 lets the overflow of `unlockStake` happen.
  `MaxHubBalance`, `MaxBatch` and `MaxBlock` bound the state; the proofs hold for every
  value of them. Address symmetry is used for invariants and action properties only.
- `penalizer`, `penalizer_twins` identify states (`RelevantState`) that differ in the
  registration events, in the relays of other workers than the double signer, and, once it
  was penalized, in what was submitted with the other hub: no guard and none of their
  properties reads these. One other hub is enough, as it accepts whatever is submitted.
- `txs_safety`: four blocks fit a transaction that is mined, recorded, reorganized away,
  mined again and confirmed; two calls are enough for a nonce handed out twice and for a
  gap. They have the same signer, value and price, so that `CallSymmetry` is sound for the
  invariants and for the step-by-step refinement; without a value, `RelaysAreNoEvidence`
  is about both of them. The nonces of the model are 0 up to the number of calls; no more are ever needed
  (`NonceBoundNeverBinds`).
- `server`: `MaxBlock` stands for every later block (rounds go on there). 6 blocks fit
  stake, funding, registration, a relay, the unlock, its delay and the withdrawal; `MaxRoundBlocks` 2
  lets several of these fall between two rounds. A manager sends at most `MaxTxs` 4
  transactions: the worker's addition, a registration, a second one or a refill, and
  a pay-out. `MaxStakes` 1: the owner runs `registerRelay` once, which may fail anywhere; the
  theorems hold for any number of stakes. One fault is enough to interrupt any step; the request runs concurrently with
  the rounds and may overlap their replenishing.
- `wallets`: two workers hold requests for the same nonce, one of them signed by somebody
  else; one token makes the second payment impossible until the wallet is funded again.
- `client`: 3 relays in slices of 2 give a race that is won, one that is lost and a second
  slice; a query limit of 2 makes the window split, and 4 logs put events on the boundaries
  of window and parts.
- `discovery`: places at distance 1, 2 and 3 with limit 1 lie below, at and beyond a gap,
  and wallets restart the gap of their key's address.

Deadlock checking is off for the contracts, the server, the client and the search, which
really may stop at the last block, with no request left or when stopped; the transaction
manager never does.

Fairness.

- `TransactionManager!FairSpec`: `setInterval` keeps calling the interval handler and the
  event loop runs each promise to its end, so the worker's steps are weakly fair; blocks
  keep coming until `MaxBlock`. Callers, the pool and the miners get no fairness: a
  transaction need never be mined. The faults are finitely many. A round returns early
  when the manager is below `managerMinBalance`, so the liveness results assume that its
  balance suffices.
- `RelayServer!FairSpec`: blocks keep coming and are sealed until `MaxBlock`; `setInterval`
  starts the rounds, and each of their steps follows an answer of the node or its error
  (`RoundFails`, which is bounded). Requests, the owner's command and waiting transactions are not
  fair: that the server is staked, registered and funded is the premise of `BecomesReady`.
- `RelayClient!Spec`: weak fairness of `Step`, what the client does next. Each such step
  follows an answer of a node or a server, or the time limit of the HTTP client; which
  answer it is stays open, and neither the user nor the chain is fair.
- `SmartWalletDiscovery!Spec`: weak fairness of `Step`: the node answers or refuses. How
  often it refuses is bounded (`MaxFaults`), but the code gives up by itself before.

### What the passing runs show beyond the obvious

- `OffenderCanBePenalized` says that every `require` between the report and the end of
  `penalize` holds, that the penalty is at least the minimum stake, and that the hub holds
  what it burns and pays out, so the two transfers at the end cannot fail for want of RBTC.
  It is about unused evidence. The record is shared by all hubs a caller may name: a pair
  submitted with another contract as the hub is refused afterwards, though nobody lost
  stake here. So that evidence is still unused is said only of a pair with a transaction
  that nobody else signed and that was given to no other hub.
- `RelaysAreNoEvidence` is about calls that transfer no RBTC, as all hub calls of a worker
  are. A boosted transfer loses its value (`txs_value`) and thereby becomes another
  transaction with the same nonce, which is what the Penalizer punishes: the property does
  not hold of the pay-out of a worker's balance, which a server makes once an unlock is
  due, whether or not the stake has been withdrawn by then.
- `ImplementsOutbox` adds order to the four invariants before it: a nonce that a failed
  insert or a lost broadcast has left behind is never skipped for good, and whatever is
  retried goes where it was first put.
- `ReadyIsRegistered`: that the server answers it is ready is all `registerRelay` looks at
  before it reports success, and all a request looks at before it is relayed.
- `RefillKeepsBounds` is stated for runs of `replenishServer` that do not overlap. When the
  round and a request both see the low balance before either has stored its transfer, the
  worker is funded twice; no doc rules that out, so it is a condition of the property, and
  the race is not excluded.
- `AlertsNotLost`: the scan position advances before the events are looked at, but only a
  server that is not registered skips them. It becomes ready again only by a stake after the
  events skipped, hence the condition that nothing was staked after the rejection. With a
  later stake the alert may be missing.
- `WithdrawnFundsReturned` says that a withdrawal is not passed over: `lastScannedBlock`
  reaches it only when all that the manager had is on its way. It does not say that the
  RBTC arrives. A server that restarts after the withdrawal never learns its owner, because
  `refreshStake` returns when there is no stake; every pay-out is refused, every round fails
  at the same event and the RBTC stays with the manager. And a due unlock emits 'unstaked',
  which stops the polling: a withdrawal after that is not scanned.
- `BecomesReady` says that nothing the server had to notice is lost for good: after a
  restart or a failed round at any step, a server that stays staked, registered and funded
  is ready from some round on. It excludes a server whose polling was stopped, and one at
  the bound `MaxTxs`, which may owe a registration the instance does not let it send.
- `KnownAreRegistered` allows for the latest block, which `splitRange` may leave out.
- `CallEnds` allows for a race of relays with the same URL (`NeverResolved`), which the code
  waits for forever since it counts errors by URL; the run shows there is no other way.

### What the violations show

- `penalizer_twins`: the evidence hash does not include the signer, so a pair used
  against one worker cannot be used against another that signed the same pair.
- `txs_boost`: a boost replaces the hash in the store. If the original transaction is mined
  after all, the lookup by the new hash never finds it and the entry stays, the oldest one
  of its signer in every later round; the boost returns early because its nonce is used,
  and later transactions of that signer are never boosted.
- `txs_value`: `resendTransaction` has no value to put into the new transaction, so a
  boosted refill or pay-out transfers nothing.
- `client_preferred`: a lost race removes its relays from the list and the index advances
  past as many of the remaining ones, so with preferred relays only, some are never pinged.

## Theorems

TLAPS proves, for every value of the constants that satisfies the named assumptions
(`HubAssumption`: what the constructor requires; `RelayChainAssumption`, `PenalizerAssumption`,
`TransactionManagerAssumption`, `WalletAssumption`, `RequestAssumption`, `BoundAssumption`,
`RegisterRelayAssumption`, `SelectionAssumption`, `DiscoveryAssumption`: shapes of the inputs,
positive configuration values; `ServerAssumption`: also that the worker's target balance is not below its minimum):

- **`RelayHubProofs`**: `HubTypeCorrect`, `WorkerCountCorrect`, `HubStaysSolvent`,
  `RelayStaysBacked`, `RegisteredStaysAccountable`, and the action properties
  `WorkersStayBound`, `StakesLeaveWhole`. `HubInvariant` is the induction.
  `RelayIsBacked` is not inductive: `BackingInv` adds that a locked stake has a delay
  long enough or already passed, and that an unlocked one is scheduled late enough.
  Solvency and the counter rest on cardinality lemmas (`FiniteSetTheorems`): the
  number of staked coins changes by what one manager's stake changes.
- **`PenalizerProofs`**: `PenalizerImplementsHub` (the composition implements the hub's
  specification, so all of the above holds of it), `OnlyDoubleSignersPenalized`,
  `OffendersArePenalizable` and `PenaltiesAreBounded`. `OffendersArePenalizable` rests on the hub's
  `BackingInv`, for a stake that can be taken, and on `StakeIsCovered`: no single stake
  exceeds what the hub holds. The inductive invariant of the last one: the number of penalties of
  a worker for a nonce stays below the number of its transactions for that nonce among
  the used evidence, because every penalty uses one that is new. For `OffendersArePenalizable`
  `UsedInv` says where a record comes from: whatever is used was submitted with another hub, or
  cost its signer or a twin a penalty here; so evidence that nobody else could use is new.
- **`TransactionManagerProofs`**: `TransactionsTypeCorrect`, `OneCallPerNonce`,
  `NothingIsForgotten`, `NoNonceIsLost`. The inductive invariant `IInv` says that a nonce
  handed out is covered, by a store entry or by a final transaction on the chain.
  Finality never goes away (a reorganization cuts only what is not final, blocks are
  monotone); an entry leaves the store only when its nonce is final and never changes
  its call; the entries a round still has to look at are the ones of the store. So a
  transaction the node accepts has a nonce that is not final, hence a stored entry,
  which fixes its call. `SlotsInvariant` is a second induction over that one: what carries
  a call (a store entry, a transaction sent or on the chain, one about to be sent) was
  signed for it and differs in price at most, or in a value of 0 (`CarrierInv`), and no
  call has two slots (`OneSlotInv`), which holds because a call that has not been through
  `SignAndStore` has none. With it come `RelaysGiveNoEvidence`, `CallsAreMinedOnce`,
  `NonceBoundNeverBinds` and the refinement `TransactionManagerImplementsOutbox`: the
  insert is `Enqueue`, blocks and reorganizations are themselves, everything else stutters
  (`QuietSlots`). Its hard step is the insert: the nonce is the first free slot
  (`InsertedIsFirstFree`), because all nonces below the larger of the local and the
  pending nonce are covered, and `removeConfirmedTransactions` takes only entries that the
  chain has made final.
- **`SmartWalletsProofs`**: `WalletsTypeCorrect`, `WalletsBelong`, `CheckedStayGood` and
  `WalletsImplementRelayedCalls`, the refinement: every step of `SmartWallets` is one of
  `RelayedCalls` or a stutter. Neither of the last two follows from the state predicates
  the runs check. `NoncesAreBeyond` is what makes the nonce check mean "not executed
  before": it relates the wallet's counter to the history of executed requests, and the
  factory's to the creations. `CheckedWereGood` keeps what the checks of a request found
  and nothing can undo, the signature, owner and domain, next to the two quantities that
  only grow (nonce) or were recorded (tokens).
- **`RelayServerProofs`**: `ServerImplementsHub`: whatever the server, its worker and its
  owner do, with failing rounds and restarts, is a behaviour of `RelayHub`; every
  transaction that succeeds is one of its functions, everything else leaves it alone.
  `ServersRelaysAreBacked` is what follows with `RelayStaysBacked`. The link is
  `HubResults`, an instance of `RelayHubProofs` for the constants of `RelayChain`.
  `ServerTypeCorrect`, `ServerRegistersOnce`, `ReadyServerIsRegistered`,
  `PayoutsAreJustified`, `AlertsAreKept` and `WithdrawalsAreReturned`, for any number of
  stakes and amounts. They share one chain of invariants over
  the log of events, none of which is inductive without the ones before it: the types;
  `Clock` and `Course` (the log is in the order of blocks, what a round has read is a
  block that was sealed, what it does next is what it has decided on); `RegisteredInv`,
  where `NotMissed` says of an event that the server knows it or that it lies above the
  block scanned, `SentOnce` that a transaction of either kind is on its way only while
  its event is not there, and `RegistrationInv` that ready means registered;
  `PayoutInv`, which ties remembered unlocks and pay-outs to events; and `StakeInv`,
  `RequestInv` and `AlertInv`: once the last stake (`LastStakeBy`) is scanned, the server is
  wrong about it only when it is gone, so that a server that skips a rejection after that is not
  ready again until more is staked.
  `WithdrawalsAreReturned` follows amounts. `PendingBalances` settles the transactions that
  are on their way, the manager's and then the worker's, in the order they were sent;
  `SettledRun` and `RunSettles` unfold that fold into a list of balances, one per
  transaction, and the lemmas after them say what a transaction that is sent (`SettledLast`)
  or mined (`SettledFirst`) does to it. Mining changes nothing of what is pending, whoever's
  transaction is first (`ExecutePending`, from `SettledCommutes`: the worker pays the manager
  nothing). Nobody pays the manager but the owner (`RecipientInv`); what the owner sends may
  make transactions payable that were refused before, but adds at most its amount
  (`SettledMore`). `DrainedInv` is the induction: once the last withdrawal is scanned, the
  manager has no more than arrived since, and while a round has read it, it is still to be
  handled, being paid for, or paid for.
- **`RelayClientProofs`**: `RepeatedOnlyAfterGivingUp`, for any relays, logs, answers and
  number of calls. The property speaks of pairs of executed requests; `IInv` adds when a
  client asks another relay (`OneAwaited`: of a call's requests only the last may be under
  way, all others were given up), that the nonces requests are signed with never decrease
  and are spent by the first request executed (`NoncesInOrder`), and that the wallet a
  request created is there (`CreatedOnce`).
  `RelaysAreTriedOnce` and `NoRelayIsForgotten` rest on `SelectionInv`: a relay that was
  tried is in no list any more (`TriedAreRemoved`), and one that has left the lists was
  tried or did not answer its ping (`RemovedHaveFailed`).
  `ClientTypeCorrect` and `OfferedRelaysAreRegistered` rest on `ClientInv`; behind it are
  lemmas on the operators of the lookup: the parts a window is split into cover it but for
  its latest block (`PartsCover`), and the merge of the events keeps one relay per
  manager, the one of its last event, whatever the positions in the list
  (`RelayInfoSet`, from `ApplyEventSet` by the set induction below).
- **`SmartWalletDiscoveryProofs`**: `DiscoveryTypeCorrect`, `UnreachableIsGivenUp` and
  `SearchDiscoversAll`. The types bound the two gaps by the loop that is running (`Bounds`)
  and the errors counted for a token by the requests that failed in a row (`Counted`), which
  is why a count that is not reset would give an address up too early. `SearchInv` adds
  `Asked`, why a verdict is right: an address that was active from the start still has
  something to show that was not asked for, or has been given up; and `Listing`, which is
  `LoopInv` of the nested loops: what is listed is sound for what is active by now and
  complete for what was active from the start and not given up. Both loops keep the same
  fact about their counter, `GapState`: the last places, as many as the counter says, had
  nothing, and there is no gap of that size below. `GapEnds` concludes from it that a loop
  that has passed its limit leaves nothing that the limit reaches.
- **`Induction`**: lemmas the other modules use instead of the library's induction theorems:
  induction over the numbers or the elements of a set as the argument that a set of
  counterexamples has no least member (`Least`, `SetInduction`), the existence of
  functions defined by recursion (`RecursionExists`), and with it that keeping some
  elements of a list keeps them all and in their order (`KeepOrder`, `KeepFacts`).

Only model-checked:

- the liveness properties (`MinedEntriesLeave`, `OldestStoredIsResent`, `BecomesReady`,
  `CallEnds`, `SearchEnds`): they rest on fairness, hence on `ENABLED`, which the provers
  do not support;
- `RefillKeepsBounds`, in the instance of the run `server`.

The violated properties are shown by TLC's counterexamples.

## Plan

Done: the contracts (`RelayHub`, `Penalizer`, `SmartWallets`), the server (`TransactionManager`,
`RegistrationManager`, `RelayServer`), its registration (`RegisterRelay`), the client
(`RelaySelection`, `RelayClient`, `SmartWalletDiscovery`); the proofs of all their type
invariants and of all safety properties but `RefillKeepsBounds`.

Left: a specification that runs `TransactionManager` and `Penalizer` side by side (so far
`RelaysAreNoEvidence` states the Penalizer's condition for the transactions of a server), and
boosting and drops in the chain of `RelayServer`.

## Not modelled

- `VersionRegistry`: a list of time-locked strings that neither server nor client reads.
- HTTP routing, key files, configuration parsing, start-up: I/O without protocol state.
- CLI scripts other than `registerRelay`, and development providers: sequential scripts around
  the same contracts.
- RLP, byte and EIP-712 encoding: the models take their results as records; a hash or a
  CREATE2 address is the record it is computed from.
- Gas: limits, charges and the amounts of estimates (that one fails is modelled). A relay costs its worker one unit in `RelayServer`
  and nothing elsewhere.
- The methods of `ContractInteractor`, `RelayProvider` and `AccountManager` that only pass a
  call on.
