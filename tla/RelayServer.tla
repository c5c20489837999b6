----------------------------- MODULE RelayServer -----------------------------
(***************************************************************************)
(* The relay server (src/relayserver/RelayServer.ts, ReplenishFunction.ts, *)
(* ../common/AmountRequired.ts): the worker loop that scans the blocks,    *)
(* keeps the server registered and its worker funded and decides whether   *)
(* the server is ready, and the relay requests served at the same time.    *)
(*                                                                         *)
(* A step is what happens between two answers of the node.  A round fails  *)
(* when a request of it fails; readyTimeout may fire during a round; the   *)
(* process may crash and start again with the TxStore it left on disk.     *)
(***************************************************************************)
EXTENDS RegistrationManager, RegisterRelay

CONSTANTS
    Request,                    \* relay requests
    WorkerMinBalance,           \* config.workerMinBalance
    WorkerTargetBalance,        \* config.workerTargetBalance
    RefreshStateTimeoutBlocks,  \* config.refreshStateTimeoutBlocks
    RegistrationBlockRate,      \* config.registrationBlockRate
    AlertedBlockDelay,          \* config.alertedBlockDelay
    SuccessfulRoundsForReady,   \* config.successfulRoundsForReady
    MaxRoundBlocks,             \* bound: blocks between two rounds
    MaxFaults                   \* bound: failed or slow rounds, and restarts

\* A target below the minimum would ask for transfers of less than nothing.
ASSUME ServerAssumption ==
    /\ "round" \notin Request
    /\ ManagerMinBalance \in Nat /\ ManagerMinStake \in Nat
    /\ WorkerMinBalance \in Nat /\ WorkerTargetBalance \in Nat
    /\ WorkerMinBalance <= WorkerTargetBalance
    /\ SuccessfulRoundsForReady \in Nat

VARIABLES
    srv,       \* the fields of the RelayServer
    refill,    \* refill[p]: the run of replenishServer of p
    requests,  \* requests[r]: how far createRelayTransaction of r is
    faults,    \* how many faults there were
    hist       \* history: rejected calls the server was alerted for, whether two
               \* runs of replenishServer overlapped, and what the owner has sent the
               \* manager since the last withdrawal

serverVars == <<reg, stopped, round, srv, refill, requests>>
vars       == <<chainVars, script, serverVars, faults, hist>>

\* Who may run replenishServer.
Replenisher == Request \cup {"round"}

Idle   == [pc |-> "idle"]
NoScan == [pc |-> "idle", block |-> 0, hub |-> << >>, todo |-> << >>,
           pay |-> << >>, due |-> FALSE, force |-> FALSE]

\* lastSuccessfulRounds is only compared with successfulRoundsForReady: it is
\* counted up to there.  It starts at MAX_SAFE_INTEGER.
NewServer ==
    [initialized |-> FALSE, scanned |-> 0, refreshed |-> 0, ready |-> FALSE,
     rounds |-> SuccessfulRoundsForReady, alerted |-> FALSE, alertedBlock |-> 0,
     workerBalance |-> 0]

IsReady == srv.rounds >= SuccessfulRoundsForReady /\ srv.ready

RoundsUp(s) == [s EXCEPT !.rounds = IF @ < SuccessfulRoundsForReady THEN @ + 1 ELSE @]

Succeed(s) ==
    /\ srv' = RoundsUp(s)
    /\ round' = NoScan

-----------------------------------------------------------------------------
(* The round *)

\* init, which runServer calls before it starts the polling.
Initialize ==
    /\ ~srv.initialized
    /\ srv' = [srv EXCEPT !.initialized = TRUE]
    /\ RegistrationInit
    /\ UNCHANGED <<chainVars, stopped, round, refill, requests, faults, hist>>

ShouldRefreshState == block - srv.refreshed >= RefreshStateTimeoutBlocks \/ ~IsReady

\* intervalHandler finds a new block and no other round under way; MaxBlock
\* stands for the later ones.  _worker up to its first request.
StartRound ==
    /\ srv.initialized
    /\ ~stopped
    /\ round.pc = "idle"
    /\ block > srv.scanned \/ block = MaxBlock
    /\ IF ShouldRefreshState
       THEN /\ srv' = [srv EXCEPT !.refreshed = block]
            /\ round' = [NoScan EXCEPT !.pc = "balance", !.block = block]
       ELSE Succeed(srv)
    /\ UNCHANGED <<chainVars, reg, stopped, refill, requests, faults, hist>>

\* refreshBalance.
RefreshBalance ==
    /\ round.pc = "balance"
    /\ reg' = [reg EXCEPT !.balance = balance[Manager]]
    /\ IF balance[Manager] >= ManagerMinBalance
       THEN round' = [round EXCEPT !.pc = "hubEvents"] /\ UNCHANGED srv
       ELSE Succeed([srv EXCEPT !.ready = FALSE])
    /\ UNCHANGED <<chainVars, stopped, refill, requests, faults, hist>>

RejectedEvent == "TransactionRelayedButRevertedByRecipient"
ActiveManagerEvents ==
    {"RelayServerRegistered", "RelayWorkersAdded", "TransactionRelayed", RejectedEvent}

\* lastMinedActiveTransaction: what was scanned before and what is new, or a
\* query from the first block on, are all the events there are.
LatestTxBlock ==
    LET all == Events(ActiveManagerEvents, 1)
    IN  IF all = << >> THEN -1 ELSE log[all[Len(all)]].block

ShouldRegisterAgain ==
    /\ RegistrationBlockRate # 0
    /\ ~IsActionPending(Worker, "RELAY_CALL")
    /\ ~IsActionPending(Manager, "REGISTER_SERVER")
    /\ round.block - LatestTxBlock >= RegistrationBlockRate

\* getAllHubEventsSinceLastScan, _updateLatestTxBlockNumber, _shouldRegisterAgain.
FetchHubEvents ==
    /\ round.pc = "hubEvents"
    /\ round' = [round EXCEPT !.pc = "stakeEvents", !.force = ShouldRegisterAgain,
                              !.hub = Events(ActiveManagerEvents, srv.scanned + 1)]
    /\ UNCHANGED <<chainVars, reg, stopped, srv, refill, requests, faults, hist>>

Registration ==
    /\ \/ FetchStakeEvents(srv.scanned)
       \/ HandleStakeEvent
       \/ ExtractDuePendingEvents
       \/ PayOwner
       \/ AddRelayWorker
       \/ RegisterServer
    /\ UNCHANGED <<srv, refill, requests, faults, hist>>

Rejections == {i \in ToSet(round.hub) : log[i].event = RejectedEvent}

ScanWithoutAlerts ==  \* mutant: the events are not looked at
    [srv EXCEPT !.scanned = round.block]

\* handlePastHubEvents.
ScanWithAlerts ==
    IF Rejections = {} THEN [srv EXCEPT !.scanned = round.block]
    ELSE [srv EXCEPT !.scanned = round.block, !.alerted = TRUE,
                     !.alertedBlock = round.block]

AllStored == [s \in Signer |-> Len(txs[s])]  \* mutant: what was sent counts as mined

\* removeConfirmedTransactions marks what is mined; boosting has nothing to do: no
\* transaction is lost here.
KnownMined == mined

\* Then lastScannedBlock advances, and a server that is registered looks at the
\* hub's events.
EndScan ==
    /\ round.pc = "confirm"
    /\ seen' = KnownMined
    /\ IF IsRegistered
       THEN /\ srv' = ScanWithAlerts
            /\ hist' = [hist EXCEPT !.alerts = @ \cup (IF srv'.alertedBlock = round.block
                                                      THEN Rejections ELSE {})]
            /\ round' = [round EXCEPT !.pc = "replenish"]
            /\ refill' = [refill EXCEPT !["round"] = [pc |-> "balances"]]
       ELSE /\ Succeed([srv EXCEPT !.scanned = round.block, !.ready = FALSE])
            /\ UNCHANGED <<refill, hist>>
    /\ UNCHANGED <<hubVars, phase, log, balance, txs, mined, reg, stopped, requests, faults>>

\* After replenishServer: is the worker funded, and is the alert over?
EndRound ==
    /\ round.pc = "replenish"
    /\ refill["round"].pc = "done"
    /\ refill' = [refill EXCEPT !["round"] = Idle]
    /\ IF PendingBalances[Worker] < WorkerMinBalance
       THEN Succeed([srv EXCEPT !.ready = FALSE])
       ELSE Succeed([srv EXCEPT !.ready = TRUE,
               !.alerted = @ /\ srv.alertedBlock + AlertedBlockDelay >= round.block])
    /\ UNCHANGED <<chainVars, reg, stopped, requests, faults, hist>>

-----------------------------------------------------------------------------
(* replenishServer, from the round and from every request *)

Running == {p \in Replenisher : refill[p].pc \in {"decide", "send"}}

\* The balances are read; workerBalanceRequired is shared by all the runs.
ReadBalances(p) ==
    /\ refill[p].pc = "balances"
    /\ srv' = [srv EXCEPT !.workerBalance = PendingBalances[Worker]]
    /\ refill' = [refill EXCEPT ![p] = [pc |-> "decide"]]
    /\ hist' = [hist EXCEPT !.overlap = @ \/ Running # {}]
    /\ UNCHANGED <<chainVars, reg, stopped, round, requests, faults>>

MustRefill ==
    /\ srv.workerBalance < WorkerMinBalance
    /\ ~IsTransferPending(Worker)

WholeTarget  == WorkerTargetBalance  \* mutant: what the worker has is ignored
RefillAmount == WorkerTargetBalance - srv.workerBalance

\* The manager's balance is read again; it must keep its minimum.  Otherwise
\* 'fundingNeeded' is emitted.
Decide(p) ==
    /\ refill[p].pc = "decide"
    /\ refill' = [refill EXCEPT ![p] =
           IF MustRefill /\ RefillAmount < PendingBalances[Manager] - ManagerMinBalance
           THEN [pc |-> "send", amount |-> RefillAmount] ELSE [pc |-> "done"]]
    /\ UNCHANGED <<chainVars, reg, stopped, round, srv, requests, faults, hist>>

Refill(p) == Tx("VALUE_TRANSFER", Worker, refill[p].amount)

FailAfterScan ==  \* mutant: lastScannedBlock advances first
    /\ srv' = [srv EXCEPT !.rounds = 0, !.scanned = round.block]
    /\ round' = NoScan
    /\ refill' = [refill EXCEPT !["round"] = Idle]

FailRound ==
    /\ srv' = [srv EXCEPT !.rounds = 0]
    /\ round' = NoScan
    /\ refill' = [refill EXCEPT !["round"] = Idle]

\* The node may refuse the transfer, which is in the store by then: the round
\* fails, a request is answered with an error.
SendRefill(p) ==
    /\ refill[p].pc = "send"
    /\ Send(Manager, Refill(p))
    /\ IF p = "round" /\ ~Payable(PendingBalances, Manager, Refill(p))
       THEN FailRound
       ELSE /\ refill' = [refill EXCEPT ![p] = [pc |-> "done"]]
            /\ UNCHANGED <<srv, round>>
    /\ UNCHANGED <<hubVars, phase, log, balance, mined, seen,
                   reg, stopped, requests, faults, hist>>

-----------------------------------------------------------------------------
(* createRelayTransaction *)

\* A request that comes while the server is not ready changes nothing.
Accept(r) ==
    /\ requests[r] = "new"
    /\ IsReady
    /\ requests' = [requests EXCEPT ![r] = "accepted"]
    /\ UNCHANGED <<chainVars, reg, stopped, round, srv, refill, faults, hist>>

\* validateInput .. validateViewCallSucceeds: the call is made against the state
\* of the moment, pending transactions included.
Validate(r) ==
    /\ requests[r] = "accepted"
    /\ requests' = [requests EXCEPT ![r] = IF Hub!RelayAllowed(Worker) THEN "valid" ELSE "refused"]
    /\ UNCHANGED <<chainVars, reg, stopped, round, srv, refill, faults, hist>>

RelayTx == Tx("RELAY_CALL", HubItself, 1)

\* sendTransaction, then replenishServer.  The value stands for the gas.
Relay(r) ==
    /\ requests[r] = "valid"
    /\ Send(Worker, RelayTx)
    /\ IF Payable(PendingBalances, Worker, RelayTx)
       THEN /\ requests' = [requests EXCEPT ![r] = "relayed"]
            /\ refill' = [refill EXCEPT ![r] = [pc |-> "balances"]]
       ELSE requests' = [requests EXCEPT ![r] = "refused"] /\ UNCHANGED refill
    /\ UNCHANGED <<hubVars, phase, log, balance, mined, seen,
                   reg, stopped, round, srv, faults, hist>>

-----------------------------------------------------------------------------
(* Faults *)

\* A request of the round fails, or the node refuses a transfer to the owner.
RoundFails ==
    /\ round.pc # "idle"
    /\ FailRound
    /\ \/ /\ faults < MaxFaults
          /\ faults' = faults + 1
          /\ UNCHANGED <<chainVars, reg, stopped>>
       \/ PayoutRefused /\ UNCHANGED faults
    /\ UNCHANGED <<requests, hist>>

\* readyTimeout: the callback does not stop the round it watches.
Timeout ==
    /\ round.pc # "idle"
    /\ faults < MaxFaults
    /\ faults' = faults + 1
    /\ srv' = [srv EXCEPT !.rounds = 0]
    /\ UNCHANGED <<chainVars, reg, stopped, round, refill, requests, hist>>

\* The process restarts; only the TxStore survives.
Restart(scanned) ==
    /\ faults < MaxFaults
    /\ faults' = faults + 1
    /\ srv' = [NewServer EXCEPT !.scanned = scanned]
    /\ reg' = NewRegistrationManager
    /\ stopped' = FALSE
    /\ round' = NoScan
    /\ refill' = [p \in Replenisher |-> Idle]
    /\ requests' = [r \in Request |-> IF requests[r] = "new" THEN "new" ELSE "refused"]
    /\ hist' = [hist EXCEPT !.alerts = {}]
    /\ UNCHANGED chainVars

CrashKeepingScan == Restart(srv.scanned)  \* mutant: the scan goes on where it was
Crash == Restart(0)

-----------------------------------------------------------------------------
Init ==
    /\ ChainInit
    /\ script = NoRun
    /\ reg = NewRegistrationManager
    /\ stopped = FALSE
    /\ round = NoScan
    /\ srv = NewServer
    /\ refill = [p \in Replenisher |-> Idle]
    /\ requests = [r \in Request |-> "new"]
    /\ faults = 0
    /\ hist = [alerts |-> {}, overlap |-> FALSE, late |-> 0]

\* Between the starts of two rounds there are at most MaxRoundBlocks blocks, unless
\* the server is down.
Chain ==
    /\ \/ phase # "sealed" \/ stopped \/ ~srv.initialized
       \/ block < srv.refreshed + MaxRoundBlocks
    /\ ChainNext
    /\ hist' = [hist EXCEPT !.late = IF Withdraw THEN 0 ELSE @]
    /\ UNCHANGED <<script, serverVars, faults>>

\* runServer starts the HTTP server after init; it goes on when the polling is stopped.
OwnerScript ==
    /\ RegisterRelay(srv.initialized, IsReady)
    /\ hist' = [hist EXCEPT !.late = IF Fund THEN @ + Funds ELSE @]
    /\ UNCHANGED <<serverVars, faults>>

RoundStep ==
    \/ Initialize \/ StartRound \/ RefreshBalance \/ FetchHubEvents
    \/ Registration \/ EndScan \/ EndRound

ReplenishStep(p) == ReadBalances(p) \/ Decide(p) \/ SendRefill(p)

RequestStep(r) == Accept(r) \/ Validate(r) \/ Relay(r)

\* The server answers a request of the chain only between two blocks.
Server ==
    /\ phase = "sealed"
    /\ \/ RoundStep
       \/ \E p \in Replenisher : ReplenishStep(p)
       \/ \E r \in Request : RequestStep(r)
       \/ RoundFails \/ Timeout \/ Crash
    /\ UNCHANGED script

Next == Chain \/ OwnerScript \/ Server

Spec == Init /\ [][Next]_vars

\* Blocks keep coming, setInterval starts the rounds and the node answers them or
\* lets them fail.  Callers and the owner may do nothing, transactions may wait.
FairSpec ==
    /\ Spec
    /\ WF_vars(MineBlock /\ Chain) /\ WF_vars(SealBlock /\ Chain)
    /\ WF_vars(phase = "sealed" /\ (RoundStep \/ ReplenishStep("round")) /\ UNCHANGED script)

-----------------------------------------------------------------------------
(* Properties *)

TypeOK ==
    /\ Hub!TypeOK
    /\ \A s \in Signer : seen[s] <= mined[s] /\ mined[s] <= Len(txs[s])
    /\ \A a \in Account : balance[a] >= 0
    /\ srv.rounds \in 0..SuccessfulRoundsForReady
    /\ reg.locked \in BOOLEAN /\ stopped \in BOOLEAN
    /\ DOMAIN refill = Replenisher

\* Restarts, failed rounds and events that are read twice included, the server
\* has at most one addRelayWorkers and one registerRelayServer on their way, and
\* asks for its worker to be added only as long as it is not.
NoDuplicateRegistration ==
    /\ \A a \in {"ADD_WORKER", "REGISTER_SERVER"} :
          Cardinality({i \in mined[Manager] + 1..Len(txs[Manager]) :
                          txs[Manager][i].action = a}) <= 1
    /\ workerToManager[Worker] # Hub!NoEntry =>
          ~\E i \in mined[Manager] + 1..Len(txs[Manager]) :
              txs[Manager][i].action = "ADD_WORKER"

\* Whoever a ping tells that the server is ready can rely on it: its worker is on the
\* hub and clients find its registration there.  registerRelay reports success on
\* this ground only, it never looks at the hub again.
ReadyIsRegistered ==
    IsReady => /\ workerToManager[Worker] # Hub!NoEntry
               /\ Events({"RelayServerRegistered"}, 1) # << >>

\* The server gives RBTC back only for a reason that is on the chain: the
\* worker's after an unlock whose delay is over, the manager's after a withdrawal.
PayoutJustified ==
    [][\A s \in Signer :
         LET t == txs'[s][Len(txs'[s])]
         IN  txs'[s] # txs[s] /\ t.action = "VALUE_TRANSFER" /\ t.to # Worker =>
             \E i \in DOMAIN log :
                \/ log[i].event = "StakeWithdrawn"
                \/ /\ s = Worker
                   /\ log[i].event = "StakeUnlocked"
                   /\ log[i].withdrawBlock <= block
      ]_vars

\* lastScannedBlock advances before handlePastHubEvents and a server that is not
\* registered returns in between; still, a server that is ready has been alerted for
\* every call it has scanned and that its recipient rejected, if nothing was staked
\* after the rejection.  (A later stake can make the server ready again that skipped it
\* in between: then it was never alerted.)
AlertsNotLost ==
    IsReady => \A i \in DOMAIN log :
        /\ log[i].event = RejectedEvent /\ log[i].block <= srv.scanned
        /\ \A j \in DOMAIN log : log[j].event = "StakeAdded" => log[j].block <= log[i].block
        => i \in hist.alerts

\* replenishServer reads the balances, looks for a pending transfer and sends its
\* own in three steps, from the round and from the requests at once.  Unless two
\* runs overlapped, the worker never gets more than its target, and the manager, once
\* it has refilled its worker, keeps its minimum for as long as it gives nothing back
\* to the owner.
RefillKeepsBounds ==
    hist.overlap \/
    /\ PendingBalances[Worker] <= WorkerTargetBalance
    /\ LET recipients == {txs[Manager][i].to : i \in DOMAIN txs[Manager]}
       IN  Worker \in recipients /\ recipients \subseteq {HubItself, Worker}
              => PendingBalances[Manager] >= ManagerMinBalance

\* A withdrawal is not passed over: when lastScannedBlock has reached the last one, the
\* manager has, pending, at most what the owner sent after it.  Until then the rest is
\* still the manager's and each round reads the withdrawal again: after a failed or slow
\* round, after a restart, and also where the code never gets further, since a server
\* that restarts after the withdrawal does not learn its owner (refreshStake returns
\* without a stake) and the node refuses all its payments.  That they arrive is not said.
WithdrawnFundsReturned ==
    LET withdrawals == {i \in DOMAIN log : log[i].event = "StakeWithdrawn"}
    IN  withdrawals # {} /\ (\A i \in withdrawals : log[i].block <= srv.scanned)
            => PendingBalances[Manager] <= hist.late

\* What the server needs to relay is there; it has not reached the bound MaxTxs.
CanServe ==
    /\ ~stopped
    /\ stakes[Manager].stake >= ManagerMinStake /\ stakes[Manager].withdrawBlock = 0
    /\ Events({"RelayServerRegistered"}, 1) # << >>
    /\ balance[Manager] >= ManagerMinBalance
    /\ PendingBalances[Worker] >= WorkerMinBalance
    /\ Len(txs[Manager]) < MaxTxs

\* Once a server is staked, registered and funded for good, it is ready from some
\* round on: no failed or slow round, restart or event that came before loses what
\* it has to know of the hub.
BecomesReady == <>[]CanServe => <>[]IsReady
=============================================================================
