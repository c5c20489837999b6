------------------------- MODULE RegistrationManager -------------------------
(***************************************************************************)
(* The relay server's RegistrationManager                                  *)
(* (src/relayserver/RegistrationManager.ts): it follows the stake of the   *)
(* manager, adds the worker and registers the server on the hub, and gives *)
(* the RBTC back to the owner when the stake is unlocked or withdrawn.     *)
(*                                                                         *)
(* handlePastEvents is a part of the worker's round; its steps are what    *)
(* happens between two answers of the node.                                *)
(***************************************************************************)
EXTENDS RelayChain

CONSTANTS
    ManagerMinBalance,  \* config.managerMinBalance
    ManagerMinStake     \* config.managerMinStake

VARIABLES
    reg,     \* the fields of the RegistrationManager
    stopped, \* 'unstaked' was emitted: HttpServer.close stopped the polling
    round    \* the round under way: where it is and what it has read

StakeEvents == {"StakeAdded", "StakeUnlocked", "StakeWithdrawn"}

\* A new RegistrationManager: nothing is known of the stake.
NewRegistrationManager ==
    [stake |-> 0, locked |-> FALSE, owner |-> NoAddress, balance |-> 0,
     registered |-> FALSE, workerAdded |-> FALSE, delayed |-> << >>]

BalanceOk     == reg.balance >= ManagerMinBalance
StakeOk       == reg.stake >= ManagerMinStake
StakedAndLocked == StakeOk /\ reg.locked  \* mutant: the registration is not waited for
IsRegistered  == StakeOk /\ reg.locked /\ reg.registered

\* init: look for the registration and the worker from the first block on.
RegistrationInit ==
    reg' = [reg EXCEPT
        !.workerAdded = @ \/ Events({"RelayWorkersAdded"}, 1) # << >>,
        !.registered = @ \/ Events({"RelayServerRegistered"}, 1) # << >>]

\* refreshStake: without a stake nothing is updated.
RefreshStake(r) ==
    IF stakes[Manager].stake = 0 THEN r
    ELSE [r EXCEPT !.locked = stakes[Manager].withdrawBlock = 0,
                   !.stake = stakes[Manager].stake,
                   !.owner = IF @ = NoAddress THEN stakes[Manager].owner ELSE @]

-----------------------------------------------------------------------------
(* handlePastEvents *)

FetchStakeEvents(lastScannedBlock) ==
    /\ round.pc = "stakeEvents"
    /\ round' = [round EXCEPT !.pc = "stake",
                              !.todo = Events(StakeEvents, lastScannedBlock + 1)]
    /\ UNCHANGED <<chainVars, reg, stopped>>

\* The next stake event; refreshStake reads the stake as it is now.
HandleStakeEvent ==
    /\ round.pc = "stake"
    /\ round.todo # << >>
    /\ LET e == log[Head(round.todo)]
       IN  /\ reg' = [RefreshStake(reg) EXCEPT !.delayed =
                  IF e.event = "StakeUnlocked" THEN Append(@, e.withdrawBlock) ELSE @]
           /\ round' = [round EXCEPT !.todo = Tail(@),
                  !.pay = IF e.event = "StakeWithdrawn" THEN <<Worker, Manager>> ELSE << >>,
                  !.pc = IF e.event = "StakeWithdrawn" THEN "pay" ELSE "stake"]
    /\ UNCHANGED <<chainVars, stopped>>

IsDueAtOnce(withdrawBlock) == TRUE  \* mutant: the delay is not waited for
IsDue(withdrawBlock) == withdrawBlock <= round.block

Due == {w \in ToSet(reg.delayed) : IsDue(w)}

\* The hub's events are folded in, the unlocks that are due leave delayedEvents
\* before any of them is handled.
ExtractDuePendingEvents ==
    /\ round.pc = "stake"
    /\ round.todo = << >>
    /\ LET Seen(e) == \E i \in DOMAIN round.hub : log[round.hub[i]].event = e
       IN  reg' = [reg EXCEPT
               !.registered = @ \/ Seen("RelayServerRegistered"),
               !.workerAdded = @ \/ Seen("RelayWorkersAdded"),
               !.delayed = Keep(@, ToSet(@) \ Due)]
    /\ LET due == Keep(reg.delayed, Due)
       IN  round' = [round EXCEPT !.pay = [i \in DOMAIN due |-> Worker],
                                  !.pc = IF due = << >> THEN "addWorker" ELSE "pay",
                                  !.due = TRUE]
    /\ UNCHANGED <<chainVars, stopped>>

\* One transfer of withdrawAllFunds: all that the account has in the latest
\* block, to the owner, when it is more than the cost of a transfer (0 here).
Payout(a) == Tx("VALUE_TRANSFER", reg.owner, balance[a])

\* withdrawAllFunds emits 'unstaked' after its last transfer; that of an unlock
\* takes the worker's RBTC only.
PayOwner ==
    LET a == Head(round.pay)
    IN  /\ round.pc = "pay"
        /\ IF balance[a] = 0 THEN UNCHANGED txs
           ELSE Payable(PendingBalances, a, Payout(a)) /\ Send(a, Payout(a))
        /\ stopped' = (stopped \/ round.due \/ Len(round.pay) = 1)
        /\ round' = [round EXCEPT !.pay = Tail(@),
               !.pc = IF Len(round.pay) > 1 THEN "pay"
                      ELSE IF round.due THEN "addWorker" ELSE "stake"]
        /\ UNCHANGED <<hubVars, phase, log, balance, mined, seen, reg>>

\* The node refuses the transfer, which is in the store by then: sendTransaction
\* throws and the round ends (see RelayServer).
PayoutRefused ==
    LET a == Head(round.pay)
    IN  /\ round.pc = "pay"
        /\ balance[a] > 0
        /\ ~Payable(PendingBalances, a, Payout(a))
        /\ Send(a, Payout(a))
        /\ UNCHANGED <<hubVars, phase, log, balance, mined, seen, reg, stopped>>

Prerequisites == reg.locked /\ StakeOk /\ BalanceOk

\* attemptRegistration is called, and goes beyond its check.
AttemptsRegistration ==
    /\ Prerequisites
    /\ \/ ~IsActionPending(Manager, "REGISTER_SERVER") /\ ~reg.registered
       \/ round.force

MustAddAgain == ~reg.workerAdded  \* mutant: a pending addition is not waited for
MustAddWorker == ~reg.workerAdded /\ ~IsActionPending(Manager, "ADD_WORKER")

AddRelayWorker ==
    /\ round.pc = "addWorker"
    /\ IF AttemptsRegistration
       THEN /\ round' = [round EXCEPT !.pc = "register"]
            /\ IF MustAddWorker THEN Send(Manager, Tx("ADD_WORKER", HubItself, 0))
                                ELSE UNCHANGED txs
       ELSE /\ round' = [round EXCEPT !.pc = "confirm"]
            /\ UNCHANGED txs
    /\ UNCHANGED <<hubVars, phase, log, balance, mined, seen, reg, stopped>>

RegisterServer ==
    /\ round.pc = "register"
    /\ Send(Manager, Tx("REGISTER_SERVER", HubItself, 0))
    /\ round' = [round EXCEPT !.pc = "confirm"]
    /\ UNCHANGED <<hubVars, phase, log, balance, mined, seen, reg, stopped>>
=============================================================================
