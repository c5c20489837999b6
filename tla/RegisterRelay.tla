----------------------------- MODULE RegisterRelay -----------------------------
(***************************************************************************)
(* The command with which the owner registers a relay server               *)
(* (registerRelay of src/cli/CommandsLogic.ts): it stakes for the server's *)
(* manager, sends it RBTC and waits until the server answers a ping with   *)
(* "ready".  It can fail at every step, and be run again.                  *)
(*                                                                         *)
(* A step is what happens between two answers of the server or the node;   *)
(* the two transactions are waited for.                                    *)
(***************************************************************************)
EXTENDS RelayChain

CONSTANT Funds  \* options.funds

ASSUME RegisterRelayAssumption == Funds \in Nat

VARIABLE script  \* the run of registerRelay: where it is, what it is to stake

NoRun == [pc |-> "idle", runs |-> 0, value |-> 0]

GoTo(pc) == script' = [script EXCEPT !.pc = pc]

\* getPingResponse: the server must answer; one that is ready is "Already registered".
StartRegisterRelay(answers, ready) ==
    /\ phase = "sealed"
    /\ script.pc = "idle"
    /\ script.runs < MaxStakes
    /\ answers /\ ~ready
    /\ script' = [script EXCEPT !.pc = "stakeInfo", !.runs = @ + 1]
    /\ UNCHANGED chainVars

\* A stake of somebody else is an error.
ReadStakeInfo ==
    /\ phase = "sealed"
    /\ script.pc = "stakeInfo"
    /\ LET info == stakes[Manager]
       IN  /\ info.owner \in {NoAddress, Owner}
           /\ script' = [script EXCEPT
                  !.value = OptionStake - info.stake,
                  !.pc = IF info.unstakeDelay >= UnstakeDelay /\ info.stake >= OptionStake
                         THEN "balance" ELSE "stake"]
    /\ UNCHANGED chainVars

\* The difference to options.stake is staked.
Stake ==
    /\ ByOwner
    /\ script.pc = "stake"
    /\ script.value \in Nat
    /\ Hub!StakeForAddress(Owner, Manager, UnstakeDelay, script.value)
    /\ Emit("StakeAdded")
    /\ GoTo("balance")
    /\ NoTx

ReadManagerBalance ==
    /\ phase = "sealed"
    /\ script.pc = "balance"
    /\ GoTo(IF balance[Manager] > Funds THEN "wait" ELSE "fund")
    /\ UNCHANGED chainVars

Fund ==
    /\ ByOwner
    /\ script.pc = "fund"
    /\ balance' = [balance EXCEPT ![Manager] = @ + Funds]
    /\ GoTo("wait")
    /\ UNCHANGED <<hubVars, log, txs, mined, seen>>

\* isRelayReady, asked again and again by waitForRelay.
RelayIsReady(ready) ==
    /\ phase = "sealed"
    /\ script.pc = "wait"
    /\ ready
    /\ GoTo("idle")
    /\ UNCHANGED chainVars

\* The server or the node does not answer, a transaction reverts, or the server is
\* not ready in time.
RegisterRelayFails ==
    /\ phase = "sealed"
    /\ script.pc # "idle"
    /\ GoTo("idle")
    /\ UNCHANGED chainVars

RegisterRelay(answers, ready) ==
    \/ StartRegisterRelay(answers, ready) \/ ReadStakeInfo \/ Stake
    \/ ReadManagerBalance \/ Fund \/ RelayIsReady(ready) \/ RegisterRelayFails
=============================================================================
