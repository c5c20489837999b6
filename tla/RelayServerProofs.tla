-------------------------- MODULE RelayServerProofs --------------------------
(***************************************************************************)
(* The relay server and the hub together: whatever the server, its owner   *)
(* and the faults do, the hub sees calls of its external functions only,   *)
(* so what is proved of RelayHub holds of the stake, the worker and the    *)
(* relays of this server.  Then what the server itself believes: it        *)
(* registers once, is registered when it is ready, pays back only what is  *)
(* due and has been alerted for every rejected call it has scanned.  Last  *)
(* what it pays: refills keep their bounds, and what a withdrawal frees    *)
(* goes back to the owner.                                                 *)
(***************************************************************************)
EXTENDS RelayServer, Induction, FiniteSetTheorems

LEMMA ChainKeepsHub == ChainNext => Hub!Next \/ UNCHANGED hubVars
  <1>. SUFFICES ASSUME ChainNext PROVE Hub!Next \/ UNCHANGED hubVars
    OBVIOUS
  <1>1. CASE MineBlock
    BY <1>1 DEF MineBlock, Hub!Next
  <1>2. CASE SealBlock
    BY <1>2 DEF SealBlock
  <1>4. CASE Unlock
    BY <1>4 DEF Unlock, Hub!Next, Hub!AccountNext, Owner, Manager
  <1>5. CASE Withdraw
    BY <1>5 DEF Withdraw, Hub!Next, Hub!AccountNext, Owner, Manager
  <1>6. CASE Penalize
    BY <1>6 DEF Penalize, Hub!Next, Worker
  <1>7. ASSUME NEW s \in Signer, Execute(s) PROVE Hub!Next \/ UNCHANGED hubVars
    <2>. DEFINE t == txs[s][mined[s] + 1]
    <2>1. Executes(t) \/ UNCHANGED hubVars
      BY <1>7 DEF Execute
    <2>2. ASSUME Executes(t) PROVE Hub!Next \/ UNCHANGED hubVars
      <3>1. CASE t.action = "ADD_WORKER"
        <4>1. Hub!AddRelayWorkers(Manager, <<Worker>>)
          BY <2>2, <3>1 DEF Executes
        <4>2. <<Worker>> \in Hub!AddressArrays /\ Manager \in {Manager, Worker, Owner}
          BY DEF Hub!AddressArrays
        <4>. QED
          BY <4>1, <4>2 DEF Hub!Next, Hub!AccountNext
      <3>2. CASE t.action = "REGISTER_SERVER"
        BY <2>2, <3>2 DEF Executes, Hub!Next, Hub!AccountNext
      <3>3. CASE t.action = "RELAY_CALL"
        BY <2>2, <3>3 DEF Executes, Hub!Next, Hub!AccountNext
      <3>4. CASE t.action \notin {"ADD_WORKER", "REGISTER_SERVER", "RELAY_CALL"}
        BY <2>2, <3>4 DEF Executes
      <3>. QED
        BY <3>1, <3>2, <3>3, <3>4
    <2>. QED
      BY <2>1, <2>2
  <1>. QED
    BY <1>1, <1>2, <1>4, <1>5, <1>6, <1>7 DEF ChainNext

LEMMA ScriptKeepsHub == OwnerScript => Hub!Next \/ UNCHANGED hubVars
  <1>. SUFFICES ASSUME OwnerScript PROVE Hub!Next \/ UNCHANGED hubVars
    OBVIOUS
  <1>1. CASE Stake
    BY <1>1 DEF Stake, Hub!Next, Hub!AccountNext
  <1>2. CASE ReadStakeInfo \/ ReadManagerBalance \/ Fund \/ RegisterRelayFails
    BY <1>2 DEF ReadStakeInfo, ReadManagerBalance, Fund, RegisterRelayFails, chainVars
  <1>3. CASE StartRegisterRelay(srv.initialized, IsReady) \/ RelayIsReady(IsReady)
    BY <1>3 DEF StartRegisterRelay, RelayIsReady, chainVars
  <1>. QED
    BY <1>1, <1>2, <1>3 DEF OwnerScript, RegisterRelay

LEMMA ServerKeepsHub == Server => UNCHANGED hubVars
  <1>. SUFFICES ASSUME Server PROVE UNCHANGED hubVars
    OBVIOUS
  <1>. USE DEF chainVars, hubVars
  <1>1. CASE RoundStep
    <2>1. CASE Initialize \/ StartRound \/ RefreshBalance \/ FetchHubEvents
      BY <2>1 DEF Initialize, StartRound, RefreshBalance, FetchHubEvents
    <2>2. CASE Registration
      BY <2>2 DEF Registration, FetchStakeEvents, HandleStakeEvent, PayOwner,
                  ExtractDuePendingEvents, AddRelayWorker, RegisterServer
    <2>3. CASE EndScan \/ EndRound
      BY <2>3 DEF EndScan, EndRound
    <2>. QED
      BY <1>1, <2>1, <2>2, <2>3 DEF RoundStep
  <1>2. ASSUME NEW p \in Replenisher, ReplenishStep(p) PROVE UNCHANGED hubVars
    BY <1>2 DEF ReplenishStep, ReadBalances, Decide, SendRefill
  <1>3. ASSUME NEW r \in Request, RequestStep(r) PROVE UNCHANGED hubVars
    BY <1>3 DEF RequestStep, Accept, Validate, Relay
  <1>4. CASE RoundFails \/ Timeout \/ Crash
    BY <1>4 DEF RoundFails, PayoutRefused, Timeout, Crash, Restart
  <1>. QED
    BY <1>1, <1>2, <1>3, <1>4 DEF Server

\* The theorems of RelayHubProofs, about the hub this server talks to.
HubResults == INSTANCE RelayHubProofs WITH
    Address <- {Manager, Worker, Owner}, MaxWorkerCount <- 1,
    MinimumEntryDepositValue <- 1, MinimumUnstakeDelay <- UnstakeDelay,
    MinimumStake <- 1, MsgValues <- Nat, UnstakeDelays <- {UnstakeDelay},
    MaxUint <- MaxBlock + UnstakeDelay, MaxHubBalance <- MaxStakes * OptionStake, MaxBatch <- 1

\* The server, its worker and its owner use the hub as RelayHub.sol allows, in every
\* run with failing rounds and restarts.
THEOREM ServerImplementsHub == Spec => Hub!Spec
  <1>1. Init => Hub!Init
    BY DEF Init, ChainInit
  <1>2. [Next]_vars => [Hub!Next]_Hub!hubVars
    BY ChainKeepsHub, ScriptKeepsHub, ServerKeepsHub
       DEF Next, Chain, vars, chainVars, hubVars, Hub!hubVars
  <1>. QED
    BY <1>1, <1>2, PTL DEF Spec, Hub!Spec

LEMMA SameHub == Hub!Spec => HubResults!Spec
  <1>1. Hub!Init => HubResults!Init
    BY DEF Hub!Init, HubResults!Init, Hub!EmptyStake, HubResults!EmptyStake,
           Hub!NoEntry, HubResults!NoEntry
  <1>2. [Hub!Next]_Hub!hubVars => [HubResults!Next]_HubResults!hubVars
    BY DEF Hub!Next, Hub!AccountNext, Hub!StakeForAddress, Hub!UnlockStake,
           Hub!WithdrawStake, Hub!AddRelayWorkers, Hub!DisableRelayWorkers,
           Hub!RegisterRelayServer, Hub!RelayCall, Hub!DeployCall, Hub!Penalize,
           Hub!PenaltyAccepted,
           Hub!MineBlock, Hub!hubVars, Hub!DelayNotDecreased, Hub!WithdrawalDue,
           Hub!EmptyStake, Hub!ToBurn, Hub!Reward, Hub!HasManager, Hub!ManagerOf,
           Hub!IsRelayManagerStaked, Hub!Elements, Hub!NoRepeats, Hub!Unassigned,
           Hub!NoEntry, Hub!EnabledWorker, Hub!DisabledWorker, Hub!AddressArrays,
           Hub!RelayAllowed, HubResults!Next, HubResults!AccountNext,
           HubResults!StakeForAddress, HubResults!UnlockStake,
           HubResults!WithdrawStake, HubResults!AddRelayWorkers,
           HubResults!DisableRelayWorkers, HubResults!RegisterRelayServer,
           HubResults!RelayCall, HubResults!DeployCall, HubResults!Penalize,
           HubResults!PenaltyAccepted,
           HubResults!MineBlock, HubResults!hubVars, HubResults!DelayNotDecreased,
           HubResults!WithdrawalDue, HubResults!EmptyStake, HubResults!ToBurn,
           HubResults!Reward, HubResults!HasManager, HubResults!ManagerOf,
           HubResults!IsRelayManagerStaked, HubResults!Elements,
           HubResults!NoRepeats, HubResults!Unassigned, HubResults!NoEntry,
           HubResults!EnabledWorker, HubResults!DisabledWorker,
           HubResults!AddressArrays, HubResults!RelayAllowed
  <1>. QED
    BY <1>1, <1>2, PTL DEF Hub!Spec, HubResults!Spec

LEMMA HubParameters == HubResults!HubAssumption
  <1>1. IsFiniteSet({Manager, Worker, Owner})
    <2>1. IsFiniteSet({Owner})
      BY FS_Singleton
    <2>2. IsFiniteSet({Owner} \cup {Worker})
      BY <2>1, FS_AddElement
    <2>3. IsFiniteSet(({Owner} \cup {Worker}) \cup {Manager})
      BY <2>2, FS_AddElement
    <2>4. ({Owner} \cup {Worker}) \cup {Manager} = {Manager, Worker, Owner}
      OBVIOUS
    <2>. QED
      BY <2>3, <2>4
  <1>2. HubResults!IsFiniteSet({Manager, Worker, Owner})
    BY <1>1 DEF IsFiniteSet, HubResults!IsFiniteSet
  <1>3. MaxStakes * OptionStake \in Nat
    BY RelayChainAssumption
  <1>. QED
    BY <1>2, <1>3, RelayChainAssumption
       DEF HubResults!HubAssumption, Manager, Worker, Owner, NoAddress

\* The stake behind a relay of this server stays within reach of the Penalizer for
\* UnstakeDelay blocks, whatever its owner does.
THEOREM ServersRelaysAreBacked == Spec => []Hub!RelayIsBacked
  <1>1. HubResults!RelayIsBacked => Hub!RelayIsBacked
    BY DEF Hub!RelayIsBacked, HubResults!RelayIsBacked, Hub!ManagerOf, HubResults!ManagerOf
  <1>. QED
    BY <1>1, HubParameters, SameHub, HubResults!RelayStaysBacked, ServerImplementsHub, PTL

\* The hub's variables keep their types.
LEMMA HubIsTyped == Spec => []Hub!TypeOK
  <1>1. HubResults!TypeOK => Hub!TypeOK
    BY DEF Hub!TypeOK, HubResults!TypeOK, Hub!StakeInfo, HubResults!StakeInfo,
           Hub!ManagerEntry, HubResults!ManagerEntry
  <1>. QED
    BY <1>1, HubParameters, SameHub, HubResults!HubTypeCorrect, ServerImplementsHub, PTL

-----------------------------------------------------------------------------
(* Types *)

OtherEvents ==
    {"StakeAdded", "StakeWithdrawn", "StakePenalized"} \cup ActiveManagerEvents

Entry ==
    [event : OtherEvents, block : Nat]
        \cup [event : {"StakeUnlocked"}, block : Nat, withdrawBlock : Nat]

Transaction ==
    [action : {"ADD_WORKER", "REGISTER_SERVER", "RELAY_CALL", "VALUE_TRANSFER"},
     to : Account \cup {NoAddress}, value : Nat]

ScriptPc == {"idle", "stakeInfo", "stake", "balance", "fund", "wait"}

ChainTypes ==
    /\ phase \in Phases
    /\ log \in Seq(Entry)
    /\ balance \in [Account -> Nat]
    /\ txs \in [Signer -> Seq(Transaction)]
    /\ mined \in [Signer -> Nat] /\ seen \in [Signer -> Nat]
    /\ \A s \in Signer : seen[s] <= mined[s] /\ mined[s] <= Len(txs[s])
    /\ script \in [pc : ScriptPc, runs : Nat, value : Int]

RoundPc == {"idle", "balance", "hubEvents", "stakeEvents", "stake", "pay", "addWorker",
            "register", "confirm", "replenish"}

Refills == [pc : {"idle", "balances", "decide", "done"}] \cup [pc : {"send"}, amount : Nat]

Managers ==
    [stake : Nat, locked : BOOLEAN, owner : Account \cup {NoAddress}, balance : Nat,
     registered : BOOLEAN, workerAdded : BOOLEAN, delayed : Seq(Nat)]

RegTypes == reg \in Managers

\* A round holds indexes of the log.
Rounds ==
    [pc : RoundPc, block : Nat, hub : Seq(DOMAIN log), todo : Seq(DOMAIN log),
     pay : Seq(Signer), due : BOOLEAN, force : BOOLEAN]

RoundTypes == round \in Rounds

Servers ==
    [initialized : BOOLEAN, scanned : Nat, refreshed : Nat, ready : BOOLEAN,
     rounds : 0..SuccessfulRoundsForReady, alerted : BOOLEAN, alertedBlock : Nat,
     workerBalance : Nat]

SrvTypes == srv \in Servers

Histories == [alerts : SUBSET Nat, overlap : BOOLEAN, late : Nat]

OtherTypes ==
    /\ stopped \in BOOLEAN
    /\ refill \in [Replenisher -> Refills]
    /\ requests \in [Request -> {"new", "accepted", "valid", "refused", "relayed"}]
    /\ hist \in Histories

Types == ChainTypes /\ RegTypes /\ RoundTypes /\ SrvTypes /\ OtherTypes

-----------------------------------------------------------------------------
(* What the node answers *)

\* The part of Hub!TypeOK that is needed.
LEMMA HubFacts ==
  ASSUME Hub!TypeOK
  PROVE  /\ block \in Nat /\ block # 0
         /\ stakes[Manager].stake \in Nat /\ stakes[Manager].withdrawBlock \in Nat
         /\ stakes[Manager].owner \in Account \cup {NoAddress}
         /\ workerCount[Manager] \in Nat
  BY DEF Hub!TypeOK, Hub!StakeInfo, Account, Manager, Worker, Owner

LEMMA LogFacts ==
  ASSUME log \in Seq(Entry)
  PROVE  /\ Len(log) \in Nat /\ DOMAIN log = 1..Len(log)
         /\ \A i \in DOMAIN log :
               /\ log[i].block \in Nat
               /\ log[i].event = "StakeUnlocked" => log[i].withdrawBlock \in Nat
  <1>1. Len(log) \in Nat /\ DOMAIN log = 1..Len(log) /\ \A i \in DOMAIN log : log[i] \in Entry
    OBVIOUS
  <1>2. "StakeUnlocked" \notin OtherEvents
    BY DEF OtherEvents, ActiveManagerEvents, RejectedEvent
  <1>. QED
    BY <1>1, <1>2 DEF Entry

\* Events(names, from) are indexes of the log, and all that there are.
LEMMA EventsFacts ==
  ASSUME log \in Seq(Entry), NEW names, NEW from, NEW E, E = Events(names, from)
  PROVE  /\ E \in Seq(DOMAIN log)
         /\ \A i \in ToSet(E) :
               i \in DOMAIN log /\ log[i].event \in names /\ log[i].block >= from
         /\ \A i \in DOMAIN log :
               log[i].event \in names /\ log[i].block >= from => i \in ToSet(E)
         /\ E # << >> <=> \E i \in DOMAIN log : log[i].event \in names /\ log[i].block >= from
  <1>1. PICK n \in Nat : n = Len(log) /\ DOMAIN log = 1..n
    BY LogFacts
  <1>2. PICK ids, V : /\ ids = [i \in 1..n |-> i]
                      /\ V = {i \in 1..n : log[i].event \in names /\ log[i].block >= from}
    OBVIOUS
  <1>3. E = Keep(ids, V)
    BY <1>1, <1>2 DEF Events
  <1>4. ids \in Seq(1..n) /\ Len(ids) = n /\ \A i \in 1..n : ids[i] = i
    BY <1>2
  <1>5. /\ E \in Seq(1..n)
        /\ \A i \in 1..Len(E) : E[i] \in V
        /\ \A j \in 1..n : j \in V => \E i \in 1..Len(E) : E[i] = j
    BY <1>3, <1>4, KeepFacts
  <1>6. DOMAIN E = 1..Len(E) /\ Len(E) \in Nat
    BY <1>5
  <1>7. E # << >> <=> \E i \in DOMAIN E : TRUE
    BY <1>5, <1>6
  <1>8. ToSet(E) = V
    <2>1. ToSet(E) \subseteq V
      BY <1>5, <1>6 DEF ToSet
    <2>2. V \subseteq ToSet(E)
      <3>1. V \subseteq 1..n
        BY <1>2
      <3>. QED
        BY <1>5, <1>6, <3>1 DEF ToSet
    <2>. QED
      BY <2>1, <2>2
  <1>9. E # << >> <=> V # {}
    BY <1>7, <1>8 DEF ToSet
  <1>. QED
    BY <1>1, <1>2, <1>5, <1>8, <1>9

LEMMA TxsFacts ==
  ASSUME ChainTypes, NEW s \in Signer
  PROVE  /\ txs[s] \in Seq(Transaction) /\ Len(txs[s]) \in Nat
         /\ mined[s] \in Nat /\ seen[s] \in Nat
         /\ seen[s] <= mined[s] /\ mined[s] <= Len(txs[s])
         /\ DOMAIN txs[s] = 1..Len(txs[s])
         /\ \A i \in 1..Len(txs[s]) : txs[s][i] \in Transaction /\ txs[s][i].value \in Nat
  <1>1. txs[s] \in Seq(Transaction) /\ mined[s] \in Nat /\ seen[s] \in Nat
    BY DEF ChainTypes
  <1>2. \A i \in 1..Len(txs[s]) : txs[s][i] \in Transaction
    BY <1>1
  <1>. QED
    BY <1>1, <1>2 DEF ChainTypes, Transaction

LEMMA TransferType ==
  ASSUME NEW b \in [Account -> Nat], NEW s \in Signer, NEW t \in Transaction,
         b[s] >= t.value
  PROVE  Transfer(b, s, t) \in [Account -> Nat]
  BY DEF Transfer, Transaction, Account, Signer

Balances == [Account -> Nat]

\* The node takes t, signed by s, or leaves it.
Paid(c, s, t) == IF Payable(c, s, t) THEN Transfer(c, s, t) ELSE c

\* The balances b after the transactions U of s.
Settled(b, s, U) ==
    LET Apply(c, t) == Paid(c, s, t)
    IN  FoldOver(Apply, b, U)

Run(f, b, s, U) ==
    /\ f \in [0..Len(U) -> Balances]
    /\ f[0] = b
    /\ \A i \in 1..Len(U) : f[i] = Paid(f[i-1], s, U[i])

LEMMA PaidType ==
  ASSUME NEW c \in Balances, NEW s \in Signer, NEW t \in Transaction
  PROVE  Paid(c, s, t) \in Balances
  BY TransferType DEF Paid, Payable, Balances

LEMMA SettledRun ==
  ASSUME NEW s \in Signer, NEW U \in Seq(Transaction), NEW b \in Balances
  PROVE  \E f : Run(f, b, s, U) /\ Settled(b, s, U) = f[Len(U)]
  <1>2. PICK n \in Nat : n = Len(U)
    OBVIOUS
  <1>4. \A i \in 1..n : U[i] \in Transaction
    BY <1>2
  <1>5. \A i \in 1..n, c \in Balances : Paid(c, s, U[i]) \in Balances
    BY <1>4, PaidType
  <1>6. PICK G : G = [i \in 1..n |-> [c \in Balances |-> Paid(c, s, U[i])]]
    OBVIOUS
  <1>7. /\ G \in [1..n -> [Balances -> Balances]]
        /\ \A i \in 1..n, c \in Balances : G[i][c] = Paid(c, s, U[i])
    BY <1>5, <1>6
  <1>8. PICK f : Iterates(n, Balances, b, G, f)
    BY <1>7, RecursionExists, Zenon
  <1>9. f \in [0..n -> Balances] /\ f[0] = b /\ \A i \in 1..n : f[i] = G[i][f[i-1]]
    BY <1>8 DEF Iterates
  <1>10. \A i \in 1..n : f[i] = Paid(f[i-1], s, U[i])
    <2>. SUFFICES ASSUME NEW i \in 1..n PROVE f[i] = Paid(f[i-1], s, U[i])
      OBVIOUS
    <2>1. i - 1 \in 0..n
      OBVIOUS
    <2>2. f[i-1] \in Balances
      BY <1>9, <2>1
    <2>. QED
      BY <1>7, <1>9, <2>2
  <1>. DEFINE R(F) == F = [i \in 0..Len(U) |-> IF i = 0 THEN b ELSE Paid(F[i-1], s, U[i])]
              H == CHOOSE F : R(F)
  <1>11. R(f)
    <2>1. f = [i \in 0..n |-> f[i]]
      BY <1>9
    <2>2. \A i \in 0..n : i # 0 => i \in 1..n
      OBVIOUS
    <2>3. \A i \in 0..n : f[i] = IF i = 0 THEN b ELSE Paid(f[i-1], s, U[i])
      BY <1>9, <1>10, <2>2
    <2>. QED
      BY <1>2, <2>1, <2>3
  <1>12. R(H)
    <2>. HIDE DEF R
    <2>. QED
      BY <1>11
  <1>13. Settled(b, s, U) = H[Len(U)]
    BY DEF Settled, FoldOver
  <1>14. PICK F : F = H
    OBVIOUS
  <1>15. R(F)
    BY <1>12, <1>14
  <1>. HIDE DEF H
  <1>16. F[0] = b
    BY <1>2, <1>15
  <1>17. \A i \in 1..n : F[i] = Paid(F[i-1], s, U[i])
    <2>1. \A i \in 1..n : i \in 0..Len(U) /\ i # 0
      BY <1>2
    <2>. QED
      BY <1>15, <2>1
  <1>18. F = [i \in 0..n |-> F[i]]
    BY <1>2, <1>15
  <1>. HIDE DEF R
  <1>19. \A i \in 0..n : F[i] \in Balances
    <2>. DEFINE P == {i \in 0..n : F[i] \in Balances}
    <2>1. 0 \in P
      BY <1>16
    <2>2. ASSUME NEW k \in 1..n, k-1 \in P PROVE k \in P
      BY <1>5, <1>17, <2>2
    <2>. HIDE DEF P
    <2>3. \A k \in 0..n : k \in P
      BY <2>1, <2>2, SetInduction
    <2>. QED
      BY <2>3 DEF P
  <1>20. F \in [0..n -> Balances]
    BY <1>18, <1>19
  <1>. QED
    BY <1>2, <1>13, <1>14, <1>16, <1>17, <1>20 DEF Run

\* What is settled is what a run ends with: there is only one.
LEMMA RunSettles ==
  ASSUME NEW s \in Signer, NEW U \in Seq(Transaction), NEW b \in Balances,
         NEW f, Run(f, b, s, U)
  PROVE  Settled(b, s, U) = f[Len(U)]
  <1>1. PICK g : Run(g, b, s, U) /\ Settled(b, s, U) = g[Len(U)]
    BY SettledRun
  <1>2. PICK n \in Nat : n = Len(U)
    OBVIOUS
  <1>. DEFINE P == {i \in 0..n : f[i] = g[i]}
  <1>3. 0 \in P
    BY <1>1 DEF Run
  <1>4. ASSUME NEW k \in 1..n, k-1 \in P PROVE k \in P
    BY <1>1, <1>2, <1>4 DEF Run
  <1>. HIDE DEF P
  <1>5. \A k \in 0..n : k \in P
    BY <1>3, <1>4, SetInduction
  <1>6. n \in P
    BY <1>5
  <1>. QED
    BY <1>1, <1>2, <1>6 DEF P

LEMMA SubSeqFacts ==
  ASSUME NEW S, NEW q \in Seq(S), NEW m \in Nat, NEW k \in Nat, m <= k, k <= Len(q)
  PROVE  /\ SubSeq(q, m + 1, k) \in Seq(S)
         /\ Len(SubSeq(q, m + 1, k)) = k - m
         /\ \A i \in 1..(k - m) : m + i \in 1..k /\ SubSeq(q, m + 1, k)[i] = q[m + i]
  <1>1. \A i \in (m + 1)..k : q[i] \in S
    OBVIOUS
  <1>2. SubSeq(q, m + 1, k) \in Seq(S)
    BY <1>1
  <1>3. Len(SubSeq(q, m + 1, k)) = k - m
    OBVIOUS
  <1>4. ASSUME NEW i \in 1..(k - m)
        PROVE  m + i \in 1..k /\ SubSeq(q, m + 1, k)[i] = q[m + i]
    <2>1. m + i \in 1..k /\ m + i = (m + 1) + i - 1
      OBVIOUS
    <2>2. SubSeq(q, m + 1, k)[i] = q[(m + 1) + i - 1]
      OBVIOUS
    <2>. QED
      BY <2>1, <2>2
  <1>. QED
    BY <1>2, <1>3, <1>4

LEMMA UnminedType ==
  ASSUME ChainTypes, NEW s \in Signer
  PROVE  Unmined(s) \in Seq(Transaction)
  BY TxsFacts, SubSeqFacts DEF Unmined

\* Pending balances are never negative: the node takes only what can be paid.
LEMMA SettledType ==
  ASSUME NEW s \in Signer, NEW U \in Seq(Transaction), NEW b \in Balances
  PROVE  Settled(b, s, U) \in Balances
  <1>1. PICK f : Run(f, b, s, U) /\ Settled(b, s, U) = f[Len(U)]
    BY SettledRun
  <1>2. Len(U) \in 0..Len(U)
    OBVIOUS
  <1>. QED
    BY <1>1, <1>2 DEF Run

LEMMA SettleIs ==
  /\ \A b, s : Settle(b, s) = Settled(b, s, Unmined(s))
  /\ \A b, s : Settle(b, s)' = Settled(b, s, Unmined(s))'
  BY DEF Settle, Settled, Paid

LEMMA PendingType ==
  ASSUME ChainTypes
  PROVE  PendingBalances \in [Account -> Nat]
  <1>1. balance \in [Account -> Nat] /\ Manager \in Signer /\ Worker \in Signer
    BY DEF ChainTypes, Signer
  <1>2. Settle(balance, Manager) \in [Account -> Nat]
    BY <1>1, UnminedType, SettledType, SettleIs DEF Balances
  <1>. QED
    BY <1>1, <1>2, UnminedType, SettledType, SettleIs DEF PendingBalances, Balances

-----------------------------------------------------------------------------
(* Steps of the chain and of the owner's script *)

\* A block that is mined is later than all events; events are of an open block.
EnvStep ==
    /\ UNCHANGED <<serverVars, faults, txs, seen>>
    /\ \E k \in {0, hist.late, hist.late + Funds} : hist' = [hist EXCEPT !.late = k]
    /\ \/ log' = log
       \/ \E e \in Entry : log' = Append(log, e) /\ e.block = block /\ phase # "sealed"
    /\ block' = block \/ (block' = block + 1 /\ log' = log)
    /\ phase' # "sealed" /\ phase = "sealed" => block' = block + 1
    /\ \/ mined' = mined
       \/ \E s \in Signer : mined[s] < Len(txs[s]) /\ mined' = [mined EXCEPT ![s] = @ + 1]

LEMMA EmitFacts ==
  ASSUME ChainTypes, Hub!TypeOK, NEW e \in OtherEvents, Emit(e)
  PROVE  /\ log' \in Seq(Entry)
         /\ \E x \in Entry : log' = Append(log, x) /\ x.block = block /\ x.event = e
  <1>1. PICK x : x = [event |-> e, block |-> block]
    OBVIOUS
  <1>2. x \in Entry /\ x.block = block /\ x.event = e
    BY <1>1, HubFacts DEF Entry
  <1>3. log' = Append(log, x)
    BY <1>1 DEF Emit
  <1>4. log' \in Seq(Entry)
    BY <1>2, <1>3 DEF ChainTypes
  <1>. QED
    BY <1>2, <1>3, <1>4

LEMMA OwnersTx ==
  ASSUME ChainTypes, Hub!TypeOK, Unlock \/ Withdraw \/ Penalize
  PROVE  /\ UNCHANGED <<balance, txs, mined, seen>> /\ block' = block
         /\ phase' \in Phases /\ phase # "sealed" /\ log' \in Seq(Entry)
         /\ \E e \in Entry : /\ log' = Append(log, e) /\ e.block = block
                             /\ e.event \in {"StakeUnlocked", "StakeWithdrawn", "StakePenalized"}
  <1>1. UNCHANGED <<balance, txs, mined, seen>> /\ block' = block
    BY DEF Unlock, Withdraw, Penalize, NoTx, Hub!UnlockStake, Hub!WithdrawStake, Hub!Penalize
  <1>2. phase' \in Phases /\ phase # "sealed"
    BY DEF Unlock, Withdraw, Penalize, ByOwner, Phases, Owner
  <1>3. CASE Unlock
    <2>0. PICK e : e = [event |-> "StakeUnlocked", block |-> block,
                        withdrawBlock |-> block + UnstakeDelay]
      OBVIOUS
    <2>1. e \in Entry
      <3>1. block + UnstakeDelay \in Nat /\ block \in Nat
        BY HubFacts, RelayChainAssumption
      <3>2. e \in [event : {"StakeUnlocked"}, block : Nat, withdrawBlock : Nat]
        BY <2>0, <3>1
      <3>. QED
        BY <3>2 DEF Entry
    <2>2. log' = Append(log, e) /\ e.block = block /\ e.event = "StakeUnlocked"
      BY <1>3, <2>0 DEF Unlock
    <2>3. log' \in Seq(Entry)
      BY <2>1, <2>2 DEF ChainTypes
    <2>. QED
      BY <1>1, <1>2, <2>1, <2>2, <2>3
  <1>4. CASE Withdraw \/ Penalize
    <2>1. PICK n \in {"StakeWithdrawn", "StakePenalized"} : Emit(n)
      BY <1>4 DEF Withdraw, Penalize
    <2>. QED
      BY <1>1, <1>2, <2>1, EmitFacts DEF OtherEvents
  <1>. QED
    BY <1>3, <1>4

LEMMA ExecuteTypes ==
  ASSUME ChainTypes, Hub!TypeOK, NEW s \in Signer, Execute(s)
  PROVE  /\ UNCHANGED <<txs, seen, block>>
         /\ mined[s] < Len(txs[s]) /\ mined' = [mined EXCEPT ![s] = @ + 1]
         /\ balance' \in [Account -> Nat] /\ log' \in Seq(Entry)
         /\ phase # "sealed" /\ phase' \in Phases
         /\ log' = log \/ \E e \in Entry : log' = Append(log, e) /\ e.block = block
  <1>1. PICK t \in Transaction : t = txs[s][mined[s] + 1]
    <2>1. mined[s] + 1 \in 1..Len(txs[s])
      BY TxsFacts DEF Execute
    <2>. QED
      BY <2>1, TxsFacts
  <1>2. UNCHANGED <<txs, seen>> /\ mined[s] < Len(txs[s]) /\ mined' = [mined EXCEPT ![s] = @ + 1]
    BY DEF Execute
  <1>3. balance' = Transfer(balance, s, t) /\ balance[s] >= t.value /\ balance \in [Account -> Nat]
    BY <1>1 DEF Execute, Payable, ChainTypes
  <1>4. balance' \in [Account -> Nat]
    BY <1>3, TransferType
  <1>5. phase # "sealed" /\ phase' \in Phases
    BY DEF Execute, Phases, Signer, Owner, Manager, Worker
  <1>6. Executes(t) \/ UNCHANGED <<hubVars, log>>
    BY <1>1 DEF Execute
  <1>7. block' = block
    BY <1>6 DEF Executes, hubVars, Hub!AddRelayWorkers, Hub!RegisterRelayServer, Hub!RelayCall
  <1>8. log' = log \/ \E e \in OtherEvents : Emit(e)
    BY <1>6 DEF Executes, OtherEvents, ActiveManagerEvents, RejectedEvent
  <1>9. log' \in Seq(Entry) /\ (log' = log \/ \E e \in Entry : log' = Append(log, e) /\ e.block = block)
    BY <1>8, EmitFacts DEF ChainTypes
  <1>. QED
    BY <1>2, <1>4, <1>5, <1>7, <1>9

\* The steps of registerRelay.
LEMMA ScriptTypes ==
  ASSUME ChainTypes, Hub!TypeOK, OwnerScript
  PROVE  EnvStep /\ ChainTypes'
  <1>0. /\ UNCHANGED <<serverVars, faults>>
        /\ \E k \in {0, hist.late, hist.late + Funds} : hist' = [hist EXCEPT !.late = k]
        /\ \/ StartRegisterRelay(srv.initialized, IsReady) \/ ReadStakeInfo \/ Stake
           \/ ReadManagerBalance \/ Fund \/ RelayIsReady(IsReady) \/ RegisterRelayFails
    BY DEF OwnerScript, RegisterRelay
  <1>1. script \in [pc : ScriptPc, runs : Nat, value : Int]
    BY DEF ChainTypes
  <1>2. CASE Stake
    <2>1. Emit("StakeAdded") /\ UNCHANGED <<balance, txs, mined, seen>> /\ phase = "open"
          /\ phase' = Owner /\ GoTo("balance") /\ block' = block
      BY <1>2 DEF Stake, ByOwner, NoTx, Hub!StakeForAddress
    <2>2. /\ log' \in Seq(Entry)
          /\ \E x \in Entry : log' = Append(log, x) /\ x.block = block
      BY <2>1, EmitFacts DEF OtherEvents
    <2>3. script' \in [pc : ScriptPc, runs : Nat, value : Int]
      BY <1>1, <2>1 DEF GoTo, ScriptPc
    <2>4. ChainTypes'
      BY <2>1, <2>2, <2>3 DEF ChainTypes, Phases
    <2>. QED
      BY <1>0, <2>1, <2>2, <2>4 DEF EnvStep
  <1>3. CASE Fund
    <2>1. /\ UNCHANGED <<log, txs, mined, seen, block>> /\ phase = "open" /\ phase' = Owner
          /\ balance' = [balance EXCEPT ![Manager] = @ + Funds] /\ GoTo("wait")
      BY <1>3 DEF Fund, ByOwner, hubVars
    <2>2. balance' \in [Account -> Nat]
      BY <2>1, RegisterRelayAssumption DEF ChainTypes, Account
    <2>3. script' \in [pc : ScriptPc, runs : Nat, value : Int]
      BY <1>1, <2>1 DEF GoTo, ScriptPc
    <2>4. ChainTypes'
      BY <2>1, <2>2, <2>3 DEF ChainTypes, Phases
    <2>. QED
      BY <1>0, <2>1, <2>4 DEF EnvStep
  <1>4. CASE ~Stake /\ ~Fund
    <2>1. UNCHANGED chainVars /\ phase = "sealed"
      BY <1>0, <1>4 DEF StartRegisterRelay, ReadStakeInfo, ReadManagerBalance, RelayIsReady,
                        RegisterRelayFails
    <2>2. script' \in [pc : ScriptPc, runs : Nat, value : Int]
      <3>1. \A pc \in ScriptPc : GoTo(pc) => script' \in [pc : ScriptPc, runs : Nat, value : Int]
        BY <1>1 DEF GoTo
      <3>2. CASE StartRegisterRelay(srv.initialized, IsReady)
        <4>1. script' = [script EXCEPT !.pc = "stakeInfo", !.runs = script.runs + 1]
          BY <3>2 DEF StartRegisterRelay
        <4>2. script.runs + 1 \in Nat /\ "stakeInfo" \in ScriptPc
          BY <1>1 DEF ScriptPc
        <4>. QED
          BY <1>1, <4>1, <4>2
      <3>3. CASE ReadStakeInfo
        <4>1. OptionStake - stakes[Manager].stake \in Int
          BY HubFacts, RelayChainAssumption
        <4>. QED
          BY <1>1, <3>3, <4>1 DEF ReadStakeInfo, ScriptPc
      <3>4. CASE ReadManagerBalance \/ RelayIsReady(IsReady) \/ RegisterRelayFails
        BY <3>1, <3>4 DEF ReadManagerBalance, RelayIsReady, RegisterRelayFails, ScriptPc
      <3>. QED
        BY <1>0, <1>4, <3>2, <3>3, <3>4
    <2>3. ChainTypes'
      BY <2>1, <2>2 DEF ChainTypes, chainVars
    <2>. QED
      BY <1>0, <2>1, <2>3 DEF EnvStep, chainVars, hubVars
  <1>. QED
    BY <1>2, <1>3, <1>4

LEMMA ChainStepTypes ==
  ASSUME ChainTypes, Hub!TypeOK, Chain
  PROVE  EnvStep /\ ChainTypes'
  <1>0. /\ ChainNext /\ UNCHANGED <<script, serverVars, faults>>
        /\ \E k \in {0, hist.late, hist.late + Funds} : hist' = [hist EXCEPT !.late = k]
    BY DEF Chain
  <1>1. CASE MineBlock
    BY <1>0, <1>1 DEF MineBlock, Hub!MineBlock, EnvStep, ChainTypes, Phases
  <1>2. CASE SealBlock
    BY <1>0, <1>2 DEF SealBlock, hubVars, EnvStep, ChainTypes, Phases
  <1>3. CASE Unlock \/ Withdraw \/ Penalize
    <2>1. ChainTypes'
      BY <1>0, <1>3, OwnersTx DEF ChainTypes
    <2>. QED
      BY <1>0, <1>3, <2>1, OwnersTx DEF EnvStep
  <1>4. ASSUME NEW s \in Signer, Execute(s)
        PROVE  EnvStep /\ ChainTypes'
    <2>1. /\ UNCHANGED <<txs, seen, block>>
          /\ mined[s] < Len(txs[s]) /\ mined' = [mined EXCEPT ![s] = @ + 1]
          /\ balance' \in [Account -> Nat] /\ log' \in Seq(Entry)
          /\ phase # "sealed" /\ phase' \in Phases
          /\ log' = log \/ \E e \in Entry : log' = Append(log, e) /\ e.block = block
      BY <1>4, ExecuteTypes
    <2>2. mined' \in [Signer -> Nat] /\ \A r \in Signer : seen[r] <= mined'[r] /\ mined'[r] <= Len(txs[r])
      BY <2>1, TxsFacts DEF ChainTypes
    <2>3. ChainTypes'
      BY <1>0, <2>1, <2>2 DEF ChainTypes
    <2>. QED
      BY <1>0, <2>1, <2>3 DEF EnvStep
  <1>. QED
    BY <1>0, <1>1, <1>2, <1>3, <1>4 DEF ChainNext

-----------------------------------------------------------------------------
(* Steps of the server: types *)

\* The server reads the chain and adds to its store of transactions.
LEMMA ServerReads ==
  ASSUME Server
  PROVE  phase = "sealed" /\ UNCHANGED <<hubVars, phase, log, balance, mined, script>>
  <1>. USE DEF chainVars
  <1>0. phase = "sealed" /\ UNCHANGED script
    BY DEF Server
  <1>1. CASE RoundStep
    <2>1. CASE Initialize \/ StartRound \/ RefreshBalance \/ FetchHubEvents
      BY <1>0, <2>1 DEF Initialize, StartRound, RefreshBalance, FetchHubEvents
    <2>2. CASE Registration
      BY <1>0, <2>2 DEF Registration, FetchStakeEvents, HandleStakeEvent, PayOwner,
                  ExtractDuePendingEvents, AddRelayWorker, RegisterServer
    <2>3. CASE EndScan \/ EndRound
      BY <1>0, <2>3 DEF EndScan, EndRound
    <2>. QED
      BY <1>1, <2>1, <2>2, <2>3 DEF RoundStep
  <1>2. ASSUME NEW p \in Replenisher, ReplenishStep(p)
        PROVE  UNCHANGED <<hubVars, phase, log, balance, mined, script>>
    BY <1>0, <1>2 DEF ReplenishStep, ReadBalances, Decide, SendRefill
  <1>3. ASSUME NEW r \in Request, RequestStep(r)
        PROVE  UNCHANGED <<hubVars, phase, log, balance, mined, script>>
    BY <1>0, <1>3 DEF RequestStep, Accept, Validate, Relay
  <1>4. CASE RoundFails \/ Timeout \/ Crash
    BY <1>0, <1>4 DEF RoundFails, PayoutRefused, Timeout, Crash, Restart
  <1>. QED
    BY <1>0, <1>1, <1>2, <1>3, <1>4 DEF Server

LEMMA SendFacts ==
  ASSUME ChainTypes, NEW s \in Signer, NEW t \in Transaction, Send(s, t)
  PROVE  /\ txs' \in [Signer -> Seq(Transaction)]
         /\ Len(txs'[s]) = Len(txs[s]) + 1
         /\ txs'[s][Len(txs[s]) + 1] = t
         /\ \A i \in 1..Len(txs[s]) : txs'[s][i] = txs[s][i]
         /\ \A r \in Signer \ {s} : txs'[r] = txs[r]
         /\ \A r \in Signer : Len(txs[r]) <= Len(txs'[r])
  <1>1. /\ txs \in [Signer -> Seq(Transaction)]
        /\ txs' = [txs EXCEPT ![s] = Append(txs[s], t)]
    BY DEF ChainTypes, Send
  <1>2. PICK q \in Seq(Transaction) : q = txs[s]
    BY <1>1
  <1>3. PICK u : u = Append(q, t) /\ u \in Seq(Transaction)
    <2>1. Append(q, t) \in Seq(Transaction)
      OBVIOUS
    <2>. QED
      BY <2>1, Zenon
  <1>4. /\ Len(u) = Len(q) + 1 /\ u[Len(q) + 1] = t /\ Len(q) \in Nat
        /\ \A i \in 1..Len(q) : u[i] = q[i]
    BY <1>3
  <1>5. txs' = [txs EXCEPT ![s] = u] /\ txs'[s] = u
    BY <1>1, <1>2, <1>3
  <1>6. \A r \in Signer : Len(txs[r]) \in Nat
    BY <1>1
  <1>. QED
    BY <1>1, <1>2, <1>4, <1>5, <1>6

\* What a step of the server may do with the transactions.
Sends ==
    \/ UNCHANGED txs
    \/ \E s \in Signer, t \in Transaction : Send(s, t)

LEMMA SendsTypes ==
  ASSUME ChainTypes, Server, Sends, UNCHANGED seen \/ seen' = mined
  PROVE  ChainTypes'
  <1>1. UNCHANGED <<phase, log, balance, mined, script>>
    BY ServerReads
  <1>2. /\ txs' \in [Signer -> Seq(Transaction)]
        /\ \A r \in Signer : Len(txs[r]) <= Len(txs'[r]) /\ Len(txs'[r]) \in Nat
    <2>1. CASE UNCHANGED txs
      BY <2>1 DEF ChainTypes
    <2>2. ASSUME NEW s \in Signer, NEW t \in Transaction, Send(s, t)
          PROVE  /\ txs' \in [Signer -> Seq(Transaction)]
                 /\ \A r \in Signer : Len(txs[r]) <= Len(txs'[r]) /\ Len(txs'[r]) \in Nat
      <3>1. txs' \in [Signer -> Seq(Transaction)] /\ \A r \in Signer : Len(txs[r]) <= Len(txs'[r])
        BY <2>2, SendFacts
      <3>2. \A r \in Signer : Len(txs'[r]) \in Nat
        BY <3>1
      <3>. QED
        BY <3>1, <3>2
    <2>. QED
      BY <2>1, <2>2 DEF Sends
  <1>3. \A r \in Signer : mined[r] <= Len(txs'[r])
    <2>1. \A r \in Signer : mined[r] \in Nat /\ Len(txs[r]) \in Nat /\ mined[r] <= Len(txs[r])
      BY TxsFacts
    <2>. QED
      BY <1>2, <2>1
  <1>4. seen' \in [Signer -> Nat] /\ \A r \in Signer : seen'[r] <= mined[r]
    BY DEF ChainTypes
  <1>. QED
    BY <1>1, <1>2, <1>3, <1>4 DEF ChainTypes

LEMMA PayoutType ==
  ASSUME Types, NEW a \in Signer
  PROVE  Payout(a) \in Transaction /\ Payout(a).action = "VALUE_TRANSFER"
  <1>1. reg.owner \in Account \cup {NoAddress} /\ balance[a] \in Nat
    BY DEF Types, RegTypes, Managers, ChainTypes, Signer, Account
  <1>. QED
    BY <1>1 DEF Payout, Tx, Transaction

LEMMA RegistrationTxs ==
  /\ Tx("ADD_WORKER", HubItself, 0) \in Transaction
  /\ Tx("REGISTER_SERVER", HubItself, 0) \in Transaction
  /\ RelayTx \in Transaction
  BY DEF Tx, Transaction, Account, RelayTx

LEMMA RefillType ==
  ASSUME Types, NEW p \in Replenisher, refill[p].pc = "send"
  PROVE  /\ Refill(p) \in Transaction
         /\ Refill(p).action = "VALUE_TRANSFER" /\ Refill(p).to = Worker
  <1>1. refill[p] \in Refills
    BY DEF Types, OtherTypes
  <1>2. refill[p].amount \in Nat
    BY <1>1 DEF Refills
  <1>. QED
    BY <1>2 DEF Refill, Tx, Transaction, Account

\* What each step of the server does with the store.
LEMMA ServerSends ==
  ASSUME Types, Server
  PROVE  Sends /\ (UNCHANGED seen \/ seen' = mined)
  <1>. USE DEF chainVars
  <1>0. Manager \in Signer /\ Worker \in Signer
    BY DEF Signer
  <1>1. CASE RoundStep
    <2>1. CASE Initialize \/ StartRound \/ RefreshBalance \/ FetchHubEvents
      BY <2>1 DEF Initialize, StartRound, RefreshBalance, FetchHubEvents, Sends
    <2>2. CASE Registration
      <3>1. CASE FetchStakeEvents(srv.scanned) \/ HandleStakeEvent \/ ExtractDuePendingEvents
        BY <3>1 DEF FetchStakeEvents, HandleStakeEvent, ExtractDuePendingEvents, Sends
      <3>2. CASE PayOwner /\ ~UNCHANGED txs
        <4>1. PICK a : a = Head(round.pay) /\ Send(a, Payout(a)) /\ UNCHANGED seen
          BY <3>2 DEF PayOwner
        <4>2. CASE a \in Signer
          BY <4>1, <4>2, PayoutType DEF Sends
        <4>3. CASE a \notin Signer
          BY <3>2, <4>1, <4>3 DEF Send, Types, ChainTypes
        <4>. QED
          BY <4>2, <4>3
      <3>3. CASE AddRelayWorker \/ RegisterServer
        BY <1>0, <3>3, RegistrationTxs DEF AddRelayWorker, RegisterServer, Sends
      <3>4. CASE PayOwner /\ UNCHANGED txs
        BY <3>4 DEF PayOwner, Sends
      <3>. QED
        BY <2>2, <3>1, <3>2, <3>3, <3>4 DEF Registration
    <2>3. CASE EndScan \/ EndRound
      BY <2>3 DEF EndScan, EndRound, Sends, KnownMined
    <2>. QED
      BY <1>1, <2>1, <2>2, <2>3 DEF RoundStep
  <1>2. ASSUME NEW p \in Replenisher, ReplenishStep(p)
        PROVE  Sends /\ UNCHANGED seen
    BY <1>0, <1>2, RefillType DEF ReplenishStep, ReadBalances, Decide, SendRefill, Sends
  <1>3. ASSUME NEW r \in Request, RequestStep(r)
        PROVE  Sends /\ UNCHANGED seen
    BY <1>0, <1>3, RegistrationTxs DEF RequestStep, Accept, Validate, Relay, Sends
  <1>4. CASE RoundFails /\ PayoutRefused
    <2>1. PICK a : a = Head(round.pay) /\ Send(a, Payout(a)) /\ UNCHANGED seen
      BY <1>4 DEF PayoutRefused
    <2>2. CASE a \in Signer
      BY <2>1, <2>2, PayoutType DEF Sends
    <2>3. CASE a \notin Signer
      BY <2>1, <2>3 DEF Send, Types, ChainTypes, Sends
    <2>. QED
      BY <2>1, <2>2, <2>3
  <1>5. CASE (RoundFails /\ ~PayoutRefused) \/ Timeout \/ Crash
    BY <1>5 DEF RoundFails, Timeout, Crash, Restart, Sends
  <1>. QED
    BY <1>1, <1>2, <1>3, <1>4, <1>5 DEF Server

\* The server's own variables.
LEMMA NoScanType ==
  ASSUME log \in Seq(Entry)
  PROVE  NoScan \in Rounds
  <1>1. << >> \in Seq(DOMAIN log) /\ << >> \in Seq(Signer)
    OBVIOUS
  <1>. QED
    BY <1>1 DEF NoScan, RoundPc, Rounds

LEMMA ServerTypesInit == Init => RegTypes /\ RoundTypes /\ SrvTypes /\ OtherTypes
  <1>. SUFFICES ASSUME Init PROVE RegTypes /\ RoundTypes /\ SrvTypes /\ OtherTypes
    OBVIOUS
  <1>0. << >> \in Seq(Nat) /\ << >> \in Seq(Entry)
    OBVIOUS
  <1>1. RegTypes
    BY <1>0 DEF Init, NewRegistrationManager, RegTypes, Managers
  <1>2. RoundTypes
    BY <1>0, NoScanType DEF Init, ChainInit, RoundTypes
  <1>3. SrvTypes
    BY ServerAssumption DEF Init, NewServer, SrvTypes, Servers
  <1>4. OtherTypes
    BY DEF Init, OtherTypes, Idle, Refills, Histories
  <1>. QED
    BY <1>1, <1>2, <1>3, <1>4

LEMMA RoundsUpType ==
  ASSUME NEW s \in Servers
  PROVE  RoundsUp(s) \in Servers
  <1>1. PICK k \in 0..SuccessfulRoundsForReady :
           k = IF s.rounds < SuccessfulRoundsForReady THEN s.rounds + 1 ELSE s.rounds
    BY ServerAssumption DEF Servers
  <1>2. RoundsUp(s) = [s EXCEPT !.rounds = k]
    BY <1>1 DEF RoundsUp
  <1>. QED
    BY <1>2 DEF Servers

ServerTypes == RegTypes /\ RoundTypes /\ SrvTypes /\ OtherTypes

\* A round ends, and the server counts it.
LEMMA SucceedType ==
  ASSUME Types, log' = log, NEW s \in Servers, Succeed(s)
  PROVE  RoundTypes' /\ SrvTypes'
  <1>1. srv' \in Servers
    BY RoundsUpType DEF Succeed
  <1>2. round' \in Rounds
    BY NoScanType DEF Succeed, Types, ChainTypes
  <1>. QED
    BY <1>1, <1>2 DEF RoundTypes, SrvTypes, Rounds

LEMMA RoundStartTypes ==
  ASSUME Types, Hub!TypeOK, log' = log,
         Initialize \/ StartRound \/ RefreshBalance \/ FetchHubEvents
  PROVE  ServerTypes'
  <1>0. /\ srv \in Servers /\ round \in Rounds /\ reg \in Managers /\ OtherTypes
        /\ log \in Seq(Entry) /\ block \in Nat
    BY HubFacts DEF Types, SrvTypes, RoundTypes, RegTypes, ChainTypes
  <1>1. OtherTypes'
    BY <1>0 DEF OtherTypes, Initialize, StartRound, RefreshBalance, FetchHubEvents
  <1>2. CASE Initialize
    <2>1. PICK a, b \in BOOLEAN : reg' = [reg EXCEPT !.workerAdded = a, !.registered = b]
      BY <1>2 DEF Initialize, RegistrationInit
    <2>2. reg' \in Managers
      BY <1>0, <2>1 DEF Managers
    <2>3. srv' \in Servers /\ round' = round
      BY <1>0, <1>2 DEF Initialize, Servers
    <2>. QED
      BY <1>0, <1>1, <2>2, <2>3 DEF ServerTypes, RegTypes, RoundTypes, SrvTypes, Rounds
  <1>3. CASE StartRound
    <2>1. CASE Succeed(srv)
      BY <1>0, <1>1, <1>3, <2>1, SucceedType DEF StartRound, ServerTypes, RegTypes
    <2>2. CASE /\ srv' = [srv EXCEPT !.refreshed = block]
               /\ round' = [NoScan EXCEPT !.pc = "balance", !.block = block]
      <3>1. srv' \in Servers
        BY <1>0, <2>2 DEF Servers
      <3>2. round' \in Rounds
        BY <1>0, <2>2, NoScanType DEF Rounds, RoundPc
      <3>. QED
        BY <1>0, <1>1, <1>3, <3>1, <3>2
        DEF StartRound, ServerTypes, RegTypes, RoundTypes, SrvTypes, Rounds
    <2>. QED
      BY <1>3, <2>1, <2>2 DEF StartRound
  <1>4. CASE RefreshBalance
    <2>1. reg' \in Managers
      <3>1. balance[Manager] \in Nat
        BY DEF Types, ChainTypes, Account
      <3>. QED
        BY <1>0, <1>4, <3>1 DEF RefreshBalance, Managers
    <2>2. CASE round' = [round EXCEPT !.pc = "hubEvents"] /\ UNCHANGED srv
      BY <1>0, <1>1, <2>1, <2>2 DEF ServerTypes, RegTypes, RoundTypes, SrvTypes, Rounds, RoundPc
    <2>3. CASE Succeed([srv EXCEPT !.ready = FALSE])
      <3>1. [srv EXCEPT !.ready = FALSE] \in Servers
        BY <1>0 DEF Servers
      <3>. QED
        BY <1>1, <2>1, <2>3, <3>1, SucceedType DEF ServerTypes, RegTypes
    <2>. QED
      BY <1>4, <2>2, <2>3 DEF RefreshBalance
  <1>5. CASE FetchHubEvents
    <2>0. PICK E : E = Events(ActiveManagerEvents, srv.scanned + 1)
      OBVIOUS
    <2>01. PICK f \in BOOLEAN : f = ShouldRegisterAgain
      BY DEF ShouldRegisterAgain
    <2>1. /\ E = Events(ActiveManagerEvents, srv.scanned + 1)
          /\ round' = [round EXCEPT !.pc = "stakeEvents", !.force = f, !.hub = E]
      BY <1>5, <2>0, <2>01 DEF FetchHubEvents
    <2>2. E \in Seq(DOMAIN log)
      BY <1>0, <2>1, EventsFacts
    <2>3. round' \in Rounds
      BY <1>0, <2>1, <2>2 DEF Rounds, RoundPc
    <2>. QED
      BY <1>0, <1>1, <1>5, <2>3
      DEF FetchHubEvents, ServerTypes, RegTypes, RoundTypes, SrvTypes, Rounds
  <1>. QED
    BY <1>2, <1>3, <1>4, <1>5

LEMMA RefreshStakeType ==
  ASSUME reg \in Managers, Hub!TypeOK
  PROVE  RefreshStake(reg) \in Managers /\ RefreshStake(reg).delayed = reg.delayed
         /\ RefreshStake(reg).registered = reg.registered
         /\ RefreshStake(reg).workerAdded = reg.workerAdded
  <1>1. PICK k \in Nat, l \in BOOLEAN, o \in Account \cup {NoAddress} :
           /\ k = stakes[Manager].stake
           /\ l = (stakes[Manager].withdrawBlock = 0)
           /\ o = IF reg.owner = NoAddress THEN stakes[Manager].owner ELSE reg.owner
    BY HubFacts DEF Managers
  <1>2. RefreshStake(reg) \in {reg, [reg EXCEPT !.locked = l, !.stake = k, !.owner = o]}
    BY <1>1 DEF RefreshStake
  <1>. QED
    BY <1>2 DEF Managers

LEMMA RegistrationTypes ==
  ASSUME Types, Hub!TypeOK, log' = log, Registration
  PROVE  ServerTypes'
  <1>0. /\ srv \in Servers /\ round \in Rounds /\ reg \in Managers /\ OtherTypes
        /\ log \in Seq(Entry)
    BY DEF Types, SrvTypes, RoundTypes, RegTypes, ChainTypes
  <1>1. UNCHANGED <<srv, refill, requests, hist>>
    BY DEF Registration
  <1>2. stopped' \in BOOLEAN
    BY <1>0 DEF Registration, FetchStakeEvents, HandleStakeEvent, ExtractDuePendingEvents,
                PayOwner, AddRelayWorker, RegisterServer, OtherTypes
  <1>3. SUFFICES reg' \in Managers /\ round' \in Rounds
    BY <1>0, <1>1, <1>2 DEF ServerTypes, RegTypes, RoundTypes, SrvTypes, OtherTypes, Rounds
  <1>4. CASE FetchStakeEvents(srv.scanned)
    <2>1. Events(StakeEvents, srv.scanned + 1) \in Seq(DOMAIN log)
      BY <1>0, EventsFacts
    <2>. QED
      BY <1>0, <1>4, <2>1 DEF FetchStakeEvents, Rounds, RoundPc
  <1>5. CASE HandleStakeEvent
    <2>1. PICK e : e = log[Head(round.todo)] /\ Head(round.todo) \in DOMAIN log
                   /\ Tail(round.todo) \in Seq(DOMAIN log)
      BY <1>0, <1>5 DEF HandleStakeEvent, Rounds
    <2>2. reg' \in Managers
      <3>1. PICK d : d = IF e.event = "StakeUnlocked" THEN Append(reg.delayed, e.withdrawBlock)
                                                     ELSE reg.delayed
        OBVIOUS
      <3>2. d \in Seq(Nat)
        BY <1>0, <2>1, <3>1, LogFacts DEF Managers
      <3>3. reg' = [RefreshStake(reg) EXCEPT !.delayed = d]
        BY <1>0, <1>5, <2>1, <3>1, RefreshStakeType DEF HandleStakeEvent
      <3>. QED
        BY <1>0, <3>2, <3>3, RefreshStakeType DEF Managers
    <2>3. round' \in Rounds
      <3>1. PICK p, q : /\ p = IF e.event = "StakeWithdrawn" THEN <<Worker, Manager>> ELSE << >>
                        /\ q = IF e.event = "StakeWithdrawn" THEN "pay" ELSE "stake"
        OBVIOUS
      <3>0. <<Worker, Manager>> \in Seq(Signer) /\ << >> \in Seq(Signer)
        <4>1. Worker \in Signer /\ Manager \in Signer
          BY DEF Signer
        <4>. QED
          BY <4>1
      <3>2. p \in Seq(Signer) /\ q \in RoundPc
        BY <3>0, <3>1 DEF RoundPc
      <3>3. round' = [round EXCEPT !.todo = Tail(round.todo), !.pay = p, !.pc = q]
        BY <1>5, <2>1, <3>1 DEF HandleStakeEvent
      <3>. QED
        BY <1>0, <2>1, <3>2, <3>3 DEF Rounds
    <2>. QED
      BY <2>2, <2>3
  <1>6. CASE ExtractDuePendingEvents
    <2>0. PICK d : d = Keep(reg.delayed, ToSet(reg.delayed) \ Due)
      OBVIOUS
    <2>1. PICK a, b \in BOOLEAN :
             reg' = [reg EXCEPT !.registered = a, !.workerAdded = b, !.delayed = d]
      BY <1>6, <2>0 DEF ExtractDuePendingEvents
    <2>2. d \in Seq(Nat) /\ Keep(reg.delayed, Due) \in Seq(Nat)
      BY <1>0, <2>0, KeepFacts DEF Managers
    <2>3. PICK p, q : /\ p = [i \in DOMAIN Keep(reg.delayed, Due) |-> Worker]
                      /\ q = IF Keep(reg.delayed, Due) = << >> THEN "addWorker" ELSE "pay"
      OBVIOUS
    <2>4. p \in Seq(Signer) /\ q \in RoundPc
      BY <2>2, <2>3 DEF Signer, RoundPc
    <2>5. round' = [round EXCEPT !.pay = p, !.pc = q, !.due = TRUE]
      BY <1>6, <2>3 DEF ExtractDuePendingEvents
    <2>. QED
      BY <1>0, <2>1, <2>2, <2>4, <2>5 DEF Managers, Rounds
  <1>7. CASE PayOwner
    <2>1. PICK q \in RoundPc : round' = [round EXCEPT !.pay = Tail(round.pay), !.pc = q]
      BY <1>7 DEF PayOwner, RoundPc
    <2>2. Tail(round.pay) \in Seq(Signer) \/ round.pay = << >>
      BY <1>0 DEF Rounds
    <2>3. Tail(<< >>) \in Seq(Signer)
      OBVIOUS
    <2>4. PICK u \in Seq(Signer) : u = Tail(round.pay)
      BY <2>2, <2>3
    <2>5. reg' = reg /\ round' = [round EXCEPT !.pay = u, !.pc = q]
      BY <1>7, <2>1, <2>4 DEF PayOwner
    <2>. QED
      BY <1>0, <2>5 DEF Rounds
  <1>8. CASE AddRelayWorker \/ RegisterServer
    <2>1. PICK q \in RoundPc : round' = [round EXCEPT !.pc = q]
      <3>1. "register" \in RoundPc /\ "confirm" \in RoundPc
        BY DEF RoundPc
      <3>2. \/ round' = [round EXCEPT !.pc = "register"]
            \/ round' = [round EXCEPT !.pc = "confirm"]
        BY <1>8 DEF AddRelayWorker, RegisterServer
      <3>. QED
        BY <3>1, <3>2
    <2>2. reg' = reg
      BY <1>8 DEF AddRelayWorker, RegisterServer
    <2>. QED
      BY <1>0, <2>1, <2>2 DEF Rounds
  <1>. QED
    BY <1>4, <1>5, <1>6, <1>7, <1>8 DEF Registration


LEMMA RoundEndTypes ==
  ASSUME Types, Hub!TypeOK, log' = log, EndScan \/ EndRound
  PROVE  ServerTypes'
  <1>0. /\ srv \in Servers /\ round \in Rounds /\ reg \in Managers /\ OtherTypes
        /\ log \in Seq(Entry) /\ "round" \in Replenisher
        /\ refill \in [Replenisher -> Refills]
        /\ hist \in Histories
    BY DEF Types, SrvTypes, RoundTypes, RegTypes, ChainTypes, Replenisher, OtherTypes
  <1>1. UNCHANGED <<reg, stopped, requests>>
    BY DEF EndScan, EndRound
  <1>2. SUFFICES /\ srv' \in Servers /\ round' \in Rounds
                 /\ refill' \in [Replenisher -> Refills]
                 /\ hist' \in Histories
    BY <1>0, <1>1 DEF ServerTypes, RegTypes, RoundTypes, SrvTypes, OtherTypes, Rounds
  <1>3. \A x \in Servers : Succeed(x) => srv' \in Servers /\ round' \in Rounds
    BY SucceedType DEF RoundTypes, SrvTypes, Rounds
  <1>4. CASE EndScan /\ ~IsRegistered
    <2>1. PICK k \in Nat : k = round.block
      BY <1>0 DEF Rounds
    <2>2. [srv EXCEPT !.scanned = k, !.ready = FALSE] \in Servers
      BY <1>0 DEF Servers
    <2>. QED
      BY <1>0, <1>3, <1>4, <2>1, <2>2 DEF EndScan
  <1>5. CASE EndScan /\ IsRegistered
    <2>1. PICK k \in Nat : k = round.block
      BY <1>0 DEF Rounds
    <2>2. srv' \in Servers
      <3>1. /\ [srv EXCEPT !.scanned = k] \in Servers
            /\ [srv EXCEPT !.scanned = k, !.alerted = TRUE, !.alertedBlock = k] \in Servers
        BY <1>0 DEF Servers
      <3>. QED
        BY <1>5, <2>1, <3>1 DEF EndScan, ScanWithAlerts
    <2>3. round' \in Rounds
      <3>1. round' = [round EXCEPT !.pc = "replenish"] /\ "replenish" \in RoundPc
        BY <1>5 DEF EndScan, RoundPc
      <3>. QED
        BY <1>0, <3>1 DEF Rounds
    <2>4. refill' \in [Replenisher -> Refills]
      <3>1. [pc |-> "balances"] \in Refills
        BY DEF Refills
      <3>. QED
        BY <1>0, <1>5, <3>1 DEF EndScan
    <2>5. hist' \in Histories
      <3>1. PICK R : R = IF srv'.alertedBlock = round.block THEN Rejections ELSE {}
        OBVIOUS
      <3>2. R \subseteq Nat
        <4>1. ToSet(round.hub) \subseteq DOMAIN log
          BY <1>0 DEF Rounds, ToSet
        <4>. QED
          BY <1>0, <3>1, <4>1, LogFacts DEF Rejections
      <3>3. hist' = [hist EXCEPT !.alerts = hist.alerts \cup R]
        BY <1>5, <3>1 DEF EndScan
      <3>. QED
        BY <1>0, <3>2, <3>3 DEF Histories
    <2>. QED
      BY <2>2, <2>3, <2>4, <2>5
  <1>6. CASE EndRound
    <2>1. refill' \in [Replenisher -> Refills] /\ hist' = hist
      <3>1. Idle \in Refills
        BY DEF Refills, Idle
      <3>. QED
        BY <1>0, <1>6, <3>1 DEF EndRound
    <2>2. [srv EXCEPT !.ready = FALSE] \in Servers
      BY <1>0 DEF Servers
    <2>3. PICK b \in BOOLEAN :
             b = (srv.alerted /\ srv.alertedBlock + AlertedBlockDelay >= round.block)
      OBVIOUS
    <2>4. [srv EXCEPT !.ready = TRUE, !.alerted = b] \in Servers
      BY <1>0 DEF Servers
    <2>5. Succeed([srv EXCEPT !.ready = FALSE]) \/ Succeed([srv EXCEPT !.ready = TRUE, !.alerted = b])
      BY <1>6, <2>3 DEF EndRound
    <2>. QED
      BY <1>0, <1>3, <2>1, <2>2, <2>4, <2>5
  <1>. QED
    BY <1>4, <1>5, <1>6

LEMMA FailRoundType ==
  ASSUME Types, log' = log, FailRound
  PROVE  srv' \in Servers /\ RoundTypes' /\ refill' \in [Replenisher -> Refills]
  <1>1. srv' \in Servers
    <2>1. 0 \in 0..SuccessfulRoundsForReady
      BY ServerAssumption
    <2>. QED
      BY <2>1 DEF FailRound, Types, SrvTypes, Servers
  <1>2. RoundTypes'
    BY NoScanType DEF FailRound, Types, ChainTypes, RoundTypes, Rounds
  <1>3. Idle \in Refills
    BY DEF Idle, Refills
  <1>. QED
    BY <1>1, <1>2, <1>3 DEF FailRound, Types, OtherTypes

\* A run of replenishServer asks for no more than what the worker lacks.
LEMMA ReplenishTypes ==
  ASSUME Types, log' = log, NEW p \in Replenisher, ReplenishStep(p)
  PROVE  ServerTypes'
  <1>0. /\ srv \in Servers /\ round \in Rounds /\ reg \in Managers /\ OtherTypes
        /\ log \in Seq(Entry) /\ refill \in [Replenisher -> Refills]
        /\ hist \in Histories
        /\ PendingBalances[Worker] \in Nat
    BY PendingType DEF Types, SrvTypes, RoundTypes, RegTypes, ChainTypes, OtherTypes, Account
  <1>1. UNCHANGED <<reg, stopped, requests>>
    BY DEF ReplenishStep, ReadBalances, Decide, SendRefill
  <1>2. SUFFICES /\ srv' \in Servers /\ round' \in Rounds
                 /\ refill' \in [Replenisher -> Refills]
                 /\ hist' \in Histories
    BY <1>0, <1>1 DEF ServerTypes, RegTypes, RoundTypes, SrvTypes, OtherTypes, Rounds
  <1>3. [pc |-> "decide"] \in Refills /\ [pc |-> "done"] \in Refills
    BY DEF Refills
  <1>4. CASE ReadBalances(p)
    <2>1. srv' \in Servers
      BY <1>0, <1>4 DEF ReadBalances, Servers
    <2>2. refill' \in [Replenisher -> Refills] /\ round' = round
      BY <1>0, <1>3, <1>4 DEF ReadBalances
    <2>3. PICK b \in BOOLEAN : b = (hist.overlap \/ Running # {})
      OBVIOUS
    <2>4. hist' = [hist EXCEPT !.overlap = b]
      BY <1>4, <2>3 DEF ReadBalances
    <2>. QED
      BY <1>0, <2>1, <2>2, <2>4 DEF Histories
  <1>5. CASE Decide(p)
    <2>1. ASSUME MustRefill PROVE [pc |-> "send", amount |-> RefillAmount] \in Refills
      <3>1. srv.workerBalance \in Nat /\ srv.workerBalance < WorkerMinBalance
        BY <1>0, <2>1 DEF MustRefill, Servers
      <3>2. RefillAmount \in Nat
        BY <3>1, ServerAssumption DEF RefillAmount
      <3>. QED
        BY <3>2 DEF Refills
    <2>2. PICK x : x = IF MustRefill /\ RefillAmount < PendingBalances[Manager] - ManagerMinBalance
                       THEN [pc |-> "send", amount |-> RefillAmount] ELSE [pc |-> "done"]
      OBVIOUS
    <2>3. x \in Refills
      BY <1>3, <2>1, <2>2
    <2>4. refill' = [refill EXCEPT ![p] = x] /\ UNCHANGED <<round, srv, hist>>
      BY <1>5, <2>2 DEF Decide
    <2>. QED
      BY <1>0, <2>3, <2>4
  <1>6. CASE SendRefill(p)
    <2>1. CASE FailRound
      BY <1>0, <1>6, <2>1, FailRoundType DEF SendRefill, RoundTypes, Rounds
    <2>2. CASE refill' = [refill EXCEPT ![p] = [pc |-> "done"]] /\ UNCHANGED <<srv, round>>
      BY <1>0, <1>3, <1>6, <2>2 DEF SendRefill
    <2>. QED
      BY <1>6, <2>1, <2>2 DEF SendRefill
  <1>. QED
    BY <1>4, <1>5, <1>6 DEF ReplenishStep

LEMMA RequestTypes ==
  ASSUME Types, log' = log, NEW r \in Request, RequestStep(r)
  PROVE  ServerTypes'
  <1>0. /\ srv \in Servers /\ round \in Rounds /\ reg \in Managers /\ OtherTypes
        /\ refill \in [Replenisher -> Refills]
    BY DEF Types, SrvTypes, RoundTypes, RegTypes, OtherTypes
  <1>1. UNCHANGED <<reg, stopped, srv, round, hist>>
    BY DEF RequestStep, Accept, Validate, Relay
  <1>2. refill' \in [Replenisher -> Refills]
    <2>1. [pc |-> "balances"] \in Refills
      BY DEF Refills
    <2>2. refill' = refill \/ refill' = [refill EXCEPT ![r] = [pc |-> "balances"]]
      BY DEF RequestStep, Accept, Validate, Relay
    <2>. QED
      BY <1>0, <2>1, <2>2
  <1>3. PICK x \in {"accepted", "valid", "refused", "relayed"} :
           requests' = [requests EXCEPT ![r] = x]
    <2>1. CASE Accept(r)
      BY <2>1 DEF Accept
    <2>2. CASE Validate(r)
      BY <2>2 DEF Validate
    <2>3. CASE Relay(r)
      BY <2>3 DEF Relay
    <2>. QED
      BY <2>1, <2>2, <2>3 DEF RequestStep
  <1>4. requests' \in [Request -> {"new", "accepted", "valid", "refused", "relayed"}]
    BY <1>0, <1>3 DEF OtherTypes
  <1>. QED
    BY <1>0, <1>1, <1>2, <1>4 DEF ServerTypes, RegTypes, RoundTypes, SrvTypes, OtherTypes, Rounds

LEMMA FaultTypes ==
  ASSUME Types, log' = log, RoundFails \/ Timeout \/ Crash
  PROVE  ServerTypes'
  <1>0. /\ srv \in Servers /\ round \in Rounds /\ reg \in Managers /\ OtherTypes
        /\ log \in Seq(Entry) /\ hist \in Histories
        /\ requests \in [Request -> {"new", "accepted", "valid", "refused", "relayed"}]
    BY DEF Types, SrvTypes, RoundTypes, RegTypes, ChainTypes, OtherTypes
  <1>1. CASE RoundFails
    <2>1. FailRound /\ UNCHANGED <<reg, stopped, requests, hist>>
      BY <1>1 DEF RoundFails, PayoutRefused
    <2>. QED
      BY <1>0, <2>1, FailRoundType DEF ServerTypes, RegTypes, SrvTypes, OtherTypes
  <1>2. CASE Timeout
    <2>1. srv' \in Servers
      <3>1. 0 \in 0..SuccessfulRoundsForReady
        BY ServerAssumption
      <3>. QED
        BY <1>0, <1>2, <3>1 DEF Timeout, Servers
    <2>. QED
      BY <1>0, <1>2, <2>1
      DEF Timeout, ServerTypes, RegTypes, RoundTypes, SrvTypes, OtherTypes, Rounds
  <1>3. CASE Crash
    <2>1. srv' \in Servers
      <3>1. NewServer \in Servers
        BY ServerAssumption DEF NewServer, Servers
      <3>2. srv' = [NewServer EXCEPT !.scanned = 0]
        BY <1>3 DEF Crash, Restart
      <3>. QED
        BY <3>1, <3>2 DEF Servers
    <2>2. reg' \in Managers
      <3>1. << >> \in Seq(Nat)
        OBVIOUS
      <3>. QED
        BY <1>3, <3>1 DEF Crash, Restart, NewRegistrationManager, Managers
    <2>3. RoundTypes'
      BY <1>0, <1>3, NoScanType DEF Crash, Restart, RoundTypes, Rounds
    <2>4. OtherTypes'
      <3>1. Idle \in Refills
        BY DEF Idle, Refills
      <3>2. /\ stopped' = FALSE
            /\ refill' = [p \in Replenisher |-> Idle]
            /\ requests' = [r \in Request |-> IF requests[r] = "new" THEN "new" ELSE "refused"]
            /\ hist' = [hist EXCEPT !.alerts = {}]
        BY <1>3 DEF Crash, Restart
      <3>. QED
        BY <1>0, <3>1, <3>2 DEF OtherTypes, Histories
    <2>. QED
      BY <2>1, <2>2, <2>3, <2>4 DEF ServerTypes, RegTypes, SrvTypes
  <1>. QED
    BY <1>1, <1>2, <1>3

LEMMA EnvHistory ==
  ASSUME Types, EnvStep
  PROVE  hist' \in Histories /\ hist'.alerts = hist.alerts
  <1>1. hist \in Histories
    BY DEF Types, OtherTypes
  <1>2. PICK k \in {0, hist.late, hist.late + Funds} : hist' = [hist EXCEPT !.late = k]
    BY DEF EnvStep
  <1>3. k \in Nat
    BY <1>1, <1>2, RegisterRelayAssumption DEF Histories
  <1>. QED
    BY <1>1, <1>2, <1>3 DEF Histories

\* The indexes that a round holds stay indexes of the log.
LEMMA EnvRoundTypes ==
  ASSUME Types, EnvStep
  PROVE  ServerTypes'
  <1>1. DOMAIN log \subseteq DOMAIN log'
    BY DEF EnvStep, Types, ChainTypes
  <1>2. PICK D1, D2 : D1 = DOMAIN log /\ D2 = DOMAIN log'
    OBVIOUS
  <1>3. \A s \in Seq(D1) : s \in Seq(D2)
    BY <1>1, <1>2
  <1>4. round' = round /\ round \in Rounds
    BY DEF EnvStep, serverVars, Types, RoundTypes
  <1>5. RoundTypes'
    BY <1>2, <1>3, <1>4 DEF RoundTypes, Rounds
  <1>. QED
    BY <1>5, EnvHistory DEF EnvStep, serverVars, Types, ServerTypes, RegTypes, SrvTypes, OtherTypes,
                            Servers

LEMMA ServerStepTypes ==
  ASSUME Types, Hub!TypeOK, Server
  PROVE  Types'
  <1>1. log' = log
    BY ServerReads
  <1>2. ChainTypes'
    BY ServerSends, SendsTypes DEF Types
  <1>3. ServerTypes'
    <2>1. CASE RoundStep
      BY <1>1, <2>1, RoundStartTypes, RegistrationTypes, RoundEndTypes DEF RoundStep
    <2>2. ASSUME NEW p \in Replenisher, ReplenishStep(p)
          PROVE  ServerTypes'
      BY <1>1, <2>2, ReplenishTypes
    <2>3. ASSUME NEW r \in Request, RequestStep(r)
          PROVE  ServerTypes'
      BY <1>1, <2>3, RequestTypes
    <2>4. CASE RoundFails \/ Timeout \/ Crash
      BY <1>1, <2>4, FaultTypes
    <2>. QED
      BY <2>1, <2>2, <2>3, <2>4 DEF Server
  <1>. QED
    BY <1>2, <1>3 DEF Types, ServerTypes

LEMMA TypesInit == Init => Types
  <1>. SUFFICES ASSUME Init PROVE Types
    OBVIOUS
  <1>1. << >> \in Seq(Entry) /\ << >> \in Seq(Transaction) /\ Len(<< >>) = 0
    OBVIOUS
  <1>2. ChainTypes
    BY <1>1 DEF Init, ChainInit, ChainTypes, NoRun, ScriptPc, Phases
  <1>. QED
    BY <1>2, ServerTypesInit DEF Types

LEMMA TypesStep ==
  ASSUME Types, Hub!TypeOK, [Next]_vars
  PROVE  Types'
  <1>1. CASE Chain \/ OwnerScript
    BY <1>1, ChainStepTypes, ScriptTypes, EnvRoundTypes DEF Types, ServerTypes
  <1>2. CASE Server
    BY <1>2, ServerStepTypes
  <1>3. CASE UNCHANGED vars
    BY <1>3 DEF vars, chainVars, hubVars, serverVars, Types, ChainTypes, RegTypes, RoundTypes,
                Rounds, SrvTypes, Servers, OtherTypes
  <1>. QED
    BY <1>1, <1>2, <1>3 DEF Next


\* The server's state stays what the code takes it to be, whatever the chain, the
\* owner and the node do: the number of transactions the TxStore knows to be mined
\* never exceeds what is mined, nor that what was sent; lastSuccessfulRounds stays within
\* its bound; no account is ever overdrawn, and every run of replenishServer has a
\* state of its own.
THEOREM ServerTypeCorrect == Spec => []TypeOK
  <1>1. Init => Types
    BY TypesInit
  <1>2. Types /\ Hub!TypeOK /\ [Next]_vars => Types'
    BY TypesStep
  <1>3. Types /\ Hub!TypeOK => TypeOK
    BY DEF Types, ChainTypes, RegTypes, Managers, SrvTypes, Servers, OtherTypes, TypeOK
  <1>. QED
    BY <1>1, <1>2, <1>3, HubIsTyped, PTL DEF Spec


-----------------------------------------------------------------------------
(* What the steps of the server do, as far as the invariants tell them     *)
(* apart                                                                   *)

SameReg ==
    /\ reg'.registered = reg.registered /\ reg'.workerAdded = reg.workerAdded
    /\ reg'.delayed = reg.delayed /\ reg'.stake = reg.stake /\ reg'.locked = reg.locked

SameScan == srv'.initialized = srv.initialized /\ srv'.scanned = srv.scanned

\* A transaction that neither adds the worker nor registers the server is sent.
OtherSends ==
    \/ UNCHANGED txs
    \/ \E s \in Signer, t \in Transaction :
          Send(s, t) /\ t.action \in {"RELAY_CALL", "VALUE_TRANSFER"}

Apart == SameReg /\ SameScan /\ UNCHANGED seen /\ hist'.alerts = hist.alerts

\* Nothing of the scan changes.
Quiet == Apart /\ OtherSends /\ srv'.ready = srv.ready /\ round' = round

\* The round ends, well or badly.
Abort ==
    /\ Apart /\ OtherSends /\ round' = NoScan
    /\ srv'.ready => srv.ready \/ round.pc = "replenish"

\* The round starts, or goes on to the hub's events.
Begin ==
    /\ Apart /\ UNCHANGED txs /\ srv'.ready = srv.ready
    /\ \/ /\ round.pc = "idle" /\ srv.initialized
          /\ round' = [NoScan EXCEPT !.pc = "balance", !.block = block]
       \/ /\ round.pc = "balance" /\ balance[Manager] >= ManagerMinBalance
          /\ round' = [round EXCEPT !.pc = "hubEvents"]

LEMMA SucceedMoves ==
  ASSUME Types, NEW x \in Servers, Succeed(x)
  PROVE  /\ srv'.initialized = x.initialized /\ srv'.scanned = x.scanned
         /\ srv'.ready = x.ready /\ round' = NoScan
  BY DEF Succeed, RoundsUp, Servers

LEMMA FailRoundMoves ==
  ASSUME Types, FailRound
  PROVE  SameScan /\ srv'.ready = srv.ready /\ round' = NoScan
  BY DEF FailRound, Types, SrvTypes, Servers, SameScan

LEMMA PayoutSent ==
  ASSUME Types, NEW a, Send(a, Payout(a))
  PROVE  OtherSends
  <1>1. CASE a \in Signer
    BY <1>1, PayoutType DEF OtherSends
  <1>2. CASE a \notin Signer
    BY <1>2 DEF Send, Types, ChainTypes, OtherSends
  <1>. QED
    BY <1>1, <1>2

LEMMA StartMoves ==
  ASSUME Types, Hub!TypeOK, StartRound \/ RefreshBalance
  PROVE  Abort \/ Begin
  <1>. USE DEF chainVars
  <1>0. srv \in Servers /\ reg \in Managers /\ round \in Rounds
    BY DEF Types, SrvTypes, RegTypes, RoundTypes
  <1>1. CASE StartRound
    <2>1. UNCHANGED <<reg, seen, txs, hist>> /\ srv.initialized /\ round.pc = "idle"
      BY <1>1 DEF StartRound
    <2>2. CASE Succeed(srv)
      BY <1>0, <2>1, <2>2, SucceedMoves DEF Abort, Apart, SameReg, SameScan, OtherSends
    <2>3. CASE /\ srv' = [srv EXCEPT !.refreshed = block]
               /\ round' = [NoScan EXCEPT !.pc = "balance", !.block = block]
      BY <1>0, <2>1, <2>3 DEF Begin, Apart, SameReg, SameScan, Servers
    <2>. QED
      BY <1>1, <2>2, <2>3 DEF StartRound
  <1>2. CASE RefreshBalance
    <2>1. UNCHANGED <<seen, txs, hist>> /\ round.pc = "balance" /\ SameReg
      BY <1>0, <1>2 DEF RefreshBalance, SameReg, Managers
    <2>2. CASE /\ balance[Manager] >= ManagerMinBalance
               /\ round' = [round EXCEPT !.pc = "hubEvents"] /\ UNCHANGED srv
      BY <2>1, <2>2 DEF Begin, Apart, SameScan
    <2>3. CASE Succeed([srv EXCEPT !.ready = FALSE])
      <3>1. /\ [srv EXCEPT !.ready = FALSE] \in Servers
            /\ [srv EXCEPT !.ready = FALSE].initialized = srv.initialized
            /\ [srv EXCEPT !.ready = FALSE].scanned = srv.scanned
            /\ [srv EXCEPT !.ready = FALSE].ready = FALSE
        BY <1>0 DEF Servers
      <3>. QED
        BY <2>1, <2>3, <3>1, SucceedMoves DEF Abort, Apart, SameScan, OtherSends
    <2>. QED
      BY <1>2, <2>2, <2>3 DEF RefreshBalance
  <1>. QED
    BY <1>1, <1>2

LEMMA EndRoundMoves ==
  ASSUME Types, EndRound
  PROVE  Abort
  <1>0. srv \in Servers
    BY DEF Types, SrvTypes
  <1>1. UNCHANGED <<reg, seen, txs, hist>> /\ round.pc = "replenish"
    BY DEF EndRound, chainVars
  <1>2. PICK f, b \in BOOLEAN : Succeed([srv EXCEPT !.ready = f, !.alerted = b])
    <2>1. PICK c \in BOOLEAN :
             c = (srv.alerted /\ srv.alertedBlock + AlertedBlockDelay >= round.block)
      OBVIOUS
    <2>2. CASE Succeed([srv EXCEPT !.ready = FALSE])
      <3>1. [srv EXCEPT !.ready = FALSE] = [srv EXCEPT !.ready = FALSE, !.alerted = srv.alerted]
            /\ srv.alerted \in BOOLEAN
        BY <1>0 DEF Servers
      <3>. QED
        BY <2>2, <3>1
    <2>. QED
      BY <2>1, <2>2 DEF EndRound
  <1>3. PICK x : x = [srv EXCEPT !.ready = f, !.alerted = b]
    OBVIOUS
  <1>4. x \in Servers /\ x.initialized = srv.initialized /\ x.scanned = srv.scanned
    BY <1>0, <1>3 DEF Servers
  <1>. QED
    BY <1>1, <1>2, <1>3, <1>4, SucceedMoves DEF Abort, Apart, SameReg, SameScan, OtherSends

LEMMA ReplenishMoves ==
  ASSUME Types, NEW p \in Replenisher, ReplenishStep(p)
  PROVE  Quiet \/ Abort
  <1>0. srv \in Servers /\ Manager \in Signer /\ hist \in Histories
    BY DEF Types, SrvTypes, OtherTypes, Signer
  <1>1. CASE ReadBalances(p)
    BY <1>0, <1>1 DEF ReadBalances, Quiet, Apart, SameReg, SameScan, OtherSends, chainVars,
       Servers, Histories
  <1>2. CASE Decide(p)
    BY <1>2 DEF Decide, Quiet, Apart, SameReg, SameScan, OtherSends, chainVars
  <1>3. CASE SendRefill(p)
    <2>1. UNCHANGED <<reg, seen, hist>>
      BY <1>3 DEF SendRefill
    <2>2. OtherSends
      BY <1>0, <1>3, RefillType DEF SendRefill, OtherSends
    <2>3. CASE FailRound
      BY <2>1, <2>2, <2>3, FailRoundMoves DEF Abort, Apart, SameReg
    <2>4. CASE UNCHANGED <<srv, round>>
      BY <2>1, <2>2, <2>4 DEF Quiet, Apart, SameReg, SameScan
    <2>. QED
      BY <1>3, <2>3, <2>4 DEF SendRefill
  <1>. QED
    BY <1>1, <1>2, <1>3 DEF ReplenishStep

LEMMA RequestMoves ==
  ASSUME Types, NEW r \in Request, RequestStep(r)
  PROVE  Quiet
  <1>1. UNCHANGED <<reg, seen, round, srv, hist>>
    BY DEF RequestStep, Accept, Validate, Relay, chainVars
  <1>2. OtherSends
    <2>1. RelayTx \in Transaction /\ RelayTx.action = "RELAY_CALL" /\ Worker \in Signer
      BY RegistrationTxs DEF RelayTx, Tx, Signer
    <2>. QED
      BY <2>1 DEF RequestStep, Accept, Validate, Relay, OtherSends, chainVars
  <1>. QED
    BY <1>1, <1>2 DEF Quiet, Apart, SameReg, SameScan

LEMMA FaultMoves ==
  ASSUME Types, RoundFails \/ Timeout
  PROVE  Quiet \/ Abort
  <1>1. CASE RoundFails
    <2>1. FailRound /\ UNCHANGED <<reg, seen, hist>>
      BY <1>1 DEF RoundFails, PayoutRefused, chainVars
    <2>2. OtherSends
      BY <1>1, PayoutSent DEF RoundFails, PayoutRefused, OtherSends, chainVars
    <2>. QED
      BY <2>1, <2>2, FailRoundMoves DEF Abort, Apart, SameReg
  <1>2. CASE Timeout
    BY <1>2 DEF Timeout, Quiet, Apart, SameReg, SameScan, OtherSends, chainVars,
                Types, SrvTypes, Servers
  <1>. QED
    BY <1>1, <1>2

LEMMA ServerMoves ==
  ASSUME Types, Hub!TypeOK, Server
  PROVE  \/ Quiet \/ Abort \/ Begin
         \/ Initialize \/ FetchHubEvents \/ Registration \/ EndScan \/ Crash
  <1>1. CASE RoundStep
    BY <1>1, StartMoves, EndRoundMoves DEF RoundStep
  <1>2. ASSUME NEW p \in Replenisher, ReplenishStep(p)
        PROVE  Quiet \/ Abort
    BY <1>2, ReplenishMoves
  <1>3. ASSUME NEW r \in Request, RequestStep(r)
        PROVE  Quiet
    BY <1>3, RequestMoves
  <1>4. CASE RoundFails \/ Timeout \/ Crash
    BY <1>4, FaultMoves
  <1>. QED
    BY <1>1, <1>2, <1>3, <1>4 DEF Server


-----------------------------------------------------------------------------
(* Blocks, scans and the course of a round                                 *)

HasEvent(e) == \E i \in DOMAIN log : log[i].event = e

Decided == {"addWorker", "register", "confirm"}
Fetched == {"stakeEvents", "stake", "pay"} \cup Decided

\* What happens comes after what was scanned and what this round scans.
Clock ==
    /\ \A i \in DOMAIN log : 1 <= log[i].block /\ log[i].block <= block
    /\ srv.scanned <= block /\ round.block <= block
    /\ phase # "sealed" => srv.scanned < block /\ round.block < block

Course ==
    /\ round.pc # "idle" => srv.initialized
    /\ round.pc \in {"idle", "balance", "hubEvents", "stakeEvents", "stake"} => ~round.due
    /\ round.pc \in Decided => round.due
    /\ round.due => round.todo = << >>

\* A transaction that the log or a scan has to do with.
LEMMA AppendFacts ==
  ASSUME log \in Seq(Entry), NEW e \in Entry, log' = Append(log, e)
  PROVE  /\ DOMAIN log \subseteq DOMAIN log'
         /\ Len(log) + 1 \in DOMAIN log' /\ log'[Len(log) + 1] = e
         /\ \A i \in DOMAIN log : log'[i] = log[i]
         /\ \A i \in DOMAIN log' : i \in DOMAIN log \/ i = Len(log) + 1
  OBVIOUS

\* The registration does not change what the round scans.
LEMMA RegistrationRounds ==
  ASSUME Types, Hub!TypeOK, Registration
  PROVE  /\ UNCHANGED <<srv, hist, seen>>
         /\ round'.block = round.block /\ round'.hub = round.hub /\ round'.force = round.force
         /\ round.pc \in Fetched /\ round'.pc \in Fetched
         /\ FetchStakeEvents(srv.scanned) => round'.pc = "stake" /\ round'.due = round.due
         /\ HandleStakeEvent => round'.pc \in {"stake", "pay"} /\ round'.due = round.due
         /\ ExtractDuePendingEvents =>
               round'.pc \in {"pay", "addWorker"} /\ round'.due /\ round'.todo = round.todo
         /\ PayOwner =>
               /\ round'.due = round.due /\ round'.todo = round.todo
               /\ round'.pc \in {"pay", IF round.due THEN "addWorker" ELSE "stake"}
         /\ AddRelayWorker \/ RegisterServer =>
               /\ round'.due = round.due /\ round'.todo = round.todo
               /\ round'.pc \in {"register", "confirm"}
  <1>. USE DEF Types, RoundTypes, Rounds, Fetched, Decided, chainVars
  <1>0. UNCHANGED <<srv, hist>>
    BY DEF Registration
  <1>1. CASE FetchStakeEvents(srv.scanned)
    BY <1>0, <1>1 DEF FetchStakeEvents, HandleStakeEvent, ExtractDuePendingEvents, PayOwner,
                AddRelayWorker, RegisterServer
  <1>2. CASE HandleStakeEvent
    BY <1>0, <1>2 DEF FetchStakeEvents, HandleStakeEvent, ExtractDuePendingEvents, PayOwner,
                AddRelayWorker, RegisterServer
  <1>3. CASE ExtractDuePendingEvents
    BY <1>0, <1>3 DEF FetchStakeEvents, HandleStakeEvent, ExtractDuePendingEvents, PayOwner,
                AddRelayWorker, RegisterServer
  <1>4. CASE PayOwner
    BY <1>0, <1>4 DEF FetchStakeEvents, HandleStakeEvent, ExtractDuePendingEvents, PayOwner,
                AddRelayWorker, RegisterServer
  <1>5. CASE AddRelayWorker \/ RegisterServer
    BY <1>0, <1>5 DEF FetchStakeEvents, HandleStakeEvent, ExtractDuePendingEvents, PayOwner,
                AddRelayWorker, RegisterServer
  <1>. QED
    BY <1>1, <1>2, <1>3, <1>4, <1>5 DEF Registration

\* At the end of a scan.
LEMMA EndScanMoves ==
  ASSUME Types, EndScan
  PROVE  /\ round.pc = "confirm" /\ seen' = mined
         /\ UNCHANGED <<txs, reg>>
         /\ srv'.initialized = srv.initialized /\ srv'.scanned = round.block
         /\ \/ round' = NoScan /\ ~srv'.ready /\ hist' = hist /\ ~IsRegistered
            \/ /\ IsRegistered /\ srv'.ready = srv.ready
               /\ round'.pc = "replenish" /\ round'.block = round.block
               /\ round'.due = round.due /\ round'.todo = round.todo
               /\ hist' = [hist EXCEPT !.alerts = @ \cup Rejections]
  <1>0. srv \in Servers /\ round \in Rounds
    BY DEF Types, SrvTypes, RoundTypes
  <1>1. round.pc = "confirm" /\ seen' = mined /\ UNCHANGED <<txs, reg>>
    BY DEF EndScan, KnownMined
  <1>2. CASE ~IsRegistered
    <2>1. Succeed([srv EXCEPT !.scanned = round.block, !.ready = FALSE]) /\ hist' = hist
      BY <1>2 DEF EndScan
    <2>2. PICK x : x = [srv EXCEPT !.scanned = round.block, !.ready = FALSE]
      OBVIOUS
    <2>3. x \in Servers /\ x.initialized = srv.initialized /\ x.scanned = round.block /\ ~x.ready
      BY <1>0, <2>2 DEF Servers, Rounds
    <2>. QED
      BY <1>1, <1>2, <2>1, <2>2, <2>3, SucceedMoves
  <1>3. CASE IsRegistered
    <2>1. /\ srv' = ScanWithAlerts /\ round' = [round EXCEPT !.pc = "replenish"]
          /\ hist' = [hist EXCEPT !.alerts = @ \cup (IF srv'.alertedBlock = round.block
                                                     THEN Rejections ELSE {})]
      BY <1>3 DEF EndScan
    <2>2. /\ srv'.initialized = srv.initialized /\ srv'.scanned = round.block
          /\ srv'.ready = srv.ready
          /\ Rejections # {} => srv'.alertedBlock = round.block
      BY <1>0, <2>1 DEF ScanWithAlerts, Servers
    <2>3. (IF srv'.alertedBlock = round.block THEN Rejections ELSE {}) = Rejections
      BY <2>2
    <2>4. round'.pc = "replenish" /\ round'.block = round.block
          /\ round'.due = round.due /\ round'.todo = round.todo
      BY <1>0, <2>1 DEF Rounds
    <2>5. hist' = [hist EXCEPT !.alerts = @ \cup Rejections]
      BY <2>1, <2>3
    <2>. QED
      BY <1>1, <1>3, <2>2, <2>4, <2>5
  <1>. QED
    BY <1>2, <1>3

LEMMA EnvClock ==
  ASSUME Types, Hub!TypeOK, Clock, Course, EnvStep
  PROVE  Clock' /\ Course'
  <1>1. UNCHANGED <<srv, round>> /\ block \in Nat /\ block # 0
    BY HubFacts DEF EnvStep, serverVars
  <1>2. srv.scanned \in Nat /\ round.block \in Nat
    BY DEF Types, SrvTypes, Servers, RoundTypes, Rounds
  <1>3. \A i \in DOMAIN log : log[i].block \in Nat
    BY LogFacts DEF Types, ChainTypes
  <1>4. block' \in Nat /\ block <= block'
    BY <1>1 DEF EnvStep
  <1>5. \A i \in DOMAIN log' : 1 <= log'[i].block /\ log'[i].block <= block'
    <2>1. CASE log' = log
      BY <1>1, <1>3, <1>4, <2>1 DEF Clock
    <2>2. CASE \E e \in Entry : log' = Append(log, e) /\ e.block = block /\ phase # "sealed"
      <3>1. PICK e \in Entry : log' = Append(log, e) /\ e.block = block
        BY <2>2
      <3>. QED
        BY <1>1, <1>3, <1>4, <3>1, AppendFacts DEF Clock, Types, ChainTypes
    <2>. QED
      BY <2>1, <2>2 DEF EnvStep
  <1>6. phase' # "sealed" => srv.scanned < block' /\ round.block < block'
    BY <1>1, <1>2, <1>4 DEF EnvStep, Clock
  <1>. QED
    BY <1>1, <1>2, <1>4, <1>5, <1>6 DEF Clock, Course

LEMMA ServerClock ==
  ASSUME Types, Hub!TypeOK, Clock, Course, Server
  PROVE  Clock' /\ Course'
  <1>0. /\ UNCHANGED <<log, block, phase>> /\ phase = "sealed"
        /\ srv \in Servers /\ round \in Rounds /\ block \in Nat
    BY ServerReads, HubFacts DEF hubVars, Types, SrvTypes, RoundTypes
  <1>1. SUFFICES srv'.scanned <= block /\ round'.block <= block /\ Course'
    BY <1>0 DEF Clock
  <1>2. CASE Quiet
    BY <1>2 DEF Quiet, Apart, SameScan, Clock, Course
  <1>3. CASE Abort
    BY <1>0, <1>3 DEF Abort, Apart, SameScan, Clock, Course, NoScan, Decided
  <1>4. CASE Begin
    <2>1. CASE round' = [NoScan EXCEPT !.pc = "balance", !.block = block] /\ srv.initialized
      <3>1. round'.pc = "balance" /\ round'.block = block /\ ~round'.due
        BY <2>1 DEF NoScan
      <3>. QED
        BY <1>0, <1>4, <2>1, <3>1 DEF Begin, Apart, SameScan, Clock, Course, Decided
    <2>2. CASE round.pc = "balance" /\ round' = [round EXCEPT !.pc = "hubEvents"]
      <3>1. /\ round'.pc = "hubEvents" /\ round'.block = round.block /\ round'.due = round.due
            /\ round'.todo = round.todo
        BY <1>0, <2>2 DEF Rounds
      <3>. QED
        BY <1>0, <1>4, <2>2, <3>1 DEF Begin, Apart, SameScan, Clock, Course, Decided
    <2>. QED
      BY <1>4, <2>1, <2>2 DEF Begin
  <1>5. CASE Initialize
    <2>1. srv'.initialized /\ srv'.scanned = srv.scanned /\ round' = round
      BY <1>0, <1>5 DEF Initialize, Servers
    <2>. QED
      BY <1>0, <2>1 DEF Clock, Course
  <1>6. CASE FetchHubEvents
    <2>1. /\ UNCHANGED srv /\ round.pc = "hubEvents" /\ round'.pc = "stakeEvents"
          /\ round'.block = round.block /\ round'.due = round.due /\ round'.todo = round.todo
      BY <1>0, <1>6 DEF FetchHubEvents, Rounds
    <2>. QED
      BY <1>0, <2>1 DEF Clock, Course, Decided
  <1>7. CASE Registration
    <2>1. srv' = srv /\ round'.block = round.block /\ round.pc \in Fetched /\ round'.pc \in Fetched
      BY <1>7, RegistrationRounds
    <2>2. srv.initialized
      BY <2>1 DEF Course, Fetched, Decided
    <2>3. CASE FetchStakeEvents(srv.scanned)
      <3>1. round.pc = "stakeEvents"
        BY <2>3 DEF FetchStakeEvents
      <3>. QED
        BY <1>7, <2>1, <2>2, <2>3, <3>1, RegistrationRounds DEF Clock, Course, Decided
    <2>4. CASE HandleStakeEvent
      <3>1. round.pc = "stake"
        BY <2>4 DEF HandleStakeEvent
      <3>. QED
        BY <1>7, <2>1, <2>2, <2>4, <3>1, RegistrationRounds DEF Clock, Course, Decided
    <2>5. CASE ExtractDuePendingEvents
      <3>1. round.todo = << >>
        BY <2>5 DEF ExtractDuePendingEvents
      <3>. QED
        BY <1>7, <2>1, <2>2, <2>5, <3>1, RegistrationRounds DEF Clock, Course, Decided
    <2>6. CASE PayOwner
      BY <1>7, <2>1, <2>2, <2>6, RegistrationRounds DEF Clock, Course, Decided
    <2>7. CASE AddRelayWorker \/ RegisterServer
      <3>1. round.pc \in Decided
        BY <2>7 DEF AddRelayWorker, RegisterServer, Decided
      <3>. QED
        BY <1>7, <2>1, <2>2, <2>7, <3>1, RegistrationRounds DEF Clock, Course, Decided
    <2>. QED
      BY <1>7, <2>3, <2>4, <2>5, <2>6, <2>7 DEF Registration
  <1>8. CASE EndScan
    <2>1. CASE round' = NoScan
      BY <1>0, <1>8, <2>1, EndScanMoves DEF Clock, Course, NoScan, Decided
    <2>2. CASE round' # NoScan
      BY <1>8, <2>2, EndScanMoves DEF Clock, Course, Decided
    <2>. QED
      BY <2>1, <2>2
  <1>9. CASE Crash
    <2>1. srv'.scanned = 0 /\ round' = NoScan
      BY <1>9 DEF Crash, Restart, NewServer
    <2>. QED
      BY <1>0, <2>1 DEF Course, NoScan, Decided
  <1>. QED
    BY <1>2, <1>3, <1>4, <1>5, <1>6, <1>7, <1>8, <1>9, ServerMoves


-----------------------------------------------------------------------------
(* The worker and the registration are asked for once                      *)

\* An event of the hub that the server has not taken in will still be scanned.
NotMissed(i) ==
    /\ srv.scanned < log[i].block
    /\ round.pc \in Fetched =>
          (~round.due /\ i \in ToSet(round.hub)) \/ round.block < log[i].block

\* The hub's worker and registrations are in the log.  An addition that the server
\* does not know of, and will not fetch in this round, is pending for it.
WorkerInv ==
    /\ workerToManager[Worker] # Hub!NoEntry => HasEvent("RelayWorkersAdded")
    /\ workerCount[Manager] > 0 => workerToManager[Worker] # Hub!NoEntry
    /\ HasEvent("RelayServerRegistered") => workerToManager[Worker] # Hub!NoEntry
    /\ \A i \in DOMAIN log :
          log[i].event = "RelayWorkersAdded" /\ srv.initialized /\ ~reg.workerAdded =>
             /\ NotMissed(i)
             /\ round.pc \notin {"idle", "replenish"} /\ round.block < log[i].block =>
                   IsActionPending(Manager, "ADD_WORKER")

OnTheWay(a) ==
    {i \in mined[Manager] + 1..Len(txs[Manager]) : txs[Manager][i].action = a}

OnceOnly == {"ADD_WORKER", "REGISTER_SERVER"}

SentOnce ==
    /\ \A i \in 1..Len(txs[Worker]) : txs[Worker][i].action \notin OnceOnly
    /\ \A a \in OnceOnly : \A i, j \in OnTheWay(a) : i = j
    /\ workerToManager[Worker] # Hub!NoEntry => OnTheWay("ADD_WORKER") = {}
    /\ round.pc = "register"
       \/ (round.force /\ round.pc \in {"stakeEvents", "stake", "pay", "addWorker"})
          => ~IsActionPending(Manager, "REGISTER_SERVER")

\* The server believes in its registration, or has been ready, only after the event.
RegistrationInv ==
    reg.registered \/ srv.ready \/ round.pc = "replenish" => HasEvent("RelayServerRegistered")

LEMMA NotMissedStep ==
  ASSUME Types, Hub!TypeOK, Clock, Course, Server,
         NEW i \in DOMAIN log, log[i].event \in ActiveManagerEvents, NotMissed(i),
         ExtractDuePendingEvents => i \notin ToSet(round.hub)
  PROVE  NotMissed(i)'
  <1>0. /\ log' = log /\ srv \in Servers /\ round \in Rounds /\ log \in Seq(Entry)
        /\ log[i].block \in Nat /\ 1 <= log[i].block
    BY ServerReads, LogFacts DEF Types, SrvTypes, RoundTypes, ChainTypes, Clock
  <1>1. CASE Quiet
    BY <1>0, <1>1 DEF Quiet, Apart, SameScan, NotMissed
  <1>2. CASE Abort
    BY <1>0, <1>2 DEF Abort, Apart, SameScan, NotMissed, NoScan, Fetched, Decided
  <1>3. CASE Begin
    <2>1. round'.pc \in {"balance", "hubEvents"}
      BY <1>0, <1>3 DEF Begin, NoScan, Rounds
    <2>. QED
      BY <1>0, <1>3, <2>1 DEF Begin, Apart, SameScan, NotMissed, Fetched, Decided
  <1>4. CASE Initialize
    <2>1. srv'.scanned = srv.scanned /\ round' = round
      BY <1>0, <1>4 DEF Initialize, Servers
    <2>. QED
      BY <1>0, <2>1 DEF NotMissed
  <1>5. CASE FetchHubEvents
    <2>1. PICK E : E = Events(ActiveManagerEvents, srv.scanned + 1)
      OBVIOUS
    <2>2. srv' = srv /\ round'.hub = E /\ round'.due = round.due /\ round.pc = "hubEvents"
      BY <1>0, <1>5, <2>1 DEF FetchHubEvents, Rounds
    <2>3. log[i].block >= srv.scanned + 1
      BY <1>0 DEF NotMissed, Servers
    <2>4. i \in ToSet(E)
      BY <1>0, <2>1, <2>3, EventsFacts
    <2>. QED
      BY <1>0, <2>2, <2>4 DEF NotMissed, Course
  <1>6. CASE Registration
    <2>1. /\ srv' = srv /\ round'.block = round.block /\ round'.hub = round.hub
          /\ round.pc \in Fetched
      BY <1>6, RegistrationRounds
    <2>2. CASE ExtractDuePendingEvents
      BY <1>0, <2>1, <2>2 DEF NotMissed
    <2>3. CASE ~ExtractDuePendingEvents
      <3>1. round'.due = round.due
        BY <1>6, <2>3, RegistrationRounds DEF Registration
      <3>. QED
        BY <1>0, <2>1, <3>1 DEF NotMissed
    <2>. QED
      BY <2>2, <2>3
  <1>7. CASE EndScan
    <2>1. round.pc = "confirm" /\ srv'.scanned = round.block /\ round'.pc \in {"idle", "replenish"}
      BY <1>7, EndScanMoves DEF NoScan
    <2>2. round.block < log[i].block
      BY <2>1 DEF NotMissed, Course, Fetched, Decided
    <2>. QED
      BY <1>0, <2>1, <2>2 DEF NotMissed, Fetched, Decided
  <1>8. CASE Crash
    <2>1. srv'.scanned = 0 /\ round' = NoScan
      BY <1>8 DEF Crash, Restart, NewServer
    <2>. QED
      BY <1>0, <2>1 DEF NotMissed, NoScan, Fetched, Decided
  <1>. QED
    BY <1>1, <1>2, <1>3, <1>4, <1>5, <1>6, <1>7, <1>8, ServerMoves

\* What a transaction that is sent means for those of the manager.
LEMMA SendPending ==
  ASSUME ChainTypes, NEW s \in Signer, NEW t \in Transaction, Send(s, t),
         mined' = mined, seen' = seen, NEW a
  PROVE  /\ OnTheWay(a)' = IF s = Manager /\ t.action = a
                           THEN OnTheWay(a) \cup {Len(txs[Manager]) + 1} ELSE OnTheWay(a)
         /\ IsActionPending(Manager, a)' <=>
               IsActionPending(Manager, a) \/ (s = Manager /\ t.action = a)
         /\ Len(txs[Manager]) + 1 \notin OnTheWay(a)
         /\ ~IsActionPending(Manager, a) => OnTheWay(a) = {}
  <1>1. PICK q, n, m, k : /\ q = txs[Manager] /\ n = Len(txs[Manager]) /\ m = mined[Manager]
                          /\ k = seen[Manager] /\ n \in Nat /\ m \in Nat /\ k \in Nat
                          /\ k <= m /\ m <= n
    BY TxsFacts DEF Signer
  <1>2. PICK u, l : u = txs'[Manager] /\ l = Len(txs'[Manager])
    OBVIOUS
  <1>3. /\ s = Manager => l = n + 1 /\ u[n + 1] = t
        /\ s # Manager => l = n
        /\ \A i \in 1..n : u[i] = q[i]
    <2>1. CASE s = Manager
      BY <1>1, <1>2, <2>1, SendFacts
    <2>2. CASE s # Manager
      <3>1. txs'[Manager] = txs[Manager]
        BY <2>2, SendFacts DEF Signer
      <3>. QED
        BY <1>1, <1>2, <2>2, <3>1
    <2>. QED
      BY <2>1, <2>2
  <1>4. /\ OnTheWay(a) = {i \in m + 1..n : q[i].action = a}
        /\ OnTheWay(a)' = {i \in m + 1..l : u[i].action = a}
        /\ IsActionPending(Manager, a) <=> \E i \in k + 1..n : q[i].action = a
        /\ IsActionPending(Manager, a)' <=> \E i \in k + 1..l : u[i].action = a
    BY <1>1, <1>2 DEF OnTheWay, IsActionPending
  <1>5. /\ n + 1 \notin OnTheWay(a)
        /\ ~IsActionPending(Manager, a) => OnTheWay(a) = {}
    <2>1. n + 1 \notin m + 1..n /\ \A i \in m + 1..n : i \in k + 1..n
      BY <1>1
    <2>. QED
      BY <1>4, <2>1
  <1>6. CASE s = Manager
    <2>1. m + 1..l = (m + 1..n) \cup {n + 1} /\ k + 1..l = (k + 1..n) \cup {n + 1}
      BY <1>1, <1>3, <1>6
    <2>2. \A i \in m + 1..n : u[i] = q[i]
      BY <1>1, <1>3
    <2>3. \A i \in k + 1..n : u[i] = q[i]
      BY <1>1, <1>3
    <2>4. u[n + 1] = t
      BY <1>3, <1>6
    <2>5. OnTheWay(a)' = IF t.action = a THEN OnTheWay(a) \cup {n + 1} ELSE OnTheWay(a)
      <3>1. CASE t.action = a
        <4>1. {i \in m + 1..l : u[i].action = a} = {i \in m + 1..n : q[i].action = a} \cup {n + 1}
          BY <2>1, <2>2, <2>4, <3>1
        <4>. QED
          BY <1>4, <3>1, <4>1
      <3>2. CASE t.action # a
        <4>1. {i \in m + 1..l : u[i].action = a} = {i \in m + 1..n : q[i].action = a}
          BY <2>1, <2>2, <2>4, <3>2
        <4>. QED
          BY <1>4, <3>2, <4>1
      <3>. QED
        BY <3>1, <3>2
    <2>6. IsActionPending(Manager, a)' <=> IsActionPending(Manager, a) \/ t.action = a
      BY <1>4, <2>1, <2>3, <2>4
    <2>. QED
      BY <1>1, <1>5, <1>6, <2>5, <2>6
  <1>7. CASE s # Manager
    <2>2. \A i \in m + 1..n : u[i] = q[i]
      BY <1>1, <1>3
    <2>3. \A i \in k + 1..n : u[i] = q[i]
      BY <1>1, <1>3
    <2>4. OnTheWay(a)' = OnTheWay(a)
      BY <1>3, <1>4, <1>7, <2>2
    <2>5. IsActionPending(Manager, a)' <=> IsActionPending(Manager, a)
      BY <1>3, <1>4, <1>7, <2>3
    <2>. QED
      BY <1>1, <1>5, <1>7, <2>4, <2>5
  <1>. QED
    BY <1>6, <1>7

LEMMA OtherSendsPending ==
  ASSUME ChainTypes, OtherSends, mined' = mined, seen' = seen,
         \A i \in 1..Len(txs[Worker]) : txs[Worker][i].action \notin OnceOnly
  PROVE  /\ \A a \in OnceOnly : /\ OnTheWay(a)' = OnTheWay(a)
                                /\ IsActionPending(Manager, a)' <=> IsActionPending(Manager, a)
         /\ \A i \in 1..Len(txs'[Worker]) : txs'[Worker][i].action \notin OnceOnly
  <1>1. CASE UNCHANGED txs
    BY <1>1 DEF OnTheWay, IsActionPending
  <1>2. CASE ~UNCHANGED txs
    <2>1. PICK s \in Signer, t \in Transaction :
             Send(s, t) /\ t.action \in {"RELAY_CALL", "VALUE_TRANSFER"}
      BY <1>2 DEF OtherSends
    <2>2. \A a \in OnceOnly : t.action # a
      BY <2>1 DEF OnceOnly
    <2>3. \A a \in OnceOnly : /\ OnTheWay(a)' = OnTheWay(a)
                              /\ IsActionPending(Manager, a)' <=> IsActionPending(Manager, a)
      BY <2>1, <2>2, SendPending
    <2>4. \A i \in 1..Len(txs'[Worker]) : txs'[Worker][i].action \notin OnceOnly
      <3>1. Len(txs[Worker]) \in Nat
        BY TxsFacts DEF Signer
      <3>2. CASE s = Worker
        <4>1. \A i \in 1..Len(txs'[Worker]) : i \in 1..Len(txs[Worker]) \/ i = Len(txs[Worker]) + 1
          BY <2>1, <3>1, <3>2, SendFacts
        <4>. QED
          BY <2>1, <2>2, <3>1, <3>2, <4>1, SendFacts
      <3>3. CASE s # Worker
        <4>1. txs'[Worker] = txs[Worker]
          BY <2>1, <3>3, SendFacts DEF Signer
        <4>. QED
          BY <4>1
      <3>. QED
        BY <3>2, <3>3
    <2>. QED
      BY <2>3, <2>4
  <1>. QED
    BY <1>1, <1>2

\* What the chain and the owner do to the registry of workers.
LEMMA RegistryMoves ==
  ASSUME ChainTypes, Hub!TypeOK, Chain \/ OwnerScript,
         \A i \in 1..Len(txs[Worker]) : txs[Worker][i].action \notin OnceOnly
  PROVE  \/ /\ UNCHANGED <<workerToManager, workerCount>>
            /\ \/ log' = log
               \/ \E e \in Entry :
                     /\ log' = Append(log, e)
                     /\ e.event # "RelayWorkersAdded"
                     /\ e.event = "RelayServerRegistered" => workerCount[Manager] > 0
         \/ /\ workerToManager[Worker] = Hub!NoEntry
            /\ workerToManager'[Worker] # Hub!NoEntry
            /\ \E e \in Entry : log' = Append(log, e) /\ e.event = "RelayWorkersAdded"
            /\ mined[Manager] < Len(txs[Manager])
            /\ mined' = [mined EXCEPT ![Manager] = @ + 1]
            /\ txs[Manager][mined[Manager] + 1].action = "ADD_WORKER"
  <1>1. CASE Chain /\ (MineBlock \/ SealBlock)
    BY <1>1 DEF MineBlock, SealBlock, Hub!MineBlock, hubVars
  <1>2. CASE Chain /\ (Unlock \/ Withdraw \/ Penalize)
    <2>1. UNCHANGED <<workerToManager, workerCount>>
      BY <1>2 DEF Unlock, Withdraw, Penalize, Hub!UnlockStake, Hub!WithdrawStake, Hub!Penalize
    <2>. QED
      BY <1>2, <2>1, OwnersTx
  <1>3. CASE Chain /\ \E s \in Signer : Execute(s)
    <2>1. PICK s \in Signer : Execute(s)
      BY <1>3
    <2>2. PICK t : t = txs[s][mined[s] + 1] /\ (Executes(t) \/ UNCHANGED <<hubVars, log>>)
      BY <2>1 DEF Execute
    <2>3. mined[s] < Len(txs[s]) /\ mined' = [mined EXCEPT ![s] = @ + 1]
      BY <2>1, ExecuteTypes
    <2>4. CASE UNCHANGED <<hubVars, log>>
      BY <2>4 DEF hubVars
    <2>5. CASE Executes(t) /\ t.action = "ADD_WORKER"
      <3>1. s = Manager
        <4>1. mined[s] + 1 \in 1..Len(txs[s])
          BY <2>3, TxsFacts
        <4>. QED
          BY <2>2, <2>5, <4>1 DEF Signer, OnceOnly
      <3>2. Hub!AddRelayWorkers(Manager, <<Worker>>) /\ Emit("RelayWorkersAdded")
        BY <2>5 DEF Executes
      <3>3. Hub!Elements(<<Worker>>) = {Worker}
        BY DEF Hub!Elements
      <3>4. workerToManager[Worker] = Hub!NoEntry
        BY <3>2, <3>3 DEF Hub!AddRelayWorkers, Hub!Unassigned
      <3>5. workerToManager'[Worker] = Hub!EnabledWorker(Manager)
        BY <3>2, <3>3 DEF Hub!AddRelayWorkers
      <3>6. Hub!EnabledWorker(Manager) # Hub!NoEntry
        BY DEF Hub!EnabledWorker, Hub!NoEntry
      <3>7. \E e \in Entry : log' = Append(log, e) /\ e.event = "RelayWorkersAdded"
        BY <3>2, EmitFacts DEF OtherEvents, ActiveManagerEvents
      <3>. QED
        BY <2>2, <2>3, <2>5, <3>1, <3>4, <3>5, <3>6, <3>7
    <2>6. CASE Executes(t) /\ t.action = "REGISTER_SERVER"
      <3>1. /\ UNCHANGED <<workerToManager, workerCount>> /\ workerCount[Manager] > 0
            /\ Emit("RelayServerRegistered")
        BY <2>6 DEF Executes, Hub!RegisterRelayServer
      <3>2. \E e \in Entry : log' = Append(log, e) /\ e.event = "RelayServerRegistered"
        BY <3>1, EmitFacts DEF OtherEvents, ActiveManagerEvents
      <3>. QED
        BY <3>1, <3>2
    <2>7. CASE Executes(t) /\ t.action = "RELAY_CALL"
      <3>1. PICK e \in {"TransactionRelayed", RejectedEvent} : Emit(e)
        BY <2>7 DEF Executes, RejectedEvent
      <3>2. \E x \in Entry : log' = Append(log, x) /\ x.event = e
        BY <3>1, EmitFacts DEF OtherEvents, ActiveManagerEvents
      <3>3. UNCHANGED <<workerToManager, workerCount>>
        BY <2>7 DEF Executes, Hub!RelayCall
      <3>. QED
        BY <3>1, <3>2, <3>3 DEF RejectedEvent
    <2>8. CASE Executes(t) /\ t.action = "VALUE_TRANSFER"
      BY <2>8 DEF Executes, hubVars
    <2>. QED
      BY <2>2, <2>4, <2>5, <2>6, <2>7, <2>8 DEF Executes
  <1>4. CASE OwnerScript /\ Stake
    <2>1. Emit("StakeAdded") /\ UNCHANGED <<workerToManager, workerCount>>
      BY <1>4 DEF Stake, Hub!StakeForAddress
    <2>2. \E x \in Entry : log' = Append(log, x) /\ x.event = "StakeAdded"
      BY <2>1, EmitFacts DEF OtherEvents
    <2>. QED
      BY <2>1, <2>2
  <1>5. CASE OwnerScript /\ ~Stake
    BY <1>5 DEF OwnerScript, RegisterRelay, StartRegisterRelay, ReadStakeInfo,
       ReadManagerBalance, Fund, RelayIsReady, RegisterRelayFails, chainVars, hubVars
  <1>. QED
    BY <1>1, <1>2, <1>3, <1>4, <1>5 DEF Chain, ChainNext


RegisteredInv == WorkerInv /\ SentOnce /\ RegistrationInv

LEMMA EnvRegistered ==
  ASSUME Types, Hub!TypeOK, Clock, Course, RegisteredInv, Chain \/ OwnerScript
  PROVE  RegisteredInv'
  <1>0. EnvStep
    BY ChainStepTypes, ScriptTypes DEF Types
  <1>1. UNCHANGED <<srv, round, reg, txs, seen>>
    BY <1>0 DEF EnvStep, serverVars
  <1>2. log \in Seq(Entry) /\ ChainTypes
    BY DEF Types, ChainTypes
  <1>3. \A a : IsActionPending(Manager, a)' <=> IsActionPending(Manager, a)
    BY <1>1 DEF IsActionPending
  <1>4. PICK n, m, k : /\ n = Len(txs[Manager]) /\ m = mined[Manager] /\ k = seen[Manager]
                       /\ n \in Nat /\ m \in Nat /\ k \in Nat /\ k <= m /\ m <= n
    BY <1>2, TxsFacts DEF Signer
  <1>5. \A a : OnTheWay(a)' \subseteq OnTheWay(a)
    <2>1. PICK m1 : m1 = mined'[Manager]
      OBVIOUS
    <2>2. m1 = m \/ m1 = m + 1
      <3>1. CASE mined' = mined
        BY <1>4, <2>1, <3>1
      <3>2. ASSUME NEW s \in Signer, mined' = [mined EXCEPT ![s] = @ + 1]
            PROVE  m1 = m \/ m1 = m + 1
        BY <1>2, <1>4, <2>1, <3>2 DEF ChainTypes, Signer
      <3>. QED
        BY <1>0, <3>1, <3>2 DEF EnvStep
    <2>3. \A i \in m1 + 1..n : i \in m + 1..n
      BY <1>4, <2>2
    <2>. QED
      BY <1>1, <1>4, <2>1, <2>3 DEF OnTheWay
  <1>6. \A i \in DOMAIN log : i \in DOMAIN log' /\ log'[i] = log[i]
    <2>1. CASE log' = log
      BY <2>1
    <2>2. CASE \E e \in Entry : log' = Append(log, e)
      BY <1>2, <2>2, AppendFacts
    <2>. QED
      BY <1>0, <2>1, <2>2 DEF EnvStep
  <1>7. \A e : HasEvent(e) => HasEvent(e)'
    BY <1>6 DEF HasEvent
  <1>8. RegistrationInv'
    BY <1>1, <1>7 DEF RegisteredInv, RegistrationInv
  <1>9. \A i \in DOMAIN log : NotMissed(i) => NotMissed(i)'
    BY <1>1, <1>6 DEF NotMissed
  <1>10. CASE /\ UNCHANGED <<workerToManager, workerCount>>
              /\ \/ log' = log
                 \/ \E e \in Entry :
                     /\ log' = Append(log, e)
                     /\ e.event # "RelayWorkersAdded"
                     /\ e.event = "RelayServerRegistered" => workerCount[Manager] > 0
    <2>1. \A i \in DOMAIN log' : log'[i].event = "RelayWorkersAdded" => i \in DOMAIN log
      BY <1>2, <1>10, AppendFacts
    <2>2. HasEvent("RelayServerRegistered")' =>
             HasEvent("RelayServerRegistered") \/ workerCount[Manager] > 0
      <3>1. CASE log' = log
        BY <3>1 DEF HasEvent
      <3>2. CASE \E e \in Entry :
                     /\ log' = Append(log, e)
                     /\ e.event = "RelayServerRegistered" => workerCount[Manager] > 0
        BY <1>2, <3>2, AppendFacts DEF HasEvent
      <3>. QED
        BY <1>10, <3>1, <3>2
    <2>3. \A i \in DOMAIN log' :
            log'[i].event = "RelayWorkersAdded" /\ srv'.initialized /\ ~reg'.workerAdded =>
             /\ NotMissed(i)'
             /\ round'.pc \notin {"idle", "replenish"} /\ round'.block < log'[i].block =>
                   IsActionPending(Manager, "ADD_WORKER")'
      BY <1>1, <1>3, <1>6, <1>9, <2>1 DEF RegisteredInv, WorkerInv
    <2>4. WorkerInv'
      BY <1>7, <1>10, <2>2, <2>3 DEF RegisteredInv, WorkerInv
    <2>5. SentOnce'
      BY <1>1, <1>3, <1>5, <1>10 DEF RegisteredInv, SentOnce
    <2>. QED
      BY <1>8, <2>4, <2>5 DEF RegisteredInv
  <1>11. CASE /\ workerToManager[Worker] = Hub!NoEntry
              /\ workerToManager'[Worker] # Hub!NoEntry
              /\ \E e \in Entry : log' = Append(log, e) /\ e.event = "RelayWorkersAdded"
              /\ mined[Manager] < Len(txs[Manager])
              /\ mined' = [mined EXCEPT ![Manager] = @ + 1]
              /\ txs[Manager][mined[Manager] + 1].action = "ADD_WORKER"
    <2>1. PICK e \in Entry : log' = Append(log, e) /\ e.event = "RelayWorkersAdded"
      BY <1>11
    <2>2. e.block = block /\ phase # "sealed"
      <3>1. log'[Len(log) + 1] = e /\ Len(log) + 1 \in DOMAIN log' /\ Len(log) + 1 \notin DOMAIN log
        BY <1>2, <2>1, AppendFacts, LogFacts
      <3>2. PICK f \in Entry : log' = Append(log, f) /\ f.block = block /\ phase # "sealed"
        BY <1>0, <3>1 DEF EnvStep
      <3>3. log'[Len(log) + 1] = f
        BY <1>2, <3>2, AppendFacts
      <3>. QED
        BY <3>1, <3>2, <3>3
    <2>3. HasEvent("RelayWorkersAdded")'
      BY <1>2, <2>1, AppendFacts DEF HasEvent
    <2>4. IsActionPending(Manager, "ADD_WORKER")
      <3>1. m + 1 \in k + 1..n
        BY <1>4, <1>11
      <3>. QED
        BY <1>4, <1>11, <3>1 DEF IsActionPending
    <2>5. srv.scanned < block /\ round.block < block
      BY <2>2 DEF Clock
    <2>6. \A i \in DOMAIN log' :
            log'[i].event = "RelayWorkersAdded" /\ srv'.initialized /\ ~reg'.workerAdded =>
             /\ NotMissed(i)'
             /\ round'.pc \notin {"idle", "replenish"} /\ round'.block < log'[i].block =>
                   IsActionPending(Manager, "ADD_WORKER")'
      <3>. SUFFICES ASSUME NEW i \in DOMAIN log', log'[i].event = "RelayWorkersAdded",
                           srv.initialized, ~reg.workerAdded
                    PROVE  NotMissed(i)'
        BY <1>1, <1>3, <2>4
      <3>1. CASE i \in DOMAIN log
        BY <1>6, <1>9, <3>1 DEF RegisteredInv, WorkerInv
      <3>2. CASE i = Len(log) + 1
        BY <1>1, <1>2, <2>1, <2>2, <2>5, <3>2, AppendFacts DEF NotMissed
      <3>. QED
        BY <1>2, <2>1, <3>1, <3>2, AppendFacts
    <2>7. WorkerInv'
      BY <1>11, <2>3, <2>6 DEF WorkerInv
    <2>8. OnTheWay("ADD_WORKER")' = {}
      <3>1. m + 1 \in OnTheWay("ADD_WORKER")
        BY <1>4, <1>11 DEF OnTheWay
      <3>2. mined'[Manager] = m + 1
        BY <1>2, <1>4, <1>11 DEF ChainTypes, Signer
      <3>3. m + 1 \notin OnTheWay("ADD_WORKER")'
        BY <1>4, <3>2 DEF OnTheWay
      <3>. QED
        BY <1>5, <3>1, <3>3 DEF RegisteredInv, SentOnce, OnceOnly
    <2>9. SentOnce'
      BY <1>1, <1>3, <1>5, <2>8 DEF RegisteredInv, SentOnce
    <2>. QED
      BY <1>8, <2>7, <2>9 DEF RegisteredInv
  <1>. QED
    BY <1>2, <1>10, <1>11, RegistryMoves DEF RegisteredInv, SentOnce


\* What the registration sends.
LEMMA RegistrationSends ==
  ASSUME Types, Registration
  PROVE  \/ OtherSends /\ round'.pc # "register" /\ (round'.pc = "confirm" => ~AttemptsRegistration)
         \/ OtherSends /\ AddRelayWorker /\ AttemptsRegistration /\ ~MustAddWorker
         \/ AddRelayWorker /\ AttemptsRegistration /\ MustAddWorker
            /\ Send(Manager, Tx("ADD_WORKER", HubItself, 0))
         \/ RegisterServer /\ Send(Manager, Tx("REGISTER_SERVER", HubItself, 0))
  <1>0. round \in Rounds
    BY DEF Types, RoundTypes
  <1>1. CASE FetchStakeEvents(srv.scanned)
    BY <1>0, <1>1 DEF FetchStakeEvents, OtherSends, chainVars, Rounds
  <1>2. CASE HandleStakeEvent
    BY <1>0, <1>2 DEF HandleStakeEvent, OtherSends, chainVars, Rounds
  <1>3. CASE ExtractDuePendingEvents
    BY <1>0, <1>3 DEF ExtractDuePendingEvents, OtherSends, chainVars, Rounds
  <1>4. CASE PayOwner
    <2>1. OtherSends
      BY <1>4, PayoutSent DEF PayOwner, OtherSends
    <2>2. round'.pc \in {"pay", "addWorker", "stake"}
      BY <1>0, <1>4 DEF PayOwner, Rounds
    <2>. QED
      BY <2>1, <2>2
  <1>5. CASE AddRelayWorker
    <2>1. CASE AttemptsRegistration
      BY <1>5, <2>1 DEF AddRelayWorker, OtherSends
    <2>2. CASE ~AttemptsRegistration
      BY <1>0, <1>5, <2>2 DEF AddRelayWorker, OtherSends, Rounds
    <2>. QED
      BY <2>1, <2>2
  <1>6. CASE RegisterServer
    BY <1>6 DEF RegisterServer
  <1>. QED
    BY <1>1, <1>2, <1>3, <1>4, <1>5, <1>6 DEF Registration

LEMMA RegistrationPending ==
  ASSUME Types, Hub!TypeOK, Registration, Server, RegisteredInv
  PROVE  /\ IsActionPending(Manager, "ADD_WORKER") => IsActionPending(Manager, "ADD_WORKER")'
         /\ round'.pc # "confirm" =>
               (IsActionPending(Manager, "REGISTER_SERVER")' <=>
                   IsActionPending(Manager, "REGISTER_SERVER"))
  <1>0. mined' = mined /\ seen' = seen /\ ChainTypes /\ round \in Rounds
    BY ServerReads, RegistrationRounds DEF Types, RoundTypes
  <1>1. CASE OtherSends
    BY <1>0, <1>1, OtherSendsPending DEF RegisteredInv, SentOnce, OnceOnly
  <1>2. CASE Send(Manager, Tx("ADD_WORKER", HubItself, 0))
    <2>1. /\ Tx("ADD_WORKER", HubItself, 0) \in Transaction /\ Manager \in Signer
          /\ Tx("ADD_WORKER", HubItself, 0).action = "ADD_WORKER"
      BY RegistrationTxs DEF Tx, Signer
    <2>. QED
      BY <1>0, <1>2, <2>1, SendPending
  <1>3. CASE RegisterServer
    <2>1. round'.pc = "confirm"
      BY <1>0, <1>3 DEF RegisterServer, Rounds
    <2>2. /\ Tx("REGISTER_SERVER", HubItself, 0) \in Transaction /\ Manager \in Signer
          /\ Send(Manager, Tx("REGISTER_SERVER", HubItself, 0))
      BY <1>3, RegistrationTxs DEF Signer, RegisterServer
    <2>. QED
      BY <1>0, <2>1, <2>2, SendPending
  <1>. QED
    BY <1>1, <1>2, <1>3, RegistrationSends

\* The worker's addition and the registration are taken in at the start and from the
\* events a round fetched.
LEMMA TakesIn ==
  ASSUME Types, Hub!TypeOK, Clock, Server, NEW i \in DOMAIN log, srv'.initialized,
         \/ log[i].event = "RelayWorkersAdded" /\ ~reg'.workerAdded
         \/ log[i].event = "RelayServerRegistered" /\ ~reg'.registered
  PROVE  /\ ~Initialize /\ ~Crash /\ srv.initialized
         /\ log[i].event = "RelayWorkersAdded" => ~reg.workerAdded
         /\ log[i].event = "RelayServerRegistered" => ~reg.registered
         /\ ExtractDuePendingEvents => i \notin ToSet(round.hub)
  <1>0. /\ log' = log
        /\ srv \in Servers /\ round \in Rounds /\ reg \in Managers /\ log \in Seq(Entry)
    BY ServerReads DEF Types, SrvTypes, RoundTypes, RegTypes, ChainTypes
  <1>1. ~Initialize /\ ~Crash
    <2>1. CASE Initialize
      <3>1. PICK E, F : E = Events({"RelayWorkersAdded"}, 1) /\ F = Events({"RelayServerRegistered"}, 1)
        OBVIOUS
      <3>2. log[i].event = "RelayWorkersAdded" => E # << >>
        BY <1>0, <3>1, EventsFacts DEF Clock
      <3>3. log[i].event = "RelayServerRegistered" => F # << >>
        BY <1>0, <3>1, EventsFacts DEF Clock
      <3>4. (E # << >> => reg'.workerAdded) /\ (F # << >> => reg'.registered)
        BY <1>0, <2>1, <3>1 DEF Initialize, RegistrationInit, Managers
      <3>. QED
        BY <3>2, <3>3, <3>4
    <2>2. CASE Crash
      BY <2>2 DEF Crash, Restart, NewServer
    <2>. QED
      BY <2>1, <2>2
  <1>2. ASSUME srv'.initialized = srv.initialized, ~ExtractDuePendingEvents,
               reg'.registered = reg.registered, reg'.workerAdded = reg.workerAdded
        PROVE  /\ srv.initialized
               /\ log[i].event = "RelayWorkersAdded" => ~reg.workerAdded
               /\ log[i].event = "RelayServerRegistered" => ~reg.registered
               /\ ExtractDuePendingEvents => i \notin ToSet(round.hub)
    BY <1>2
  <1>3. CASE Quiet \/ Abort \/ Begin
    <2>1. ~ExtractDuePendingEvents
      <3>1. ExtractDuePendingEvents => round.pc = "stake" /\ round'.pc \in {"addWorker", "pay"}
        BY <1>0 DEF ExtractDuePendingEvents, Rounds
      <3>2. round' = round \/ round'.pc = "idle" \/ round.pc \in {"idle", "balance"}
        BY <1>3 DEF Quiet, Abort, Begin, NoScan
      <3>. QED
        BY <3>1, <3>2
    <2>. QED
      BY <1>1, <1>2, <1>3, <2>1 DEF Quiet, Abort, Begin, Apart, SameReg, SameScan
  <1>4. CASE FetchHubEvents
    BY <1>1, <1>2, <1>4 DEF FetchHubEvents, ExtractDuePendingEvents
  <1>5. CASE Registration
    <2>1. srv' = srv
      BY <1>5, RegistrationRounds
    <2>2. CASE HandleStakeEvent
      <3>1. ~ExtractDuePendingEvents
        BY <2>2 DEF HandleStakeEvent, ExtractDuePendingEvents
      <3>2. reg'.registered = reg.registered /\ reg'.workerAdded = reg.workerAdded
        BY <1>0, <2>2, RefreshStakeType DEF HandleStakeEvent, Managers
      <3>. QED
        BY <1>1, <1>2, <2>1, <3>1, <3>2
    <2>3. CASE ExtractDuePendingEvents
      <3>. DEFINE Seen(e) == \E j \in DOMAIN round.hub : log[round.hub[j]].event = e
      <3>1. PICK a, b, d :
             /\ a = (reg.registered \/ Seen("RelayServerRegistered"))
             /\ b = (reg.workerAdded \/ Seen("RelayWorkersAdded"))
             /\ reg' = [reg EXCEPT !.registered = a, !.workerAdded = b, !.delayed = d]
        BY <2>3 DEF ExtractDuePendingEvents
      <3>2. reg'.registered = a /\ reg'.workerAdded = b
        BY <1>0, <3>1 DEF Managers
      <3>3. i \in ToSet(round.hub) => Seen(log[i].event)
        BY DEF ToSet
      <3>. HIDE DEF Seen
      <3>. QED
        BY <1>1, <2>1, <3>1, <3>2, <3>3
    <2>4. CASE FetchStakeEvents(srv.scanned) \/ PayOwner \/ AddRelayWorker \/ RegisterServer
      <3>1. reg' = reg /\ ~ExtractDuePendingEvents
        BY <2>4 DEF FetchStakeEvents, PayOwner, AddRelayWorker, RegisterServer,
                    ExtractDuePendingEvents
      <3>. QED
        BY <1>1, <1>2, <2>1, <3>1
    <2>. QED
      BY <1>5, <2>2, <2>3, <2>4 DEF Registration
  <1>6. CASE EndScan
    BY <1>1, <1>2, <1>6, EndScanMoves DEF EndScan, ExtractDuePendingEvents
  <1>. QED
    BY <1>1, <1>3, <1>4, <1>5, <1>6, ServerMoves

LEMMA ServerWorker ==
  ASSUME Types, Hub!TypeOK, Clock, Course, RegisteredInv, Server
  PROVE  WorkerInv'
  <1>0. /\ UNCHANGED <<log, workerToManager, workerCount, mined>>
        /\ srv \in Servers /\ round \in Rounds /\ reg \in Managers /\ log \in Seq(Entry)
    BY ServerReads DEF hubVars, Types, SrvTypes, RoundTypes, RegTypes, ChainTypes
  <1>1. SUFFICES ASSUME NEW i \in DOMAIN log, log[i].event = "RelayWorkersAdded",
                        srv'.initialized, ~reg'.workerAdded
                 PROVE  /\ NotMissed(i)'
                        /\ round'.pc \notin {"idle", "replenish"} /\ round'.block < log[i].block =>
                              IsActionPending(Manager, "ADD_WORKER")'
    BY <1>0 DEF RegisteredInv, WorkerInv, HasEvent
  <1>2. ~Initialize /\ ~Crash
    BY <1>1, TakesIn
  <1>3. srv.initialized /\ ~reg.workerAdded /\ (ExtractDuePendingEvents => i \notin ToSet(round.hub))
    BY <1>1, TakesIn
  <1>4. /\ NotMissed(i)
        /\ round.pc \notin {"idle", "replenish"} /\ round.block < log[i].block =>
                    IsActionPending(Manager, "ADD_WORKER")
    BY <1>1, <1>3 DEF RegisteredInv, WorkerInv
  <1>5. NotMissed(i)'
    BY <1>1, <1>3, <1>4, NotMissedStep DEF ActiveManagerEvents
  <1>6. ASSUME round'.pc \notin {"idle", "replenish"}, round'.block < log[i].block
        PROVE  IsActionPending(Manager, "ADD_WORKER")'
    <2>1. CASE Quiet
      <3>1. IsActionPending(Manager, "ADD_WORKER")
        BY <1>4, <1>6, <2>1 DEF Quiet
      <3>. QED
        BY <1>0, <2>1, <3>1, OtherSendsPending
           DEF Quiet, Apart, Types, RegisteredInv, SentOnce, OnceOnly
    <2>2. CASE Abort
      BY <1>6, <2>2 DEF Abort, NoScan
    <2>3. CASE Begin
      <3>1. CASE round' = [NoScan EXCEPT !.pc = "balance", !.block = block]
        <4>1. round'.block = block /\ block \in Nat /\ log[i].block \in Nat
          BY <1>0, <3>1, HubFacts, LogFacts DEF NoScan
        <4>. QED
          BY <1>6, <4>1 DEF Clock
      <3>2. CASE round.pc = "balance" /\ round' = [round EXCEPT !.pc = "hubEvents"]
        <4>1. round'.block = round.block
          BY <1>0, <3>2 DEF Rounds
        <4>. QED
          BY <1>4, <1>6, <2>3, <3>2, <4>1 DEF Begin, Apart, IsActionPending
      <3>. QED
        BY <2>3, <3>1, <3>2 DEF Begin
    <2>4. CASE FetchHubEvents
      <3>1. round.pc = "hubEvents" /\ round'.block = round.block /\ UNCHANGED <<seen, txs>>
        BY <1>0, <2>4 DEF FetchHubEvents, Rounds, chainVars
      <3>. QED
        BY <1>4, <1>6, <3>1 DEF IsActionPending
    <2>5. CASE Registration
      <3>1. round.pc \in Fetched /\ round'.block = round.block
        BY <2>5, RegistrationRounds
      <3>. QED
        BY <1>4, <1>6, <2>5, <3>1, RegistrationPending DEF Fetched, Decided
    <2>6. CASE EndScan
      BY <1>6, <2>6, EndScanMoves DEF NoScan
    <2>. QED
      BY <1>2, <2>1, <2>2, <2>3, <2>4, <2>5, <2>6, ServerMoves
  <1>. QED
    BY <1>5, <1>6

LEMMA ServerSentOnce ==
  ASSUME Types, Hub!TypeOK, Clock, Course, RegisteredInv, Server
  PROVE  SentOnce'
  <1>0. /\ UNCHANGED <<log, workerToManager, mined>> /\ ChainTypes /\ round \in Rounds
    BY ServerReads DEF hubVars, Types, RoundTypes
  <1>. DEFINE Waiting == \/ round.pc = "register"
                         \/ round.force /\ round.pc \in {"stakeEvents", "stake", "pay", "addWorker"}
  <1>1. ASSUME OtherSends, seen' = seen,
               Waiting' => ~IsActionPending(Manager, "REGISTER_SERVER")
        PROVE  SentOnce'
    BY <1>0, <1>1, OtherSendsPending DEF RegisteredInv, SentOnce, OnceOnly
  <1>2. CASE Quiet
    BY <1>1, <1>2 DEF Quiet, Apart, RegisteredInv, SentOnce
  <1>3. CASE Abort
    BY <1>1, <1>3 DEF Abort, Apart, NoScan
  <1>4. CASE Begin
    <2>1. round'.pc \in {"balance", "hubEvents"}
      BY <1>0, <1>4 DEF Begin, NoScan, Rounds
    <2>. QED
      BY <1>1, <1>4, <2>1 DEF Begin, Apart, OtherSends
  <1>5. CASE Initialize
    BY <1>1, <1>5 DEF Initialize, OtherSends, chainVars, RegisteredInv, SentOnce
  <1>6. CASE FetchHubEvents
    <2>1. round'.force => ~IsActionPending(Manager, "REGISTER_SERVER")
      BY <1>0, <1>6 DEF FetchHubEvents, ShouldRegisterAgain, Rounds
    <2>2. round'.pc # "register"
      BY <1>0, <1>6 DEF FetchHubEvents, Rounds
    <2>. QED
      BY <1>1, <1>6, <2>1, <2>2 DEF FetchHubEvents, OtherSends, chainVars
  <1>7. CASE EndScan
    <2>1. round'.pc \in {"idle", "replenish"} /\ UNCHANGED txs
      BY <1>7, EndScanMoves DEF NoScan
    <2>. QED
      BY <1>0, <2>1 DEF RegisteredInv, SentOnce, OnTheWay
  <1>8. CASE Crash
    BY <1>1, <1>8 DEF Crash, Restart, NoScan, OtherSends, chainVars
  <1>9. CASE Registration
    <2>0. seen' = seen /\ round'.force = round.force /\ round.pc \in Fetched /\ srv' = srv
      BY <1>9, RegistrationRounds
    <2>1. CASE OtherSends /\ round'.pc # "register" /\ (round'.pc = "confirm" => ~AttemptsRegistration)
      <3>1. Waiting' => Waiting
        <4>1. ASSUME Waiting' PROVE round.force /\ round'.pc \in {"stake", "pay", "addWorker"}
          BY <1>9, <2>0, <2>1, <4>1, RegistrationRounds DEF Registration
        <4>2. ASSUME round'.pc \in {"stake", "pay", "addWorker"}
              PROVE  round.pc \in {"stakeEvents", "stake", "pay"}
          BY <1>9, <4>2, RegistrationRounds
             DEF Registration, FetchStakeEvents, HandleStakeEvent, ExtractDuePendingEvents, PayOwner
        <4>. QED
          BY <4>1, <4>2
      <3>. QED
        BY <1>1, <2>0, <2>1, <3>1 DEF RegisteredInv, SentOnce
    <2>2. ASSUME AddRelayWorker, AttemptsRegistration
          PROVE  ~IsActionPending(Manager, "REGISTER_SERVER")
      <3>1. round.pc = "addWorker"
        BY <2>2 DEF AddRelayWorker
      <3>. QED
        BY <2>2, <3>1 DEF AttemptsRegistration, RegisteredInv, SentOnce
    <2>3. CASE OtherSends /\ AddRelayWorker /\ AttemptsRegistration /\ ~MustAddWorker
      BY <1>1, <2>0, <2>2, <2>3
    <2>4. CASE AddRelayWorker /\ AttemptsRegistration /\ MustAddWorker
               /\ Send(Manager, Tx("ADD_WORKER", HubItself, 0))
      <3>1. PICK t : t = Tx("ADD_WORKER", HubItself, 0) /\ t \in Transaction
                     /\ t.action = "ADD_WORKER" /\ Send(Manager, t)
        BY <2>4, RegistrationTxs DEF Tx
      <3>2. Manager \in Signer /\ Worker # Manager /\ Worker \in Signer
        BY DEF Signer, Worker, Manager
      <3>3. OnTheWay("ADD_WORKER") = {}
        BY <1>0, <2>0, <2>4, <3>1, <3>2, SendPending DEF MustAddWorker
      <3>4. /\ OnTheWay("ADD_WORKER")' = {Len(txs[Manager]) + 1}
            /\ OnTheWay("REGISTER_SERVER")' = OnTheWay("REGISTER_SERVER")
            /\ IsActionPending(Manager, "REGISTER_SERVER")' <=>
                   IsActionPending(Manager, "REGISTER_SERVER")
        BY <1>0, <2>0, <3>1, <3>2, <3>3, SendPending
      <3>5. txs'[Worker] = txs[Worker]
        BY <1>0, <3>1, <3>2, SendFacts
      <3>6. workerToManager[Worker] = Hub!NoEntry
        <4>1. SUFFICES ASSUME workerToManager[Worker] # Hub!NoEntry PROVE FALSE
          OBVIOUS
        <4>2. PICK i \in DOMAIN log : log[i].event = "RelayWorkersAdded"
          BY <4>1 DEF RegisteredInv, WorkerInv, HasEvent
        <4>3. round.pc = "addWorker"
          BY <2>4 DEF AddRelayWorker
        <4>4. srv.initialized /\ round.due /\ ~reg.workerAdded
          BY <2>4, <4>3 DEF Course, Decided, MustAddWorker
        <4>5. /\ NotMissed(i)
              /\ round.block < log[i].block => IsActionPending(Manager, "ADD_WORKER")
          BY <4>2, <4>3, <4>4 DEF RegisteredInv, WorkerInv
        <4>6. round.block < log[i].block
          BY <2>0, <4>4, <4>5 DEF NotMissed
        <4>. QED
          BY <2>4, <4>5, <4>6 DEF MustAddWorker
      <3>. QED
        BY <1>0, <2>2, <2>4, <3>4, <3>5, <3>6 DEF RegisteredInv, SentOnce, OnceOnly
    <2>5. CASE RegisterServer /\ Send(Manager, Tx("REGISTER_SERVER", HubItself, 0))
      <3>1. PICK t : t = Tx("REGISTER_SERVER", HubItself, 0) /\ t \in Transaction
                     /\ t.action = "REGISTER_SERVER" /\ Send(Manager, t)
        BY <2>5, RegistrationTxs DEF Tx
      <3>2. Manager \in Signer /\ Worker # Manager /\ Worker \in Signer
        BY DEF Signer, Worker, Manager
      <3>3. ~IsActionPending(Manager, "REGISTER_SERVER") /\ round'.pc = "confirm"
        BY <1>0, <2>5 DEF RegisterServer, RegisteredInv, SentOnce, Rounds
      <3>4. /\ OnTheWay("REGISTER_SERVER") = {}
        BY <1>0, <2>0, <3>1, <3>2, <3>3, SendPending
      <3>5. /\ OnTheWay("REGISTER_SERVER")' = {Len(txs[Manager]) + 1}
            /\ OnTheWay("ADD_WORKER")' = OnTheWay("ADD_WORKER")
        BY <1>0, <2>0, <3>1, <3>2, <3>4, SendPending
      <3>6. txs'[Worker] = txs[Worker]
        BY <1>0, <3>1, <3>2, SendFacts
      <3>. QED
        BY <1>0, <3>3, <3>5, <3>6 DEF RegisteredInv, SentOnce, OnceOnly
    <2>. QED
      BY <1>9, <2>1, <2>3, <2>4, <2>5, RegistrationSends
  <1>. QED
    BY <1>2, <1>3, <1>4, <1>5, <1>6, <1>7, <1>8, <1>9, ServerMoves

LEMMA ServerRegistered ==
  ASSUME Types, Hub!TypeOK, Clock, Course, RegisteredInv, Server
  PROVE  RegistrationInv'
  <1>0. /\ log' = log /\ srv \in Servers /\ round \in Rounds /\ reg \in Managers
        /\ log \in Seq(Entry)
    BY ServerReads DEF Types, SrvTypes, RoundTypes, RegTypes, ChainTypes
  <1>1. HasEvent("RelayServerRegistered")' <=> HasEvent("RelayServerRegistered")
    BY <1>0 DEF HasEvent
  <1>2. SUFFICES ASSUME reg'.registered \/ srv'.ready \/ round'.pc = "replenish"
                 PROVE  HasEvent("RelayServerRegistered")
    BY <1>1 DEF RegistrationInv
  <1>3. CASE Quiet \/ Abort \/ Begin
    <2>1. reg'.registered = reg.registered
      BY <1>3 DEF Quiet, Abort, Begin, Apart, SameReg
    <2>2. round'.pc = "replenish" => round.pc = "replenish"
      <3>1. CASE Quiet
        BY <3>1 DEF Quiet
      <3>2. CASE Abort
        BY <3>2 DEF Abort, NoScan
      <3>3. CASE Begin
        <4>1. round' = [NoScan EXCEPT !.pc = "balance", !.block = block] => round'.pc = "balance"
          BY DEF NoScan
        <4>2. round' = [round EXCEPT !.pc = "hubEvents"] => round'.pc = "hubEvents"
          BY <1>0 DEF Rounds
        <4>. QED
          BY <3>3, <4>1, <4>2 DEF Begin
      <3>. QED
        BY <1>3, <3>1, <3>2, <3>3
    <2>3. srv'.ready => srv.ready \/ round.pc = "replenish"
      BY <1>3 DEF Quiet, Abort, Begin
    <2>. QED
      BY <1>2, <2>1, <2>2, <2>3 DEF RegisteredInv, RegistrationInv
  <1>4. CASE Initialize
    <2>1. PICK E : E = Events({"RelayServerRegistered"}, 1)
      OBVIOUS
    <2>2. E # << >> => HasEvent("RelayServerRegistered")
      BY <1>0, <2>1, EventsFacts DEF HasEvent
    <2>3. (reg'.registered => reg.registered \/ E # << >>) /\ srv'.ready = srv.ready /\ round' = round
      BY <1>0, <1>4, <2>1 DEF Initialize, RegistrationInit, Managers, Servers
    <2>. QED
      BY <1>2, <2>2, <2>3 DEF RegisteredInv, RegistrationInv
  <1>5. CASE FetchHubEvents
    BY <1>0, <1>2, <1>5 DEF FetchHubEvents, RegisteredInv, RegistrationInv, Rounds
  <1>6. CASE Registration
    <2>1. srv' = srv /\ round'.pc # "replenish"
      BY <1>6, RegistrationRounds DEF Fetched, Decided
    <2>2. CASE HandleStakeEvent
      <3>1. reg'.registered = reg.registered
        BY <1>0, <2>2, RefreshStakeType DEF HandleStakeEvent, Managers
      <3>. QED
        BY <1>2, <2>1, <3>1 DEF RegisteredInv, RegistrationInv
    <2>3. CASE ExtractDuePendingEvents
      <3>1. PICK a, b, d :
             /\ a = (reg.registered \/
                       \E j \in DOMAIN round.hub : log[round.hub[j]].event = "RelayServerRegistered")
             /\ reg' = [reg EXCEPT !.registered = a, !.workerAdded = b, !.delayed = d]
        BY <2>3 DEF ExtractDuePendingEvents
      <3>2. reg'.registered = a
        BY <1>0, <3>1 DEF Managers
      <3>3. \A j \in DOMAIN round.hub : round.hub[j] \in DOMAIN log
        BY <1>0 DEF Rounds
      <3>. QED
        BY <1>2, <2>1, <3>1, <3>2, <3>3 DEF RegisteredInv, RegistrationInv, HasEvent
    <2>4. CASE FetchStakeEvents(srv.scanned) \/ PayOwner \/ AddRelayWorker \/ RegisterServer
      <3>1. reg' = reg
        BY <2>4 DEF FetchStakeEvents, PayOwner, AddRelayWorker, RegisterServer
      <3>. QED
        BY <1>2, <2>1, <3>1 DEF RegisteredInv, RegistrationInv
    <2>. QED
      BY <1>6, <2>2, <2>3, <2>4 DEF Registration
  <1>7. CASE EndScan
    <2>1. CASE IsRegistered
      BY <2>1 DEF IsRegistered, RegisteredInv, RegistrationInv
    <2>2. CASE ~IsRegistered
      BY <1>2, <1>7, <2>2, EndScanMoves DEF NoScan, RegisteredInv, RegistrationInv
    <2>. QED
      BY <2>1, <2>2
  <1>8. CASE Crash
    BY <1>2, <1>8 DEF Crash, Restart, NewServer, NewRegistrationManager, NoScan
  <1>. QED
    BY <1>3, <1>4, <1>5, <1>6, <1>7, <1>8, ServerMoves


LEMMA RegisteredInit == Init => Clock /\ Course /\ RegisteredInv
  <1>. SUFFICES ASSUME Init PROVE Clock /\ Course /\ RegisteredInv
    OBVIOUS
  <1>1. /\ log = << >> /\ block = 1 /\ phase = "sealed" /\ srv = NewServer /\ round = NoScan
        /\ reg = NewRegistrationManager
        /\ workerToManager[Worker] = Hub!NoEntry /\ workerCount[Manager] = 0
    BY DEF Init, ChainInit, Hub!Init
  <1>2. DOMAIN log = {} /\ srv.scanned = 0 /\ round.block = 0 /\ round.pc = "idle" /\ ~round.due
        /\ ~srv.ready /\ ~reg.registered /\ round.todo = << >>
    BY <1>1 DEF NewServer, NoScan, NewRegistrationManager
  <1>3. Clock /\ Course
    BY <1>1, <1>2 DEF Clock, Course, Decided
  <1>4. WorkerInv /\ RegistrationInv
    BY <1>1, <1>2 DEF WorkerInv, RegistrationInv, HasEvent
  <1>5. SentOnce
    <2>1. txs[Manager] = << >> /\ txs[Worker] = << >> /\ mined[Manager] = 0
      BY DEF Init, ChainInit, Signer
    <2>2. \A a : OnTheWay(a) = {}
      BY <2>1 DEF OnTheWay
    <2>. QED
      BY <1>2, <2>1, <2>2 DEF SentOnce
  <1>. QED
    BY <1>3, <1>4, <1>5 DEF RegisteredInv

LEMMA RegisteredStep ==
  ASSUME Types, Hub!TypeOK, Clock, Course, RegisteredInv, [Next]_vars
  PROVE  Clock' /\ Course' /\ RegisteredInv'
  <1>1. CASE Chain \/ OwnerScript
    <2>1. EnvStep
      BY <1>1, ChainStepTypes, ScriptTypes DEF Types
    <2>. QED
      BY <1>1, <2>1, EnvClock, EnvRegistered
  <1>2. CASE Server
    BY <1>2, ServerClock, ServerWorker, ServerSentOnce, ServerRegistered DEF RegisteredInv
  <1>3. CASE UNCHANGED vars
    BY <1>3 DEF vars, chainVars, hubVars, serverVars, Clock, Course, RegisteredInv, WorkerInv,
       SentOnce, RegistrationInv, HasEvent, NotMissed, OnTheWay, IsActionPending
  <1>. QED
    BY <1>1, <1>2, <1>3 DEF Next

LEMMA RegisteredInvariant == Spec => [](Types /\ Hub!TypeOK /\ Clock /\ Course /\ RegisteredInv)
  <1>1. Init => Types /\ Clock /\ Course /\ RegisteredInv
    BY TypesInit, RegisteredInit
  <1>2. Types /\ Hub!TypeOK /\ Clock /\ Course /\ RegisteredInv /\ [Next]_vars
           => Types' /\ Clock' /\ Course' /\ RegisteredInv'
    BY TypesStep, RegisteredStep
  <1>. QED
    BY <1>1, <1>2, HubIsTyped, PTL DEF Spec

\* The server asks for its worker and for its registration once at a time: the events
\* it may still be about to scan, those of its own pending transactions, failed rounds
\* and restarts that forget everything but the TxStore included.
THEOREM ServerRegistersOnce == Spec => []NoDuplicateRegistration
  <1>1. ASSUME Types, RegisteredInv PROVE NoDuplicateRegistration
    <2>1. ASSUME NEW a \in OnceOnly PROVE Cardinality(OnTheWay(a)) <= 1
      <3>1. CASE OnTheWay(a) = {}
        BY <3>1, FS_EmptySet
      <3>2. CASE OnTheWay(a) # {}
        <4>1. PICK i : OnTheWay(a) = {i}
          BY <1>1, <2>1, <3>2 DEF RegisteredInv, SentOnce
        <4>2. Cardinality({i}) = 1
          BY FS_Singleton
        <4>. QED
          BY <4>1, <4>2
      <3>. QED
        BY <3>1, <3>2
    <2>2. workerToManager[Worker] # Hub!NoEntry => OnTheWay("ADD_WORKER") = {}
      BY <1>1 DEF RegisteredInv, SentOnce
    <2>. QED
      BY <2>1, <2>2 DEF NoDuplicateRegistration, OnTheWay, OnceOnly
  <1>. QED
    BY <1>1, RegisteredInvariant, PTL

\* A server that answers a ping with "ready", which is all that registerRelay waits
\* for, has its worker on the hub and its registration in the hub's events, whatever
\* failed and however often it restarted before.
THEOREM ReadyServerIsRegistered == Spec => []ReadyIsRegistered
  <1>1. ASSUME Types, Clock, RegisteredInv PROVE ReadyIsRegistered
    <2>1. SUFFICES ASSUME IsReady
                   PROVE  /\ workerToManager[Worker] # Hub!NoEntry
                          /\ Events({"RelayServerRegistered"}, 1) # << >>
      BY DEF ReadyIsRegistered
    <2>2. PICK i \in DOMAIN log : log[i].event = "RelayServerRegistered"
      BY <1>1, <2>1 DEF IsReady, RegisteredInv, RegistrationInv, HasEvent
    <2>3. PICK E : E = Events({"RelayServerRegistered"}, 1)
      OBVIOUS
    <2>4. log[i].block >= 1 /\ log \in Seq(Entry)
      BY <1>1, LogFacts DEF Clock, Types, ChainTypes
    <2>5. E # << >>
      BY <2>2, <2>3, <2>4, EventsFacts
    <2>. QED
      BY <1>1, <2>2, <2>3, <2>5 DEF RegisteredInv, WorkerInv, HasEvent
  <1>. QED
    BY <1>1, RegisteredInvariant, PTL

-----------------------------------------------------------------------------
(* RBTC goes back to the owner for a reason                                *)

UnlockedAt(w) ==
    \E i \in DOMAIN log : log[i].event = "StakeUnlocked" /\ log[i].withdrawBlock = w

\* What delayedEvents holds are unlocks that are on the chain; what a round pays is
\* paid for a withdrawal, or from the worker for an unlock that is due.
PayoutInv ==
    /\ \A k \in DOMAIN reg.delayed : UnlockedAt(reg.delayed[k])
    /\ round.pc = "pay" =>
          /\ round.pay # << >>
          /\ round.due => /\ \A k \in DOMAIN round.pay : round.pay[k] = Worker
                          /\ \E w \in Nat : UnlockedAt(w) /\ w <= round.block
          /\ ~round.due => HasEvent("StakeWithdrawn")

LEMMA EnvPayouts ==
  ASSUME Types, PayoutInv, EnvStep
  PROVE  PayoutInv'
  <1>1. UNCHANGED <<reg, round>> /\ log \in Seq(Entry)
    BY DEF EnvStep, serverVars, Types, ChainTypes
  <1>2. \A i \in DOMAIN log : i \in DOMAIN log' /\ log'[i] = log[i]
    <2>1. CASE log' = log
      BY <2>1
    <2>2. CASE \E e \in Entry : log' = Append(log, e)
      BY <1>1, <2>2, AppendFacts
    <2>. QED
      BY <2>1, <2>2 DEF EnvStep
  <1>3. /\ \A e : HasEvent(e) => HasEvent(e)'
        /\ \A w : UnlockedAt(w) => UnlockedAt(w)'
    BY <1>2 DEF HasEvent, UnlockedAt
  <1>. QED
    BY <1>1, <1>3 DEF PayoutInv

LEMMA ServerPayouts ==
  ASSUME Types, Hub!TypeOK, Clock, Course, PayoutInv, Server
  PROVE  PayoutInv'
  <1>0. /\ log' = log /\ srv \in Servers /\ round \in Rounds /\ reg \in Managers
        /\ log \in Seq(Entry)
    BY ServerReads DEF Types, SrvTypes, RoundTypes, RegTypes, ChainTypes
  <1>1. /\ \A e : HasEvent(e)' <=> HasEvent(e)
        /\ \A w : UnlockedAt(w)' <=> UnlockedAt(w)
    BY <1>0 DEF HasEvent, UnlockedAt
  <1>2. ASSUME reg'.delayed = reg.delayed, round'.pc # "pay"
        PROVE  PayoutInv'
    BY <1>1, <1>2 DEF PayoutInv
  <1>3. CASE Quiet
    BY <1>1, <1>3 DEF Quiet, Apart, SameReg, PayoutInv
  <1>4. CASE Abort
    BY <1>2, <1>4 DEF Abort, Apart, SameReg, NoScan
  <1>5. CASE Begin
    <2>1. round'.pc \in {"balance", "hubEvents"}
      BY <1>0, <1>5 DEF Begin, NoScan, Rounds
    <2>. QED
      BY <1>2, <1>5, <2>1 DEF Begin, Apart, SameReg
  <1>6. CASE Initialize
    <2>1. reg'.delayed = reg.delayed /\ round' = round
      BY <1>0, <1>6 DEF Initialize, RegistrationInit, Managers
    <2>. QED
      BY <1>1, <2>1 DEF PayoutInv
  <1>7. CASE FetchHubEvents
    BY <1>0, <1>2, <1>7 DEF FetchHubEvents, Rounds
  <1>8. CASE EndScan
    BY <1>2, <1>8, EndScanMoves DEF NoScan
  <1>9. CASE Crash
    <2>1. reg'.delayed = << >> /\ round'.pc = "idle"
      BY <1>9 DEF Crash, Restart, NewRegistrationManager, NoScan
    <2>. QED
      BY <2>1 DEF PayoutInv
  <1>10. CASE FetchStakeEvents(srv.scanned)
    BY <1>0, <1>2, <1>10 DEF FetchStakeEvents, Rounds
  <1>11. CASE AddRelayWorker \/ RegisterServer
    <2>1. reg' = reg /\ round'.pc # "pay"
      BY <1>0, <1>11 DEF AddRelayWorker, RegisterServer, Rounds
    <2>. QED
      BY <1>2, <2>1
  <1>12. CASE HandleStakeEvent
    <2>1. PICK i \in DOMAIN log : i = Head(round.todo)
      BY <1>0, <1>12 DEF HandleStakeEvent, Rounds
    <2>2. PICK e : e = log[i]
      OBVIOUS
    <2>3. reg'.delayed = IF e.event = "StakeUnlocked" THEN Append(reg.delayed, e.withdrawBlock)
                                                      ELSE reg.delayed
      BY <1>0, <1>12, <2>1, <2>2, RefreshStakeType DEF HandleStakeEvent, Managers
    <2>4. \A k \in DOMAIN reg'.delayed : UnlockedAt(reg'.delayed[k])
      <3>1. CASE e.event = "StakeUnlocked"
        <4>1. PICK q, w : q = reg.delayed /\ w = e.withdrawBlock
          OBVIOUS
        <4>2. q \in Seq(Nat) /\ w \in Nat
          BY <1>0, <2>2, <3>1, <4>1, LogFacts DEF Managers
        <4>3. \A k \in DOMAIN Append(q, w) :
                 Append(q, w)[k] = w \/ (k \in DOMAIN q /\ Append(q, w)[k] = q[k])
          BY <4>2
        <4>4. UnlockedAt(w)
          BY <2>2, <3>1, <4>1 DEF UnlockedAt
        <4>5. \A k \in DOMAIN q : UnlockedAt(q[k])
          BY <4>1 DEF PayoutInv
        <4>. QED
          BY <2>3, <3>1, <4>1, <4>3, <4>4, <4>5
      <3>2. CASE e.event # "StakeUnlocked"
        BY <2>3, <3>2 DEF PayoutInv
      <3>. QED
        BY <3>1, <3>2
    <2>5. round'.pc = "pay" =>
             round'.pay # << >> /\ ~round'.due /\ HasEvent("StakeWithdrawn")
      <3>1. ~round.due
        BY <1>12 DEF HandleStakeEvent, Course
      <3>2. /\ round'.due = round.due
            /\ round'.pc = IF e.event = "StakeWithdrawn" THEN "pay" ELSE "stake"
            /\ round'.pay = IF e.event = "StakeWithdrawn" THEN <<Worker, Manager>> ELSE << >>
        BY <1>0, <1>12, <2>1, <2>2 DEF HandleStakeEvent, Rounds
      <3>. QED
        BY <2>2, <3>1, <3>2 DEF HasEvent
    <2>. QED
      BY <1>1, <2>4, <2>5 DEF PayoutInv
  <1>13. CASE ExtractDuePendingEvents
    <2>1. PICK q, V : q = reg.delayed /\ V = ToSet(reg.delayed) \ Due
      OBVIOUS
    <2>2. q \in Seq(Nat) /\ \A k \in DOMAIN q : UnlockedAt(q[k])
      BY <1>0, <2>1 DEF Managers, PayoutInv
    <2>3. reg'.delayed = Keep(q, V)
      BY <1>0, <1>13, <2>1 DEF ExtractDuePendingEvents, Managers
    <2>4. PICK d, D : d = Keep(q, Due) /\ D = Keep(q, V)
      OBVIOUS
    <2>5. /\ d \in Seq(Nat) /\ D \in Seq(Nat)
          /\ \A k \in 1..Len(D) : \E j \in 1..Len(q) : q[j] = D[k]
          /\ \A k \in 1..Len(d) : d[k] \in Due /\ \E j \in 1..Len(q) : q[j] = d[k]
      <3>1. D \in Seq(Nat) /\ \A k \in 1..Len(D) : \E j \in 1..Len(q) : q[j] = D[k]
        BY <2>2, <2>4, KeepFacts
      <3>2. PICK W : W = Due
        OBVIOUS
      <3>3. d = Keep(q, W)
        BY <2>4, <3>2
      <3>4. /\ d \in Seq(Nat)
            /\ \A k \in 1..Len(d) : d[k] \in W /\ \E j \in 1..Len(q) : q[j] = d[k]
        BY <2>2, <3>3, KeepFacts
      <3>. QED
        BY <3>1, <3>2, <3>4
    <2>6. \A k \in DOMAIN D : UnlockedAt(D[k])
      <3>1. DOMAIN D = 1..Len(D) /\ DOMAIN q = 1..Len(q)
        BY <2>2, <2>5
      <3>. QED
        BY <2>2, <2>5, <3>1
    <2>7. /\ round'.pc = IF d = << >> THEN "addWorker" ELSE "pay"
          /\ round'.pay = [i \in DOMAIN d |-> Worker] /\ round'.due
          /\ round'.block = round.block
      BY <1>0, <1>13, <2>1, <2>4 DEF ExtractDuePendingEvents, Rounds
    <2>8. ASSUME d # << >>
          PROVE  /\ [i \in DOMAIN d |-> Worker] # << >>
                 /\ \E w \in Nat : UnlockedAt(w) /\ w <= round.block
      <3>1. 1 \in DOMAIN d /\ d[1] \in Nat /\ d[1] \in Due
        BY <2>5, <2>8
      <3>2. UnlockedAt(d[1])
        BY <2>2, <2>5, <3>1
      <3>3. d[1] <= round.block
        BY <3>1 DEF Due, IsDue
      <3>. QED
        BY <3>1, <3>2, <3>3
    <2>9. round'.pc = "pay" =>
            /\ round'.pay # << >>
            /\ \A k \in DOMAIN round'.pay : round'.pay[k] = Worker
            /\ \E w \in Nat : UnlockedAt(w) /\ w <= round'.block
      BY <2>7, <2>8
    <2>. QED
      BY <1>1, <2>3, <2>4, <2>6, <2>7, <2>9 DEF PayoutInv
  <1>14. CASE PayOwner
    <2>1. PICK q \in Seq(Signer) : q = round.pay /\ q # << >> /\ round.pc = "pay"
      BY <1>0, <1>14 DEF PayOwner, Rounds, PayoutInv
    <2>2. /\ reg' = reg /\ round'.due = round.due /\ round'.block = round.block
          /\ round'.pay = Tail(q)
          /\ round'.pc = "pay" => Len(q) > 1
      BY <1>0, <1>14, <2>1 DEF PayOwner, Rounds
    <2>3. /\ Len(q) > 1 => Tail(q) # << >>
          /\ \A k \in DOMAIN Tail(q) : k + 1 \in DOMAIN q /\ Tail(q)[k] = q[k + 1]
      <3>1. PICK n \in Nat : n = Len(q) /\ DOMAIN q = 1..n /\ n # 0
        BY <2>1
      <3>2. PICK u : u = Tail(q)
        OBVIOUS
      <3>3. /\ Len(u) = n - 1 /\ DOMAIN u = 1..n - 1
            /\ \A k \in 1..n - 1 : u[k] = q[k + 1]
        BY <2>1, <3>1, <3>2
      <3>4. Len(<< >>) = 0
        OBVIOUS
      <3>. QED
        BY <3>1, <3>2, <3>3, <3>4
    <2>. QED
      BY <1>1, <2>1, <2>2, <2>3 DEF PayoutInv
  <1>. QED
    BY <1>3, <1>4, <1>5, <1>6, <1>7, <1>8, <1>9, <1>10, <1>11, <1>12, <1>13, <1>14, ServerMoves
       DEF Registration

LEMMA PayoutInvariant == Spec => []PayoutInv
  <1>1. Init => PayoutInv
    BY DEF Init, NewRegistrationManager, NoScan, PayoutInv
  <1>2. ASSUME Types, Hub!TypeOK, Clock, Course, PayoutInv, [Next]_vars
        PROVE  PayoutInv'
    <2>1. CASE Chain \/ OwnerScript
      BY <1>2, <2>1, ChainStepTypes, ScriptTypes, EnvPayouts DEF Types
    <2>2. CASE Server
      BY <1>2, <2>2, ServerPayouts
    <2>3. CASE UNCHANGED vars
      BY <1>2, <2>3 DEF vars, chainVars, serverVars, PayoutInv, UnlockedAt, HasEvent
    <2>. QED
      BY <1>2, <2>1, <2>2, <2>3 DEF Next
  <1>. QED
    BY <1>1, <1>2, RegisteredInvariant, PTL DEF Spec

\* The transactions that a step of the server sends.
LEMMA ServerSent ==
  ASSUME Server, txs' # txs
  PROVE  \/ /\ requests' = requests
            /\ \/ /\ round.pc = "pay" /\ balance[Head(round.pay)] # 0
                  /\ Send(Head(round.pay), Payout(Head(round.pay)))
               \/ Send(Manager, Tx("ADD_WORKER", HubItself, 0))
               \/ Send(Manager, Tx("REGISTER_SERVER", HubItself, 0))
               \/ \E p \in Replenisher : SendRefill(p)
         \/ \E r \in Request : Relay(r)
  <1>. USE DEF chainVars
  <1>1. CASE RoundStep
    <2>1. CASE Registration
      <3>1. CASE PayOwner
        BY <2>1, <3>1 DEF Registration, PayOwner
      <3>2. CASE AddRelayWorker \/ RegisterServer
        BY <2>1, <3>2 DEF Registration, AddRelayWorker, RegisterServer
      <3>3. CASE FetchStakeEvents(srv.scanned) \/ HandleStakeEvent \/ ExtractDuePendingEvents
        BY <3>3 DEF FetchStakeEvents, HandleStakeEvent, ExtractDuePendingEvents
      <3>. QED
        BY <2>1, <3>1, <3>2, <3>3 DEF Registration
    <2>2. CASE ~Registration
      BY <1>1, <2>2 DEF RoundStep, Initialize, StartRound, RefreshBalance, FetchHubEvents,
                        EndScan, EndRound
    <2>. QED
      BY <2>1, <2>2
  <1>2. ASSUME NEW p \in Replenisher, ReplenishStep(p)
        PROVE  requests' = requests /\ SendRefill(p)
    BY <1>2 DEF ReplenishStep, ReadBalances, Decide, SendRefill
  <1>3. ASSUME NEW r \in Request, RequestStep(r)
        PROVE  Relay(r)
    BY <1>3 DEF RequestStep, Accept, Validate
  <1>4. CASE RoundFails \/ Timeout \/ Crash
    <2>1. CASE RoundFails
      BY <2>1 DEF RoundFails, PayoutRefused
    <2>2. CASE Timeout \/ Crash
      BY <2>2 DEF Timeout, Crash, Restart
    <2>. QED
      BY <1>4, <2>1, <2>2
  <1>. QED
    BY <1>1, <1>2, <1>3, <1>4 DEF Server

\* A transfer that goes to the owner is what a round pays.
LEMMA OnlyPayouts ==
  ASSUME Types, Hub!TypeOK, [Next]_vars, NEW s \in Signer, txs'[s] # txs[s],
         txs'[s][Len(txs'[s])].action = "VALUE_TRANSFER", txs'[s][Len(txs'[s])].to # Worker
  PROVE  round.pc = "pay" /\ s = Head(round.pay)
  <1>0. ChainTypes
    BY DEF Types
  <1>1. Server
    <2>1. txs' # txs
      OBVIOUS
    <2>2. EnvStep => txs' = txs
      BY DEF EnvStep
    <2>3. UNCHANGED vars => txs' = txs
      BY DEF vars, chainVars
    <2>. QED
      BY <1>0, <2>1, <2>2, <2>3, ChainStepTypes, ScriptTypes DEF Next
  <1>2. ASSUME NEW r \in Signer, NEW t \in Transaction, Send(r, t)
        PROVE  r = s /\ t.action = "VALUE_TRANSFER" /\ t.to # Worker
    <2>1. r = s
      BY <1>0, <1>2, SendFacts
    <2>2. txs'[s][Len(txs'[s])] = t
      BY <1>0, <1>2, <2>1, SendFacts
    <2>. QED
      BY <2>1, <2>2
  <1>3. Manager \in Signer /\ Worker \in Signer /\ txs' # txs
    BY DEF Signer
  <1>4. ASSUME NEW a, round.pc = "pay", a = Head(round.pay), Send(a, Payout(a))
        PROVE  round.pc = "pay" /\ s = Head(round.pay)
    <2>1. a \in Signer
      BY <1>0, <1>3, <1>4 DEF Send, ChainTypes
    <2>. QED
      BY <1>2, <1>4, <2>1, PayoutType
  <1>5. /\ ~Send(Manager, Tx("ADD_WORKER", HubItself, 0))
        /\ ~Send(Manager, Tx("REGISTER_SERVER", HubItself, 0))
    <2>1. /\ Tx("ADD_WORKER", HubItself, 0).action = "ADD_WORKER"
          /\ Tx("REGISTER_SERVER", HubItself, 0).action = "REGISTER_SERVER"
      BY DEF Tx
    <2>. QED
      BY <1>2, <1>3, <2>1, RegistrationTxs
  <1>6. ASSUME NEW p \in Replenisher, SendRefill(p)
        PROVE  FALSE
    BY <1>2, <1>3, <1>6, RefillType DEF SendRefill
  <1>7. ASSUME NEW r \in Request, Relay(r) PROVE FALSE
    <2>1. RelayTx \in Transaction /\ RelayTx.action = "RELAY_CALL"
      BY RegistrationTxs DEF RelayTx, Tx
    <2>. QED
      BY <1>2, <1>3, <1>7, <2>1 DEF Relay
  <1>. QED
    BY <1>1, <1>3, <1>4, <1>5, <1>6, <1>7, ServerSent

\* withdrawAllFunds of the manager, or of the worker for an unlock whose delay has not
\* passed, is never called without a reason on the chain: not after a restart, nor by a
\* round that was slow, nor for an unlock that was scheduled and is handled later.
THEOREM PayoutsAreJustified == Spec => PayoutJustified
  <1>1. ASSUME Types, Hub!TypeOK, Clock, PayoutInv, [Next]_vars, NEW s \in Signer,
               txs'[s] # txs[s], txs'[s][Len(txs'[s])].action = "VALUE_TRANSFER",
               txs'[s][Len(txs'[s])].to # Worker
        PROVE  \E i \in DOMAIN log :
                \/ log[i].event = "StakeWithdrawn"
                \/ /\ s = Worker
                   /\ log[i].event = "StakeUnlocked"
                   /\ log[i].withdrawBlock <= block
    <2>1. round.pc = "pay" /\ s = Head(round.pay) /\ round.pay # << >>
      BY <1>1, OnlyPayouts DEF PayoutInv
    <2>2. CASE ~round.due
      BY <1>1, <2>1, <2>2 DEF PayoutInv, HasEvent
    <2>3. CASE round.due
      <3>1. PICK w \in Nat : UnlockedAt(w) /\ w <= round.block
        BY <1>1, <2>1, <2>3 DEF PayoutInv
      <3>2. s = Worker
        <4>1. PICK q \in Seq(Signer) : q = round.pay
          BY <1>1 DEF Types, RoundTypes, Rounds
        <4>2. Head(q) = q[1] /\ 1 \in DOMAIN q
          BY <2>1, <4>1
        <4>. QED
          BY <1>1, <2>1, <2>3, <4>1, <4>2 DEF PayoutInv
      <3>3. w <= block
        <4>1. round.block \in Nat /\ block \in Nat /\ round.block <= block
          BY <1>1, HubFacts DEF Types, RoundTypes, Rounds, Clock
        <4>. QED
          BY <3>1, <4>1
      <3>. QED
        BY <3>1, <3>2, <3>3 DEF UnlockedAt
    <2>. QED
      BY <2>2, <2>3
  <1>. DEFINE Justified ==
         \A s \in Signer :
           LET t == txs'[s][Len(txs'[s])]
           IN  txs'[s] # txs[s] /\ t.action = "VALUE_TRANSFER" /\ t.to # Worker =>
             \E i \in DOMAIN log :
                \/ log[i].event = "StakeWithdrawn"
                \/ /\ s = Worker
                   /\ log[i].event = "StakeUnlocked"
                   /\ log[i].withdrawBlock <= block
  <1>2. Types /\ Hub!TypeOK /\ Clock /\ PayoutInv /\ [Next]_vars => [Justified]_vars
    BY <1>1
  <1>3. PayoutJustified <=> [][Justified]_vars
    BY DEF PayoutJustified
  <1>. HIDE DEF Justified
  <1>. QED
    BY <1>2, <1>3, RegisteredInvariant, PayoutInvariant, PTL DEF Spec


-----------------------------------------------------------------------------
(* A server that is ready was alerted for every rejection                  *)

Staked(i) == log[i].event = "StakeAdded"

\* The stake is not what the server needs, until more is staked.
Gone ==
    \/ stakes[Manager].stake = 0
    \/ stakes[Manager].withdrawBlock # 0
    \/ stakes[Manager].stake < ManagerMinStake

\* The server believes that it is staked.
Locked == StakeOk /\ reg.locked

\* There was a stake, and none after block b.
LastStakeBy(b) == HasEvent("StakeAdded") /\ \A j \in DOMAIN log : Staked(j) => log[j].block <= b

\* Once the last stake event is scanned, or handled in this round, the server is wrong
\* about its stake only when the stake is gone.
StakeInv ==
    /\ workerToManager[Worker] \in {Hub!NoEntry, Hub!EnabledWorker(Manager)}
    /\ stakes[Manager].stake > 0 => HasEvent("StakeAdded")
    /\ LastStakeBy(srv.scanned) => Locked \/ Gone
    /\ round.pc \in Fetched \ {"stakeEvents"} /\ LastStakeBy(round.block) =>
          Locked \/ Gone \/ \E i \in DOMAIN log : Staked(i) /\ i \in ToSet(round.todo)

\* No call is relayed, or on its way, before the registration is in the log.
RequestInv ==
    /\ \A r \in Request : requests[r] \in {"accepted", "valid"} => HasEvent("RelayServerRegistered")
    /\ \A s \in Signer : \A i \in 1..Len(txs[s]) :
          txs[s][i].action = "RELAY_CALL" => HasEvent("RelayServerRegistered")

\* A rejection comes after a stake and the registration.  One that was scanned without
\* an alert, and after which nothing was staked, finds the stake gone and the server
\* aware of it.
AlertInv ==
    /\ \A i \in DOMAIN log :
          log[i].event = "RelayServerRegistered" /\ srv.initialized /\ ~reg.registered =>
             NotMissed(i)
    /\ \A i \in DOMAIN log : log[i].event = RejectedEvent =>
          /\ round.pc \in Fetched /\ srv.scanned < log[i].block /\ log[i].block <= round.block =>
                i \in ToSet(round.hub)
          /\ HasEvent("StakeAdded")
          /\ \E j \in DOMAIN log :
                log[j].event = "RelayServerRegistered" /\ log[j].block <= log[i].block
          /\ log[i].block <= srv.scanned /\ i \notin hist.alerts /\ LastStakeBy(log[i].block) =>
                Gone /\ ~Locked /\ ~srv.ready /\ round.pc # "replenish"

\* What the chain and the owner do to the stake.
LEMMA StakeMoves ==
  ASSUME Types, Hub!TypeOK, Chain \/ OwnerScript
  PROVE  \/ /\ workerToManager' = workerToManager
            /\ \E x \in Entry : log' = Append(log, x) /\ x.event = "StakeAdded"
         \/ /\ stakes'[Manager].stake > 0 => stakes[Manager].stake > 0
            /\ Gone => Gone'
            /\ workerToManager'[Worker] \in {workerToManager[Worker], Hub!EnabledWorker(Manager)}
            /\ \/ log' = log
               \/ \E x \in Entry :
                     /\ log' = Append(log, x) /\ x.event # "StakeAdded"
                     /\ x.event = RejectedEvent =>
                           /\ Hub!RelayAllowed(Worker)
                           /\ \E s \in Signer : \E i \in 1..Len(txs[s]) :
                                 txs[s][i].action = "RELAY_CALL"
  <1>0. /\ ChainTypes /\ stakes[Manager].stake \in Nat /\ stakes[Manager].withdrawBlock \in Nat
        /\ ManagerMinStake \in Nat /\ block \in Nat /\ block # 0
    BY HubFacts, ServerAssumption DEF Types, ChainTypes
  <1>1. CASE Chain
    <2>2. CASE MineBlock \/ SealBlock
      BY <2>2 DEF MineBlock, SealBlock, Hub!MineBlock, hubVars, Gone
    <2>3. CASE Unlock \/ Withdraw \/ Penalize
      <3>1. PICK e \in Entry : log' = Append(log, e) /\ e.event # "StakeAdded" /\ e.event # RejectedEvent
        BY <1>0, <2>3, OwnersTx DEF RejectedEvent
      <3>2. workerToManager' = workerToManager
        BY <2>3 DEF Unlock, Withdraw, Penalize, Hub!UnlockStake, Hub!WithdrawStake, Hub!Penalize
      <3>3. /\ stakes'[Manager].stake > 0 => stakes[Manager].stake > 0
            /\ Gone => Gone'
        <4>0. stakes \in [{Manager, Worker, Owner} -> Hub!StakeInfo]
          BY DEF Hub!TypeOK
        <4>1. CASE Unlock
          <5>1. PICK n : n = block + stakes[Manager].unstakeDelay
            OBVIOUS
          <5>2. n \in Nat /\ n # 0
            BY <1>0, <4>0, <5>1 DEF Hub!StakeInfo
          <5>3. stakes'[Manager].stake = stakes[Manager].stake /\ stakes'[Manager].withdrawBlock = n
            BY <4>0, <4>1, <5>1 DEF Unlock, Hub!UnlockStake, Hub!StakeInfo
          <5>. QED
            BY <5>2, <5>3 DEF Gone
        <4>2. CASE Withdraw
          <5>1. stakes'[Manager].stake = 0
            BY <4>0, <4>2 DEF Withdraw, Hub!WithdrawStake, Hub!EmptyStake
          <5>. QED
            BY <5>1 DEF Gone
        <4>3. CASE Penalize
          <5>1. PICK m : stakes' = [stakes EXCEPT ![m].stake = 0]
            BY <4>3 DEF Penalize, Hub!Penalize
          <5>2. \/ stakes'[Manager] = stakes[Manager]
                \/ stakes'[Manager].stake = 0
            BY <4>0, <5>1 DEF Hub!StakeInfo
          <5>. QED
            BY <5>2 DEF Gone
        <4>. QED
          BY <2>3, <4>1, <4>2, <4>3
      <3>. QED
        BY <3>1, <3>2, <3>3
    <2>4. ASSUME NEW s \in Signer, Execute(s)
          PROVE  /\ stakes' = stakes
                 /\ workerToManager'[Worker] \in {workerToManager[Worker], Hub!EnabledWorker(Manager)}
                 /\ \/ log' = log
                    \/ \E x \in Entry :
                          /\ log' = Append(log, x) /\ x.event # "StakeAdded"
                          /\ x.event = RejectedEvent =>
                                /\ Hub!RelayAllowed(Worker)
                                /\ \E i \in 1..Len(txs[s]) : txs[s][i].action = "RELAY_CALL"
      <3>0. PICK i \in 1..Len(txs[s]) : i = mined[s] + 1
        BY <1>0, <2>4, ExecuteTypes, TxsFacts
      <3>1. PICK t : t = txs[s][i] /\ (Executes(t) \/ UNCHANGED <<hubVars, log>>)
        BY <2>4, <3>0 DEF Execute
      <3>2. CASE UNCHANGED <<hubVars, log>>
        BY <3>2 DEF hubVars
      <3>3. CASE t.action = "ADD_WORKER" /\ Executes(t)
        <4>1. Hub!AddRelayWorkers(Manager, <<Worker>>) /\ Emit("RelayWorkersAdded")
          BY <3>3 DEF Executes
        <4>2. Hub!Elements(<<Worker>>) = {Worker}
          BY DEF Hub!Elements
        <4>3. stakes' = stakes /\ workerToManager'[Worker] = Hub!EnabledWorker(Manager)
          BY <4>1, <4>2 DEF Hub!AddRelayWorkers
        <4>4. \E x \in Entry : log' = Append(log, x) /\ x.event = "RelayWorkersAdded"
          BY <1>0, <4>1, EmitFacts DEF OtherEvents, ActiveManagerEvents
        <4>. QED
          BY <4>3, <4>4 DEF RejectedEvent
      <3>4. CASE t.action = "REGISTER_SERVER" /\ Executes(t)
        <4>1. UNCHANGED <<stakes, workerToManager>> /\ Emit("RelayServerRegistered")
          BY <3>4 DEF Executes, Hub!RegisterRelayServer
        <4>2. \E x \in Entry : log' = Append(log, x) /\ x.event = "RelayServerRegistered"
          BY <1>0, <4>1, EmitFacts DEF OtherEvents, ActiveManagerEvents
        <4>. QED
          BY <4>1, <4>2 DEF RejectedEvent
      <3>5. CASE t.action = "RELAY_CALL" /\ Executes(t)
        <4>1. PICK e \in {"TransactionRelayed", RejectedEvent} : Emit(e)
          BY <3>5 DEF Executes, RejectedEvent
        <4>2. UNCHANGED <<stakes, workerToManager>> /\ Hub!RelayAllowed(Worker)
          BY <3>5 DEF Executes, Hub!RelayCall
        <4>3. \E x \in Entry : log' = Append(log, x) /\ x.event = e
          BY <1>0, <4>1, EmitFacts DEF OtherEvents, ActiveManagerEvents
        <4>. QED
          BY <3>1, <3>5, <4>1, <4>2, <4>3 DEF RejectedEvent
      <3>6. CASE t.action = "VALUE_TRANSFER" /\ Executes(t)
        BY <3>6 DEF Executes, hubVars
      <3>. QED
        BY <3>1, <3>2, <3>3, <3>4, <3>5, <3>6 DEF Executes
    <2>5. CASE \E s \in Signer : Execute(s)
      BY <2>4, <2>5 DEF Gone
    <2>. QED
      BY <1>1, <2>2, <2>3, <2>5 DEF Chain, ChainNext
  <1>2. CASE OwnerScript /\ Stake
    <2>1. Emit("StakeAdded") /\ workerToManager' = workerToManager
      BY <1>2 DEF Stake, Hub!StakeForAddress
    <2>2. \E x \in Entry : log' = Append(log, x) /\ x.event = "StakeAdded"
      BY <1>0, <2>1, EmitFacts DEF OtherEvents
    <2>. QED
      BY <2>1, <2>2
  <1>3. CASE OwnerScript /\ ~Stake
    BY <1>3 DEF OwnerScript, RegisterRelay, StartRegisterRelay, ReadStakeInfo,
       ReadManagerBalance, Fund, RelayIsReady, RegisterRelayFails, chainVars, hubVars, Gone
  <1>. QED
    BY <1>1, <1>2, <1>3


\* The log grows at its end, by events later than any scan.
LEMMA EnvLog ==
  ASSUME Types, Hub!TypeOK, Clock, EnvStep
  PROVE  /\ \A i \in DOMAIN log : i \in DOMAIN log' /\ log'[i] = log[i]
         /\ \A i \in DOMAIN log' : i \notin DOMAIN log =>
               /\ log' = Append(log, log'[i])
               /\ log'[i].block = block /\ srv.scanned < block /\ round.block < block
         /\ \A e : HasEvent(e) => HasEvent(e)'
  <1>1. log \in Seq(Entry)
    BY DEF Types, ChainTypes
  <1>2. CASE log' = log
    BY <1>2 DEF HasEvent
  <1>3. CASE log' # log
    <2>1. PICK e \in Entry : log' = Append(log, e) /\ e.block = block /\ phase # "sealed"
      BY <1>3 DEF EnvStep
    <2>2. srv.scanned < block /\ round.block < block
      BY <2>1 DEF Clock
    <2>. QED
      BY <1>1, <2>1, <2>2, AppendFacts DEF HasEvent
  <1>. QED
    BY <1>2, <1>3

LEMMA EnvAlerts ==
  ASSUME Types, Hub!TypeOK, Clock, Course, RegisteredInv, StakeInv, RequestInv, AlertInv,
         Chain \/ OwnerScript
  PROVE  StakeInv' /\ RequestInv' /\ AlertInv'
  <1>0. EnvStep
    BY ChainStepTypes, ScriptTypes DEF Types
  <1>1. UNCHANGED <<srv, round, reg, requests, txs>> /\ hist'.alerts = hist.alerts
    BY <1>0, EnvHistory DEF EnvStep, serverVars
  <1>2. /\ srv.scanned \in Nat /\ round.block \in Nat /\ block \in Nat
        /\ log \in Seq(Entry) /\ \A i \in DOMAIN log : log[i].block \in Nat
    BY HubFacts, LogFacts DEF Types, ChainTypes, SrvTypes, Servers, RoundTypes, Rounds
  <1>3. /\ \A i \in DOMAIN log : i \in DOMAIN log' /\ log'[i] = log[i]
        /\ \A i \in DOMAIN log' : i \notin DOMAIN log =>
               /\ log' = Append(log, log'[i])
               /\ log'[i].block = block /\ srv.scanned < block /\ round.block < block
        /\ \A e : HasEvent(e) => HasEvent(e)'
    BY <1>0, EnvLog
  <1>4. (Locked' <=> Locked) /\ \A i \in DOMAIN log : NotMissed(i) => NotMissed(i)'
    BY <1>1, <1>3 DEF Locked, StakeOk, NotMissed
  <1>5. RequestInv'
    BY <1>1, <1>3 DEF RequestInv
  <1>6. \A i \in DOMAIN log' :
          log'[i].event = "RelayServerRegistered" /\ srv'.initialized /\ ~reg'.registered =>
             NotMissed(i)'
    <2>. SUFFICES ASSUME NEW i \in DOMAIN log', i \notin DOMAIN log
                  PROVE  NotMissed(i)'
      BY <1>1, <1>3, <1>4 DEF AlertInv
    <2>. QED
      BY <1>1, <1>3 DEF NotMissed
  <1>7. CASE /\ workerToManager' = workerToManager
             /\ \E x \in Entry : log' = Append(log, x) /\ x.event = "StakeAdded"
    <2>1. PICK n \in DOMAIN log' : n \notin DOMAIN log /\ log'[n].event = "StakeAdded"
      BY <1>2, <1>7, AppendFacts
    <2>2. /\ \A i \in DOMAIN log' : i \notin DOMAIN log => log'[i].event = "StakeAdded"
          /\ HasEvent("StakeAdded")' /\ Staked(n)' /\ log'[n].block = block
          /\ srv.scanned < block /\ round.block < block
      BY <1>2, <1>3, <1>7, <2>1, AppendFacts DEF HasEvent, Staked
    <2>3. ASSUME NEW b \in Nat, b < block
          PROVE  ~LastStakeBy(b)'
      BY <1>2, <2>1, <2>2, <2>3 DEF LastStakeBy
    <2>4. ~LastStakeBy(srv.scanned)' /\ ~LastStakeBy(round.block)'
      <3>. PICK b \in Nat, c \in Nat : b = srv.scanned /\ c = round.block
        BY <1>2
      <3>1. ~LastStakeBy(b)' /\ ~LastStakeBy(c)'
        BY <2>2, <2>3
      <3>2. srv'.scanned = b /\ round'.block = c
        BY <1>1
      <3>. QED
        BY <3>1, <3>2 DEF LastStakeBy
    <2>5. StakeInv'
      BY <1>1, <1>7, <2>2, <2>4 DEF StakeInv
    <2>6. ASSUME NEW i \in DOMAIN log', log'[i].event = RejectedEvent
          PROVE  /\ round'.pc \in Fetched /\ srv'.scanned < log'[i].block
                       /\ log'[i].block <= round'.block => i \in ToSet(round'.hub)
                 /\ HasEvent("StakeAdded")'
                 /\ \E j \in DOMAIN log' :
                       log'[j].event = "RelayServerRegistered" /\ log'[j].block <= log'[i].block
                 /\ ~(log'[i].block <= srv'.scanned /\ LastStakeBy(log[i].block)')
      <3>1. i \in DOMAIN log /\ log[i].event = RejectedEvent /\ log'[i] = log[i]
        BY <1>3, <2>2, <2>6 DEF RejectedEvent
      <3>2. /\ round.pc \in Fetched /\ srv.scanned < log[i].block
                  /\ log[i].block <= round.block => i \in ToSet(round.hub)
            /\ \E j \in DOMAIN log :
                  log[j].event = "RelayServerRegistered" /\ log[j].block <= log[i].block
        BY <3>1 DEF AlertInv
      <3>3. ASSUME log[i].block <= srv.scanned
            PROVE  ~LastStakeBy(log[i].block)'
        <4>. PICK b \in Nat : b = log[i].block
          BY <1>2, <3>1
        <4>1. b < block
          BY <1>2, <2>2, <3>3
        <4>2. ~LastStakeBy(b)'
          BY <2>3, <4>1
        <4>. QED
          BY <3>1, <4>2 DEF LastStakeBy
      <3>. QED
        BY <1>1, <1>3, <2>2, <3>1, <3>2, <3>3
    <2>. QED
      BY <1>5, <1>6, <2>5, <2>6 DEF AlertInv
  <1>8. CASE /\ stakes'[Manager].stake > 0 => stakes[Manager].stake > 0
             /\ Gone => Gone'
             /\ workerToManager'[Worker] \in {workerToManager[Worker], Hub!EnabledWorker(Manager)}
             /\ \/ log' = log
                \/ \E x \in Entry :
                     /\ log' = Append(log, x) /\ x.event # "StakeAdded"
                     /\ x.event = RejectedEvent =>
                           /\ Hub!RelayAllowed(Worker)
                           /\ \E s \in Signer : \E i \in 1..Len(txs[s]) :
                                 txs[s][i].action = "RELAY_CALL"
    <2>1. \A i \in DOMAIN log' : i \notin DOMAIN log =>
             /\ log'[i].event # "StakeAdded"
             /\ log'[i].event = RejectedEvent =>
                   /\ Hub!RelayAllowed(Worker)
                   /\ \E s \in Signer : \E j \in 1..Len(txs[s]) : txs[s][j].action = "RELAY_CALL"
      BY <1>2, <1>8, AppendFacts
    <2>2. HasEvent("StakeAdded")' <=> HasEvent("StakeAdded")
      BY <1>3, <2>1 DEF HasEvent
    <2>3. ASSUME NEW b
          PROVE  LastStakeBy(b)' => LastStakeBy(b)
      BY <1>3, <2>2 DEF LastStakeBy, Staked
    <2>4. StakeInv'
      <3>1. LastStakeBy(srv.scanned)' => LastStakeBy(srv.scanned)
        <4>. PICK b : b = srv.scanned
          OBVIOUS
        <4>. QED
          BY <1>1, <2>3 DEF LastStakeBy
      <3>2. LastStakeBy(round.block)' => LastStakeBy(round.block)
        <4>. PICK b : b = round.block
          OBVIOUS
        <4>. QED
          BY <1>1, <2>3 DEF LastStakeBy
      <3>3. \A i \in DOMAIN log : Staked(i) => i \in DOMAIN log' /\ Staked(i)'
        BY <1>3 DEF Staked
      <3>. QED
        BY <1>1, <1>4, <1>8, <2>2, <3>1, <3>2, <3>3 DEF StakeInv
    <2>5. ASSUME NEW i \in DOMAIN log', log'[i].event = RejectedEvent
          PROVE  /\ round'.pc \in Fetched /\ srv'.scanned < log'[i].block
                       /\ log'[i].block <= round'.block => i \in ToSet(round'.hub)
                 /\ HasEvent("StakeAdded")'
                 /\ \E j \in DOMAIN log' :
                       log'[j].event = "RelayServerRegistered" /\ log'[j].block <= log'[i].block
                 /\ log'[i].block <= srv'.scanned /\ i \notin hist'.alerts
                       /\ LastStakeBy(log[i].block)' =>
                       Gone' /\ ~Locked' /\ ~srv'.ready /\ round'.pc # "replenish"
      <3>1. CASE i \in DOMAIN log
        <4>1. log'[i] = log[i] /\ log[i].event = RejectedEvent
          BY <1>3, <2>5, <3>1
        <4>2. LastStakeBy(log[i].block)' => LastStakeBy(log[i].block)
          <5>. PICK b : b = log[i].block
            OBVIOUS
          <5>. QED
            BY <4>1, <2>3 DEF LastStakeBy
        <4>3. /\ round.pc \in Fetched /\ srv.scanned < log[i].block
                    /\ log[i].block <= round.block => i \in ToSet(round.hub)
              /\ HasEvent("StakeAdded")
              /\ \E j \in DOMAIN log :
                    log[j].event = "RelayServerRegistered" /\ log[j].block <= log[i].block
              /\ log[i].block <= srv.scanned /\ i \notin hist.alerts /\ LastStakeBy(log[i].block) =>
                    Gone /\ ~Locked /\ ~srv.ready /\ round.pc # "replenish"
          BY <3>1, <4>1 DEF AlertInv
        <4>. QED
          BY <1>1, <1>3, <1>4, <1>8, <4>1, <4>2, <4>3
      <3>2. CASE i \notin DOMAIN log
        <4>1. /\ Hub!RelayAllowed(Worker)
              /\ \E s \in Signer : \E j \in 1..Len(txs[s]) : txs[s][j].action = "RELAY_CALL"
          BY <2>1, <2>5, <3>2
        <4>2. workerToManager[Worker] = Hub!EnabledWorker(Manager)
          <5>1. workerToManager[Worker].enabled
            BY <4>1 DEF Hub!RelayAllowed
          <5>. QED
            BY <5>1 DEF StakeInv, Hub!NoEntry
        <4>3. stakes[Manager].stake > 0
          <5>1. Hub!ManagerOf(Worker) = Manager
            BY <4>2 DEF Hub!ManagerOf, Hub!EnabledWorker
          <5>2. stakes[Manager].stake >= 1 /\ stakes[Manager].stake \in Nat
            BY <4>1, <5>1, HubFacts DEF Hub!RelayAllowed, Hub!IsRelayManagerStaked
          <5>. QED
            BY <5>2
        <4>4. HasEvent("StakeAdded")
          BY <4>3 DEF StakeInv
        <4>5. PICK k \in DOMAIN log : log[k].event = "RelayServerRegistered"
          BY <4>1 DEF RequestInv, HasEvent
        <4>6. log[k].block <= block
          BY DEF Clock
        <4>. QED
          BY <1>1, <1>2, <1>3, <2>2, <3>2, <4>4, <4>5, <4>6
      <3>. QED
        BY <3>1, <3>2
    <2>. QED
      BY <1>5, <1>6, <2>4, <2>5 DEF AlertInv
  <1>. QED
    BY <1>7, <1>8, StakeMoves


\* What the server believes of its stake changes when a stake event is handled: to
\* what the hub says, unless there is no stake any more.
LEMMA LockedMoves ==
  ASSUME Types, Hub!TypeOK, Server
  PROVE  /\ Gone' <=> Gone
         /\ HandleStakeEvent => Locked' \/ Gone
         /\ Gone /\ ~Locked => ~Locked'
         /\ ~HandleStakeEvent /\ ~Crash => (Locked' <=> Locked)
  <1>0. /\ UNCHANGED hubVars /\ reg \in Managers
        /\ stakes[Manager].stake \in Nat /\ ManagerMinStake \in Nat
    BY ServerReads, HubFacts, ServerAssumption DEF Types, RegTypes
  <1>1. Gone' <=> Gone
    BY <1>0 DEF Gone, hubVars
  <1>2. CASE HandleStakeEvent
    <2>1. reg'.stake = RefreshStake(reg).stake /\ reg'.locked = RefreshStake(reg).locked
      BY <1>0, <1>2, RefreshStakeType DEF HandleStakeEvent, Managers
    <2>2. CASE stakes[Manager].stake = 0
      BY <1>0, <1>1, <1>2, <2>1, <2>2 DEF RefreshStake, Locked, StakeOk, Gone, HandleStakeEvent,
                                          Crash, Restart
    <2>3. CASE stakes[Manager].stake # 0
      <3>1. PICK k, l : k = stakes[Manager].stake /\ l = (stakes[Manager].withdrawBlock = 0)
        OBVIOUS
      <3>2. RefreshStake(reg).stake = k /\ RefreshStake(reg).locked = l
        BY <1>0, <2>3, <3>1 DEF RefreshStake, Managers
      <3>3. reg'.stake = k /\ (reg'.locked <=> stakes[Manager].withdrawBlock = 0)
        BY <2>1, <3>1, <3>2
      <3>4. Locked' <=> k >= ManagerMinStake /\ stakes[Manager].withdrawBlock = 0
        BY <3>3 DEF Locked, StakeOk
      <3>5. Gone <=> k < ManagerMinStake \/ stakes[Manager].withdrawBlock # 0
        BY <2>3, <3>1 DEF Gone
      <3>6. k < ManagerMinStake <=> ~(k >= ManagerMinStake)
        BY <1>0, <3>1
      <3>. QED
        BY <1>1, <1>2, <3>4, <3>5, <3>6
    <2>. QED
      BY <2>2, <2>3
  <1>3. CASE Crash
    <2>1. ~reg'.locked
      BY <1>3 DEF Crash, Restart, NewRegistrationManager
    <2>2. ~HandleStakeEvent \/ Locked' \/ Gone
      BY <1>2
    <2>. QED
      BY <1>1, <1>3, <2>1, <2>2 DEF Locked
  <1>4. CASE ~HandleStakeEvent /\ ~Crash
    <2>1. reg'.stake = reg.stake /\ reg'.locked = reg.locked
      <3>1. CASE Quiet \/ Abort \/ Begin
        BY <3>1 DEF Quiet, Abort, Begin, Apart, SameReg
      <3>2. CASE Initialize
        BY <1>0, <3>2 DEF Initialize, RegistrationInit, Managers
      <3>3. CASE ExtractDuePendingEvents
        <4>1. PICK a, b, d : reg' = [reg EXCEPT !.registered = a, !.workerAdded = b, !.delayed = d]
          BY <3>3 DEF ExtractDuePendingEvents
        <4>. QED
          BY <1>0, <4>1 DEF Managers
      <3>4. CASE FetchStakeEvents(srv.scanned) \/ PayOwner \/ AddRelayWorker \/ RegisterServer
        BY <3>4 DEF FetchStakeEvents, PayOwner, AddRelayWorker, RegisterServer
      <3>5. CASE FetchHubEvents \/ EndScan
        BY <3>5 DEF FetchHubEvents, EndScan
      <3>. QED
        BY <1>4, <3>1, <3>2, <3>3, <3>4, <3>5, ServerMoves DEF Registration
    <2>. QED
      BY <1>1, <1>4, <2>1 DEF Locked, StakeOk
  <1>. QED
    BY <1>2, <1>3, <1>4

LEMMA ServerStake ==
  ASSUME Types, Hub!TypeOK, Clock, Course, StakeInv, Server
  PROVE  StakeInv'
  <1>0. /\ UNCHANGED <<hubVars, log, script>>
        /\ srv \in Servers /\ round \in Rounds /\ reg \in Managers /\ log \in Seq(Entry)
        /\ \A i \in DOMAIN log : log[i].block \in Nat
    BY ServerReads, LogFacts DEF Types, SrvTypes, RoundTypes, RegTypes, ChainTypes
  <1>. DEFINE Left(r) == \E i \in DOMAIN log : Staked(i) /\ i \in ToSet(r.todo)
  <1>1. SUFFICES /\ LastStakeBy(srv'.scanned) => Locked' \/ Gone
                 /\ round'.pc \in Fetched \ {"stakeEvents"} /\ LastStakeBy(round'.block) =>
                       Locked' \/ Gone \/ Left(round')
    BY <1>0, LockedMoves DEF StakeInv, LastStakeBy, HasEvent, Staked, hubVars
  <1>2. /\ LastStakeBy(srv.scanned) => Locked \/ Gone
        /\ round.pc \in Fetched \ {"stakeEvents"} /\ LastStakeBy(round.block) =>
              Locked \/ Gone \/ Left(round)
    BY DEF StakeInv
  <1>. HIDE DEF Left
  <1>3. ~Crash => (Locked => Locked' \/ Gone)
    BY LockedMoves
  <1>4. CASE Crash
    <2>1. srv'.scanned = 0 /\ round'.pc = "idle"
      BY <1>0, <1>4 DEF Crash, Restart, NewServer, NoScan
    <2>2. ~LastStakeBy(0)
      BY <1>0 DEF LastStakeBy, HasEvent, Staked, Clock
    <2>. QED
      BY <2>1, <2>2 DEF Fetched, Decided
  <1>5. CASE ~Crash /\ Quiet
    BY <1>2, <1>3, <1>5 DEF Quiet, Apart, SameScan
  <1>6. CASE ~Crash /\ (Abort \/ Begin)
    <2>1. srv'.scanned = srv.scanned /\ round'.pc \in {"idle", "balance", "hubEvents"}
      <3>1. CASE Abort
        BY <3>1 DEF Abort, Apart, SameScan, NoScan
      <3>2. CASE Begin
        BY <1>0, <3>2 DEF Begin, Apart, SameScan, NoScan, Rounds
      <3>. QED
        BY <1>6, <3>1, <3>2
    <2>. QED
      BY <1>2, <1>3, <1>6, <2>1 DEF Fetched, Decided
  <1>7. CASE ~Crash /\ (Initialize \/ FetchHubEvents)
    <2>1. srv'.scanned = srv.scanned /\ (round' = round \/ round'.pc = "stakeEvents")
      BY <1>0, <1>7 DEF Initialize, FetchHubEvents, Servers, Rounds
    <2>. QED
      BY <1>2, <1>3, <1>7, <2>1
  <1>8. CASE ~Crash /\ Registration
    <2>1. srv' = srv /\ round'.block = round.block /\ round.pc \in Fetched
      BY <1>8, RegistrationRounds
    <2>2. CASE FetchStakeEvents(srv.scanned)
      <3>1. PICK E : E = Events(StakeEvents, srv.scanned + 1)
        OBVIOUS
      <3>2. round'.todo = E
        BY <1>0, <2>2, <3>1 DEF FetchStakeEvents, Rounds
      <3>3. ASSUME NEW i \in DOMAIN log, Staked(i)
            PROVE  log[i].block <= srv.scanned \/ i \in ToSet(E)
        <4>1. srv.scanned \in Nat /\ log[i].event \in StakeEvents
          BY <1>0, <3>3 DEF Servers, Staked, StakeEvents
        <4>2. ~(log[i].block <= srv.scanned) => log[i].block >= srv.scanned + 1
          BY <1>0, <4>1
        <4>. QED
          BY <1>0, <3>1, <4>1, <4>2, EventsFacts
      <3>4. LastStakeBy(round.block) => LastStakeBy(srv.scanned) \/ Left(round')
        BY <3>2, <3>3 DEF LastStakeBy, Left
      <3>. QED
        BY <1>2, <1>3, <1>8, <2>1, <3>4
    <2>3. CASE HandleStakeEvent
      BY <2>3, LockedMoves
    <2>4. CASE ~FetchStakeEvents(srv.scanned) /\ ~HandleStakeEvent
      <3>1. round'.todo = round.todo /\ round.pc # "stakeEvents"
        <4>1. round.pc # "stakeEvents"
          BY <1>8, <2>4 DEF Registration, ExtractDuePendingEvents, PayOwner, AddRelayWorker,
                            RegisterServer
        <4>. QED
          BY <1>8, <2>4, <4>1, RegistrationRounds DEF Registration
      <3>. QED
        BY <1>2, <1>3, <1>8, <2>1, <3>1 DEF Left
    <2>. QED
      BY <2>2, <2>3, <2>4
  <1>9. CASE ~Crash /\ EndScan
    <2>1. round.pc = "confirm" /\ srv'.scanned = round.block /\ round'.pc \in {"idle", "replenish"}
      BY <1>9, EndScanMoves DEF NoScan
    <2>2. round.todo = << >>
      BY <2>1 DEF Course, Decided
    <2>3. ~Left(round)
      BY <2>2 DEF ToSet, Left
    <2>. QED
      BY <1>2, <1>3, <1>9, <2>1, <2>3 DEF Fetched, Decided
  <1>. QED
    BY <1>4, <1>5, <1>6, <1>7, <1>8, <1>9, ServerMoves


LEMMA ServerRequests ==
  ASSUME Types, RegisteredInv, RequestInv, Server
  PROVE  RequestInv'
  <1>0. log' = log /\ ChainTypes /\ requests \in [Request -> {"new", "accepted", "valid", "refused", "relayed"}]
    BY ServerReads DEF Types, OtherTypes
  <1>1. CASE HasEvent("RelayServerRegistered")
    BY <1>0, <1>1 DEF RequestInv, HasEvent
  <1>2. CASE ~HasEvent("RelayServerRegistered")
    <2>1. ~IsReady /\ \A r \in Request : requests[r] \notin {"accepted", "valid"}
      BY <1>2 DEF RegisteredInv, RegistrationInv, RequestInv, IsReady
    <2>2. \A r \in Request : ~RequestStep(r)
      BY <2>1 DEF RequestStep, Accept, Validate, Relay
    <2>3. requests' = requests \/ Crash
      <3>1. RoundStep => requests' = requests
        BY DEF RoundStep, Initialize, StartRound, RefreshBalance, FetchHubEvents, Registration,
               EndScan, EndRound
      <3>2. \A p \in Replenisher : ReplenishStep(p) => requests' = requests
        BY DEF ReplenishStep, ReadBalances, Decide, SendRefill
      <3>3. RoundFails \/ Timeout => requests' = requests
        BY DEF RoundFails, Timeout
      <3>. QED
        BY <2>2, <3>1, <3>2, <3>3 DEF Server
    <2>4. \A r \in Request : requests'[r] \notin {"accepted", "valid"}
      <3>1. CASE Crash
        BY <3>1 DEF Crash, Restart
      <3>. QED
        BY <2>1, <2>3, <3>1
    <2>5. \A s \in Signer : \A i \in 1..Len(txs'[s]) : txs'[s][i].action # "RELAY_CALL"
      <3>0. \A s \in Signer : \A i \in 1..Len(txs[s]) : txs[s][i].action # "RELAY_CALL"
        BY <1>2 DEF RequestInv
      <3>1. CASE txs' = txs
        BY <3>0, <3>1
      <3>2. CASE txs' # txs
        <4>1. PICK r, t : Send(r, t) /\ t \in Transaction /\ t.action # "RELAY_CALL"
          <5>1. Worker \in Signer /\ Manager \in Signer
            BY DEF Signer
          <5>2. ASSUME NEW a, Send(a, Payout(a)) PROVE a \in Signer
            BY <1>0, <3>2, <5>2 DEF Send, ChainTypes
          <5>3. /\ Tx("ADD_WORKER", HubItself, 0).action = "ADD_WORKER"
                /\ Tx("REGISTER_SERVER", HubItself, 0).action = "REGISTER_SERVER"
            BY DEF Tx
          <5>4. ~\E r \in Request : Relay(r)
            BY <2>2 DEF RequestStep
          <5>5. CASE Send(Head(round.pay), Payout(Head(round.pay)))
            BY <5>2, <5>5, PayoutType
          <5>6. CASE \/ Send(Manager, Tx("ADD_WORKER", HubItself, 0))
                     \/ Send(Manager, Tx("REGISTER_SERVER", HubItself, 0))
            BY <5>3, <5>6, RegistrationTxs
          <5>7. CASE \E p \in Replenisher : SendRefill(p)
            BY <5>7, RefillType DEF SendRefill
          <5>. QED
            BY <3>2, <5>4, <5>5, <5>6, <5>7, ServerSent
        <4>2. r \in Signer
          BY <1>0, <3>2, <4>1 DEF Send, ChainTypes
        <4>. SUFFICES ASSUME NEW s \in Signer, NEW i \in 1..Len(txs'[s])
                      PROVE  txs'[s][i].action # "RELAY_CALL"
          OBVIOUS
        <4>3. CASE s # r
          <5>1. txs'[s] = txs[s]
            BY <1>0, <4>1, <4>2, <4>3, SendFacts
          <5>. QED
            BY <3>0, <5>1
        <4>4. CASE s = r
          <5>1. PICK n \in Nat : n = Len(txs[s])
            BY <1>0, TxsFacts
          <5>2. /\ Len(txs'[s]) = n + 1 /\ txs'[s][n + 1] = t
                /\ \A j \in 1..n : txs'[s][j] = txs[s][j]
            BY <1>0, <4>1, <4>4, <5>1, SendFacts
          <5>3. i \in 1..n \/ i = n + 1
            BY <5>1, <5>2
          <5>. QED
            BY <3>0, <4>1, <5>1, <5>2, <5>3
        <4>. QED
          BY <4>3, <4>4
      <3>. QED
        BY <3>1, <3>2
    <2>. QED
      BY <2>4, <2>5 DEF RequestInv
  <1>. QED
    BY <1>1, <1>2

LEMMA ServerAlerts ==
  ASSUME Types, Hub!TypeOK, Clock, Course, StakeInv, AlertInv, Server
  PROVE  AlertInv'
  <1>0. /\ log' = log
        /\ srv \in Servers /\ round \in Rounds /\ reg \in Managers /\ log \in Seq(Entry)
        /\ \A i \in DOMAIN log : log[i].block \in Nat
        /\ hist \in Histories
    BY ServerReads, LogFacts DEF Types, SrvTypes, RoundTypes, RegTypes, ChainTypes, OtherTypes
  <1>1. ASSUME NEW i \in DOMAIN log, log[i].event = "RelayServerRegistered",
               srv'.initialized, ~reg'.registered
        PROVE  NotMissed(i)'
    BY <1>1, TakesIn, NotMissedStep DEF AlertInv, ActiveManagerEvents
  <1>2. SUFFICES ASSUME NEW i \in DOMAIN log, log[i].event = RejectedEvent
                 PROVE  /\ round'.pc \in Fetched /\ srv'.scanned < log[i].block
                              /\ log[i].block <= round'.block => i \in ToSet(round'.hub)
                        /\ log[i].block <= srv'.scanned /\ i \notin hist'.alerts
                              /\ LastStakeBy(log[i].block) =>
                              Gone /\ ~Locked' /\ ~srv'.ready /\ round'.pc # "replenish"
    BY <1>0, <1>1, LockedMoves DEF AlertInv, HasEvent, LastStakeBy, Staked
  <1>3. /\ round.pc \in Fetched /\ srv.scanned < log[i].block
              /\ log[i].block <= round.block => i \in ToSet(round.hub)
        /\ log[i].block <= srv.scanned /\ i \notin hist.alerts
              /\ LastStakeBy(log[i].block) =>
              Gone /\ ~Locked /\ ~srv.ready /\ round.pc # "replenish"
    BY <1>2 DEF AlertInv
  <1>4. Gone /\ ~Locked => ~Locked'
    BY LockedMoves
  <1>5. CASE Quiet
    BY <1>3, <1>4, <1>5 DEF Quiet, Apart, SameScan
  <1>6. CASE Abort
    <2>1. round'.pc = "idle"
      BY <1>6 DEF Abort, NoScan
    <2>. QED
      BY <1>3, <1>4, <1>6, <2>1 DEF Abort, Apart, SameScan, Fetched, Decided
  <1>7. CASE Begin
    <2>1. round'.pc \in {"balance", "hubEvents"}
      BY <1>0, <1>7 DEF Begin, NoScan, Rounds
    <2>. QED
      BY <1>3, <1>4, <1>7, <2>1 DEF Begin, Apart, SameScan, Fetched, Decided
  <1>8. CASE Initialize
    <2>1. /\ srv'.scanned = srv.scanned /\ srv'.ready = srv.ready
          /\ round' = round /\ hist' = hist
      BY <1>0, <1>8 DEF Initialize, Servers
    <2>. QED
      BY <1>3, <1>4, <2>1
  <1>9. CASE FetchHubEvents
    <2>1. PICK E : E = Events(ActiveManagerEvents, srv.scanned + 1)
      OBVIOUS
    <2>2. /\ srv' = srv /\ hist' = hist
          /\ round'.pc = "stakeEvents" /\ round'.hub = E
      BY <1>0, <1>9, <2>1 DEF FetchHubEvents, Rounds
    <2>3. srv.scanned < log[i].block => i \in ToSet(E)
      <3>1. srv.scanned \in Nat /\ log[i].event \in ActiveManagerEvents
        BY <1>0, <1>2 DEF Servers, ActiveManagerEvents
      <3>2. srv.scanned < log[i].block => log[i].block >= srv.scanned + 1
        BY <1>0, <3>1
      <3>. QED
        BY <1>0, <2>1, <3>1, <3>2, EventsFacts
    <2>. QED
      BY <1>3, <1>4, <2>2, <2>3
  <1>10. CASE Registration
    <2>1. /\ UNCHANGED <<srv, hist>> /\ round'.block = round.block /\ round'.hub = round.hub
          /\ round.pc \in Fetched /\ round'.pc \in Fetched
      BY <1>10, RegistrationRounds
    <2>. QED
      BY <1>3, <1>4, <2>1 DEF Fetched, Decided
  <1>11. CASE EndScan
    <2>1. /\ round.pc = "confirm" /\ round.pc \in Fetched /\ reg' = reg
          /\ srv'.scanned = round.block /\ round.due /\ round.todo = << >>
      BY <1>11, EndScanMoves DEF Course, Fetched, Decided
    <2>2. CASE IsRegistered
      <3>1. /\ round'.pc = "replenish"
            /\ hist' = [hist EXCEPT !.alerts = @ \cup Rejections]
        BY <1>11, <2>2, EndScanMoves
      <3>2. hist'.alerts = hist.alerts \cup Rejections
        BY <1>0, <3>1 DEF Histories
      <3>3. Locked
        BY <2>2 DEF IsRegistered, Locked
      <3>4. LastStakeBy(log[i].block) /\ log[i].block <= round.block => i \in hist'.alerts
        <4>1. CASE log[i].block <= srv.scanned
          BY <1>3, <3>2, <3>3, <4>1
        <4>2. CASE srv.scanned < log[i].block
          BY <1>2, <1>3, <2>1, <3>2, <4>2 DEF Rejections
        <4>. QED
          BY <1>0, <4>1, <4>2 DEF Servers
      <3>. QED
        BY <2>1, <3>1, <3>4 DEF Fetched, Decided
    <2>3. CASE ~IsRegistered
      <3>1. round' = NoScan /\ ~srv'.ready /\ hist' = hist
        BY <1>11, <2>3, EndScanMoves
      <3>2. ASSUME log[i].block <= round.block, srv.scanned < log[i].block,
                   LastStakeBy(log[i].block)
            PROVE  Gone /\ ~Locked
        <4>1. LastStakeBy(round.block)
          BY <1>0, <3>2 DEF LastStakeBy, Staked, Rounds
        <4>2. PICK k \in DOMAIN log :
                 log[k].event = "RelayServerRegistered" /\ log[k].block <= log[i].block
          BY <1>2 DEF AlertInv
        <4>3. round.block \in Nat /\ log[k].block <= round.block
          BY <1>0, <3>2, <4>2 DEF Rounds
        <4>4. reg.registered
          <5>1. srv.initialized
            BY <2>1 DEF Course
          <5>2. ~NotMissed(k)
            BY <1>0, <2>1, <4>3 DEF NotMissed
          <5>. QED
            BY <4>2, <5>1, <5>2 DEF AlertInv
        <4>5. ~Locked
          BY <2>3, <4>4 DEF IsRegistered, Locked
        <4>6. Locked \/ Gone
          <5>1. \A j : j \notin ToSet(round.todo)
            BY <2>1 DEF ToSet
          <5>. QED
            BY <2>1, <4>1, <5>1 DEF StakeInv
        <4>. QED
          BY <4>5, <4>6
      <3>3. log[i].block <= round.block /\ i \notin hist.alerts /\ LastStakeBy(log[i].block) =>
               Gone /\ ~Locked
        BY <1>0, <1>3, <3>2 DEF Servers
      <3>4. round'.pc = "idle"
        BY <3>1 DEF NoScan
      <3>. QED
        BY <1>4, <2>1, <3>1, <3>3, <3>4 DEF Fetched, Decided
    <2>. QED
      BY <2>2, <2>3
  <1>12. CASE Crash
    <2>1. srv'.scanned = 0 /\ round'.pc = "idle" /\ ~(log[i].block <= 0)
      BY <1>0, <1>12 DEF Crash, Restart, NewServer, NoScan, Clock
    <2>. QED
      BY <2>1 DEF Fetched, Decided
  <1>. QED
    BY <1>5, <1>6, <1>7, <1>8, <1>9, <1>10, <1>11, <1>12, ServerMoves

\* Although lastScannedBlock advances before the events are looked at, and a server that
\* is not registered returns in between, a server that is ready was alerted for every
\* rejected call it has scanned: one that skipped it had lost its stake, and is not ready
\* again before its owner stakes anew.
THEOREM AlertsAreKept == Spec => []AlertsNotLost
  <1>1. Init => StakeInv /\ RequestInv /\ AlertInv
    <2>. SUFFICES ASSUME Init PROVE StakeInv /\ RequestInv /\ AlertInv
      OBVIOUS
    <2>1. /\ log = << >> /\ workerToManager[Worker] = Hub!NoEntry
          /\ stakes[Manager].stake = 0
          /\ \A r \in Request : requests[r] = "new"
      BY DEF Init, ChainInit, Hub!Init, Hub!EmptyStake
    <2>2. DOMAIN log = {} /\ ~HasEvent("StakeAdded")
      BY <2>1 DEF HasEvent
    <2>3. \A s \in Signer : 1..Len(txs[s]) = {}
      BY DEF Init, ChainInit
    <2>. QED
      BY <2>1, <2>2, <2>3 DEF StakeInv, RequestInv, AlertInv, LastStakeBy
  <1>2. ASSUME Types, Hub!TypeOK, Clock, Course, RegisteredInv,
               StakeInv, RequestInv, AlertInv, [Next]_vars
        PROVE  StakeInv' /\ RequestInv' /\ AlertInv'
    <2>1. CASE Chain \/ OwnerScript
      BY <1>2, <2>1, EnvAlerts
    <2>2. CASE Server
      BY <1>2, <2>2, ServerStake, ServerRequests, ServerAlerts
    <2>3. CASE UNCHANGED vars
      BY <1>2, <2>3 DEF vars, chainVars, hubVars, serverVars, StakeInv, RequestInv, AlertInv,
         HasEvent, LastStakeBy, Staked, NotMissed, Gone, Locked, StakeOk
    <2>. QED
      BY <1>2, <2>1, <2>2, <2>3 DEF Next
  <1>3. AlertInv => AlertsNotLost
    BY DEF AlertInv, AlertsNotLost, IsReady, LastStakeBy, Staked
  <1>. QED
    BY <1>1, <1>2, <1>3, RegisteredInvariant, PTL DEF Spec

-----------------------------------------------------------------------------
(* What is pending *)

\* A transaction that is sent comes last.
LEMMA SettledLast ==
  ASSUME NEW s \in Signer, NEW U \in Seq(Transaction), NEW t \in Transaction, NEW b \in Balances
  PROVE  Settled(b, s, Append(U, t)) = Paid(Settled(b, s, U), s, t)
  <1>1. PICK f : Run(f, b, s, U) /\ Settled(b, s, U) = f[Len(U)]
    BY SettledRun
  <1>2. PICK n \in Nat : n = Len(U)
    OBVIOUS
  <1>3. PICK V : V = Append(U, t)
    OBVIOUS
  <1>4. V \in Seq(Transaction) /\ Len(V) = n + 1 /\ V[n + 1] = t /\ \A i \in 1..n : V[i] = U[i]
    BY <1>2, <1>3
  <1>5. PICK c : c = Paid(f[n], s, t) /\ c \in Balances
    <2>1. n \in 0..Len(U)
      BY <1>2
    <2>2. f[n] \in Balances
      BY <1>1, <2>1 DEF Run
    <2>. QED
      BY <2>2, PaidType
  <1>6. PICK g : g = [i \in 0..(n + 1) |-> IF i = n + 1 THEN c ELSE f[i]]
    OBVIOUS
  <1>7. /\ g \in [0..(n + 1) -> Balances] /\ g[n + 1] = c
        /\ \A i \in 0..n : g[i] = f[i]
    <2>1. \A i \in 0..n : f[i] \in Balances
      BY <1>1, <1>2 DEF Run
    <2>2. \A i \in 0..(n + 1) : i = n + 1 \/ i \in 0..n
      OBVIOUS
    <2>3. n + 1 \in 0..(n + 1) /\ \A i \in 0..n : i \in 0..(n + 1) /\ i # n + 1
      OBVIOUS
    <2>. QED
      BY <1>5, <1>6, <2>1, <2>2, <2>3
  <1>8. Run(g, b, s, V)
    <2>1. g[0] = b
      BY <1>1, <1>7 DEF Run
    <2>2. ASSUME NEW i \in 1..(n + 1) PROVE g[i] = Paid(g[i-1], s, V[i])
      <3>1. i = n + 1 \/ i \in 1..n
        OBVIOUS
      <3>2. CASE i = n + 1
        <4>1. i - 1 = n /\ n \in 0..n
          BY <3>2
        <4>. QED
          BY <1>4, <1>5, <1>7, <3>2, <4>1
      <3>3. CASE i \in 1..n
        <4>1. i \in 0..n /\ i - 1 \in 0..n
          BY <3>3
        <4>. QED
          BY <1>1, <1>2, <1>4, <1>7, <3>3, <4>1 DEF Run
      <3>. QED
        BY <3>1, <3>2, <3>3
    <2>. QED
      BY <1>4, <1>7, <2>1, <2>2 DEF Run
  <1>9. Settled(b, s, V) = g[n + 1]
    BY <1>4, <1>8, RunSettles
  <1>. QED
    BY <1>1, <1>2, <1>3, <1>5, <1>7, <1>9

\* A transaction that is mined was the first.
LEMMA SettledFirst ==
  ASSUME NEW s \in Signer, NEW U \in Seq(Transaction), U # << >>, NEW b \in Balances
  PROVE  /\ Head(U) \in Transaction /\ Tail(U) \in Seq(Transaction)
         /\ Paid(b, s, Head(U)) \in Balances
         /\ Settled(b, s, U) = Settled(Paid(b, s, Head(U)), s, Tail(U))
  <1>1. PICK n \in Nat : Len(U) = n + 1
    <2>1. Len(U) \in Nat /\ Len(U) # 0
      OBVIOUS
    <2>. QED
      BY <2>1
  <1>2. PICK t, V : t = Head(U) /\ V = Tail(U)
    OBVIOUS
  <1>3. /\ t = U[1] /\ t \in Transaction /\ V \in Seq(Transaction) /\ Len(V) = n
        /\ \A i \in 1..n : V[i] = U[i + 1]
    BY <1>1, <1>2
  <1>4. PICK c \in Balances : c = Paid(b, s, t)
    BY <1>3, PaidType
  <1>5. PICK f : Run(f, b, s, U) /\ Settled(b, s, U) = f[n + 1]
    BY <1>1, SettledRun
  <1>6. PICK g : g = [i \in 0..n |-> f[i + 1]]
    OBVIOUS
  <1>7. Run(g, c, s, V)
    <2>1. g \in [0..n -> Balances]
      <3>1. \A i \in 0..n : i + 1 \in 0..(n + 1)
        OBVIOUS
      <3>. QED
        BY <1>1, <1>5, <1>6, <3>1 DEF Run
    <2>2. g[0] = c
      <3>1. 0 \in 0..n /\ 1 \in 1..(n + 1) /\ 0 + 1 = 1 /\ 1 - 1 = 0
        OBVIOUS
      <3>2. f[1] = Paid(f[1-1], s, U[1])
        BY <1>1, <1>5, <3>1 DEF Run
      <3>. QED
        BY <1>3, <1>4, <1>5, <1>6, <3>1, <3>2 DEF Run
    <2>3. ASSUME NEW i \in 1..n PROVE g[i] = Paid(g[i-1], s, V[i])
      <3>1. i \in 0..n /\ i - 1 \in 0..n /\ i + 1 \in 1..(n + 1) /\ (i + 1) - 1 = i /\ (i - 1) + 1 = i
        OBVIOUS
      <3>2. f[i + 1] = Paid(f[(i + 1) - 1], s, U[i + 1])
        BY <1>1, <1>5, <3>1 DEF Run
      <3>3. g[i] = f[i + 1] /\ g[i - 1] = f[(i - 1) + 1]
        BY <1>6, <3>1
      <3>4. g[i - 1] = f[i]
        BY <3>1, <3>3
      <3>. QED
        BY <1>3, <3>1, <3>2, <3>3, <3>4
    <2>. QED
      BY <1>3, <2>1, <2>2, <2>3 DEF Run
  <1>8. Settled(c, s, V) = g[n]
    BY <1>3, <1>7, RunSettles
  <1>9. g[n] = f[n + 1]
    BY <1>6
  <1>. QED
    BY <1>2, <1>3, <1>4, <1>5, <1>8, <1>9

\* Two accounts pay each other nothing: it does not matter who pays first.
LEMMA SettledCommutes ==
  ASSUME NEW U \in Seq(Transaction), NEW b \in Balances,
         NEW t \in Transaction, t.to # Manager, b[Worker] >= t.value
  PROVE  /\ Transfer(b, Worker, t) \in Balances
         /\ Settled(b, Manager, U)[Worker] >= b[Worker]
         /\ Settled(Transfer(b, Worker, t), Manager, U)
               = Transfer(Settled(b, Manager, U), Worker, t)
  <1>0. Manager \in Signer /\ Worker \in Signer /\ Manager # Worker
        /\ Manager \in Account /\ Worker \in Account
    BY DEF Signer, Manager, Worker, Account
  <1>1. PICK f : Run(f, b, Manager, U) /\ Settled(b, Manager, U) = f[Len(U)]
    BY <1>0, SettledRun
  <1>2. PICK n \in Nat : n = Len(U)
    OBVIOUS
  <1>3. \A i \in 0..n : f[i] \in Balances
    BY <1>1, <1>2 DEF Run
  <1>4. \A i \in 1..n : U[i] \in Transaction
    BY <1>2
  <1>5. \A i \in 0..n : f[i][Worker] >= b[Worker]
    <2>. DEFINE P == {i \in 0..n : f[i][Worker] >= b[Worker]}
    <2>1. 0 \in P
      BY <1>0, <1>1 DEF Run, Balances
    <2>2. ASSUME NEW k \in 1..n, k-1 \in P PROVE k \in P
      <3>1. k \in 0..n /\ k - 1 \in 0..n /\ f[k-1][Worker] >= b[Worker]
        BY <2>2
      <3>2. f[k] = Paid(f[k-1], Manager, U[k])
        BY <1>1, <1>2 DEF Run
      <3>3. f[k][Worker] >= f[k-1][Worker]
        <4>1. PICK c \in Balances : c = f[k-1]
          BY <1>3, <3>1
        <4>2. PICK u \in Transaction : u = U[k]
          BY <1>4
        <4>3. c[Worker] \in Nat /\ u.value \in Nat
          BY <1>0, <4>1, <4>2 DEF Balances, Transaction
        <4>4. Transfer(c, Manager, u)[Worker] >= c[Worker]
          BY <1>0, <4>3 DEF Transfer
        <4>5. Paid(c, Manager, u)[Worker] >= c[Worker]
          BY <4>3, <4>4 DEF Paid
        <4>. QED
          BY <3>2, <4>1, <4>2, <4>5
      <3>4. f[k][Worker] \in Nat /\ f[k-1][Worker] \in Nat /\ b[Worker] \in Nat
        BY <1>0, <1>3, <3>1 DEF Balances
      <3>. QED
        BY <3>1, <3>3, <3>4
    <2>. HIDE DEF P
    <2>3. \A k \in 0..n : k \in P
      BY <2>1, <2>2, SetInduction
    <2>. QED
      BY <2>3 DEF P
  <1>6. \A i \in 0..n : f[i][Worker] >= t.value /\ Transfer(f[i], Worker, t) \in Balances
    <2>1. \A i \in 0..n : f[i][Worker] \in Nat /\ b[Worker] \in Nat /\ t.value \in Nat
      BY <1>0, <1>3 DEF Balances, Transaction
    <2>2. \A i \in 0..n : f[i][Worker] >= t.value
      BY <1>5, <2>1
    <2>. QED
      BY <1>0, <1>3, <2>2, TransferType DEF Balances
  <1>7. PICK g : g = [i \in 0..n |-> Transfer(f[i], Worker, t)]
    OBVIOUS
  <1>8. Run(g, Transfer(b, Worker, t), Manager, U)
    <2>1. g \in [0..n -> Balances] /\ g[0] = Transfer(b, Worker, t)
      <3>1. 0 \in 0..n /\ f[0] = b
        BY <1>1 DEF Run
      <3>. QED
        BY <1>6, <1>7, <3>1
    <2>2. ASSUME NEW k \in 1..n PROVE g[k] = Paid(g[k-1], Manager, U[k])
      <3>1. k \in 0..n /\ k - 1 \in 0..n
        OBVIOUS
      <3>2. PICK c \in Balances : c = f[k-1]
        BY <1>3, <3>1
      <3>3. PICK u \in Transaction : u = U[k]
        BY <1>4
      <3>4. f[k] = Paid(c, Manager, u)
        BY <1>1, <1>2, <3>2, <3>3 DEF Run
      <3>5. PICK d : d = Transfer(c, Worker, t)
        OBVIOUS
      <3>6. /\ u.value \in Nat /\ t.value \in Nat
            /\ \A a \in Account : c[a] \in Nat
        BY DEF Balances, Transaction
      <3>7. d[Manager] = c[Manager]
        BY <1>0, <3>5, <3>6 DEF Transfer
      <3>8. Payable(d, Manager, u) <=> Payable(c, Manager, u)
        BY <3>7 DEF Payable
      <3>9. Transfer(d, Manager, u) = Transfer(Transfer(c, Manager, u), Worker, t)
        <4>1. PICK e : e = Transfer(c, Manager, u)
          OBVIOUS
        <4>2. ASSUME NEW a \in Account
              PROVE  /\ d[a] - (IF a = Manager THEN u.value ELSE 0)
                           + (IF a = u.to THEN u.value ELSE 0)
                        = e[a] - (IF a = Worker THEN t.value ELSE 0)
                               + (IF a = t.to THEN t.value ELSE 0)
          <5>1. PICK x, y, z, w : /\ x = (IF a = Worker THEN t.value ELSE 0)
                                  /\ y = (IF a = t.to THEN t.value ELSE 0)
                                  /\ z = (IF a = Manager THEN u.value ELSE 0)
                                  /\ w = (IF a = u.to THEN u.value ELSE 0)
            OBVIOUS
          <5>2. x \in Nat /\ y \in Nat /\ z \in Nat /\ w \in Nat /\ c[a] \in Nat
            BY <3>6, <5>1
          <5>3. d[a] = c[a] - x + y /\ e[a] = c[a] - z + w
            BY <3>5, <4>1, <5>1 DEF Transfer
          <5>4. (c[a] - x + y) - z + w = (c[a] - z + w) - x + y
            BY <5>2
          <5>. QED
            BY <5>1, <5>3, <5>4
        <4>. QED
          BY <4>1, <4>2 DEF Transfer
      <3>10. g[k] = Transfer(f[k], Worker, t) /\ g[k-1] = d
        BY <1>7, <3>1, <3>2, <3>5
      <3>. QED
        BY <3>3, <3>4, <3>5, <3>8, <3>9, <3>10 DEF Paid
    <2>. QED
      BY <1>2, <2>1, <2>2 DEF Run
  <1>9. n \in 0..n
    OBVIOUS
  <1>10. Transfer(b, Worker, t) \in Balances
    BY <1>0, TransferType DEF Balances
  <1>11. Settled(Transfer(b, Worker, t), Manager, U) = g[n]
    BY <1>0, <1>2, <1>8, <1>10, RunSettles
  <1>. QED
    BY <1>1, <1>2, <1>5, <1>7, <1>9, <1>10, <1>11

\* Nobody pays the manager but the owner.
LEMMA SettledManager ==
  ASSUME NEW s \in Signer, NEW U \in Seq(Transaction), NEW b \in Balances,
         \A i \in 1..Len(U) : U[i].to # Manager
  PROVE  /\ Settled(b, s, U)[Manager] <= b[Manager]
         /\ s = Worker => Settled(b, s, U)[Manager] = b[Manager]
  <1>0. Manager \in Account /\ Manager # Worker
    BY DEF Manager, Worker, Account
  <1>1. PICK f : Run(f, b, s, U) /\ Settled(b, s, U) = f[Len(U)]
    BY SettledRun
  <1>2. PICK n \in Nat : n = Len(U)
    OBVIOUS
  <1>3. \A i \in 0..n : f[i] \in Balances /\ f[i][Manager] \in Nat
    BY <1>0, <1>1, <1>2 DEF Run, Balances
  <1>. DEFINE P == {i \in 0..n : /\ f[i][Manager] <= b[Manager]
                                 /\ s = Worker => f[i][Manager] = b[Manager]}
  <1>4. 0 \in P
    BY <1>1, <1>3 DEF Run
  <1>5. ASSUME NEW k \in 1..n, k-1 \in P PROVE k \in P
    <2>1. k \in 0..n /\ k - 1 \in 0..n
      OBVIOUS
    <2>2. PICK c \in Balances : c = f[k-1] /\ c[Manager] \in Nat
      BY <1>3, <2>1
    <2>3. PICK u \in Transaction : u = U[k] /\ u.to # Manager /\ u.value \in Nat
      <3>1. U[k] \in Transaction /\ U[k].to # Manager
        BY <1>2
      <3>2. \A u \in Transaction : u.value \in Nat
        BY DEF Transaction
      <3>. QED
        BY <3>1, <3>2
    <2>4. f[k] = Paid(c, s, u)
      BY <1>1, <1>2, <2>2, <2>3 DEF Run
    <2>5. /\ Transfer(c, s, u)[Manager] <= c[Manager]
          /\ s = Worker => Transfer(c, s, u)[Manager] = c[Manager]
      BY <1>0, <2>2, <2>3 DEF Transfer
    <2>6. f[k][Manager] <= c[Manager] /\ (s = Worker => f[k][Manager] = c[Manager])
      BY <2>2, <2>4, <2>5 DEF Paid
    <2>7. f[k][Manager] \in Nat /\ b[Manager] \in Nat
      BY <1>0, <1>3, <2>1 DEF Balances
    <2>. QED
      BY <1>5, <2>1, <2>2, <2>6, <2>7
  <1>. HIDE DEF P
  <1>6. \A k \in 0..n : k \in P
    BY <1>4, <1>5, SetInduction
  <1>7. n \in P
    BY <1>6
  <1>. QED
    BY <1>1, <1>2, <1>7 DEF P

\* What the manager is paid on top is at most what it has more in the end: it may pay for
\* a transaction it could not pay for before, but then it has less than it was paid.
LEMMA SettledMore ==
  ASSUME NEW U \in Seq(Transaction), NEW b \in Balances, NEW c \in Balances, NEW v \in Nat,
         c[Manager] = b[Manager] + v,
         \A i \in 1..Len(U) : U[i].to # Manager
  PROVE  Settled(c, Manager, U)[Manager] <= Settled(b, Manager, U)[Manager] + v
  <1>0. Manager \in Signer /\ Manager \in Account
    BY DEF Signer, Manager, Account
  <1>1. PICK f : Run(f, b, Manager, U) /\ Settled(b, Manager, U) = f[Len(U)]
    BY <1>0, SettledRun
  <1>2. PICK g : Run(g, c, Manager, U) /\ Settled(c, Manager, U) = g[Len(U)]
    BY <1>0, SettledRun
  <1>3. PICK n \in Nat : n = Len(U)
    OBVIOUS
  <1>4. \A i \in 0..n : f[i][Manager] \in Nat /\ g[i][Manager] \in Nat
    BY <1>0, <1>1, <1>2, <1>3 DEF Run, Balances
  <1>. DEFINE P == {i \in 0..n : g[i][Manager] = f[i][Manager] + v \/ g[i][Manager] <= v}
  <1>5. 0 \in P
    BY <1>1, <1>2 DEF Run
  <1>6. ASSUME NEW k \in 1..n, k-1 \in P PROVE k \in P
    <2>1. k \in 0..n /\ k - 1 \in 0..n
      OBVIOUS
    <2>2. PICK x, y : /\ x = f[k-1] /\ y = g[k-1] /\ x \in Balances /\ y \in Balances
                      /\ x[Manager] \in Nat /\ y[Manager] \in Nat
      BY <1>1, <1>2, <1>3, <1>4, <2>1 DEF Run
    <2>3. PICK u \in Transaction : u = U[k] /\ u.to # Manager /\ u.value \in Nat
      <3>1. U[k] \in Transaction /\ U[k].to # Manager
        BY <1>3
      <3>2. \A u \in Transaction : u.value \in Nat
        BY DEF Transaction
      <3>. QED
        BY <3>1, <3>2
    <2>4. f[k] = Paid(x, Manager, u) /\ g[k] = Paid(y, Manager, u)
      BY <1>1, <1>2, <1>3, <2>2, <2>3 DEF Run
    <2>5. /\ Transfer(x, Manager, u)[Manager] = x[Manager] - u.value
          /\ Transfer(y, Manager, u)[Manager] = y[Manager] - u.value
      BY <1>0, <2>2, <2>3 DEF Transfer
    <2>6. /\ f[k][Manager] = IF Payable(x, Manager, u) THEN x[Manager] - u.value ELSE x[Manager]
          /\ g[k][Manager] = IF Payable(y, Manager, u) THEN y[Manager] - u.value ELSE y[Manager]
      BY <2>4, <2>5 DEF Paid
    <2>7. y[Manager] = x[Manager] + v \/ y[Manager] <= v
      BY <1>6, <2>2
    <2>8. /\ Payable(x, Manager, u) <=> u.to # NoAddress /\ x[Manager] >= u.value
          /\ Payable(y, Manager, u) <=> u.to # NoAddress /\ y[Manager] >= u.value
      BY DEF Payable
    <2>9. g[k][Manager] = f[k][Manager] + v \/ g[k][Manager] <= v
      BY <2>2, <2>3, <2>6, <2>7, <2>8
    <2>. QED
      BY <2>1, <2>9
  <1>. HIDE DEF P
  <1>7. \A k \in 0..n : k \in P
    BY <1>5, <1>6, SetInduction
  <1>8. n \in P /\ n \in 0..n
    BY <1>7
  <1>9. g[n][Manager] = f[n][Manager] + v \/ g[n][Manager] <= v
    BY <1>8 DEF P
  <1>. QED
    BY <1>1, <1>2, <1>3, <1>4, <1>8, <1>9

LEMMA PendingIs ==
  /\ PendingBalances = Settled(Settled(balance, Manager, Unmined(Manager)), Worker, Unmined(Worker))
  /\ PendingBalances' = Settled(Settled(balance', Manager, Unmined(Manager)'), Worker, Unmined(Worker)')
  BY DEF PendingBalances, Settle, Settled, Paid, FoldOver

LEMMA UnminedFacts ==
  ASSUME ChainTypes, NEW s \in Signer
  PROVE  /\ Len(Unmined(s)) = Len(txs[s]) - mined[s]
         /\ \A i \in 1..Len(Unmined(s)) :
               mined[s] + i \in 1..Len(txs[s]) /\ Unmined(s)[i] = txs[s][mined[s] + i]
  <1>1. PICK q, m, k : /\ q = txs[s] /\ m = mined[s] /\ k = Len(q)
                       /\ q \in Seq(Transaction) /\ m \in Nat /\ k \in Nat /\ m <= k
    BY TxsFacts
  <1>2. Unmined(s) = SubSeq(q, m + 1, k)
    BY <1>1 DEF Unmined
  <1>3. m \in Nat /\ k \in Nat /\ m <= k /\ k <= Len(q) /\ q \in Seq(Transaction)
    BY <1>1
  <1>4. /\ Len(SubSeq(q, m + 1, k)) = k - m
        /\ \A i \in 1..(k - m) : m + i \in 1..k /\ SubSeq(q, m + 1, k)[i] = q[m + i]
    BY <1>3, SubSeqFacts, Zenon
  <1>. QED
    BY <1>1, <1>2, <1>4

\* What was mined is not pending any more; what is sent is.
LEMMA UnminedExecute ==
  ASSUME ChainTypes, ChainTypes', NEW s \in Signer, Execute(s)
  PROVE  /\ Unmined(s) # << >> /\ Head(Unmined(s)) = txs[s][mined[s] + 1]
         /\ Unmined(s)' = Tail(Unmined(s))
         /\ \A r \in Signer \ {s} : Unmined(r)' = Unmined(r)
  <1>1. PICK q, m, k : /\ q = txs[s] /\ m = mined[s] /\ k = Len(q)
                       /\ q \in Seq(Transaction) /\ m \in Nat /\ k \in Nat /\ m < k
    BY TxsFacts DEF Execute
  <1>2. txs' = txs /\ mined'[s] = m + 1 /\ \A r \in Signer \ {s} : mined'[r] = mined[r]
    BY <1>1 DEF Execute, ChainTypes
  <1>3. Unmined(s)' = SubSeq(q, (m + 1) + 1, k)
    BY <1>1, <1>2 DEF Unmined
  <1>4. PICK U \in Seq(Transaction) : /\ U = Unmined(s) /\ Len(U) = k - m
                                      /\ \A i \in 1..(k - m) : U[i] = q[m + i]
    BY <1>1, UnminedType, UnminedFacts
  <1>5. PICK V : V = SubSeq(q, (m + 1) + 1, k)
    OBVIOUS
  <1>6. /\ V \in Seq(Transaction) /\ Len(V) = k - (m + 1)
        /\ \A i \in 1..(k - (m + 1)) : V[i] = q[(m + 1) + i]
    <2>1. m + 1 \in Nat /\ k \in Nat /\ m + 1 <= k /\ k <= Len(q) /\ q \in Seq(Transaction)
      BY <1>1
    <2>2. /\ SubSeq(q, (m + 1) + 1, k) \in Seq(Transaction)
          /\ Len(SubSeq(q, (m + 1) + 1, k)) = k - (m + 1)
          /\ \A i \in 1..(k - (m + 1)) : /\ (m + 1) + i \in 1..k
                                       /\ SubSeq(q, (m + 1) + 1, k)[i] = q[(m + 1) + i]
      BY <2>1, SubSeqFacts, Zenon
    <2>. QED
      BY <1>5, <2>2
  <1>7. Tail(U) = V
    <2>1. Tail(U) \in Seq(Transaction) /\ Len(Tail(U)) = k - (m + 1) /\ U # << >>
      BY <1>1, <1>4
    <2>2. ASSUME NEW i \in 1..(k - (m + 1)) PROVE Tail(U)[i] = V[i]
      <3>1. i + 1 \in 1..(k - m) /\ m + (i + 1) = (m + 1) + i
        BY <1>1
      <3>2. Tail(U)[i] = U[i + 1]
        BY <1>4, <2>1
      <3>3. U[i + 1] = q[m + (i + 1)]
        BY <1>4, <3>1
      <3>. QED
        BY <1>6, <3>1, <3>2, <3>3
    <2>. QED
      BY <1>6, <2>1, <2>2
  <1>8. U # << >> /\ Head(U) = q[m + 1]
    <2>1. 1 \in 1..(k - m) /\ U # << >>
      BY <1>1, <1>4
    <2>. QED
      BY <1>4, <2>1
  <1>9. \A r \in Signer \ {s} : Unmined(r)' = Unmined(r)
    BY <1>2 DEF Unmined
  <1>. QED
    BY <1>1, <1>3, <1>4, <1>5, <1>7, <1>8, <1>9

LEMMA UnminedSend ==
  ASSUME ChainTypes, NEW s \in Signer, NEW t \in Transaction, Send(s, t), mined' = mined
  PROVE  /\ Unmined(s)' = Append(Unmined(s), t)
         /\ \A r \in Signer \ {s} : Unmined(r)' = Unmined(r)
  <1>1. PICK q, m, k : /\ q = txs[s] /\ m = mined[s] /\ k = Len(q)
                       /\ q \in Seq(Transaction) /\ m \in Nat /\ k \in Nat /\ m <= k
    BY TxsFacts
  <1>2. PICK p : /\ p = txs'[s] /\ p \in Seq(Transaction) /\ Len(p) = k + 1 /\ p[k + 1] = t
                 /\ \A i \in 1..k : p[i] = q[i]
    <2>1. txs' \in [Signer -> Seq(Transaction)]
      BY SendFacts
    <2>2. txs'[s] \in Seq(Transaction)
      BY <2>1
    <2>3. /\ Len(txs'[s]) = k + 1 /\ txs'[s][k + 1] = t
          /\ \A i \in 1..k : txs'[s][i] = q[i]
      BY <1>1, SendFacts
    <2>. QED
      BY <2>2, <2>3
  <1>3. Unmined(s)' = SubSeq(p, m + 1, k + 1)
    BY <1>1, <1>2 DEF Unmined
  <1>4. PICK U \in Seq(Transaction) : /\ U = Unmined(s) /\ Len(U) = k - m
                                      /\ \A i \in 1..(k - m) : U[i] = q[m + i]
    BY <1>1, UnminedType, UnminedFacts
  <1>5. PICK V \in Seq(Transaction) : V = SubSeq(p, m + 1, k + 1)
    <2>1. k + 1 \in Nat /\ m <= k + 1
      BY <1>1
    <2>2. SubSeq(p, m + 1, k + 1) \in Seq(Transaction)
      BY <1>1, <1>2, <2>1, SubSeqFacts
    <2>. QED
      BY <2>2
  <1>6. Len(V) = (k - m) + 1 /\ \A i \in 1..((k - m) + 1) : V[i] = p[m + i]
    <2>0. PICK n : n = k + 1
      OBVIOUS
    <2>1. m \in Nat /\ k \in Nat /\ m <= k
      BY <1>1
    <2>2. n \in Nat /\ m <= n /\ n <= n /\ n - m = (k - m) + 1
      BY <2>0, <2>1
    <2>3. n = Len(p) /\ p \in Seq(Transaction)
      BY <1>2, <2>0
    <2>4. m \in Nat /\ n \in Nat /\ m <= n /\ n <= Len(p) /\ p \in Seq(Transaction)
      BY <2>1, <2>2, <2>3
    <2>5. /\ Len(SubSeq(p, m + 1, n)) = n - m
          /\ \A i \in 1..(n - m) : m + i \in 1..n /\ SubSeq(p, m + 1, n)[i] = p[m + i]
      BY <2>4, SubSeqFacts, Zenon
    <2>. QED
      BY <1>5, <2>0, <2>2, <2>5
  <1>7. PICK A \in Seq(Transaction) : A = Append(U, t)
    <2>1. Append(U, t) \in Seq(Transaction)
      OBVIOUS
    <2>. QED
      BY <2>1, Zenon
  <1>8. /\ Len(A) = (k - m) + 1 /\ A[(k - m) + 1] = t
        /\ \A i \in 1..(k - m) : A[i] = U[i]
    BY <1>1, <1>4, <1>7
  <1>9. ASSUME NEW i \in 1..((k - m) + 1) PROVE V[i] = A[i]
    <2>1. i \in 1..(k - m) \/ i = (k - m) + 1
      <3>1. k - m \in Nat
        BY <1>1
      <3>. QED
        BY <3>1
    <2>2. CASE i \in 1..(k - m)
      <3>1. m + i \in 1..k
        BY <1>1, <2>2
      <3>. QED
        BY <1>2, <1>4, <1>6, <1>8, <2>2, <3>1
    <2>3. CASE i = (k - m) + 1
      <3>0. m \in Nat /\ k \in Nat
        BY <1>1
      <3>1. m + i = k + 1
        BY <2>3, <3>0
      <3>. QED
        BY <1>2, <1>6, <1>8, <2>3, <3>1
    <2>. QED
      BY <2>1, <2>2, <2>3
  <1>10. V = A
    BY <1>6, <1>8, <1>9
  <1>11. \A r \in Signer \ {s} : Unmined(r)' = Unmined(r)
    <2>1. \A r \in Signer \ {s} : txs'[r] = txs[r]
      BY SendFacts
    <2>. QED
      BY <2>1 DEF Unmined
  <1>. QED
    BY <1>3, <1>4, <1>5, <1>7, <1>10, <1>11

-----------------------------------------------------------------------------
(* Who pays whom *)

\* The owner is the only one who stakes; the server knows no other.
OwnerInv ==
    /\ stakes[Manager].owner \in {NoAddress, Owner}
    /\ reg.owner \in {NoAddress, Owner}

\* Nobody pays the manager but the owner.
RecipientInv == \A s \in Signer : \A i \in 1..Len(txs[s]) : txs[s][i].to # Manager

LEMMA PendingFacts ==
  ASSUME ChainTypes, RecipientInv
  PROVE  /\ Manager \in Signer /\ Worker \in Signer /\ Manager # Worker
         /\ balance \in Balances
         /\ Settled(balance, Manager, Unmined(Manager)) \in Balances
         /\ \A s \in Signer : \A i \in 1..Len(Unmined(s)) : Unmined(s)[i].to # Manager
         /\ PendingBalances[Manager] = Settled(balance, Manager, Unmined(Manager))[Manager]
         /\ PendingBalances[Manager] <= balance[Manager]
  <1>1. Manager \in Signer /\ Worker \in Signer /\ Manager # Worker /\ balance \in Balances
    BY DEF Signer, Manager, Worker, ChainTypes, Balances
  <1>2. PICK b : b = Settled(balance, Manager, Unmined(Manager)) /\ b \in Balances
    BY <1>1, UnminedType, SettledType
  <1>3. \A s \in Signer : \A i \in 1..Len(Unmined(s)) : Unmined(s)[i].to # Manager
    BY UnminedFacts DEF RecipientInv
  <1>4. PendingBalances[Manager] = b[Manager]
    BY <1>1, <1>2, <1>3, UnminedType, SettledManager, PendingIs
  <1>5. b[Manager] <= balance[Manager]
    BY <1>1, <1>2, <1>3, UnminedType, SettledManager
  <1>. QED
    BY <1>1, <1>2, <1>3, <1>4, <1>5

\* Mining changes nothing of what is pending, whoever's transaction comes first.
LEMMA ExecutePending ==
  ASSUME ChainTypes, ChainTypes', RecipientInv, NEW s \in Signer, Execute(s)
  PROVE  PendingBalances' = PendingBalances
  <1>0. /\ Manager \in Signer /\ Worker \in Signer /\ Manager # Worker
        /\ balance \in Balances /\ s \in {Manager, Worker}
    BY PendingFacts DEF Signer
  <1>1. PICK U, V : /\ U = Unmined(Manager) /\ V = Unmined(Worker)
                    /\ U \in Seq(Transaction) /\ V \in Seq(Transaction)
    BY <1>0, UnminedType
  <1>2. PICK t : /\ t = txs[s][mined[s] + 1] /\ Payable(balance, s, t)
                 /\ balance' = Transfer(balance, s, t)
    BY DEF Execute
  <1>3. /\ Unmined(s) # << >> /\ Head(Unmined(s)) = t /\ Unmined(s)' = Tail(Unmined(s))
        /\ \A r \in Signer \ {s} : Unmined(r)' = Unmined(r)
    BY <1>2, UnminedExecute
  <1>4. balance' = Paid(balance, s, t)
    BY <1>2 DEF Paid
  <1>5. CASE s = Manager
    <2>1. Settled(balance, Manager, U) = Settled(balance', Manager, Tail(U))
      BY <1>0, <1>1, <1>3, <1>4, <1>5, SettledFirst
    <2>. QED
      BY <1>0, <1>1, <1>3, <1>5, <2>1, PendingIs
  <1>6. CASE s = Worker
    <2>1. t \in Transaction /\ t.to # Manager
      <3>1. 1 \in 1..Len(V) /\ V[1] = t
        BY <1>1, <1>3, <1>6
      <3>. QED
        BY <1>1, <3>1, PendingFacts
    <2>2. PICK c : c = Settled(balance, Manager, U) /\ c \in Balances
      BY <1>1, PendingFacts
    <2>3. balance[Worker] >= t.value
      BY <1>2, <1>6 DEF Payable
    <2>4. Settled(balance', Manager, U) = Transfer(c, Worker, t) /\ c[Worker] >= balance[Worker]
      BY <1>0, <1>1, <1>2, <1>6, <2>1, <2>2, <2>3, SettledCommutes
    <2>5. Transfer(c, Worker, t) = Paid(c, Worker, t)
      <3>1. /\ c[Worker] \in Nat /\ balance[Worker] \in Nat /\ t.value \in Nat
        BY <1>0, <2>1, <2>2 DEF Balances, Transaction, Account
      <3>2. c[Worker] >= t.value
        BY <2>3, <2>4, <3>1
      <3>. QED
        BY <1>2, <3>2 DEF Paid, Payable
    <2>6. Settled(c, Worker, V) = Settled(Paid(c, Worker, t), Worker, Tail(V))
      BY <1>0, <1>1, <1>3, <1>6, <2>2, SettledFirst
    <2>. QED
      BY <1>0, <1>1, <1>3, <1>6, <2>2, <2>4, <2>5, <2>6, PendingIs
  <1>. QED
    BY <1>0, <1>5, <1>6

\* What a transaction of the manager does to what the manager has.
LEMMA ManagerSends ==
  ASSUME ChainTypes, RecipientInv, NEW t \in Transaction, Send(Manager, t), t.to # Manager,
         UNCHANGED <<balance, mined>>
  PROVE  PendingBalances'[Manager] =
            IF Payable(PendingBalances, Manager, t) THEN PendingBalances[Manager] - t.value
                                                    ELSE PendingBalances[Manager]
  <1>0. /\ Manager \in Signer /\ Worker \in Signer /\ Manager # Worker
        /\ Manager \in Account /\ balance \in Balances /\ t.value \in Nat
    BY PendingFacts DEF Account, Transaction
  <1>1. PICK U, V : /\ U = Unmined(Manager) /\ V = Unmined(Worker)
                    /\ U \in Seq(Transaction) /\ V \in Seq(Transaction)
    BY <1>0, UnminedType
  <1>2. PICK c \in Balances : c = Settled(balance, Manager, U) /\ c[Manager] = PendingBalances[Manager]
    BY <1>1, PendingFacts
  <1>3. PICK d \in Balances : d = Paid(c, Manager, t)
    BY <1>0, PaidType
  <1>4. Unmined(Manager)' = Append(U, t) /\ Unmined(Worker)' = V
    BY <1>0, <1>1, UnminedSend
  <1>5. Settled(balance, Manager, Append(U, t)) = d
    BY <1>0, <1>1, <1>2, <1>3, SettledLast
  <1>6. PendingBalances' = Settled(d, Worker, V)
    BY <1>4, <1>5, PendingIs
  <1>7. \A i \in 1..Len(V) : V[i].to # Manager
    BY <1>0, <1>1, PendingFacts
  <1>8. PendingBalances'[Manager] = d[Manager]
    BY <1>0, <1>1, <1>3, <1>6, <1>7, SettledManager
  <1>9. Payable(PendingBalances, Manager, t) <=> Payable(c, Manager, t)
    BY <1>2 DEF Payable
  <1>10. c[Manager] \in Nat
    BY <1>0 DEF Balances
  <1>11. Transfer(c, Manager, t)[Manager] = c[Manager] - t.value
    BY <1>0, <1>10 DEF Transfer
  <1>. QED
    BY <1>2, <1>3, <1>8, <1>9, <1>11 DEF Paid

\* A transaction of the worker takes nothing from the manager.
LEMMA WorkerSends ==
  ASSUME ChainTypes, RecipientInv, NEW t \in Transaction, Send(Worker, t), t.to # Manager,
         UNCHANGED <<balance, mined>>
  PROVE  PendingBalances'[Manager] = PendingBalances[Manager]
  <1>0. /\ Manager \in Signer /\ Worker \in Signer /\ Manager # Worker
        /\ Manager \in Account /\ Manager # Worker /\ balance \in Balances /\ t.value \in Nat
    BY PendingFacts DEF Account, Transaction
  <1>1. PICK U, V : /\ U = Unmined(Manager) /\ V = Unmined(Worker)
                    /\ U \in Seq(Transaction) /\ V \in Seq(Transaction)
    BY <1>0, UnminedType
  <1>2. PICK c \in Balances : c = Settled(balance, Manager, U)
    BY <1>1, PendingFacts
  <1>3. Unmined(Worker)' = Append(V, t) /\ Unmined(Manager)' = U
    BY <1>0, <1>1, UnminedSend
  <1>4. PICK e \in Balances : e = PendingBalances /\ e = Settled(c, Worker, V)
    BY <1>0, <1>1, <1>2, PendingIs, SettledType
  <1>5. PendingBalances' = Paid(e, Worker, t)
    BY <1>0, <1>1, <1>2, <1>3, <1>4, PendingIs, SettledLast
  <1>6. e[Manager] \in Nat
    BY <1>0 DEF Balances
  <1>7. Transfer(e, Worker, t)[Manager] = e[Manager]
    BY <1>0, <1>6 DEF Transfer
  <1>. QED
    BY <1>4, <1>5, <1>7 DEF Paid

\* Who stakes for the manager is its owner.
LEMMA EnvOwner ==
  ASSUME Types, Hub!TypeOK, OwnerInv, Chain \/ OwnerScript
  PROVE  OwnerInv'
  <1>0. /\ stakes \in [{Manager, Worker, Owner} -> Hub!StakeInfo]
        /\ stakes[Manager].owner \in {NoAddress, Owner}
    BY DEF Hub!TypeOK, OwnerInv
  <1>1. reg' = reg
    BY DEF Chain, OwnerScript, serverVars
  <1>2. CASE stakes' = stakes
    BY <1>1, <1>2 DEF OwnerInv
  <1>3. ASSUME stakes' # stakes
        PROVE  stakes'[Manager].owner \in {NoAddress, Owner}
    <2>1. CASE Unlock
      BY <1>0, <2>1 DEF Unlock, Hub!UnlockStake, Hub!StakeInfo
    <2>2. CASE Withdraw
      BY <1>0, <2>2 DEF Withdraw, Hub!WithdrawStake, Hub!EmptyStake, NoAddress
    <2>3. CASE Penalize
      <3>1. PICK m : stakes' = [stakes EXCEPT ![m].stake = 0]
        BY <2>3 DEF Penalize, Hub!Penalize
      <3>. QED
        BY <1>0, <3>1 DEF Hub!StakeInfo
    <2>4. CASE Stake
      BY <1>0, <2>4 DEF Stake, Hub!StakeForAddress, Hub!StakeInfo
    <2>5. Unlock \/ Withdraw \/ Penalize \/ Stake
      <3>1. ASSUME NEW s \in Signer, Execute(s)
            PROVE  stakes' = stakes
        BY <3>1 DEF Execute, Executes, hubVars, Hub!AddRelayWorkers, Hub!RegisterRelayServer,
                    Hub!RelayCall
      <3>2. CASE Chain
        BY <1>3, <3>1, <3>2 DEF Chain, ChainNext, MineBlock, SealBlock, Hub!MineBlock, hubVars
      <3>3. CASE OwnerScript
        BY <1>3, <3>3 DEF OwnerScript, RegisterRelay, StartRegisterRelay, ReadStakeInfo,
           ReadManagerBalance, Fund, RelayIsReady, RegisterRelayFails, chainVars, hubVars
      <3>. QED
        BY <3>2, <3>3
    <2>. QED
      BY <2>1, <2>2, <2>3, <2>4, <2>5
  <1>. QED
    BY <1>1, <1>2, <1>3 DEF OwnerInv

LEMMA ServerOwner ==
  ASSUME Types, Hub!TypeOK, OwnerInv, Server
  PROVE  OwnerInv'
  <1>0. UNCHANGED hubVars /\ reg \in Managers
    BY ServerReads DEF Types, RegTypes
  <1>1. SUFFICES reg'.owner \in {NoAddress, Owner}
    BY <1>0 DEF OwnerInv, hubVars
  <1>2. reg.owner \in {NoAddress, Owner} /\ stakes[Manager].owner \in {NoAddress, Owner}
    BY DEF OwnerInv
  <1>3. CASE reg' = reg
    BY <1>2, <1>3
  <1>4. CASE RefreshBalance
    BY <1>0, <1>2, <1>4 DEF RefreshBalance, Managers
  <1>5. CASE Initialize
    BY <1>0, <1>2, <1>5 DEF Initialize, RegistrationInit, Managers
  <1>6. CASE HandleStakeEvent
    <2>1. RefreshStake(reg) \in Managers /\ RefreshStake(reg).owner \in {NoAddress, Owner}
      <3>1. PICK k, l, o : /\ k = stakes[Manager].stake /\ l = (stakes[Manager].withdrawBlock = 0)
                           /\ o = IF reg.owner = NoAddress THEN stakes[Manager].owner ELSE reg.owner
        OBVIOUS
      <3>2. o \in {NoAddress, Owner}
        BY <1>2, <3>1
      <3>3. RefreshStake(reg) \in {reg, [reg EXCEPT !.locked = l, !.stake = k, !.owner = o]}
        BY <3>1 DEF RefreshStake
      <3>. QED
        BY <1>0, <1>2, <3>2, <3>3, RefreshStakeType DEF Managers
    <2>2. PICK x : x = RefreshStake(reg)
      OBVIOUS
    <2>3. PICK d : reg' = [x EXCEPT !.delayed = d]
      BY <1>6, <2>2 DEF HandleStakeEvent
    <2>. QED
      BY <2>1, <2>2, <2>3 DEF Managers
  <1>7. CASE ExtractDuePendingEvents
    <2>1. PICK a, b, d : reg' = [reg EXCEPT !.registered = a, !.workerAdded = b, !.delayed = d]
      BY <1>7 DEF ExtractDuePendingEvents
    <2>. QED
      BY <1>0, <1>2, <2>1 DEF Managers
  <1>8. CASE Crash
    BY <1>8 DEF Crash, Restart, NewRegistrationManager
  <1>9. CASE RoundStep
    <2>1. CASE Registration
      BY <1>3, <1>6, <1>7, <2>1 DEF Registration, FetchStakeEvents, PayOwner, AddRelayWorker,
         RegisterServer
    <2>2. CASE StartRound \/ FetchHubEvents \/ EndScan \/ EndRound
      BY <1>3, <2>2 DEF StartRound, FetchHubEvents, EndScan, EndRound
    <2>. QED
      BY <1>4, <1>5, <1>9, <2>1, <2>2 DEF RoundStep
  <1>10. CASE ~RoundStep /\ ~Crash
    <2>1. reg' = reg
      BY <1>10 DEF Server, ReplenishStep, ReadBalances, Decide, SendRefill, RequestStep, Accept,
         Validate, Relay, RoundFails, PayoutRefused, Timeout
    <2>. QED
      BY <1>3, <2>1
  <1>. QED
    BY <1>8, <1>9, <1>10

LEMMA SentLast ==
  ASSUME ChainTypes, NEW s \in Signer, NEW t \in Transaction, Send(s, t)
  PROVE  /\ \A r \in Signer \ {s} : txs'[r] = txs[r]
         /\ \A i \in 1..Len(txs[s]) : i \in 1..Len(txs'[s]) /\ txs'[s][i] = txs[s][i]
         /\ \E i \in 1..Len(txs'[s]) : txs'[s][i] = t
         /\ \A i \in 1..Len(txs'[s]) :
               \/ txs'[s][i] = t
               \/ i \in 1..Len(txs[s]) /\ txs'[s][i] = txs[s][i]
  <1>1. PICK n \in Nat : n = Len(txs[s])
    BY TxsFacts
  <1>2. /\ Len(txs'[s]) = n + 1 /\ txs'[s][n + 1] = t
        /\ \A i \in 1..n : txs'[s][i] = txs[s][i]
        /\ \A r \in Signer \ {s} : txs'[r] = txs[r]
    BY <1>1, SendFacts
  <1>3. n + 1 \in 1..(n + 1) /\ \A i \in 1..(n + 1) : i = n + 1 \/ i \in 1..n
    OBVIOUS
  <1>. QED
    BY <1>1, <1>2, <1>3

LEMMA PendingNat ==
  ChainTypes => PendingBalances[Worker] \in Nat /\ PendingBalances[Manager] \in Nat
  BY PendingType DEF Account

\* Whatever the server sends, it takes from the manager, or leaves the manager what it has.
LEMMA ServerPays ==
  ASSUME Types, OwnerInv, RecipientInv, Server
  PROVE  RecipientInv' /\ PendingBalances'[Manager] <= PendingBalances[Manager]
  <1>0. /\ ChainTypes /\ UNCHANGED <<balance, mined>>
        /\ Manager \in Signer /\ Worker \in Signer
        /\ PendingBalances[Manager] \in Nat
    BY ServerReads, PendingNat, PendingFacts DEF Types
  <1>1. CASE txs' = txs
    <2>1. Unmined(Manager)' = Unmined(Manager) /\ Unmined(Worker)' = Unmined(Worker)
      BY <1>0, <1>1 DEF Unmined
    <2>2. PendingBalances' = PendingBalances
      BY <1>0, <2>1, PendingIs
    <2>. QED
      BY <1>0, <1>1, <2>2 DEF RecipientInv
  <1>2. ASSUME NEW s \in Signer, NEW t \in Transaction, Send(s, t), t.to # Manager
        PROVE  RecipientInv' /\ PendingBalances'[Manager] <= PendingBalances[Manager]
    <2>1. RecipientInv'
      BY <1>0, <1>2, SentLast DEF RecipientInv
    <2>2. CASE s = Manager
      <3>1. PendingBalances'[Manager] =
               IF Payable(PendingBalances, Manager, t) THEN PendingBalances[Manager] - t.value
                                                       ELSE PendingBalances[Manager]
        BY <1>0, <1>2, <2>2, ManagerSends
      <3>2. t.value \in Nat
        BY <1>2 DEF Transaction
      <3>. QED
        BY <1>0, <2>1, <3>1, <3>2
    <2>3. CASE s = Worker
      BY <1>0, <1>2, <2>1, <2>3, WorkerSends
    <2>. QED
      BY <2>2, <2>3 DEF Signer
  <1>3. CASE txs' # txs
    <2>1. HubItself # Manager /\ Owner # Manager /\ Worker # Manager /\ NoAddress # Manager
      BY DEF HubItself, Owner, Worker, Manager, NoAddress
    <2>2. CASE \E a : Send(a, Payout(a))
      <3>1. PICK a : Send(a, Payout(a))
        BY <2>2
      <3>2. a \in Signer
        BY <1>0, <1>3, <3>1 DEF Send, ChainTypes
      <3>3. Payout(a).to = reg.owner
        BY DEF Payout, Tx
      <3>. QED
        BY <1>2, <2>1, <3>1, <3>2, <3>3, PayoutType DEF OwnerInv
    <2>3. CASE \/ Send(Manager, Tx("ADD_WORKER", HubItself, 0))
               \/ Send(Manager, Tx("REGISTER_SERVER", HubItself, 0))
      <3>1. /\ Tx("ADD_WORKER", HubItself, 0).to = HubItself
            /\ Tx("REGISTER_SERVER", HubItself, 0).to = HubItself
        BY DEF Tx
      <3>. QED
        BY <1>0, <1>2, <2>1, <2>3, <3>1, RegistrationTxs
    <2>4. CASE \E p \in Replenisher : SendRefill(p)
      <3>1. PICK p \in Replenisher : SendRefill(p)
        BY <2>4
      <3>2. Refill(p) \in Transaction /\ Refill(p).to = Worker /\ Send(Manager, Refill(p))
        BY <3>1, RefillType DEF SendRefill, Refill, Tx
      <3>. QED
        BY <1>0, <1>2, <2>1, <3>2
    <2>5. CASE \E r \in Request : Relay(r)
      <3>1. RelayTx \in Transaction /\ RelayTx.to = HubItself /\ Send(Worker, RelayTx)
        BY <2>5, RegistrationTxs DEF Relay, RelayTx, Tx
      <3>. QED
        BY <1>0, <1>2, <2>1, <3>1
    <2>. QED
      BY <1>3, <2>2, <2>3, <2>4, <2>5, ServerSent
  <1>. QED
    BY <1>1, <1>3

-----------------------------------------------------------------------------
(* No withdrawal is passed over                                            *)

Withdrawn(i) == log[i].event = "StakeWithdrawn"

\* There was a withdrawal, and none after block b.
LastWithdrawalBy(b) ==
    HasEvent("StakeWithdrawn") /\ \A i \in DOMAIN log : Withdrawn(i) => log[i].block <= b

\* The manager has nothing left but what its owner sent after the last withdrawal.
Drained == PendingBalances[Manager] <= hist.late

\* The last withdrawal, once scanned, has been paid for; when this round scans it, it is
\* still to be handled, is being paid, or has been paid for.
DrainedInv ==
    /\ LastWithdrawalBy(srv.scanned) => Drained
    /\ round.pc \in Fetched \ {"stakeEvents"} /\ LastWithdrawalBy(round.block) =>
          \/ Drained
          \/ \E i \in DOMAIN log : Withdrawn(i) /\ i \in ToSet(round.todo)
          \/ round.pc = "pay" /\ Manager \in ToSet(round.pay)

\* The chain and the owner change what the manager has, pending, only when the owner
\* sends it RBTC.
LEMMA EnvPending ==
  ASSUME Types, Hub!TypeOK, RecipientInv, Chain \/ OwnerScript
  PROVE  /\ RecipientInv'
         /\ \/ PendingBalances' = PendingBalances
            \/ /\ OwnerScript /\ Fund
               /\ PendingBalances'[Manager] <= PendingBalances[Manager] + Funds
  <1>0. /\ ChainTypes /\ ChainTypes' /\ txs' = txs
        /\ Manager \in Signer /\ Worker \in Signer /\ Manager \in Account
    <2>1. EnvStep /\ ChainTypes' /\ ChainTypes
      BY ChainStepTypes, ScriptTypes DEF Types
    <2>. QED
      BY <2>1 DEF EnvStep, Signer, Account
  <1>1. RecipientInv'
    BY <1>0 DEF RecipientInv
  <1>2. CASE UNCHANGED <<balance, mined>>
    <2>1. Unmined(Manager)' = Unmined(Manager) /\ Unmined(Worker)' = Unmined(Worker)
      BY <1>0, <1>2 DEF Unmined
    <2>. QED
      BY <1>1, <1>2, <2>1, PendingIs
  <1>3. CASE Chain
    <2>1. CASE \E s \in Signer : Execute(s)
      BY <1>0, <1>1, <2>1, ExecutePending
    <2>2. CASE ~\E s \in Signer : Execute(s)
      <3>1. UNCHANGED <<balance, mined>>
        BY <1>3, <2>2 DEF Chain, ChainNext, MineBlock, SealBlock, Unlock, Withdraw, Penalize, NoTx
      <3>. QED
        BY <1>2, <3>1
    <2>. QED
      BY <2>1, <2>2
  <1>4. CASE OwnerScript /\ ~Fund
    <2>1. UNCHANGED <<balance, mined>>
      BY <1>4 DEF OwnerScript, RegisterRelay, StartRegisterRelay, ReadStakeInfo, Stake, NoTx,
         ReadManagerBalance, RelayIsReady, RegisterRelayFails, chainVars
    <2>. QED
      BY <1>2, <2>1
  <1>5. CASE OwnerScript /\ Fund
    <2>1. mined' = mined /\ balance' = [balance EXCEPT ![Manager] = @ + Funds]
      BY <1>5 DEF Fund
    <2>2. PICK U, V : /\ U = Unmined(Manager) /\ V = Unmined(Worker)
                      /\ U \in Seq(Transaction) /\ V \in Seq(Transaction)
      BY <1>0, UnminedType
    <2>3. Unmined(Manager)' = U /\ Unmined(Worker)' = V
      BY <1>0, <2>1, <2>2 DEF Unmined
    <2>4. PICK c, d : c = balance /\ d = balance' /\ c \in Balances /\ d \in Balances
      BY <1>0 DEF ChainTypes, Balances
    <2>5. d[Manager] = c[Manager] + Funds
      BY <1>0, <2>1, <2>4 DEF Balances
    <2>6. \A i \in 1..Len(U) : U[i].to # Manager
      BY <1>0, <2>2, PendingFacts
    <2>7. Settled(d, Manager, U)[Manager] <= Settled(c, Manager, U)[Manager] + Funds
      BY <2>2, <2>4, <2>5, <2>6, SettledMore, RegisterRelayAssumption
    <2>8. PendingBalances[Manager] = Settled(c, Manager, U)[Manager]
      BY <1>0, <2>2, <2>4, PendingFacts
    <2>9. PendingBalances'[Manager] = Settled(d, Manager, U)[Manager]
      <3>1. (ChainTypes /\ RecipientInv =>
               PendingBalances[Manager] = Settled(balance, Manager, Unmined(Manager))[Manager])'
        BY PendingFacts, PTL
      <3>. QED
        BY <1>0, <1>1, <2>3, <2>4, <3>1
    <2>. QED
      BY <1>1, <1>5, <2>7, <2>8, <2>9
  <1>. QED
    BY <1>3, <1>4, <1>5

\* What the owner sends is counted; only a withdrawal ends the count.
LEMMA EnvLate ==
  ASSUME Types, Hub!TypeOK, Chain \/ OwnerScript
  PROVE  /\ OwnerScript /\ Fund => hist'.late = hist.late + Funds
         /\ \/ hist'.late >= hist.late
            \/ \E x \in Entry : log' = Append(log, x) /\ x.event = "StakeWithdrawn"
  <1>1. hist \in Histories
    BY DEF Types, OtherTypes
  <1>2. CASE OwnerScript
    BY <1>1, <1>2, RegisterRelayAssumption DEF OwnerScript, Histories
  <1>3. CASE Chain /\ ~OwnerScript /\ ~Withdraw
    BY <1>1, <1>3 DEF Chain, Histories
  <1>4. CASE Chain /\ ~OwnerScript /\ Withdraw
    <2>1. \E x \in Entry : log' = Append(log, x) /\ x.event = "StakeWithdrawn"
      BY <1>4, EmitFacts DEF Withdraw, OtherEvents, Types
    <2>. QED
      BY <1>4, <2>1
  <1>. QED
    BY <1>2, <1>3, <1>4

LEMMA EnvDrained ==
  ASSUME Types, Hub!TypeOK, Clock, RecipientInv, DrainedInv, Chain \/ OwnerScript
  PROVE  DrainedInv'
  <1>0. EnvStep /\ UNCHANGED <<srv, round>> /\ log \in Seq(Entry)
    BY ChainStepTypes, ScriptTypes DEF Types, EnvStep, serverVars, ChainTypes
  <1>1. srv.scanned \in Nat /\ round.block \in Nat /\ block \in Nat
    BY HubFacts DEF Types, SrvTypes, Servers, RoundTypes, Rounds
  <1>2. CASE \E x \in Entry : log' = Append(log, x) /\ x.event = "StakeWithdrawn"
    <2>1. PICK x \in Entry : log' = Append(log, x) /\ x.event = "StakeWithdrawn"
      BY <1>2
    <2>2. PICK k : k \in DOMAIN log' /\ k \notin DOMAIN log /\ log'[k] = x
      BY <1>0, <2>1
    <2>3. log'[k].block = block /\ srv.scanned < block /\ round.block < block
      BY <1>0, <2>2, EnvLog
    <2>4. ~(log'[k].block <= srv.scanned) /\ ~(log'[k].block <= round.block)
      BY <1>1, <2>3
    <2>5. ~LastWithdrawalBy(srv.scanned)' /\ ~LastWithdrawalBy(round.block)'
      BY <1>0, <2>1, <2>2, <2>4 DEF LastWithdrawalBy, Withdrawn
    <2>. QED
      BY <2>5 DEF DrainedInv
  <1>3. CASE ~\E x \in Entry : log' = Append(log, x) /\ x.event = "StakeWithdrawn"
    <2>1. Drained => Drained'
      <3>1. /\ hist'.late >= hist.late /\ hist.late \in Nat /\ hist'.late \in Nat
            /\ OwnerScript /\ Fund => hist'.late = hist.late + Funds
        BY <1>0, <1>3, EnvLate, EnvHistory DEF Types, OtherTypes, Histories
      <3>2. PICK a, b : /\ a = PendingBalances[Manager] /\ b = PendingBalances'[Manager]
                        /\ b = a \/ (OwnerScript /\ Fund /\ b <= a + Funds)
        BY EnvPending
      <3>3. a \in Nat /\ b \in Nat /\ Funds \in Nat
        <4>1. (ChainTypes => PendingBalances[Manager] \in Nat)'
          BY PendingNat, PTL
        <4>2. ChainTypes' /\ ChainTypes
          BY ChainStepTypes, ScriptTypes DEF Types
        <4>. QED
          BY <3>2, <4>1, <4>2, PendingNat, RegisterRelayAssumption
      <3>4. CASE b = a
        BY <3>1, <3>2, <3>3, <3>4 DEF Drained
      <3>5. CASE OwnerScript /\ Fund /\ b <= a + Funds
        BY <3>1, <3>2, <3>3, <3>5 DEF Drained
      <3>. QED
        BY <3>2, <3>4, <3>5
    <2>2. /\ \A i \in DOMAIN log : i \in DOMAIN log' /\ log'[i] = log[i]
          /\ \A i \in DOMAIN log' : Withdrawn(i)' => i \in DOMAIN log
      <3>1. \A i \in DOMAIN log' : i \notin DOMAIN log => log' = Append(log, log'[i]) /\ log'[i] \in Entry
        <4>1. ChainTypes'
          BY ChainStepTypes, ScriptTypes DEF Types
        <4>2. log' \in Seq(Entry)
          BY <4>1 DEF ChainTypes
        <4>. QED
          BY <1>0, <4>2, EnvLog
      <3>. QED
        BY <1>0, <1>3, <3>1, EnvLog DEF Withdrawn
    <2>3. \A b : LastWithdrawalBy(b)' => LastWithdrawalBy(b)
      BY <2>2 DEF LastWithdrawalBy, Withdrawn, HasEvent
    <2>4. /\ LastWithdrawalBy(srv.scanned)' => LastWithdrawalBy(srv.scanned)
          /\ LastWithdrawalBy(round.block)' => LastWithdrawalBy(round.block)
      BY <1>0, <2>2 DEF LastWithdrawalBy, Withdrawn, HasEvent
    <2>5. (\E i \in DOMAIN log : Withdrawn(i) /\ i \in ToSet(round.todo)) =>
          (\E i \in DOMAIN log : Withdrawn(i) /\ i \in ToSet(round.todo))'
      BY <1>0, <2>2 DEF Withdrawn
    <2>. QED
      BY <1>0, <2>1, <2>4, <2>5 DEF DrainedInv
  <1>. QED
    BY <1>2, <1>3

\* All the manager has in the latest block: nothing is left of what is pending.
LEMMA PayManager ==
  ASSUME Types, OwnerInv, RecipientInv, PayOwner, Server, Head(round.pay) = Manager
  PROVE  PendingBalances'[Manager] = 0
  <1>0. /\ ChainTypes /\ RecipientInv /\ UNCHANGED <<balance, mined>>
        /\ Manager \in Signer /\ Manager \in Account /\ balance[Manager] \in Nat
        /\ PendingBalances[Manager] \in Nat /\ PendingBalances[Manager] <= balance[Manager]
    BY ServerReads, PendingNat, PendingFacts DEF Types, Balances, Account
  <1>1. CASE balance[Manager] = 0
    <2>1. txs' = txs
      BY <1>1 DEF PayOwner
    <2>2. Unmined(Manager)' = Unmined(Manager) /\ Unmined(Worker)' = Unmined(Worker)
      BY <1>0, <2>1 DEF Unmined
    <2>3. PendingBalances' = PendingBalances
      BY <1>0, <2>2, PendingIs
    <2>. QED
      BY <1>0, <1>1, <2>3
  <1>2. CASE balance[Manager] # 0
    <2>1. PICK t \in Transaction : t = Payout(Manager)
      BY <1>0, PayoutType
    <2>2. /\ Payable(PendingBalances, Manager, t) /\ Send(Manager, t)
          /\ t.value = balance[Manager] /\ t.to \in {NoAddress, Owner}
      BY <1>2, <2>1 DEF PayOwner, Payout, Tx, OwnerInv
    <2>3. t.to # Manager /\ PendingBalances[Manager] >= balance[Manager]
      BY <2>2 DEF Payable, NoAddress, Owner, Manager
    <2>4. PendingBalances'[Manager] = PendingBalances[Manager] - balance[Manager]
      BY <1>0, <2>2, <2>3, ManagerSends
    <2>. QED
      BY <1>0, <2>3, <2>4
  <1>. QED
    BY <1>1, <1>2

LEMMA ServerHistory ==
  ASSUME Types, Server
  PROVE  hist'.late = hist.late
  <1>0. hist \in Histories
    BY DEF Types, OtherTypes
  <1>1. CASE hist' = hist
    BY <1>1
  <1>2. CASE \E a : hist' = [hist EXCEPT !.alerts = a]
    BY <1>0, <1>2 DEF Histories
  <1>3. CASE \E b : hist' = [hist EXCEPT !.overlap = b]
    BY <1>0, <1>3 DEF Histories
  <1>4. CASE RoundStep
    BY <1>1, <1>2, <1>4 DEF RoundStep, Initialize, StartRound, RefreshBalance, FetchHubEvents,
       Registration, EndScan, EndRound
  <1>5. ASSUME NEW p \in Replenisher, ReplenishStep(p)
        PROVE  hist'.late = hist.late
    BY <1>1, <1>3, <1>5 DEF ReplenishStep, ReadBalances, Decide, SendRefill
  <1>6. ASSUME NEW r \in Request, RequestStep(r)
        PROVE  hist'.late = hist.late
    BY <1>1, <1>6 DEF RequestStep, Accept, Validate, Relay
  <1>7. CASE RoundFails \/ Timeout \/ Crash
    BY <1>1, <1>2, <1>7 DEF RoundFails, Timeout, Crash, Restart
  <1>. QED
    BY <1>4, <1>5, <1>6, <1>7 DEF Server

\* The server takes from the manager only.
LEMMA StaysDrained ==
  ASSUME Types, OwnerInv, RecipientInv, Server, Drained
  PROVE  Drained'
  <1>1. /\ PendingBalances[Manager] \in Nat /\ PendingBalances'[Manager] \in Nat
        /\ hist.late \in Nat
    <2>1. (ChainTypes => PendingBalances[Manager] \in Nat)'
      BY PendingNat, PTL
    <2>2. ChainTypes'
      BY ServerSends, SendsTypes DEF Types
    <2>. QED
      BY <2>1, <2>2, PendingNat DEF Types, OtherTypes, Histories
  <1>. QED
    BY <1>1, ServerPays, ServerHistory DEF Drained

LEMMA HeadOrTail ==
  ASSUME NEW S, NEW q \in Seq(S), NEW x \in ToSet(q)
  PROVE  q # << >> /\ (x = Head(q) \/ (x \in ToSet(Tail(q)) /\ Len(q) > 1))
  <1>1. PICK n \in Nat : n = Len(q) /\ DOMAIN q = 1..n
    OBVIOUS
  <1>2. PICK k \in 1..n : q[k] = x
    BY <1>1 DEF ToSet
  <1>3. q # << >> /\ n >= 1
    BY <1>1, <1>2
  <1>4. PICK r : r = Tail(q)
    OBVIOUS
  <1>5. r \in Seq(S) /\ Len(r) = n - 1 /\ DOMAIN r = 1..(n - 1) /\ \A i \in 1..(n - 1) : r[i] = q[i + 1]
    BY <1>1, <1>3, <1>4
  <1>6. CASE k = 1
    BY <1>1, <1>2, <1>3, <1>6
  <1>7. CASE k # 1
    <2>1. k - 1 \in 1..(n - 1) /\ (k - 1) + 1 = k /\ n > 1
      BY <1>7
    <2>2. r[k - 1] = x
      BY <1>2, <1>5, <2>1
    <2>3. x \in ToSet(r)
      BY <1>5, <2>1, <2>2 DEF ToSet
    <2>. QED
      BY <1>1, <1>3, <1>4, <2>1, <2>3
  <1>. QED
    BY <1>6, <1>7

LEMMA ServerDrained ==
  ASSUME Types, Hub!TypeOK, Clock, Course, OwnerInv, RecipientInv, DrainedInv, Server
  PROVE  DrainedInv'
  <1>0. /\ UNCHANGED <<log, script, balance>>
        /\ srv \in Servers /\ round \in Rounds /\ log \in Seq(Entry)
        /\ \A i \in DOMAIN log : log[i].block \in Nat
        /\ Manager \in Signer
    BY ServerReads, LogFacts DEF Types, SrvTypes, RoundTypes, ChainTypes, Signer
  <1>1. Drained => Drained'
    BY StaysDrained
  <1>. DEFINE Left(r) == \E i \in DOMAIN log : Withdrawn(i) /\ i \in ToSet(r.todo)
              Paying(r) == r.pc = "pay" /\ Manager \in ToSet(r.pay)
  <1>3. SUFFICES /\ LastWithdrawalBy(srv'.scanned) => Drained'
                 /\ round'.pc \in Fetched \ {"stakeEvents"} /\ LastWithdrawalBy(round'.block) =>
                       Drained' \/ Left(round') \/ Paying(round')
    BY <1>0 DEF DrainedInv, LastWithdrawalBy, HasEvent, Withdrawn
  <1>4. /\ LastWithdrawalBy(srv.scanned) => Drained
        /\ round.pc \in Fetched \ {"stakeEvents"} /\ LastWithdrawalBy(round.block) =>
              Drained \/ Left(round) \/ Paying(round)
    BY DEF DrainedInv
  <1>. HIDE DEF Left, Paying
  <1>5. CASE Crash
    <2>1. srv'.scanned = 0 /\ round'.pc = "idle"
      BY <1>5 DEF Crash, Restart, NewServer, NoScan
    <2>2. ~LastWithdrawalBy(0)
      BY <1>0 DEF LastWithdrawalBy, HasEvent, Withdrawn, Clock
    <2>. QED
      BY <2>1, <2>2 DEF Fetched, Decided
  <1>6. CASE Quiet
    BY <1>1, <1>4, <1>6 DEF Quiet, Apart, SameScan
  <1>7. CASE Abort \/ Begin
    <2>1. srv'.scanned = srv.scanned /\ round'.pc \in {"idle", "balance", "hubEvents"}
      <3>1. CASE Abort
        BY <3>1 DEF Abort, Apart, SameScan, NoScan
      <3>2. CASE Begin
        BY <1>0, <3>2 DEF Begin, Apart, SameScan, NoScan, Rounds
      <3>. QED
        BY <1>7, <3>1, <3>2
    <2>. QED
      BY <1>1, <1>4, <2>1 DEF Fetched, Decided
  <1>8. CASE Initialize \/ FetchHubEvents
    <2>1. srv'.scanned = srv.scanned /\ (round' = round \/ round'.pc = "stakeEvents")
      BY <1>0, <1>8 DEF Initialize, FetchHubEvents, Servers, Rounds
    <2>. QED
      BY <1>1, <1>4, <2>1
  <1>9. CASE Registration
    <2>1. srv' = srv /\ round'.block = round.block /\ round.pc \in Fetched
      BY <1>9, RegistrationRounds
    <2>2. CASE FetchStakeEvents(srv.scanned)
      <3>1. PICK E : E = Events(StakeEvents, srv.scanned + 1)
        OBVIOUS
      <3>2. round'.todo = E
        BY <1>0, <2>2, <3>1 DEF FetchStakeEvents, Rounds
      <3>3. ASSUME NEW i \in DOMAIN log, Withdrawn(i)
            PROVE  log[i].block <= srv.scanned \/ i \in ToSet(E)
        <4>1. srv.scanned \in Nat /\ log[i].event \in StakeEvents
          BY <1>0, <3>3 DEF Servers, StakeEvents, Withdrawn
        <4>2. ~(log[i].block <= srv.scanned) => log[i].block >= srv.scanned + 1
          BY <1>0, <4>1
        <4>. QED
          BY <1>0, <3>1, <4>1, <4>2, EventsFacts
      <3>4. LastWithdrawalBy(round.block) => LastWithdrawalBy(srv.scanned) \/ Left(round')
        BY <3>2, <3>3 DEF LastWithdrawalBy, Left
      <3>. QED
        BY <1>1, <1>4, <2>1, <3>4
    <2>3. CASE HandleStakeEvent
      <3>1. PICK q \in Seq(DOMAIN log) : q = round.todo /\ round.pc = "stake"
        BY <1>0, <2>3 DEF HandleStakeEvent, Rounds
      <3>2. /\ round'.todo = Tail(q)
            /\ log[Head(q)].event = "StakeWithdrawn" =>
                  round'.pc = "pay" /\ round'.pay = <<Worker, Manager>>
        BY <1>0, <2>3, <3>1 DEF HandleStakeEvent, Rounds
      <3>3. Manager \in ToSet(<<Worker, Manager>>)
        <4>1. 2 \in DOMAIN <<Worker, Manager>> /\ <<Worker, Manager>>[2] = Manager
          OBVIOUS
        <4>. QED
          BY <4>1 DEF ToSet
      <3>4. \A i \in ToSet(q) : i = Head(q) \/ i \in ToSet(Tail(q))
        BY HeadOrTail
      <3>5. Withdrawn(Head(q)) => Paying(round')
        BY <3>2, <3>3 DEF Withdrawn, Paying
      <3>6. Left(round) => Left(round') \/ Paying(round')
        BY <3>1, <3>2, <3>4, <3>5 DEF Left
      <3>7. ~Paying(round)
        BY <3>1 DEF Paying
      <3>. QED
        BY <1>1, <1>4, <2>1, <3>1, <3>6, <3>7 DEF Fetched
    <2>4. CASE ExtractDuePendingEvents
      <3>1. round.pc = "stake" /\ round.todo = << >>
        BY <2>4 DEF ExtractDuePendingEvents
      <3>2. ~Left(round) /\ ~Paying(round)
        BY <3>1 DEF ToSet, Left, Paying
      <3>. QED
        BY <1>1, <1>4, <2>1, <3>1, <3>2 DEF Fetched
    <2>5. CASE PayOwner
      <3>1. PICK q \in Seq(Signer) : q = round.pay /\ round.pc = "pay"
        BY <1>0, <2>5 DEF PayOwner, Rounds
      <3>2. /\ round'.todo = round.todo /\ round'.pay = Tail(q)
            /\ Len(q) > 1 => round'.pc = "pay"
        BY <1>0, <2>5, <3>1 DEF PayOwner, Rounds
      <3>3. Left(round) => Left(round')
        BY <3>2 DEF Left
      <3>4. CASE Manager \in ToSet(q)
        <4>1. Head(q) = Manager \/ (Manager \in ToSet(Tail(q)) /\ Len(q) > 1)
          BY <3>4, HeadOrTail
        <4>2. CASE Head(q) = Manager
          <5>1. PendingBalances'[Manager] = 0 /\ hist'.late = hist.late /\ hist.late \in Nat
            BY <2>5, <3>1, <4>2, PayManager, ServerHistory DEF Types, OtherTypes, Histories
          <5>2. Drained'
            BY <5>1 DEF Drained
          <5>. QED
            BY <1>4, <2>1, <5>2
        <4>3. CASE Manager \in ToSet(Tail(q)) /\ Len(q) > 1
          <5>1. Paying(round')
            BY <3>2, <4>3 DEF Paying
          <5>. QED
            BY <1>1, <1>4, <2>1, <5>1
        <4>. QED
          BY <4>1, <4>2, <4>3
      <3>5. CASE Manager \notin ToSet(q)
        <4>1. ~Paying(round)
          BY <3>1, <3>5 DEF Paying
        <4>. QED
          BY <1>1, <1>4, <2>1, <3>1, <3>3, <4>1 DEF Fetched
      <3>. QED
        BY <3>4, <3>5
    <2>6. CASE AddRelayWorker \/ RegisterServer
      <3>1. round'.todo = round.todo /\ round.pc \in {"addWorker", "register"}
        BY <1>9, <2>6, RegistrationRounds DEF AddRelayWorker, RegisterServer
      <3>2. ~Paying(round) /\ (Left(round) => Left(round'))
        BY <3>1 DEF Paying, Left
      <3>. QED
        BY <1>1, <1>4, <2>1, <3>1, <3>2 DEF Fetched, Decided
    <2>. QED
      BY <1>9, <2>2, <2>3, <2>4, <2>5, <2>6 DEF Registration
  <1>10. CASE EndScan
    <2>1. round.pc = "confirm" /\ srv'.scanned = round.block /\ round'.pc \in {"idle", "replenish"}
      BY <1>10, EndScanMoves DEF NoScan
    <2>2. round.todo = << >>
      BY <2>1 DEF Course, Decided
    <2>3. ~Left(round) /\ ~Paying(round)
      BY <2>1, <2>2 DEF ToSet, Left, Paying
    <2>. QED
      BY <1>1, <1>4, <2>1, <2>3 DEF Fetched, Decided
  <1>. QED
    BY <1>5, <1>6, <1>7, <1>8, <1>9, <1>10, ServerMoves

\* The event of a withdrawal is handled in the round that scans it or, when that fails or
\* the server restarts, in a later one, since lastScannedBlock has not advanced; a round
\* that gets past it has sent all that the manager had.
THEOREM WithdrawalsAreReturned == Spec => []WithdrawnFundsReturned
  <1>. DEFINE Inv == OwnerInv /\ RecipientInv /\ DrainedInv
  <1>1. Init => Inv
    <2>. SUFFICES ASSUME Init PROVE Inv
      OBVIOUS
    <2>1. stakes[Manager].owner = NoAddress /\ reg.owner = NoAddress
      BY DEF Init, ChainInit, Hub!Init, Hub!EmptyStake, NewRegistrationManager, NoAddress
    <2>2. log = << >> /\ \A s \in Signer : 1..Len(txs[s]) = {}
      BY DEF Init, ChainInit
    <2>3. \A b : ~LastWithdrawalBy(b)
      BY <2>2 DEF LastWithdrawalBy, HasEvent
    <2>. QED
      BY <2>1, <2>2, <2>3 DEF OwnerInv, RecipientInv, DrainedInv
  <1>2. ASSUME Types, Hub!TypeOK, Clock, Course, Inv, [Next]_vars
        PROVE  Inv'
    <2>1. CASE Chain \/ OwnerScript
      BY <1>2, <2>1, EnvOwner, EnvPending, EnvDrained
    <2>2. CASE Server
      BY <1>2, <2>2, ServerOwner, ServerPays, ServerDrained
    <2>3. CASE UNCHANGED vars
      <3>1. UNCHANGED <<stakes, reg, balance, mined, txs, log, srv, round, hist>>
        BY <2>3 DEF vars, chainVars, hubVars, serverVars
      <3>2. Unmined(Manager)' = Unmined(Manager) /\ Unmined(Worker)' = Unmined(Worker)
        BY <3>1 DEF Unmined
      <3>3. PendingBalances' = PendingBalances
        BY <3>1, <3>2, PendingIs
      <3>. QED
        BY <1>2, <3>1, <3>3 DEF OwnerInv, RecipientInv, DrainedInv, Drained, LastWithdrawalBy,
           HasEvent, Withdrawn
    <2>. QED
      BY <1>2, <2>1, <2>2, <2>3 DEF Next
  <1>3. ASSUME DrainedInv PROVE WithdrawnFundsReturned
    BY <1>3 DEF DrainedInv, Drained, WithdrawnFundsReturned, LastWithdrawalBy, HasEvent, Withdrawn
  <1>. HIDE DEF Inv
  <1>4. Inv => WithdrawnFundsReturned
    BY <1>3 DEF Inv
  <1>. QED
    BY <1>1, <1>2, <1>4, RegisteredInvariant, PTL DEF Spec
=============================================================================
