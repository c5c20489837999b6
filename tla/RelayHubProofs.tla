--------------------------- MODULE RelayHubProofs ---------------------------
(***************************************************************************)
(* Proofs about RelayHub, for every finite set of accounts and every value *)
(* of the hub's parameters.                                                *)
(***************************************************************************)
EXTENDS RelayHub, FiniteSetTheorems, TLAPS

-----------------------------------------------------------------------------
(* Types.  That hubBalance stays a natural number is a consequence of        *)
(* HubSolvent; all the other variables are typed on their own.               *)

HubTypes ==
    /\ stakes \in [Address -> StakeInfo]
    /\ workerToManager \in [Address -> ManagerEntry]
    /\ workerCount \in [Address -> Nat]
    /\ block \in Nat \ {0}
    /\ registered \in SUBSET Address
    /\ relayedAt \in [Address -> Nat]

LEMMA InitHubTypes == Init => HubTypes
  BY HubAssumption DEF Init, HubTypes, StakeInfo, EmptyStake, ManagerEntry, NoEntry

LEMMA ArrayFacts ==
  ASSUME NEW arr \in AddressArrays
  PROVE  /\ Len(arr) \in Nat
         /\ arr \in [1..Len(arr) -> Address]
         /\ Elements(arr) \in SUBSET Address
  <1>1. PICK n \in 0..MaxBatch : arr \in [1..n -> Address]
    BY DEF AddressArrays
  <1>2. n \in Nat
    BY HubAssumption
  <1>3. arr \in Seq(Address) /\ Len(arr) = n
    BY <1>1, <1>2
  <1>. QED
    BY <1>1, <1>2, <1>3 DEF Elements

LEMMA NextHubTypes ==
  ASSUME HubTypes, [Next]_hubVars
  PROVE  HubTypes'
  <1>. USE HubAssumption DEF HubTypes
  <1>1. ASSUME NEW s \in Address, NEW m \in Address, NEW d \in UnstakeDelays,
               NEW v \in MsgValues, StakeForAddress(s, m, d, v)
        PROVE  HubTypes'
    BY <1>1 DEF StakeForAddress, StakeInfo
  <1>2. ASSUME NEW s \in Address, NEW m \in Address, UnlockStake(s, m)
        PROVE  HubTypes'
    BY <1>2 DEF UnlockStake, StakeInfo
  <1>3. ASSUME NEW s \in Address, NEW m \in Address, WithdrawStake(s, m)
        PROVE  HubTypes'
    BY <1>3 DEF WithdrawStake, StakeInfo, EmptyStake
  <1>4. ASSUME NEW s \in Address, NEW arr \in AddressArrays, AddRelayWorkers(s, arr)
        PROVE  HubTypes'
    <2>1. Len(arr) \in Nat
      BY ArrayFacts
    <2>. QED
      BY <1>4, <2>1 DEF AddRelayWorkers, ManagerEntry, EnabledWorker
  <1>5. ASSUME NEW s \in Address, NEW arr \in AddressArrays, DisableRelayWorkers(s, arr)
        PROVE  HubTypes'
    <2>1. Len(arr) \in Nat
      BY ArrayFacts
    <2>. QED
      BY <1>5, <2>1 DEF DisableRelayWorkers, ManagerEntry, DisabledWorker
  <1>6. ASSUME NEW s \in Address, RegisterRelayServer(s)
        PROVE  HubTypes'
    BY <1>6 DEF RegisterRelayServer
  <1>7. ASSUME NEW w \in Address, RelayCall(w) \/ DeployCall(w)
        PROVE  HubTypes'
    BY <1>7 DEF RelayCall, DeployCall
  <1>8. ASSUME NEW w \in Address, Penalize(w)
        PROVE  HubTypes'
    BY <1>8 DEF Penalize, ManagerOf, ManagerEntry, StakeInfo
  <1>9. CASE MineBlock
    BY <1>9 DEF MineBlock
  <1>10. CASE UNCHANGED hubVars
    BY <1>10 DEF hubVars
  <1>. QED
    BY <1>1, <1>2, <1>3, <1>4, <1>5, <1>6, <1>7, <1>8, <1>9, <1>10 DEF Next, AccountNext

-----------------------------------------------------------------------------
(* The worker counter *)

LEMMA DisjointUnion ==
  ASSUME NEW S, NEW T, IsFiniteSet(S), IsFiniteSet(T), S \cap T = {}
  PROVE  /\ IsFiniteSet(S \cup T)
         /\ Cardinality(S \cup T) = Cardinality(S) + Cardinality(T)
  <1>1. Cardinality(S) \in Nat /\ Cardinality(T) \in Nat
    BY FS_CardinalityType
  <1>2. Cardinality(S \cup T) = Cardinality(S) + Cardinality(T) - Cardinality(S \cap T)
    BY FS_Union
  <1>3. Cardinality(S \cap T) = 0
    BY FS_EmptySet
  <1>. QED
    BY <1>1, <1>2, <1>3, FS_Union

LEMMA SubsetRemoved ==
  ASSUME NEW S, NEW T, IsFiniteSet(S), T \subseteq S
  PROVE  /\ IsFiniteSet(T)
         /\ IsFiniteSet(S \ T)
         /\ Cardinality(S \ T) = Cardinality(S) - Cardinality(T)
  <1>1. S \cap T = T
    OBVIOUS
  <1>2. IsFiniteSet(T)
    BY FS_Subset
  <1>3. IsFiniteSet(S \ T) /\ Cardinality(S \ T) = Cardinality(S) - Cardinality(S \cap T)
    BY <1>2, FS_Difference
  <1>. QED
    BY <1>1, <1>2, <1>3

LEMMA ElementsCardinality ==
  ASSUME NEW arr \in AddressArrays, NoRepeats(arr)
  PROVE  /\ IsFiniteSet(Elements(arr))
         /\ Cardinality(Elements(arr)) = Len(arr)
  <1>1. Len(arr) \in Nat /\ arr \in [1..Len(arr) -> Address]
    BY ArrayFacts
  <1>2. arr \in Bijection(1..Len(arr), Elements(arr))
    BY <1>1 DEF NoRepeats, Elements, Bijection, Injection, IsInjective, Surjection
  <1>3. ExistsBijection(1..Len(arr), Elements(arr))
    BY <1>2 DEF ExistsBijection
  <1>4. IsFiniteSet(1..Len(arr)) /\ Cardinality(1..Len(arr)) = Len(arr)
    BY <1>1, FS_Interval
  <1>. QED
    BY <1>3, <1>4, FS_Bijection

LEMMA EnabledWorkersFinite ==
  ASSUME NEW m
  PROVE  /\ IsFiniteSet(EnabledWorkersOf(m))
         /\ Cardinality(EnabledWorkersOf(m)) \in Nat
  <1>1. EnabledWorkersOf(m) \in SUBSET Address
    BY DEF EnabledWorkersOf
  <1>2. IsFiniteSet(EnabledWorkersOf(m))
    BY <1>1, HubAssumption, FS_Subset
  <1>. QED
    BY <1>2, FS_CardinalityType

LEMMA InitWorkerCount == Init => WorkerCountExact
  <1>. SUFFICES ASSUME Init, NEW m \in Address
                PROVE  workerCount[m] = Cardinality(EnabledWorkersOf(m))
                       /\ workerCount[m] <= MaxWorkerCount
    BY DEF WorkerCountExact
  <1>1. EnabledWorkersOf(m) = {}
    BY DEF Init, EnabledWorkersOf, EnabledWorker, NoEntry
  <1>. QED
    BY <1>1, FS_EmptySet, HubAssumption DEF Init

LEMMA AddKeepsWorkerCount ==
  ASSUME HubTypes, WorkerCountExact,
         NEW s \in Address, NEW arr \in AddressArrays, AddRelayWorkers(s, arr)
  PROVE  WorkerCountExact'
  <1>. DEFINE E == Elements(arr)
  <1>. SUFFICES ASSUME NEW m \in Address
                PROVE  /\ workerCount'[m] = Cardinality(EnabledWorkersOf(m)')
                       /\ workerCount'[m] <= MaxWorkerCount
    BY DEF WorkerCountExact
  <1>1. NoRepeats(arr) /\ Len(arr) \in Nat /\ E \in SUBSET Address
    BY ArrayFacts DEF AddRelayWorkers
  <1>2. IsFiniteSet(E) /\ Cardinality(E) = Len(arr)
    BY <1>1, ElementsCardinality
  <1>3. IsFiniteSet(EnabledWorkersOf(m)) /\ Cardinality(EnabledWorkersOf(m)) \in Nat
    BY EnabledWorkersFinite
  <1>4. \A w \in E : workerToManager[w] # EnabledWorker(m)
    BY DEF AddRelayWorkers, Unassigned, NoEntry, EnabledWorker
  <1>5. CASE m = s
    <2>1. EnabledWorkersOf(m)' = EnabledWorkersOf(m) \cup E
      BY <1>1, <1>5 DEF AddRelayWorkers, EnabledWorkersOf
    <2>2. EnabledWorkersOf(m) \cap E = {}
      BY <1>4 DEF EnabledWorkersOf
    <2>3. Cardinality(EnabledWorkersOf(m)') = Cardinality(EnabledWorkersOf(m)) + Len(arr)
      <3>1. Cardinality(EnabledWorkersOf(m) \cup E)
              = Cardinality(EnabledWorkersOf(m)) + Cardinality(E)
        BY <1>2, <1>3, <2>2, DisjointUnion
      <3>. QED
        BY <1>2, <2>1, <3>1
    <2>. QED
      BY <1>1, <1>5, <2>3 DEF WorkerCountExact, AddRelayWorkers, HubTypes
  <1>6. CASE m # s
    <2>1. \A w \in E : EnabledWorker(s) # EnabledWorker(m)
      BY <1>6 DEF EnabledWorker
    <2>2. EnabledWorkersOf(m)' = EnabledWorkersOf(m)
      BY <1>1, <1>4, <2>1 DEF AddRelayWorkers, EnabledWorkersOf
    <2>. QED
      BY <1>6, <2>2 DEF WorkerCountExact, AddRelayWorkers, HubTypes
  <1>. QED
    BY <1>5, <1>6

LEMMA DisableKeepsWorkerCount ==
  ASSUME HubTypes, WorkerCountExact,
         NEW s \in Address, NEW arr \in AddressArrays, DisableRelayWorkers(s, arr)
  PROVE  WorkerCountExact'
  <1>. DEFINE E == Elements(arr)
  <1>. SUFFICES ASSUME NEW m \in Address
                PROVE  /\ workerCount'[m] = Cardinality(EnabledWorkersOf(m)')
                       /\ workerCount'[m] <= MaxWorkerCount
    BY DEF WorkerCountExact
  <1>1. NoRepeats(arr) /\ Len(arr) \in Nat /\ E \in SUBSET Address
    BY ArrayFacts DEF DisableRelayWorkers
  <1>2. IsFiniteSet(E) /\ Cardinality(E) = Len(arr)
    BY <1>1, ElementsCardinality
  <1>3. IsFiniteSet(EnabledWorkersOf(m)) /\ Cardinality(EnabledWorkersOf(m)) \in Nat
    BY EnabledWorkersFinite
  <1>4. DisabledWorker(s) # EnabledWorker(m)
    BY DEF DisabledWorker, EnabledWorker
  <1>5. CASE m = s
    <2>1. EnabledWorkersOf(m)' = EnabledWorkersOf(m) \ E
      BY <1>1, <1>4, <1>5 DEF DisableRelayWorkers, EnabledWorkersOf
    <2>2. E \subseteq EnabledWorkersOf(m)
      BY <1>1, <1>5 DEF EnabledWorkersOf, DisableRelayWorkers
    <2>3. Cardinality(EnabledWorkersOf(m)') = Cardinality(EnabledWorkersOf(m)) - Len(arr)
      <3>1. Cardinality(EnabledWorkersOf(m) \ E)
              = Cardinality(EnabledWorkersOf(m)) - Cardinality(E)
        BY <1>3, <2>2, SubsetRemoved
      <3>. QED
        BY <1>2, <2>1, <3>1
    <2>. QED
      BY <1>1, <1>5, <2>3, HubAssumption DEF WorkerCountExact, DisableRelayWorkers, HubTypes
  <1>6. CASE m # s
    <2>1. \A w \in E : workerToManager[w] # EnabledWorker(m)
      BY <1>6 DEF EnabledWorker, DisableRelayWorkers
    <2>2. EnabledWorkersOf(m)' = EnabledWorkersOf(m)
      BY <1>1, <1>4, <2>1 DEF DisableRelayWorkers, EnabledWorkersOf
    <2>. QED
      BY <1>6, <2>2 DEF WorkerCountExact, DisableRelayWorkers, HubTypes
  <1>. QED
    BY <1>5, <1>6

LEMMA NextWorkerCount ==
  ASSUME HubTypes, WorkerCountExact, [Next]_hubVars
  PROVE  WorkerCountExact'
  <1>1. CASE UNCHANGED <<workerToManager, workerCount>>
    BY <1>1 DEF WorkerCountExact, EnabledWorkersOf
  <1>2. ASSUME NEW s \in Address, NEW arr \in AddressArrays, AddRelayWorkers(s, arr)
        PROVE  WorkerCountExact'
    BY <1>2, AddKeepsWorkerCount
  <1>3. ASSUME NEW s \in Address, NEW arr \in AddressArrays, DisableRelayWorkers(s, arr)
        PROVE  WorkerCountExact'
    BY <1>3, DisableKeepsWorkerCount
  <1>. QED
    BY <1>1, <1>2, <1>3 DEF Next, AccountNext, StakeForAddress, UnlockStake, WithdrawStake,
       Penalize, RegisterRelayServer, RelayCall, DeployCall, MineBlock, hubVars

-----------------------------------------------------------------------------
(* The stake behind a relay *)

LEMMA InitBacking == Init => BackingInv
  BY DEF Init, BackingInv, NoEntry

LEMMA NextBacking ==
  ASSUME HubTypes, BackingInv, [Next]_hubVars
  PROVE  BackingInv'
  <1>. USE HubAssumption DEF HubTypes, StakeInfo, ManagerEntry, BackingInv, Backed, ManagerOf
  <1>1. ASSUME NEW s \in Address, NEW m \in Address, NEW d \in UnstakeDelays,
               NEW v \in MsgValues, StakeForAddress(s, m, d, v)
        PROVE  BackingInv'
    BY <1>1 DEF StakeForAddress, DelayNotDecreased
  <1>2. ASSUME NEW s \in Address, NEW m \in Address, UnlockStake(s, m)
        PROVE  BackingInv'
    BY <1>2 DEF UnlockStake
  <1>3. ASSUME NEW s \in Address, NEW m \in Address, WithdrawStake(s, m)
        PROVE  BackingInv'
    BY <1>3 DEF WithdrawStake, WithdrawalDue, EmptyStake
  <1>4. ASSUME NEW s \in Address, NEW arr \in AddressArrays, AddRelayWorkers(s, arr)
        PROVE  BackingInv'
    BY <1>4 DEF AddRelayWorkers, Unassigned, EnabledWorker, NoEntry
  <1>5. ASSUME NEW s \in Address, NEW arr \in AddressArrays, DisableRelayWorkers(s, arr)
        PROVE  BackingInv'
    BY <1>5 DEF DisableRelayWorkers, DisabledWorker, EnabledWorker
  <1>6. ASSUME NEW s \in Address, RegisterRelayServer(s)
        PROVE  BackingInv'
    BY <1>6 DEF RegisterRelayServer
  <1>7. ASSUME NEW w \in Address, RelayCall(w) \/ DeployCall(w)
        PROVE  BackingInv'
    BY <1>7 DEF RelayCall, DeployCall, RelayAllowed, IsRelayManagerStaked
  <1>8. ASSUME NEW w \in Address, Penalize(w)
        PROVE  BackingInv'
    BY <1>8 DEF Penalize
  <1>9. CASE MineBlock
    BY <1>9 DEF MineBlock
  <1>10. CASE UNCHANGED hubVars
    BY <1>10 DEF hubVars
  <1>. QED
    BY <1>1, <1>2, <1>3, <1>4, <1>5, <1>6, <1>7, <1>8, <1>9, <1>10 DEF Next, AccountNext

-----------------------------------------------------------------------------
(* Solvency.  A pair <<m, i>> stands for the i-th unit staked for m, so a    *)
(* change of one stake replaces one block of pairs by another.               *)

CoinsOf(m, n) == {m} \X (1..n)

LEMMA CoinsOfCardinality ==
  ASSUME NEW m, NEW n \in Nat
  PROVE  /\ IsFiniteSet(CoinsOf(m, n))
         /\ Cardinality(CoinsOf(m, n)) = n
  <1>1. IsFiniteSet({m}) /\ Cardinality({m}) = 1
    BY FS_Singleton
  <1>2. IsFiniteSet(1..n) /\ Cardinality(1..n) = n
    BY FS_Interval
  <1>3. /\ IsFiniteSet({m} \X (1..n))
        /\ Cardinality({m} \X (1..n)) = Cardinality({m}) * Cardinality(1..n)
    BY <1>1, <1>2, FS_Product
  <1>4. 1 * n = n
    OBVIOUS
  <1>. QED
    BY <1>1, <1>2, <1>3, <1>4 DEF CoinsOf

\* When the stake of one manager changes from a to b, the sum of all stakes
\* changes by b - a.
LEMMA OneStakeChanges ==
  ASSUME HubTypes, HubTypes', IsFiniteSet(StakedCoins),
         NEW m \in Address,
         \A x \in Address : x # m => stakes'[x].stake = stakes[x].stake
  PROVE  /\ IsFiniteSet(StakedCoins')
         /\ Cardinality(StakedCoins')
              = Cardinality(StakedCoins) - stakes[m].stake + stakes'[m].stake
  <1>. DEFINE a == stakes[m].stake
              b == stakes'[m].stake
              A == CoinsOf(m, a)
              B == CoinsOf(m, b)
              R == StakedCoins \ A
  <1>1. a \in Nat /\ b \in Nat
    BY DEF HubTypes, StakeInfo
  <1>2. A \subseteq StakedCoins
    BY DEF StakedCoins, CoinsOf
  <1>3. \A c : c \in StakedCoins <=>
            \E x \in Address : c \in {x} \X (1..stakes[x].stake)
    BY DEF StakedCoins
  <1>4. \A c : c \in StakedCoins' <=>
            \E x \in Address : c \in {x} \X (1..stakes'[x].stake)
    BY DEF StakedCoins
  <1>5. \A c : c \in R <=>
            \E x \in Address \ {m} : c \in {x} \X (1..stakes[x].stake)
    BY <1>3 DEF CoinsOf
  <1>6. StakedCoins' = R \cup B
    BY <1>4, <1>5 DEF CoinsOf
  <1>7. R \cap B = {}
    BY <1>5 DEF CoinsOf
  <1>8. /\ IsFiniteSet(R)
        /\ Cardinality(R) = Cardinality(StakedCoins) - Cardinality(A)
    BY <1>2, SubsetRemoved
  <1>9. /\ IsFiniteSet(B) /\ Cardinality(B) = b
        /\ Cardinality(A) = a
    BY <1>1, CoinsOfCardinality
  <1>10. /\ IsFiniteSet(R \cup B)
         /\ Cardinality(R \cup B) = Cardinality(R) + Cardinality(B)
    BY <1>7, <1>8, <1>9, DisjointUnion
  <1>. QED
    BY <1>6, <1>8, <1>9, <1>10

SolvencyInv == HubSolvent /\ IsFiniteSet(StakedCoins)

LEMMA SolvencyType == SolvencyInv => hubBalance \in Nat
  BY FS_CardinalityType DEF SolvencyInv, HubSolvent

\* The hub can pay out each single stake it holds.
LEMMA StakeIsCovered ==
  ASSUME HubTypes, SolvencyInv, NEW m \in Address
  PROVE  stakes[m].stake <= hubBalance
  <1>1. stakes[m].stake \in Nat
    BY DEF HubTypes, StakeInfo
  <1>2. CoinsOf(m, stakes[m].stake) \subseteq StakedCoins
    BY DEF StakedCoins, CoinsOf
  <1>3. Cardinality(CoinsOf(m, stakes[m].stake)) <= Cardinality(StakedCoins)
    BY <1>2, FS_Subset DEF SolvencyInv
  <1>. QED
    BY <1>1, <1>3, CoinsOfCardinality DEF SolvencyInv, HubSolvent

LEMMA InitSolvency == Init => SolvencyInv
  <1>. SUFFICES ASSUME Init PROVE SolvencyInv
    OBVIOUS
  <1>1. \A m \in Address : 1..stakes[m].stake = {}
    BY DEF Init, EmptyStake
  <1>2. StakedCoins = {}
    BY <1>1 DEF StakedCoins
  <1>. QED
    BY <1>2, FS_EmptySet DEF SolvencyInv, HubSolvent, Init

LEMMA NextSolvency ==
  ASSUME HubTypes, HubTypes', SolvencyInv, [Next]_hubVars
  PROVE  SolvencyInv'
  <1>0. hubBalance \in Nat /\ IsFiniteSet(StakedCoins) /\ hubBalance = Cardinality(StakedCoins)
    BY SolvencyType DEF SolvencyInv, HubSolvent
  <1>1. CASE UNCHANGED <<stakes, hubBalance>>
    BY <1>1 DEF SolvencyInv, HubSolvent, StakedCoins
  <1>2. ASSUME NEW m \in Address,
               \A x \in Address : x # m => stakes'[x].stake = stakes[x].stake,
               hubBalance' = hubBalance - stakes[m].stake + stakes'[m].stake
        PROVE  SolvencyInv'
    <2>1. /\ IsFiniteSet(StakedCoins')
          /\ Cardinality(StakedCoins')
               = Cardinality(StakedCoins) - stakes[m].stake + stakes'[m].stake
      BY <1>0, <1>2, OneStakeChanges
    <2>. QED
      BY <1>0, <1>2, <2>1 DEF SolvencyInv, HubSolvent
  <1>3. ASSUME NEW s \in Address, NEW m \in Address, NEW d \in UnstakeDelays,
               NEW v \in MsgValues, StakeForAddress(s, m, d, v)
        PROVE  SolvencyInv'
    BY <1>0, <1>2, <1>3, HubAssumption DEF StakeForAddress, HubTypes, StakeInfo
  <1>4. ASSUME NEW s \in Address, NEW m \in Address, UnlockStake(s, m)
        PROVE  SolvencyInv'
    BY <1>0, <1>2, <1>4 DEF UnlockStake, HubTypes, StakeInfo
  <1>5. ASSUME NEW s \in Address, NEW m \in Address, WithdrawStake(s, m)
        PROVE  SolvencyInv'
    BY <1>0, <1>2, <1>5 DEF WithdrawStake, EmptyStake, HubTypes, StakeInfo
  <1>6. ASSUME NEW w \in Address, Penalize(w)
        PROVE  SolvencyInv'
    BY <1>0, <1>2, <1>6 DEF Penalize, ToBurn, Reward, ManagerOf, HubTypes, StakeInfo, ManagerEntry
  <1>. QED
    BY <1>1, <1>3, <1>4, <1>5, <1>6 DEF Next, AccountNext, AddRelayWorkers,
       DisableRelayWorkers, RegisterRelayServer, RelayCall, DeployCall, MineBlock, hubVars

-----------------------------------------------------------------------------
(* Accountability of registered managers *)

LEMMA NextAccountable ==
  ASSUME HubTypes, WorkerCountExact, RegisteredIsAccountable, [Next]_hubVars
  PROVE  RegisteredIsAccountable'
  <1>1. CASE UNCHANGED <<workerToManager, registered>>
    BY <1>1 DEF RegisteredIsAccountable, ManagerOf
  <1>2. ASSUME NEW s \in Address, NEW arr \in AddressArrays, AddRelayWorkers(s, arr)
        PROVE  RegisteredIsAccountable'
    BY <1>2, HubAssumption DEF RegisteredIsAccountable, ManagerOf, AddRelayWorkers, Unassigned,
       NoEntry, HubTypes
  <1>3. ASSUME NEW s \in Address, NEW arr \in AddressArrays, DisableRelayWorkers(s, arr)
        PROVE  RegisteredIsAccountable'
    BY <1>3 DEF RegisteredIsAccountable, ManagerOf, DisableRelayWorkers,
       EnabledWorker, DisabledWorker
  <1>4. ASSUME NEW s \in Address, RegisterRelayServer(s)
        PROVE  RegisteredIsAccountable'
    <2>1. Cardinality(EnabledWorkersOf(s)) > 0
      BY <1>4 DEF WorkerCountExact, RegisterRelayServer, HubTypes
    <2>2. EnabledWorkersOf(s) # {}
      BY <2>1, FS_EmptySet
    <2>3. \E w \in Address : ManagerOf(w) = s
      BY <2>2 DEF EnabledWorkersOf, EnabledWorker, ManagerOf
    <2>. QED
      BY <1>4, <2>3 DEF RegisteredIsAccountable, RegisterRelayServer, ManagerOf
  <1>. QED
    BY <1>1, <1>2, <1>3, <1>4 DEF Next, AccountNext, StakeForAddress, UnlockStake,
       WithdrawStake, Penalize, RelayCall, DeployCall, MineBlock, hubVars

-----------------------------------------------------------------------------
(* The theorems *)

HubInv ==
    HubTypes /\ WorkerCountExact /\ BackingInv /\ SolvencyInv /\ RegisteredIsAccountable

\* The inductive invariant of the hub: the types, the exact worker counter, the
\* strengthened backing of relays, solvency and accountability hold together in
\* every state the calls of RelayHub.sol can reach.
THEOREM HubInvariant == Spec => []HubInv
  <1>1. Init => HubInv
    BY InitHubTypes, InitWorkerCount, InitBacking, InitSolvency
       DEF HubInv, Init, RegisteredIsAccountable
  <1>2. HubInv /\ [Next]_hubVars => HubInv'
    BY NextHubTypes, NextWorkerCount, NextBacking, NextSolvency, NextAccountable DEF HubInv
  <1>. QED
    BY <1>1, <1>2, PTL DEF Spec

\* Every variable keeps its Solidity type; in particular no withdrawal and no
\* penalty drives the hub's balance below zero.
THEOREM HubTypeCorrect == Spec => []TypeOK
  <1>1. HubInv => TypeOK
    BY SolvencyType DEF HubInv, HubTypes, TypeOK
  <1>. QED
    BY <1>1, HubInvariant, PTL

\* workerCount[m] is the number of distinct workers m has enabled, at most
\* maxWorkerCount, after any sequence of addRelayWorkers and disableRelayWorkers.
THEOREM WorkerCountCorrect == Spec => []WorkerCountExact
  <1>1. HubInv => WorkerCountExact
    BY DEF HubInv
  <1>. QED
    BY <1>1, HubInvariant, PTL

\* The RBTC in the hub is the sum of the stakes in it, for stakes of any size.
THEOREM HubStaysSolvent == Spec => []HubSolvent
  <1>1. HubInv => HubSolvent
    BY DEF HubInv, SolvencyInv
  <1>. QED
    BY <1>1, HubInvariant, PTL

\* The stake behind a relayed call stays within reach of the Penalizer for
\* minimumUnstakeDelay blocks, whatever owner, manager and workers do.
THEOREM RelayStaysBacked == Spec => []RelayIsBacked
  <1>1. HubInv => RelayIsBacked
    BY HubAssumption DEF HubInv, BackingInv, Backed, RelayIsBacked, HubTypes
  <1>. QED
    BY <1>1, HubInvariant, PTL

\* A manager that registered can always be traced from one of its workers.
THEOREM RegisteredStaysAccountable == Spec => []RegisteredIsAccountable
  <1>1. HubInv => RegisteredIsAccountable
    BY DEF HubInv
  <1>. QED
    BY <1>1, HubInvariant, PTL

\* A disabled worker is never enabled again and no worker changes manager.
THEOREM WorkersStayBound == Spec => WorkersAreForLife
  <1>1. ASSUME HubTypes, [Next]_hubVars, NEW w \in Address, ManagerOf(w) # NoAddress
        PROVE  workerToManager'[w] \in {workerToManager[w], DisabledWorker(ManagerOf(w))}
    <2>1. CASE UNCHANGED workerToManager
      BY <2>1
    <2>2. ASSUME NEW s \in Address, NEW arr \in AddressArrays, AddRelayWorkers(s, arr)
          PROVE  workerToManager'[w] = workerToManager[w]
      BY <1>1, <2>2 DEF AddRelayWorkers, Unassigned, NoEntry, ManagerOf
    <2>3. ASSUME NEW s \in Address, NEW arr \in AddressArrays, DisableRelayWorkers(s, arr)
          PROVE  workerToManager'[w] \in {workerToManager[w], DisabledWorker(ManagerOf(w))}
      <3>1. CASE w \notin Elements(arr)
        BY <2>3, <3>1 DEF DisableRelayWorkers
      <3>2. CASE w \in Elements(arr)
        <4>1. workerToManager[w] = EnabledWorker(s) /\ workerToManager'[w] = DisabledWorker(s)
          BY <2>3, <3>2 DEF DisableRelayWorkers
        <4>2. ManagerOf(w) = s
          BY <4>1 DEF EnabledWorker, ManagerOf
        <4>. QED
          BY <4>1, <4>2
      <3>. QED
        BY <3>1, <3>2
    <2>. QED
      BY <1>1, <2>1, <2>2, <2>3 DEF Next, AccountNext, StakeForAddress, UnlockStake,
         WithdrawStake, Penalize, RegisterRelayServer, RelayCall, DeployCall, MineBlock, hubVars
  <1>2. HubInv /\ [Next]_hubVars =>
          [\A w \in Address :
              ManagerOf(w) # NoAddress =>
                workerToManager'[w] \in {workerToManager[w], DisabledWorker(ManagerOf(w))}
          ]_hubVars
    BY <1>1 DEF HubInv
  <1>. QED
    BY <1>2, HubInvariant, PTL DEF Spec, WorkersAreForLife

\* A stake goes down to nothing or not at all: by its owner's withdrawal once it
\* is due, or by a penalty.
THEOREM StakesLeaveWhole == Spec => StakeLeavesWhole
  <1>. DEFINE Whole(m) ==
                stakes'[m].stake < stakes[m].stake =>
                    \/ stakes'[m] = EmptyStake /\ 0 < stakes[m].withdrawBlock
                                              /\ stakes[m].withdrawBlock <= block
                    \/ stakes'[m] = [stakes[m] EXCEPT !.stake = 0]
  <1>1. ASSUME HubTypes, [Next]_hubVars, NEW m \in Address
        PROVE  Whole(m)
    <2>. USE <1>1 DEF HubTypes
    <2>0. stakes[m] \in StakeInfo /\ stakes[m].stake \in Nat
      BY DEF StakeInfo
    <2>1. CASE UNCHANGED stakes
      BY <2>0, <2>1
    <2>2. ASSUME NEW s \in Address, NEW x \in Address, NEW d \in UnstakeDelays,
                 NEW v \in MsgValues, StakeForAddress(s, x, d, v)
          PROVE  ~(stakes'[m].stake < stakes[m].stake)
      BY <2>0, <2>2, HubAssumption DEF StakeForAddress
    <2>3. ASSUME NEW s \in Address, NEW x \in Address, UnlockStake(s, x)
          PROVE  stakes'[m].stake = stakes[m].stake
      BY <2>3 DEF UnlockStake, StakeInfo
    <2>4. ASSUME NEW s \in Address, NEW x \in Address, WithdrawStake(s, x)
          PROVE  Whole(m)
      BY <2>0, <2>4 DEF WithdrawStake, WithdrawalDue
    <2>5. ASSUME NEW w \in Address, Penalize(w)
          PROVE  Whole(m)
      <3>1. stakes' = [stakes EXCEPT ![ManagerOf(w)].stake = 0]
        BY <2>5 DEF Penalize
      <3>2. CASE m = ManagerOf(w)
        BY <3>1, <3>2
      <3>3. CASE m # ManagerOf(w)
        BY <2>0, <3>1, <3>3
      <3>. QED
        BY <3>2, <3>3
    <2>. QED
      <3>1. ASSUME NEW s \in Address, NEW x \in Address,
                   \/ \E d \in UnstakeDelays, v \in MsgValues : StakeForAddress(s, x, d, v)
                   \/ UnlockStake(s, x)
                   \/ WithdrawStake(s, x)
            PROVE  Whole(m)
        <4>1. stakes[m].stake \in Nat
          BY <2>0
        <4>. QED
          BY <2>2, <2>3, <2>4, <3>1, <4>1
      <3>2. CASE MineBlock \/ UNCHANGED hubVars
        BY <2>1, <3>2 DEF MineBlock, hubVars
      <3>3. ASSUME NEW s \in Address, NEW arr \in AddressArrays,
                   AddRelayWorkers(s, arr) \/ DisableRelayWorkers(s, arr)
            PROVE  Whole(m)
        BY <2>1, <3>3 DEF AddRelayWorkers, DisableRelayWorkers
      <3>4. ASSUME NEW s \in Address, RegisterRelayServer(s) \/ RelayCall(s) \/ DeployCall(s)
            PROVE  Whole(m)
        BY <2>1, <3>4 DEF RegisterRelayServer, RelayCall, DeployCall
      <3>. HIDE DEF Whole
      <3>. QED
        BY <1>1, <2>5, <3>1, <3>2, <3>3, <3>4 DEF Next, AccountNext
  <1>2. HubInv /\ [Next]_hubVars => [\A m \in Address : Whole(m)]_hubVars
    BY <1>1 DEF HubInv
  <1>. QED
    BY <1>2, HubInvariant, PTL DEF Spec, StakeLeavesWhole
=============================================================================
