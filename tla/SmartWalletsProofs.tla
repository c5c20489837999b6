------------------------- MODULE SmartWalletsProofs -------------------------
(***************************************************************************)
(* Theorems about SmartWallets for any wallets, requests and workers: the  *)
(* wallets belong to their owners, checked requests stay good, and the     *)
(* wallets implement RelayedCalls.                                         *)
(***************************************************************************)
EXTENDS SmartWallets, SequenceTheorems, TLAPS

\* What the invariants add to the types.  A wallet's nonce is beyond those of the
\* requests it has executed, and so is the factory's.
NoncesAreBeyond ==
    /\ \A w \in Wallet : \A i \in 1..Len(executed[w]) : executed[w][i].nonce < nonce[w]
    /\ \A d \in created : nonces[<<d.wallet.factory, d.from>>] > d.nonce

\* A request that passed both checks was good at the second one; what can change is
\* listed in CheckedRequestsStayGood.
CheckedWereGood ==
    /\ \A r \in RelayRequest :
          /\ checked[r].pc # "new" => r.wallet \in Genuine /\ owner[r.wallet] # NoOne
          /\ checked[r].pc = "sent" =>
                /\ owner[r.wallet] = r.from /\ r.domain = r.wallet /\ SignedBy(r)
                /\ nonce[r.wallet] >= r.nonce
                /\ checked[r].tokens >= r.amount
    /\ \A d \in DeployRequest : checked[d].pc = "sent" =>
          /\ SignedBy(d)
          /\ nonces[<<d.wallet.factory, d.from>>] >= d.nonce
          /\ checked[d].tokens >= d.amount

NewWalletsHaveNoLogic == \A w \in Wallet : owner[w] = NoOne => logic[w] = NoLogic

IInv ==
    /\ TypeOK
    /\ WalletsAreTheirOwners
    /\ NewWalletsHaveNoLogic
    /\ NoncesAreBeyond
    /\ CheckedWereGood

-----------------------------------------------------------------------------
LEMMA PaidType ==
    ASSUME TypeOK, NEW q \in RelayRequest \cup DeployRequest, CanPay(q)
    PROVE  /\ Paid(q) \in [Token \X (Wallet \cup Worker) -> Nat]
           /\ \A a \in Token \X Worker :
                 Paid(q)[a] = IF a = <<q.token, q.worker>>
                              THEN tokens[a] + q.amount ELSE tokens[a]
<1> DEFINE from == <<q.token, q.wallet>>
           to == <<q.token, q.worker>>
<1>1. /\ q.token \in Token /\ q.wallet \in Wallet /\ q.worker \in Worker /\ q.amount \in Nat
      /\ Wallet \cap Worker = {}
  BY RequestAssumption, WalletAssumption
<1>2. /\ from \in Token \X (Wallet \cup Worker) /\ to \in Token \X (Wallet \cup Worker)
      /\ from # to
  BY <1>1
<1>3. /\ tokens \in [Token \X (Wallet \cup Worker) -> Nat]
      /\ tokens[from] >= q.amount
  BY DEF TypeOK, CanPay
<1>4. tokens[from] - q.amount \in Nat /\ tokens[to] + q.amount \in Nat
  BY <1>1, <1>2, <1>3
<1>5. Paid(q) = [[tokens EXCEPT ![from] = tokens[from] - q.amount]
                        EXCEPT ![to] = tokens[to] + q.amount]
  BY <1>2, <1>3 DEF Paid
<1>6. \A a \in Token \X Worker : a \in Token \X (Wallet \cup Worker) /\ a # from
  BY <1>1
<1> HIDE DEF from, to
<1>7. Paid(q) \in [Token \X (Wallet \cup Worker) -> Nat]
  BY <1>2, <1>3, <1>4, <1>5
<1>8. ASSUME NEW a \in Token \X Worker
      PROVE  Paid(q)[a] = IF a = to THEN tokens[a] + q.amount ELSE tokens[a]
  BY <1>2, <1>3, <1>5, <1>6
<1> QED  BY <1>7, <1>8 DEF to

LEMMA SpendType ==
    ASSUME NEW w \in Wallet, NEW before \in [Token \X (Wallet \cup Worker) -> Nat],
           Spend(w, before)
    PROVE  /\ tokens' \in [Token \X (Wallet \cup Worker) -> Nat]
           /\ \A a \in Token \X Worker : tokens'[a] = before[a]
<1>1. PICK t \in Token : \E left \in 0..before[<<t, w>>] :
          tokens' = [before EXCEPT ![<<t, w>>] = left]
  BY DEF Spend
<1>2. PICK left \in 0..before[<<t, w>>] :
          tokens' = [before EXCEPT ![<<t, w>>] = left]
  BY <1>1
<1>3. left \in Nat /\ Wallet \cap Worker = {}
  BY WalletAssumption
<1> QED  BY <1>2, <1>3

-----------------------------------------------------------------------------
(* The kinds of steps, as the proofs look at them *)

LEMMA InitOK == Init => IInv
<1> SUFFICES ASSUME Init PROVE IInv
  OBVIOUS
<1>1. TypeOK
  BY DEF Init, TypeOK
<1>2. \A q \in RelayRequest \cup DeployRequest : checked[q].pc = "new"
  BY DEF Init
<1>3. WalletsAreTheirOwners /\ NewWalletsHaveNoLogic /\ NoncesAreBeyond /\ CheckedWereGood
  BY <1>2 DEF Init, WalletsAreTheirOwners, NewWalletsHaveNoLogic, NoncesAreBeyond,
              CheckedWereGood
<1> QED  BY <1>1, <1>3 DEF IInv

\* A wallet comes to be: nothing changes but its owner, its logic and, when a relay
\* did it, what the relay is paid with.
Creation(w) ==
    /\ NotInitialized(w)
    /\ w \in Genuine
    /\ owner' = [owner EXCEPT ![w] = w.owner]
    /\ \/ w.factory = "plain" /\ UNCHANGED logic
       \/ logic' = [logic EXCEPT ![w] = w.logic]
    /\ UNCHANGED <<nonce, accepted, checked, executed>>

LEMMA CreationOK ==
    ASSUME IInv, NEW w \in Wallet, Creation(w)
    PROVE  /\ owner' \in [Wallet -> Owner \cup {NoOne}]
           /\ logic' \in [Wallet -> Logic \cup {NoLogic}]
           /\ WalletsAreTheirOwners' /\ NewWalletsHaveNoLogic'
           /\ \A x \in Wallet : owner[x] # NoOne => owner'[x] = owner[x]
<1>1. /\ w.owner \in Owner /\ w.logic \in Logic \cup {NoLogic} /\ NoOne \notin Owner
      /\ owner \in [Wallet -> Owner \cup {NoOne}]
      /\ logic \in [Wallet -> Logic \cup {NoLogic}]
  BY WalletAssumption DEF IInv, TypeOK
<1>2. CASE logic' = [logic EXCEPT ![w] = w.logic]
  BY <1>1, <1>2 DEF Creation, IInv, WalletsAreTheirOwners, NewWalletsHaveNoLogic,
                           NotInitialized
<1>3. CASE w.factory = "plain" /\ UNCHANGED logic
  <2>1. w.logic = NoLogic
    BY <1>3, WalletAssumption
  <2> QED  BY <1>1, <1>3, <2>1 DEF Creation, IInv, WalletsAreTheirOwners, NewWalletsHaveNoLogic,
                           NotInitialized
<1> QED  BY <1>2, <1>3 DEF Creation

\* What was true of the checked requests stays true as long as wallets keep their
\* owners and nonces only grow.
LEMMA CheckedKept ==
    ASSUME IInv, UNCHANGED checked,
           \A x \in Wallet : owner[x] # NoOne => owner'[x] = owner[x],
           \A x \in Wallet : nonce'[x] \in Nat /\ nonce'[x] >= nonce[x],
           \A f \in Factory \X Owner : nonces'[f] \in Nat /\ nonces'[f] >= nonces[f]
    PROVE  CheckedWereGood'
<1>1. ASSUME NEW r \in RelayRequest
      PROVE  /\ checked[r].pc # "new" => r.wallet \in Genuine /\ owner'[r.wallet] # NoOne
             /\ checked[r].pc = "sent" =>
                   /\ owner'[r.wallet] = r.from /\ r.domain = r.wallet /\ SignedBy(r)
                   /\ nonce'[r.wallet] >= r.nonce
                   /\ checked[r].tokens >= r.amount
  <2>1. r.wallet \in Wallet /\ r.nonce \in Nat
    BY RequestAssumption
  <2>2. nonce[r.wallet] \in Nat
    BY <2>1 DEF IInv, TypeOK
  <2> QED  BY <2>1, <2>2 DEF IInv, CheckedWereGood
<1>2. ASSUME NEW d \in DeployRequest, checked[d].pc = "sent"
      PROVE  /\ SignedBy(d)
             /\ nonces'[<<d.wallet.factory, d.from>>] >= d.nonce
             /\ checked[d].tokens >= d.amount
  <2>1. d.nonce \in Nat /\ <<d.wallet.factory, d.from>> \in Factory \X Owner
    BY RequestAssumption, WalletAssumption DEF Genuine
  <2>2. nonces[<<d.wallet.factory, d.from>>] \in Nat
    BY <2>1 DEF IInv, TypeOK
  <2> QED  BY <1>2, <2>1, <2>2 DEF IInv, CheckedWereGood
<1> QED  BY <1>1, <1>2 DEF CheckedWereGood, SignedBy

-----------------------------------------------------------------------------
(* The invariant and the promise, step by step *)

\* A step of the promise or one that it does not see.
Kept == IInv' /\ [Promise!Next]_(Promise!vars)

LEMMA CreatedByOwner ==
    ASSUME IInv, NEW w \in Wallet, Creation(w), UNCHANGED <<nonces, tokens, created>>
    PROVE  Kept
<1>1. /\ owner' \in [Wallet -> Owner \cup {NoOne}]
      /\ logic' \in [Wallet -> Logic \cup {NoLogic}]
      /\ WalletsAreTheirOwners' /\ NewWalletsHaveNoLogic'
      /\ \A x \in Wallet : owner[x] # NoOne => owner'[x] = owner[x]
  BY CreationOK
<1>2. TypeOK'
  BY <1>1 DEF Creation, IInv, TypeOK
<1>3. NoncesAreBeyond'
  BY DEF Creation, IInv, NoncesAreBeyond
<1>4. CheckedWereGood'
  <2>1. /\ \A x \in Wallet : nonce'[x] \in Nat /\ nonce'[x] >= nonce[x]
        /\ \A f \in Factory \X Owner : nonces'[f] \in Nat /\ nonces'[f] >= nonces[f]
    BY DEF Creation, IInv, TypeOK
  <2> QED  BY <1>1, <2>1, CheckedKept DEF Creation
<1>5. Promise!Create(w)
  <2>1. /\ owner[w] = NoOne /\ owner'[w] # NoOne
        /\ \A x \in Wallet \ {w} : owner'[x] = owner[x]
    BY WalletAssumption DEF Creation, NotInitialized, IInv, TypeOK
  <2> QED  BY <2>1 DEF Promise!Create, Creation
<1> QED  BY <1>1, <1>2, <1>3, <1>4, <1>5 DEF Kept, IInv, Promise!Next

LEMMA CreatedByRelay ==
    ASSUME IInv, NEW d \in DeployRequest, Creation(d.wallet), RelayedCreation(d)
    PROVE  Kept
<1> DEFINE w == d.wallet
           n == <<w.factory, d.from>>
<1>1. /\ w \in Wallet /\ n \in Factory \X Owner /\ d.from = w.owner
      /\ d.nonce \in Nat /\ d \in RelayRequest \cup DeployRequest
  BY RequestAssumption, WalletAssumption DEF Genuine
<1>2. /\ owner' \in [Wallet -> Owner \cup {NoOne}]
      /\ logic' \in [Wallet -> Logic \cup {NoLogic}]
      /\ WalletsAreTheirOwners' /\ NewWalletsHaveNoLogic'
      /\ \A x \in Wallet : owner[x] # NoOne => owner'[x] = owner[x]
  BY <1>1, CreationOK
<1>3. /\ nonces \in [Factory \X Owner -> Nat]
      /\ nonces' = [nonces EXCEPT ![n] = nonces[n] + 1]
      /\ nonces[n] = d.nonce /\ d.signer = d.from
  BY DEF RelayedCreation, VerifyDeploySig, SignedBy, IInv, TypeOK
<1>4. /\ nonces' \in [Factory \X Owner -> Nat]
      /\ \A f \in Factory \X Owner : nonces'[f] \in Nat /\ nonces'[f] >= nonces[f]
      /\ nonces'[n] > d.nonce
  <2> HIDE DEF n
  <2> QED  BY <1>1, <1>3
<1>5. /\ tokens' \in [Token \X (Wallet \cup Worker) -> Nat]
      /\ \A a \in Token \X Worker :
            tokens'[a] = IF a = <<d.token, d.worker>> THEN tokens[a] + d.amount ELSE tokens[a]
  BY <1>1, PaidType DEF RelayedCreation, IInv
<1>6. TypeOK'
  BY <1>2, <1>4, <1>5 DEF Creation, RelayedCreation, IInv, TypeOK
<1>7. NoncesAreBeyond'
  <2>1. ASSUME NEW e \in created'
        PROVE  nonces'[<<e.wallet.factory, e.from>>] > e.nonce
    <3>1. CASE e = d
      BY <1>4, <3>1
    <3>2. CASE e \in created
      <4>1. /\ e \in DeployRequest
            /\ nonces[<<e.wallet.factory, e.from>>] > e.nonce
        BY <3>2 DEF IInv, NoncesAreBeyond, TypeOK
      <4>2. <<e.wallet.factory, e.from>> \in Factory \X Owner /\ e.nonce \in Nat
        BY <4>1, RequestAssumption, WalletAssumption DEF Genuine
      <4> QED  BY <1>3, <1>4, <4>1, <4>2
    <3> QED  BY <2>1, <3>1, <3>2 DEF RelayedCreation
  <2>2. \A x \in Wallet : \A i \in 1..Len(executed'[x]) : executed'[x][i].nonce < nonce'[x]
    BY DEF Creation, IInv, NoncesAreBeyond
  <2> QED  BY <2>1, <2>2 DEF NoncesAreBeyond
<1>8. CheckedWereGood'
  <2>1. \A x \in Wallet : nonce'[x] \in Nat /\ nonce'[x] >= nonce[x]
    BY DEF Creation, IInv, TypeOK
  <2> QED  BY <1>2, <1>4, <2>1, CheckedKept DEF Creation
<1>9. Promise!CreateByRelay(d)
  <2>1. /\ owner[w] = NoOne /\ owner'[w] # NoOne
        /\ \A x \in Wallet \ {w} : owner'[x] = owner[x]
    BY <1>1, WalletAssumption DEF Creation, NotInitialized, IInv, TypeOK
  <2>2. {x \in Wallet : owner'[x] # NoOne} = {x \in Wallet : owner[x] # NoOne} \cup {w}
    BY <1>1, <2>1
  <2>3. ASSUME NEW e \in created,
               e.wallet.factory = w.factory, e.from = d.from, e.nonce = d.nonce
        PROVE  FALSE
    <3>1. nonces[n] > d.nonce
      BY <2>3 DEF IInv, NoncesAreBeyond
    <3> QED  BY <1>1, <1>3, <3>1
  <2>4. Promise!Earn(d)
    <3> DEFINE k == <<d.token, d.worker>>
               E == [a \in Token \X Worker |-> tokens[a]]
    <3>1. k \in Token \X Worker
      BY <1>1, RequestAssumption
    <3> HIDE DEF k
    <3>2. [a \in Token \X Worker |-> tokens'[a]] = [E EXCEPT ![k] = E[k] + d.amount]
      BY <1>5, <3>1 DEF k
    <3> QED  BY <3>2 DEF Promise!Earn, k
  <2>5. w \notin {x \in Wallet : owner[x] # NoOne}
    BY <2>1
  <2> QED  BY <1>1, <1>3, <2>2, <2>3, <2>4, <2>5
           DEF Promise!CreateByRelay, Creation, RelayedCreation
<1> QED  BY <1>2, <1>6, <1>7, <1>8, <1>9 DEF Kept, IInv, Promise!Next

LEMMA ExecutedOK ==
    ASSUME IInv, NEW r \in RelayRequest, Executed(r)
    PROVE  Kept
<1> DEFINE w == r.wallet
<1>1. /\ w \in Wallet /\ r.nonce \in Nat /\ r \in RelayRequest \cup DeployRequest
      /\ NoOne \notin Owner
  BY RequestAssumption, WalletAssumption
<1>2. /\ owner[w] = r.from /\ nonce[w] = r.nonce /\ r.signer = r.from /\ CanPay(r)
      /\ nonce' = [nonce EXCEPT ![w] = nonce[w] + 1]
      /\ executed' = [executed EXCEPT ![w] = Append(executed[w], r)]
      /\ UNCHANGED <<owner, logic, nonces, accepted, checked, created>>
  BY DEF Executed, Executable, VerifySig, NonceMatches, SignedBy
<1>3. /\ nonce \in [Wallet -> Nat] /\ nonce' \in [Wallet -> Nat]
      /\ \A x \in Wallet : nonce'[x] \in Nat /\ nonce'[x] >= nonce[x]
      /\ nonce'[w] = r.nonce + 1
  BY <1>1, <1>2 DEF IInv, TypeOK
<1>4. /\ executed \in [Wallet -> Seq(RelayRequest)]
      /\ executed' \in [Wallet -> Seq(RelayRequest)]
  BY <1>1, <1>2 DEF IInv, TypeOK
<1>5. /\ tokens' \in [Token \X (Wallet \cup Worker) -> Nat]
      /\ \A a \in Token \X Worker :
            tokens'[a] = IF a = <<r.token, r.worker>> THEN tokens[a] + r.amount ELSE tokens[a]
  <2>1. /\ Paid(r) \in [Token \X (Wallet \cup Worker) -> Nat]
        /\ \A a \in Token \X Worker :
              Paid(r)[a] = IF a = <<r.token, r.worker>> THEN tokens[a] + r.amount ELSE tokens[a]
    BY <1>1, <1>2, PaidType DEF IInv
  <2>2. Spend(w, Paid(r))
    BY DEF Executed
  <2>3. /\ tokens' \in [Token \X (Wallet \cup Worker) -> Nat]
        /\ \A a \in Token \X Worker : tokens'[a] = Paid(r)[a]
    BY <1>1, <2>1, <2>2, SpendType
  <2> QED  BY <2>1, <2>3
<1>6. TypeOK'
  BY <1>2, <1>3, <1>4, <1>5 DEF IInv, TypeOK
<1>7. \A i \in 1..Len(executed[w]) : executed[w][i].nonce < r.nonce
  BY <1>1, <1>2 DEF IInv, NoncesAreBeyond
<1>8. NoncesAreBeyond'
  <2>1. ASSUME NEW x \in Wallet, NEW i \in 1..Len(executed'[x])
        PROVE  executed'[x][i].nonce < nonce'[x]
    <3>1. CASE x # w
      BY <1>2, <1>3, <1>4, <2>1, <3>1 DEF IInv, NoncesAreBeyond
    <3>2. CASE x = w
      <4>1. /\ executed[w] \in Seq(RelayRequest) /\ executed'[w] = Append(executed[w], r)
        BY <1>1, <1>2, <1>4
      <4>2. CASE i = Len(executed[w]) + 1
        <5>1. executed'[w][i] = r
          BY <4>1, <4>2
        <5> QED  BY <1>1, <1>3, <3>2, <5>1
      <4>3. CASE i \in 1..Len(executed[w])
        <5>1. executed'[w][i] = executed[w][i] /\ executed[w][i] \in RelayRequest
          BY <4>1, <4>3
        <5>2. executed[w][i].nonce \in Nat
          BY <5>1, RequestAssumption
        <5> QED  BY <1>1, <1>3, <1>7, <3>2, <4>3, <5>1, <5>2
      <4>4. i \in 1..Len(executed[w]) + 1
        BY <2>1, <3>2, <4>1
      <4>5. Len(executed[w]) \in Nat
        BY <4>1
      <4> QED  BY <4>2, <4>3, <4>4, <4>5
    <3> QED  BY <3>1, <3>2
  <2>2. \A d \in created' : nonces'[<<d.wallet.factory, d.from>>] > d.nonce
    BY <1>2 DEF IInv, NoncesAreBeyond
  <2> QED  BY <2>1, <2>2 DEF NoncesAreBeyond
<1>9. CheckedWereGood'
  <2>1. \A f \in Factory \X Owner : nonces'[f] \in Nat /\ nonces'[f] >= nonces[f]
    BY <1>2 DEF IInv, TypeOK
  <2> QED  BY <1>2, <1>3, <2>1, CheckedKept
<1>10. WalletsAreTheirOwners' /\ NewWalletsHaveNoLogic'
  BY <1>2 DEF IInv, WalletsAreTheirOwners, NewWalletsHaveNoLogic
<1>11. Promise!Execute(r)
  <2>1. owner[w] # NoOne /\ owner[w] = w.owner
    <3>1. owner[w] # NoOne
      BY <1>1, <1>2, RequestAssumption
    <3> QED  BY <1>1, <3>1 DEF IInv, WalletsAreTheirOwners
  <2>2. \A i \in 1..Len(executed[w]) : executed[w][i].nonce # r.nonce
    <3>1. ASSUME NEW i \in 1..Len(executed[w])  PROVE executed[w][i].nonce # r.nonce
      <4>1. executed[w] \in Seq(RelayRequest)
        BY <1>1, <1>4
      <4>2. executed[w][i] \in RelayRequest
        BY <4>1
      <4>3. executed[w][i].nonce \in Nat
        BY <4>2, RequestAssumption
      <4> QED  BY <1>1, <1>7, <4>3
    <3> QED  BY <3>1
  <2>3. Promise!Earn(r)
    <3> DEFINE k == <<r.token, r.worker>>
               E == [a \in Token \X Worker |-> tokens[a]]
    <3>1. k \in Token \X Worker
      BY <1>1, RequestAssumption
    <3> HIDE DEF k
    <3>2. [a \in Token \X Worker |-> tokens'[a]] = [E EXCEPT ![k] = E[k] + r.amount]
      BY <1>5, <3>1 DEF k
    <3> QED  BY <3>2 DEF Promise!Earn, k
  <2> QED  BY <1>1, <1>2, <2>1, <2>2, <2>3 DEF Promise!Execute
<1> QED  BY <1>6, <1>8, <1>9, <1>10, <1>11 DEF Kept, IInv, Promise!Next

\* Tokens of wallets move otherwise: by the wallet's own calls, or when they arrive.
LEMMA TokensMoved ==
    ASSUME IInv,
           UNCHANGED <<owner, logic, nonce, nonces, accepted, checked, executed, created>>,
           tokens' \in [Token \X (Wallet \cup Worker) -> Nat],
           \A a \in Token \X Worker : tokens'[a] = tokens[a]
    PROVE  Kept
<1>1. TypeOK'
  BY DEF IInv, TypeOK
<1>2. /\ WalletsAreTheirOwners' /\ NewWalletsHaveNoLogic' /\ NoncesAreBeyond'
  BY DEF IInv, WalletsAreTheirOwners, NewWalletsHaveNoLogic, NoncesAreBeyond
<1>3. CheckedWereGood'
  BY DEF IInv, CheckedWereGood, SignedBy
<1>4. UNCHANGED Promise!vars
  <2>1. [a \in Token \X Worker |-> tokens'[a]] = [a \in Token \X Worker |-> tokens[a]]
    OBVIOUS
  <2> QED  BY <2>1 DEF Promise!vars
<1> QED  BY <1>1, <1>2, <1>3, <1>4 DEF Kept, IInv

LEMMA ActsOK ==
    ASSUME IInv, NEW w \in Wallet, Acts(w)
    PROVE  Kept
<1>1. tokens \in [Token \X (Wallet \cup Worker) -> Nat]
  BY DEF IInv, TypeOK
<1> QED  BY <1>1, SpendType, TokensMoved DEF Acts

LEMMA FundOK ==
    ASSUME IInv, NEW t \in Token, NEW w \in Wallet, Fund(t, w)
    PROVE  Kept
<1>1. tokens \in [Token \X (Wallet \cup Worker) -> Nat] /\ Wallet \cap Worker = {}
  BY WalletAssumption DEF IInv, TypeOK
<1>2. tokens[<<t, w>>] + 1 \in Nat
  BY <1>1
<1>3. /\ tokens' \in [Token \X (Wallet \cup Worker) -> Nat]
      /\ \A a \in Token \X Worker : tokens'[a] = tokens[a]
  BY <1>1, <1>2 DEF Fund
<1> QED  BY <1>3, TokensMoved DEF Fund

LEMMA AcceptTokenOK ==
    ASSUME IInv, NEW v \in Verifier, NEW t \in Token, AcceptToken(v, t)
    PROVE  Kept
<1>1. TypeOK'
  BY DEF IInv, TypeOK, AcceptToken, chain
<1>2. /\ WalletsAreTheirOwners' /\ NewWalletsHaveNoLogic' /\ NoncesAreBeyond'
      /\ CheckedWereGood'
  BY DEF IInv, WalletsAreTheirOwners, NewWalletsHaveNoLogic, NoncesAreBeyond,
         CheckedWereGood, SignedBy, AcceptToken, chain
<1>3. UNCHANGED Promise!vars
  BY DEF Promise!vars, AcceptToken, chain
<1> QED  BY <1>1, <1>2, <1>3 DEF Kept, IInv

\* Both checks: what holds of the request checked holds afterwards.
LEMMA CheckOK ==
    ASSUME IInv, NEW q \in RelayRequest \cup DeployRequest,
           NEW pc \in {"verified", "sent"}, Check(q, pc),
           q \in RelayRequest => q.wallet \in Genuine /\ owner[q.wallet] # NoOne,
           pc = "sent" /\ q \in RelayRequest => Executable(q),
           pc = "sent" /\ q \in DeployRequest => Deployable(q)
    PROVE  Kept
<1> DEFINE have == tokens[<<q.token, q.wallet>>]
<1>1. /\ q.token \in Token /\ q.wallet \in Wallet /\ q.amount \in Nat /\ q.nonce \in Nat
      /\ RelayRequest \cap DeployRequest = {}
  BY RequestAssumption
<1>2. have \in Nat
  BY <1>1 DEF IInv, TypeOK
<1>3. /\ checked' = [checked EXCEPT ![q] = [pc |-> pc, tokens |-> have]]
      /\ UNCHANGED <<owner, logic, nonce, nonces, tokens, accepted, executed, created>>
  BY DEF Check, chain
<1>4. checked' \in [RelayRequest \cup DeployRequest ->
                       [pc : {"new", "verified", "sent"}, tokens : Nat]]
  BY <1>2, <1>3 DEF IInv, TypeOK
<1>5. TypeOK'
  BY <1>3, <1>4 DEF IInv, TypeOK
<1>6. /\ WalletsAreTheirOwners' /\ NewWalletsHaveNoLogic' /\ NoncesAreBeyond'
  BY <1>3 DEF IInv, WalletsAreTheirOwners, NewWalletsHaveNoLogic, NoncesAreBeyond
<1>7. checked'[q] = [pc |-> pc, tokens |-> have]
      /\ \A p \in RelayRequest \cup DeployRequest : p # q => checked'[p] = checked[p]
  BY <1>3 DEF IInv, TypeOK
<1>8. ASSUME NEW r \in RelayRequest
      PROVE  /\ checked'[r].pc # "new" => r.wallet \in Genuine /\ owner[r.wallet] # NoOne
             /\ checked'[r].pc = "sent" =>
                   /\ owner[r.wallet] = r.from /\ r.domain = r.wallet /\ SignedBy(r)
                   /\ nonce[r.wallet] >= r.nonce
                   /\ checked'[r].tokens >= r.amount
  <2>1. CASE r = q
    BY <1>1, <1>2, <1>7, <2>1 DEF Executable, VerifySig, NonceMatches, CanPay
  <2>2. CASE r # q
    BY <1>7, <2>2 DEF IInv, CheckedWereGood
  <2> QED  BY <2>1, <2>2
<1>9. ASSUME NEW d \in DeployRequest, checked'[d].pc = "sent"
      PROVE  /\ SignedBy(d)
             /\ nonces[<<d.wallet.factory, d.from>>] >= d.nonce
             /\ checked'[d].tokens >= d.amount
  <2>1. CASE d = q
    BY <1>1, <1>2, <1>7, <1>9, <2>1 DEF Deployable, VerifyDeploySig, CanPay
  <2>2. CASE d # q
    BY <1>7, <1>9, <2>2 DEF IInv, CheckedWereGood
  <2> QED  BY <2>1, <2>2
<1>10. CheckedWereGood'
  BY <1>3, <1>8, <1>9 DEF CheckedWereGood, SignedBy
<1>11. UNCHANGED Promise!vars
  BY <1>3 DEF Promise!vars
<1> QED  BY <1>5, <1>6, <1>10, <1>11 DEF Kept, IInv

-----------------------------------------------------------------------------
LEMMA NextOK == IInv /\ [Next]_vars => Kept
<1> SUFFICES ASSUME IInv, [Next]_vars PROVE Kept
  OBVIOUS
<1> USE RequestAssumption
<1>1. ASSUME NEW w \in Wallet, CreateUserSmartWallet(w) PROVE Kept
  BY <1>1, CreatedByOwner DEF CreateUserSmartWallet, Deploy, Creation, Genuine, Factory
<1>2. ASSUME NEW w \in Wallet, CustomCreateUserSmartWallet(w) PROVE Kept
  BY <1>2, CreatedByOwner
     DEF CustomCreateUserSmartWallet, CustomDeploy, Deploy, Creation, Genuine, Factory
<1>3. ASSUME NEW w \in Wallet, DirectExecute(w) \/ Recover(w) \/ Fallback(w) PROVE Kept
  BY <1>3, ActsOK DEF DirectExecute, Recover, Fallback
<1>4. ASSUME NEW t \in Token, NEW w \in Genuine, Fund(t, w) PROVE Kept
  BY <1>4, FundOK DEF Genuine
<1>5. ASSUME NEW d \in DeployRequest, RelayedUserSmartWalletCreation(d) PROVE Kept
  <2>1. Creation(d.wallet)
    BY <1>5 DEF RelayedUserSmartWalletCreation, RelayedCreation, Deploy, Creation
  <2> QED  BY <1>5, <2>1, CreatedByRelay DEF RelayedUserSmartWalletCreation
<1>6. ASSUME NEW d \in DeployRequest, CustomRelayedUserSmartWalletCreation(d) PROVE Kept
  <2>1. Creation(d.wallet)
    BY <1>6 DEF CustomRelayedUserSmartWalletCreation, CustomDeploy, RelayedCreation, Deploy,
                Creation
  <2> QED  BY <1>6, <2>1, CreatedByRelay DEF CustomRelayedUserSmartWalletCreation
<1>7. ASSUME NEW r \in RelayRequest, Execute(r) \/ CustomExecute(r) PROVE Kept
  BY <1>7, ExecutedOK DEF Execute, CustomExecute
<1>8. ASSUME NEW v \in Verifier, NEW t \in Token, AcceptToken(v, t) PROVE Kept
  BY <1>8, AcceptTokenOK
<1>9. ASSUME NEW q \in RelayRequest \cup DeployRequest, Verify(q) PROVE Kept
  <2>1. q \in RelayRequest => q.wallet \in Genuine /\ owner[q.wallet] # NoOne
    BY <1>9 DEF Verify, VerifyRelayedCall, TemplateCode, Genuine
  <2> QED  BY <1>9, <2>1, CheckOK DEF Verify
<1>10. ASSUME NEW q \in RelayRequest \cup DeployRequest, ViewCall(q) PROVE Kept
  <2>1. q \in RelayRequest => q.wallet \in Genuine /\ owner[q.wallet] # NoOne
    BY <1>10 DEF ViewCall, IInv, CheckedWereGood
  <2>2. q \in RelayRequest => Executable(q)
    BY <1>10, <2>1 DEF ViewCall
  <2>3. q \in DeployRequest => Deployable(q)
    BY <1>10 DEF ViewCall
  <2> QED  BY <1>10, <2>1, <2>2, <2>3, CheckOK DEF ViewCall
<1>11. CASE UNCHANGED vars
  <2>1. UNCHANGED Promise!vars
    BY <1>11 DEF Promise!vars, vars
  <2>2. IInv'
    BY <1>11 DEF vars, IInv, TypeOK, WalletsAreTheirOwners, NewWalletsHaveNoLogic,
                 NoncesAreBeyond, CheckedWereGood, SignedBy
  <2> QED  BY <2>1, <2>2 DEF Kept
<1> QED  BY <1>1, <1>2, <1>3, <1>4, <1>5, <1>6, <1>7, <1>8, <1>9, <1>10, <1>11 DEF Next

LEMMA Invariance == Spec => []IInv
<1>1. IInv /\ [Next]_vars => IInv'
  BY NextOK DEF Kept
<1> QED  BY <1>1, InitOK, PTL DEF Spec

-----------------------------------------------------------------------------
(* The theorems *)

\* The variables of wallets, factories, tokens and checks keep their types.
THEOREM WalletsTypeCorrect == Spec => []TypeOK
<1>1. IInv => TypeOK
  BY DEF IInv
<1> QED  BY <1>1, Invariance, PTL

\* A wallet belongs to the owner of its address, with the logic of its address.
THEOREM WalletsBelong == Spec => []WalletsAreTheirOwners
<1>1. IInv => WalletsAreTheirOwners
  BY DEF IInv
<1> QED  BY <1>1, Invariance, PTL

\* A request that passed both checks of a server only fails for one of the reasons
\* of CheckedRequestsStayGood.
THEOREM CheckedStayGood == Spec => []CheckedRequestsStayGood
<1>1. IInv => CheckedRequestsStayGood
  <2> SUFFICES ASSUME IInv PROVE CheckedRequestsStayGood
    OBVIOUS
  <2>1. ASSUME NEW r \in RelayRequest, checked[r].pc = "sent"
        PROVE  \/ Executable(r)
               \/ nonce[r.wallet] > r.nonce
               \/ tokens[<<r.token, r.wallet>>] < checked[r].tokens
    <3>1. /\ r.wallet \in Wallet /\ r.nonce \in Nat /\ r.token \in Token /\ r.amount \in Nat
      BY RequestAssumption
    <3>2. /\ nonce[r.wallet] \in Nat /\ checked[r].tokens \in Nat
          /\ tokens[<<r.token, r.wallet>>] \in Nat
      BY <3>1 DEF IInv, TypeOK
    <3>3. /\ r.wallet \in Genuine
          /\ owner[r.wallet] = r.from /\ r.domain = r.wallet /\ SignedBy(r)
          /\ nonce[r.wallet] >= r.nonce /\ checked[r].tokens >= r.amount
      BY <2>1 DEF IInv, CheckedWereGood
    <3> QED  BY <3>1, <3>2, <3>3 DEF Executable, VerifySig, NonceMatches, CanPay
  <2>2. ASSUME NEW d \in DeployRequest, checked[d].pc = "sent"
        PROVE  \/ Deployable(d)
               \/ nonces[<<d.wallet.factory, d.from>>] > d.nonce
               \/ owner[d.wallet] # NoOne
               \/ tokens[<<d.token, d.wallet>>] < checked[d].tokens
    <3>1. /\ d.wallet \in Wallet /\ d.nonce \in Nat /\ d.token \in Token /\ d.amount \in Nat
          /\ <<d.wallet.factory, d.from>> \in Factory \X Owner
      BY RequestAssumption DEF Genuine
    <3>2. /\ nonces[<<d.wallet.factory, d.from>>] \in Nat /\ checked[d].tokens \in Nat
          /\ tokens[<<d.token, d.wallet>>] \in Nat
      BY <3>1 DEF IInv, TypeOK
    <3>3. /\ SignedBy(d)
          /\ nonces[<<d.wallet.factory, d.from>>] >= d.nonce /\ checked[d].tokens >= d.amount
      BY <2>2 DEF IInv, CheckedWereGood
    <3> QED  BY <3>1, <3>2, <3>3 DEF Deployable, VerifyDeploySig, NotInitialized, CanPay
  <2> QED  BY <2>1, <2>2 DEF CheckedRequestsStayGood
<1> QED  BY <1>1, Invariance, PTL

\* Whatever relays, owners and tokens do, the wallets do what RelayedCalls promises.
THEOREM WalletsImplementRelayedCalls == Spec => ImplementsRelayedCalls
<1>1. Init => Promise!Init
  <2> SUFFICES ASSUME Init PROVE Promise!Init
    OBVIOUS
  <2>1. {w \in Wallet : owner[w] # NoOne} = {}
    BY DEF Init
  <2>2. [a \in Token \X Worker |-> tokens[a]] = [a \in Token \X Worker |-> 0]
    BY DEF Init
  <2> QED  BY <2>1, <2>2 DEF Init, Promise!Init
<1>2. IInv /\ [Next]_vars => [Promise!Next]_(Promise!vars)
  BY NextOK DEF Kept
<1> QED  BY <1>1, <1>2, Invariance, PTL DEF Spec, ImplementsRelayedCalls, Promise!Spec
=============================================================================
