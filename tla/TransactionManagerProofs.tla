---------------------- MODULE TransactionManagerProofs ----------------------
(***************************************************************************)
(* Proofs about TransactionManager.  The argument: a nonce handed out is   *)
(* covered, by an entry of the store or by a final transaction on the      *)
(* chain; finality never goes away; an entry leaves the store only when    *)
(* its nonce is final, and never changes its call.  So a transaction that  *)
(* is about to be sent either agrees with every other one sent under its   *)
(* nonce, or is rejected by the node.                                      *)
(*                                                                         *)
(* Over that invariant, CarrierInv says that whatever carries a call was   *)
(* signed for it, and OneSlotInv that no call has two nonces: together     *)
(* they make the store and the chain an Outbox.                            *)
(***************************************************************************)
EXTENDS TransactionManager, FiniteSetTheorems, SequenceTheorems, Induction, TLAPS

\* Nonce n of s is taken by call c, or settled on the chain.
Held(s, n, c) ==
    \/ Final(s, n)
    \/ IsStored(s, n) /\ store[s][n].tx.call = c

Covered(s, n) == Final(s, n) \/ IsStored(s, n)

StoreInv ==
    \A s \in Signer, n \in Nonce :
        IsStored(s, n) => store[s][n].tx.from = s /\ store[s][n].tx.nonce = n

ChainInv ==
    \A s \in Signer : \A i \in 1..Len(chain[s]) :
        /\ chain[s][i].tx \in sent
        /\ chain[s][i].tx.from = s
        /\ chain[s][i].tx.nonce = i - 1
        /\ chain[s][i].block <= block
        /\ \A j \in 1..i : chain[s][j].block <= chain[s][i].block

SentInv == \A t \in sent : Held(t.from, t.nonce, t.call)

NonceInv ==
    \A s \in Signer :
        /\ nonces[s] <= Cardinality(Call) + 1
        /\ \A n \in Nonce : n < nonces[s] => Covered(s, n)

CallInv ==
    \A c \in Call :
        /\ calls[c].pc = "polled" =>
              \A n \in Nonce : n < calls[c].pending => Covered(CallSigner[c], n)
        /\ calls[c].pc = "stored" =>
              Held(calls[c].tx.from, calls[c].tx.nonce, calls[c].tx.call)

\* The entries a round still has to look at are the ones of the store, unless
\* their nonce has become final.
RoundInv ==
    /\ round.pc # "idle" => round.block <= block
    /\ round.pc \in {"confirm", "resend", "broadcast"} =>
          \A e \in round.todo :
              Final(e.tx.from, e.tx.nonce) \/ store[e.tx.from][e.tx.nonce] = e
    /\ round.pc = "broadcast" => Held(round.tx.from, round.tx.nonce, round.tx.call)

IInv ==
    /\ TypeOK
    /\ StoreInv
    /\ ChainInv
    /\ SentInv
    /\ SameNonceSameCall
    /\ NonceInv
    /\ CallInv
    /\ RoundInv
-----------------------------------------------------------------------------
(* Data *)

LEMMA NonceFacts == Cardinality(Call) \in Nat /\ Nonce \subseteq Nat
  BY TransactionManagerAssumption, FS_CardinalityType DEF Nonce

LEMMA EmptyIsNotStored == Empty \notin Stored
  <1>. SUFFICES ASSUME Empty \in Stored PROVE FALSE
    OBVIOUS
  <1>1. DOMAIN Empty = {"tx"}
    BY DEF Empty
  <1>2. DOMAIN Empty = {"tx", "lastSent", "mined"}
    BY DEF Stored
  <1>. QED
    BY <1>1, <1>2

LEMMA NatProduct == \A a, b \in Nat : a * b \in Nat
  OBVIOUS

LEMMA PrefixOf ==
  ASSUME NEW S, NEW q \in Seq(S), NEW n \in 0..Len(q)
  PROVE  /\ SubSeq(q, 1, n) \in Seq(S)
         /\ Len(SubSeq(q, 1, n)) = n
         /\ \A i \in 1..n : SubSeq(q, 1, n)[i] = q[i]
  <1>1. n \in Int /\ 1 \in Int /\ \A i \in 1..n : q[i] \in S
    OBVIOUS
  <1>2. /\ SubSeq(q, 1, n) \in Seq(S)
        /\ Len(SubSeq(q, 1, n)) = IF 1 <= n THEN n - 1 + 1 ELSE 0
        /\ \A i \in 1..n - 1 + 1 : SubSeq(q, 1, n)[i] = q[1 + i - 1]
    BY <1>1, SubSeqProperties
  <1>. QED
    BY <1>1, <1>2

LEMMA OneMore ==
  ASSUME NEW S, NEW q \in Seq(S), NEW x \in S
  PROVE  /\ Append(q, x) \in Seq(S)
         /\ Len(Append(q, x)) = Len(q) + 1
         /\ \A i \in 1..Len(q) : Append(q, x)[i] = q[i]
         /\ Append(q, x)[Len(q) + 1] = x
  OBVIOUS

\* A mined transaction and its block.
MinedTx == [tx : Tx, block : Nat]

LEMMA ChainTypes ==
  ASSUME TypeOK, NEW s \in Signer
  PROVE  /\ chain[s] \in Seq(MinedTx)
         /\ AccountNonce(s) \in Nat
         /\ \A i \in 1..Len(chain[s]) : chain[s][i].tx \in Tx /\ chain[s][i].block \in Nat
  <1>1. chain[s] \in Seq(MinedTx)
    BY DEF TypeOK, MinedTx
  <1>2. AccountNonce(s) \in Nat /\ \A i \in 1..Len(chain[s]) : chain[s][i] \in MinedTx
    BY <1>1 DEF AccountNonce
  <1>. QED
    BY <1>1, <1>2 DEF MinedTx

LEMMA MinedInNat ==
  ASSUME TypeOK, NEW t \in Tx
  PROVE  MinedIn(t) \in Nat
  <1>1. t.from \in Signer /\ t.nonce \in Nat
    BY NonceFacts DEF Tx
  <1>2. CASE t.nonce < AccountNonce(t.from)
    <2>1. t.nonce + 1 \in 1..Len(chain[t.from])
      BY <1>1, <1>2, ChainTypes DEF AccountNonce
    <2>. QED
      BY <1>1, <2>1, ChainTypes DEF MinedIn
  <1>. QED
    BY <1>2 DEF MinedIn

LEMMA CallStates ==
  ASSUME NEW x \in CallState
  PROVE  /\ x.pc \in {"new", "failed", "done", "polled", "stored"}
         /\ x.pc = "polled" => x.created \in Nat /\ x.pending \in Nat
         /\ x.pc = "stored" => x.tx \in Tx
  BY DEF CallState

LEMMA ResentIsTx ==
  ASSUME NEW t \in Tx, NEW price \in Nat
  PROVE  /\ Resent(t, price) \in Tx
         /\ Resent(t, price).from = t.from
         /\ Resent(t, price).nonce = t.nonce
         /\ Resent(t, price).call = t.call
         /\ Resent(t, price).value = 0
  BY NonceFacts DEF Resent, Tx
-----------------------------------------------------------------------------
(* What a block and a reorganization do to the chain *)

LEMMA MinedBlock ==
  ASSUME TypeOK, MineBlock, NEW s \in Signer
  PROVE  \/ chain'[s] = chain[s]
         \/ \E t \in pool : /\ t.from = s /\ t.nonce = AccountNonce(s)
                           /\ chain'[s] = Append(chain[s], [tx |-> t, block |-> block + 1])
  <1>1. PICK txs \in SUBSET UNION {Minable(q) : q \in Signer} :
          chain' = [q \in Signer |->
                IF \E t \in txs : t.from = q
                THEN Append(chain[q], [tx |-> CHOOSE t \in txs : t.from = q,
                                       block |-> block + 1])
                ELSE chain[q]]
    BY Zenon DEF MineBlock
  <1>2. CASE \E t \in txs : t.from = s
    <2>. DEFINE t == CHOOSE t \in txs : t.from = s
    <2>1. t \in txs /\ t.from = s
      BY <1>2
    <2>2. t \in pool /\ t.nonce = AccountNonce(s)
      BY <2>1 DEF Minable
    <2>3. chain'[s] = Append(chain[s], [tx |-> t, block |-> block + 1])
      BY <1>1, <1>2
    <2>. QED
      BY <2>1, <2>2, <2>3
  <1>3. CASE ~\E t \in txs : t.from = s
    BY <1>1, <1>3
  <1>. QED
    BY <1>2, <1>3

LEMMA CutChain ==
  ASSUME TypeOK, NEW s \in Signer, Reorg(s)
  PROVE  \E n \in 0..AccountNonce(s)-1 :
            /\ block - chain[s][n + 1].block < ConfirmationsNeeded
            /\ chain' = [chain EXCEPT ![s] = SubSeq(@, 1, n)]
            /\ chain'[s] \in Seq(MinedTx)
            /\ Len(chain'[s]) = n
            /\ \A i \in 1..n : chain'[s][i] = chain[s][i]
  <1>1. PICK n \in 0..AccountNonce(s)-1 :
            /\ block - chain[s][n + 1].block < ConfirmationsNeeded
            /\ chain' = [chain EXCEPT ![s] = SubSeq(@, 1, n)]
    BY DEF Reorg
  <1>2. chain[s] \in Seq(MinedTx) /\ n \in 0..Len(chain[s])
    BY <1>1, ChainTypes DEF AccountNonce
  <1>3. chain'[s] = SubSeq(chain[s], 1, n)
    BY <1>1 DEF TypeOK
  <1>4. /\ SubSeq(chain[s], 1, n) \in Seq(MinedTx)
        /\ Len(SubSeq(chain[s], 1, n)) = n
        /\ \A i \in 1..n : SubSeq(chain[s], 1, n)[i] = chain[s][i]
    BY <1>2, PrefixOf
  <1>5. /\ chain'[s] \in Seq(MinedTx)
        /\ Len(chain'[s]) = n
        /\ \A i \in 1..n : chain'[s][i] = chain[s][i]
    BY <1>3, <1>4
  <1>. QED
    BY <1>1, <1>5

-----------------------------------------------------------------------------
(* Types *)

LEMMA InitTypeOK == Init => TypeOK
  BY TransactionManagerAssumption, NonceFacts
  DEF Init, TypeOK, RoundOK, CallState, Idle

LEMMA CallTypeOK ==
  ASSUME TypeOK, NEW c \in Call, CallStep(c)
  PROVE  TypeOK'
  <1>. USE TransactionManagerAssumption, NonceFacts DEF TypeOK, RoundOK, nodeVars
  <1>1. CASE AcquireAndPoll(c)
    <2>1. PICK n \in Nonce, b \in 1..block :
            calls' = [calls EXCEPT ![c] = [pc |-> "polled", created |-> b, pending |-> n]]
      BY <1>1 DEF AcquireAndPoll
    <2>2. calls' \in [Call -> CallState]
      BY <2>1 DEF CallState
    <2>. QED
      BY <1>1, <2>2 DEF AcquireAndPoll
  <1>2. CASE SignAndStore(c)
    <2>. DEFINE s == CallSigner[c]
                n == MaxOf(nonces[s], calls[c].pending)
                t == [from |-> s, nonce |-> n, gasPrice |-> CallGasPrice[c],
                      call |-> c, value |-> CallValue[c]]
    <2>1. s \in Signer /\ n \in Nonce
      BY <1>2 DEF SignAndStore
    <2>2. t \in Tx
      BY <2>1 DEF Tx
    <2>3. calls[c].created \in Nat
      BY <1>2, CallStates DEF SignAndStore
    <2>4. [tx |-> t, lastSent |-> calls[c].created, mined |-> 0] \in Stored
      BY <2>2, <2>3 DEF Stored
    <2>. HIDE DEF s, n, t
    <2>9. n + 1 \in Nat
      BY <2>1
    <2>5. nonces' = [nonces EXCEPT ![s] = n + 1]
      BY <1>2 DEF SignAndStore, s, n
    <2>6. nonces' \in [Signer -> Nat]
      BY <2>1, <2>5, <2>9
    <2>7. CASE IsStored(s, n)
      <3>1. calls' = [calls EXCEPT ![c] = [pc |-> "failed"]] /\ store' = store
        BY <1>2, <2>7 DEF SignAndStore, InsertFails, s, n
      <3>2. calls' \in [Call -> CallState]
        BY <3>1 DEF CallState
      <3>. QED
        BY <1>2, <2>6, <3>1, <3>2 DEF SignAndStore
    <2>8. CASE ~IsStored(s, n)
      <3>1. /\ calls' = [calls EXCEPT ![c] = [pc |-> "stored", tx |-> t]]
            /\ store' = [store EXCEPT ![s][n] =
                        [tx |-> t, lastSent |-> calls[c].created, mined |-> 0]]
        BY <1>2, <2>8 DEF SignAndStore, InsertFails, s, n, t
      <3>2. calls' \in [Call -> CallState]
        BY <2>2, <3>1 DEF CallState
      <3>3. store' \in [Signer -> [Nonce -> Stored \cup {Empty}]]
        BY <2>1, <2>4, <3>1
      <3>. QED
        BY <1>2, <2>6, <3>2, <3>3 DEF SignAndStore
    <2>. QED
      BY <2>7, <2>8
  <1>3. CASE Broadcast(c)
    <2>1. calls[c].tx \in Tx
      BY <1>3, CallStates DEF Broadcast
    <2>2. calls' \in [Call -> CallState]
      BY <1>3 DEF Broadcast, CallState
    <2>. QED
      BY <1>3, <2>1, <2>2 DEF Broadcast
  <1>4. CASE BroadcastFails(c)
    <2>1. calls' \in [Call -> CallState]
      BY <1>4 DEF BroadcastFails, CallState
    <2>. QED
      BY <1>4, <2>1 DEF BroadcastFails
  <1>. QED
    BY <1>1, <1>2, <1>3, <1>4 DEF CallStep

LEMMA UnderpricedAreStored ==
  ASSUME NEW s, NEW price, \A n \in StoredNonces(s) : store[s][n] \in Stored
  PROVE  Underpriced(s, price) \subseteq Stored
  BY DEF Underpriced

LEMMA WorkerTypeOK ==
  ASSUME TypeOK, WorkerStep
  PROVE  TypeOK'
  <1>. USE TransactionManagerAssumption, NonceFacts DEF TypeOK, RoundOK, nodeVars
  <1>0. \A s \in Signer : \A n \in StoredNonces(s) : store[s][n] \in Stored
    BY DEF StoredNonces, IsStored
  <1>s. CASE StartRound
    BY <1>s DEF StartRound
  <1>f. CASE RoundFails
    BY <1>f DEF RoundFails, Idle
  <1>1. CASE LoadStored
    <2>1. UNION {{store[s][n] : n \in StoredNonces(s)} : s \in Signer} \subseteq Stored
      BY <1>0
    <2>. QED
      BY <1>1, <2>1 DEF LoadStored
  <1>2. ASSUME round.pc = "confirm", NEW e \in round.todo, ConfirmOne(e)
        PROVE  TypeOK'
    <2>1. e \in Stored /\ e.tx \in Tx /\ e.tx.from \in Signer /\ e.tx.nonce \in Nonce
      BY <1>2 DEF Stored, Tx
    <2>2. MinedIn(e.tx) \in Nat
      BY <2>1, MinedInNat
    <2>3. [e EXCEPT !.mined = MinedIn(e.tx)] \in Stored
      BY <2>1, <2>2 DEF Stored
    <2>4. RemoveTxsUntilNonce(e.tx.from, e.tx.nonce) \in [Signer -> [Nonce -> Stored \cup {Empty}]]
      BY <2>1 DEF RemoveTxsUntilNonce
    <2>5. [store EXCEPT ![e.tx.from][e.tx.nonce] = [e EXCEPT !.mined = MinedIn(e.tx)]]
            \in [Signer -> [Nonce -> Stored \cup {Empty}]]
      BY <2>1, <2>3
    <2>6. store' \in [Signer -> [Nonce -> Stored \cup {Empty}]]
      BY <1>2, <2>4, <2>5, Zenon DEF ConfirmOne
    <2>. QED
      BY <1>2, <2>6 DEF ConfirmOne
  <1>3. CASE ConfirmDone
    BY <1>3 DEF ConfirmDone
  <1>4. CASE BoostSigner
    <2>. DEFINE s == Head(round.signers)
    <2>1. s \in Signer /\ Tail(round.signers) \in Seq(Signer)
      BY <1>4 DEF BoostSigner
    <2>2. ASSUME NEW n \in Nonce, NeedsBoost(s, n)
          PROVE  ResolveNewGasPrice(store[s][n].tx.gasPrice) \in Nat
      <3>1. store[s][n] \in Stored
        BY <2>1, <2>2 DEF NeedsBoost, IsOldest, IsStored
      <3>2. store[s][n].tx.gasPrice \in Nat
        BY <3>1 DEF Stored, Tx
      <3>3. store[s][n].tx.gasPrice * RetryGasPriceFactor \in Nat
        BY <3>2, NatProduct
      <3>. QED
        BY <3>3 DEF ResolveNewGasPrice
    <2>3. \A price : Underpriced(s, price) \subseteq Stored
      BY <1>0, <2>1, UnderpricedAreStored
    <2>. DEFINE price(n) == ResolveNewGasPrice(store[s][n].tx.gasPrice)
    <2>5. ASSUME NEW n \in Nonce, NeedsBoost(s, n),
                 round' = [pc |-> "resend", block |-> round.block,
                           signers |-> Tail(round.signers),
                           todo |-> Underpriced(s, price(n)), price |-> price(n)]
          PROVE  RoundOK'
      <3>1. price(n) \in Nat
        BY <2>2, <2>5
      <3>2. round.block \in Nat
        BY <1>4 DEF BoostSigner
      <3>. HIDE DEF price, s
      <3>. QED
        BY <2>1, <2>3, <2>5, <3>1, <3>2
    <2>6. ASSUME round' = [pc |-> "boost", block |-> round.block,
                           signers |-> Tail(round.signers)]
          PROVE  RoundOK'
      BY <1>4, <2>1, <2>6 DEF BoostSigner
    <2>4. RoundOK'
      BY <1>4, <2>5, <2>6, Zenon DEF BoostSigner
    <2>. QED
      BY <1>4, <2>4 DEF BoostSigner
  <1>5. ASSUME round.pc = "resend", NEW e \in round.todo, ResendStore(e)
        PROVE  TypeOK'
    <2>. DEFINE t == Resent(e.tx, round.price)
    <2>1. e \in Stored /\ e.tx \in Tx /\ e.mined \in Nat
      BY <1>5 DEF Stored
    <2>2. t \in Tx
      BY <1>5, <2>1, ResentIsTx
    <2>. HIDE DEF t
    <2>3. t.from \in Signer /\ t.nonce \in Nonce
      BY <2>2 DEF Tx
    <2>4. [tx |-> t, lastSent |-> round.block, mined |-> e.mined] \in Stored
      BY <1>5, <2>1, <2>2 DEF Stored
    <2>5. /\ store' = [store EXCEPT ![t.from][t.nonce] =
                        [tx |-> t, lastSent |-> round.block, mined |-> e.mined]]
          /\ round' = [pc |-> "broadcast", block |-> round.block, signers |-> round.signers,
                       todo |-> round.todo \ {e}, price |-> round.price, tx |-> t]
      BY <1>5 DEF ResendStore, t
    <2>6. store' \in [Signer -> [Nonce -> Stored \cup {Empty}]]
      BY <2>3, <2>4, <2>5
    <2>7. RoundOK'
      BY <1>5, <2>2, <2>5
    <2>. QED
      BY <1>5, <2>6, <2>7 DEF ResendStore
  <1>6. CASE ResendBroadcast
    BY <1>6 DEF ResendBroadcast
  <1>7. CASE ResendFails
    BY <1>7 DEF ResendFails, Idle
  <1>8. CASE SignerDone
    BY <1>8 DEF SignerDone
  <1>9. CASE EndRound
    BY <1>9 DEF EndRound, Idle
  <1>. QED
    BY <1>s, <1>f, <1>1, <1>2, <1>3, <1>4, <1>5, <1>6, <1>7, <1>8, <1>9 DEF WorkerStep

LEMMA NextTypeOK ==
  ASSUME TypeOK, [Next]_vars
  PROVE  TypeOK'
  <1>. USE TransactionManagerAssumption, NonceFacts DEF TypeOK, RoundOK, nodeVars, serverVars
  <1>1. ASSUME NEW c \in Call, CallStep(c)
        PROVE  TypeOK'
    BY <1>1, CallTypeOK
  <1>2. ASSUME NEW s \in Signer, PollNonce(s)
        PROVE  TypeOK'
    <2>1. PICK n \in Nonce : nonces' = [nonces EXCEPT ![s] = MaxOf(@, n)]
      BY <1>2 DEF PollNonce
    <2>2. nonces' \in [Signer -> Nat]
      BY <2>1 DEF MaxOf
    <2>. QED
      BY <1>2, <2>2 DEF PollNonce
  <1>3. CASE WorkerStep
    BY <1>3, WorkerTypeOK
  <1>4. CASE Crash
    <2>1. calls' \in [Call -> CallState]
      BY <1>4 DEF Crash, CallState
    <2>. QED
      BY <1>4, <2>1 DEF Crash, Idle
  <1>5. CASE MineBlock
    <2>1. chain' = [s \in Signer |-> chain'[s]]
      BY <1>5 DEF MineBlock
    <2>2. ASSUME NEW s \in Signer PROVE chain'[s] \in Seq(MinedTx)
      <3>1. CASE chain'[s] = chain[s]
        BY <3>1, ChainTypes
      <3>2. ASSUME NEW t \in pool, chain'[s] = Append(chain[s], [tx |-> t, block |-> block + 1])
            PROVE  chain'[s] \in Seq(MinedTx)
        <4>1. [tx |-> t, block |-> block + 1] \in MinedTx
          BY DEF MinedTx
        <4>2. chain[s] \in Seq(MinedTx)
          BY ChainTypes
        <4>3. Append(chain[s], [tx |-> t, block |-> block + 1]) \in Seq(MinedTx)
          BY <4>1, <4>2, OneMore
        <4>. QED
          BY <3>2, <4>3
      <3>. QED
        BY <1>5, <3>1, <3>2, MinedBlock
    <2>3. chain' \in [Signer -> Seq(MinedTx)]
      BY <2>1, <2>2
    <2>4. block' \in Nat /\ UNCHANGED <<store, nonces, mutex, calls, round, scanned, pool, sent>>
      BY <1>5 DEF MineBlock
    <2>. QED
      BY <2>3, <2>4 DEF MinedTx
  <1>6. ASSUME NEW t \in pool, Drop(t)
        PROVE  TypeOK'
    BY <1>6 DEF Drop
  <1>7. ASSUME NEW s \in Signer, Reorg(s)
        PROVE  TypeOK'
    <2>1. chain' \in [Signer -> Seq([tx : Tx, block : Nat])]
      BY <1>7, CutChain DEF MinedTx
    <2>. QED
      BY <1>7, <2>1 DEF Reorg
  <1>8. CASE UNCHANGED vars
    BY <1>8 DEF vars
  <1>. QED
    BY <1>1, <1>2, <1>3, <1>4, <1>5, <1>6, <1>7, <1>8 DEF Next
-----------------------------------------------------------------------------
(* Finality and entries of the store are stable *)

LEMMA QuietNode ==
  ASSUME [Next]_vars, ~MineBlock, \A s \in Signer : ~Reorg(s)
  PROVE  UNCHANGED <<block, chain>>
  <1>1. ASSUME NEW c \in Call, CallStep(c)
        PROVE  UNCHANGED <<block, chain>>
    BY <1>1 DEF CallStep, AcquireAndPoll, SignAndStore, Broadcast, BroadcastFails, nodeVars
  <1>2. ASSUME NEW s \in Signer, PollNonce(s)
        PROVE  UNCHANGED <<block, chain>>
    BY <1>2 DEF PollNonce, nodeVars
  <1>3. CASE WorkerStep
    BY <1>3 DEF WorkerStep, StartRound, LoadStored, RoundFails, ConfirmOne,
                ConfirmDone, BoostSigner, ResendStore,
                ResendBroadcast, ResendFails, SignerDone, EndRound, nodeVars
  <1>4. CASE Crash
    BY <1>4 DEF Crash, nodeVars
  <1>5. ASSUME NEW t \in pool, Drop(t)
        PROVE  UNCHANGED <<block, chain>>
    BY <1>5 DEF Drop
  <1>6. CASE UNCHANGED vars
    BY <1>6 DEF vars, nodeVars
  <1>. QED
    BY <1>1, <1>2, <1>3, <1>4, <1>5, <1>6 DEF Next

LEMMA QuietStore ==
  ASSUME [Next]_vars,
         \A c \in Call : ~SignAndStore(c),
         round.pc = "confirm" => \A e \in round.todo : ~ConfirmOne(e),
         round.pc = "resend" => \A e \in round.todo : ~ResendStore(e)
  PROVE  store' = store
  <1>1. ASSUME NEW c \in Call, CallStep(c)
        PROVE  store' = store
    BY <1>1 DEF CallStep, AcquireAndPoll, Broadcast, BroadcastFails
  <1>2. ASSUME NEW s \in Signer, PollNonce(s)
        PROVE  store' = store
    BY <1>2 DEF PollNonce
  <1>3. CASE WorkerStep
    BY <1>3 DEF WorkerStep, StartRound, LoadStored, RoundFails, ConfirmDone, BoostSigner,
                ResendBroadcast, ResendFails, SignerDone, EndRound
  <1>4. CASE Crash \/ MineBlock
    BY <1>4 DEF Crash, MineBlock
  <1>5. ASSUME NEW t \in pool, Drop(t)
        PROVE  store' = store
    BY <1>5 DEF Drop
  <1>6. ASSUME NEW s \in Signer, Reorg(s)
        PROVE  store' = store
    BY <1>6 DEF Reorg
  <1>7. CASE UNCHANGED vars
    BY <1>7 DEF vars
  <1>. QED
    BY <1>1, <1>2, <1>3, <1>4, <1>5, <1>6, <1>7 DEF Next

LEMMA FinalStable ==
  ASSUME TypeOK, ChainInv, [Next]_vars, NEW s \in Signer, NEW n \in Nat, Final(s, n)
  PROVE  Final(s, n)' /\ chain'[s][n + 1] = chain[s][n + 1]
  <1>. USE TransactionManagerAssumption
  <1>0. /\ n + 1 \in 1..Len(chain[s])
        /\ chain[s][n + 1].block \in Nat
        /\ block - chain[s][n + 1].block >= ConfirmationsNeeded
        /\ block \in Nat
    <2>1. n < Len(chain[s]) /\ Len(chain[s]) \in Nat
      BY ChainTypes DEF Final, AccountNonce
    <2>2. n + 1 \in 1..Len(chain[s])
      BY <2>1
    <2>. QED
      BY <2>2, ChainTypes DEF Final, TypeOK
  <1>1. CASE MineBlock
    <2>1. block' = block + 1
      BY <1>1 DEF MineBlock
    <2>2. CASE chain'[s] = chain[s]
      BY <1>0, <2>1, <2>2 DEF Final, AccountNonce
    <2>3. ASSUME NEW t \in pool, chain'[s] = Append(chain[s], [tx |-> t, block |-> block + 1])
          PROVE  Final(s, n)' /\ chain'[s][n + 1] = chain[s][n + 1]
      <3>1. [tx |-> t, block |-> block + 1] \in MinedTx
        BY DEF TypeOK, MinedTx
      <3>2. Len(chain'[s]) = Len(chain[s]) + 1 /\ chain'[s][n + 1] = chain[s][n + 1]
        BY <1>0, <2>3, <3>1, ChainTypes, OneMore
      <3>3. n < Len(chain'[s])
        BY <1>0, <3>2, ChainTypes DEF AccountNonce
      <3>. QED
        BY <1>0, <2>1, <3>2, <3>3 DEF Final, AccountNonce
    <2>. QED
      BY <1>1, <2>2, <2>3, MinedBlock
  <1>2. ASSUME NEW r \in Signer, Reorg(r)
        PROVE  Final(s, n)' /\ chain'[s][n + 1] = chain[s][n + 1]
    <2>1. block' = block
      BY <1>2 DEF Reorg
    <2>2. PICK k \in 0..AccountNonce(r)-1 :
            /\ block - chain[r][k + 1].block < ConfirmationsNeeded
            /\ chain' = [chain EXCEPT ![r] = SubSeq(@, 1, k)]
            /\ Len(chain'[r]) = k
            /\ \A i \in 1..k : chain'[r][i] = chain[r][i]
      BY <1>2, CutChain
    <2>3. CASE r # s
      <3>1. chain'[s] = chain[s]
        BY <2>2, <2>3 DEF TypeOK
      <3>. QED
        BY <1>0, <2>1, <3>1 DEF Final, AccountNonce
    <2>4. CASE r = s
      <3>1. k \in Nat /\ k + 1 \in 1..Len(chain[s])
        BY <2>2, <2>4, ChainTypes DEF AccountNonce
      <3>2. chain[s][k + 1].block \in Nat
        BY <3>1, ChainTypes
      <3>3. n < k
        <4>. SUFFICES ASSUME k <= n PROVE FALSE
          BY <3>1
        <4>1. k + 1 \in 1..(n + 1)
          BY <3>1
        <4>2. chain[s][k + 1].block <= chain[s][n + 1].block
          BY <1>0, <4>1 DEF ChainInv
        <4>. QED
          BY <1>0, <2>2, <2>4, <3>2, <4>2
      <3>4. n < Len(chain'[s]) /\ chain'[s][n + 1] = chain[s][n + 1]
        BY <2>2, <2>4, <3>1, <3>3
      <3>. QED
        BY <1>0, <2>1, <3>4 DEF Final, AccountNonce
    <2>. QED
      BY <2>3, <2>4
  <1>3. CASE ~MineBlock /\ \A r \in Signer : ~Reorg(r)
    <2>1. chain' = chain /\ block' = block
      BY <1>3, QuietNode
    <2>. QED
      BY <2>1 DEF Final, AccountNonce
  <1>. QED
    BY <1>1, <1>2, <1>3

\* What removeConfirmedTransactions takes out of the store is final.
LEMMA RemovedIsFinal ==
  ASSUME TypeOK, ChainInv, RoundInv, round.pc = "confirm", NEW e \in round.todo,
         ShouldRecheck(e), MinedIn(e.tx) # 0, ~OnlyMined(e),
         NEW k \in Nat, k <= e.tx.nonce
  PROVE  Final(e.tx.from, k)
  <1>. USE TransactionManagerAssumption
  <1>. DEFINE s == e.tx.from
              n == e.tx.nonce
  <1>1. e.tx \in Tx /\ e.mined \in Nat
    BY DEF TypeOK, RoundOK, Stored
  <1>2. s \in Signer /\ n \in Nat
    BY <1>1, NonceFacts DEF Tx
  <1>. HIDE DEF s, n
  <1>3. n < AccountNonce(s) /\ MinedIn(e.tx) = chain[s][n + 1].block
    BY DEF MinedIn, s, n
  <1>4. n + 1 \in 1..Len(chain[s]) /\ k + 1 \in 1..(n + 1)
    BY <1>2, <1>3, ChainTypes DEF AccountNonce, n
  <1>5. chain[s][n + 1].block \in Nat
    BY <1>2, <1>4, ChainTypes
  <1>6. round.block \in Nat /\ block \in Nat /\ round.block <= block
    BY DEF TypeOK, RoundOK, RoundInv
  <1>7. round.block - chain[s][n + 1].block >= ConfirmationsNeeded
    BY <1>1, <1>3, <1>5, <1>6 DEF ShouldRecheck, OnlyMined
  <1>8. chain[s][k + 1].block <= chain[s][n + 1].block /\ k < AccountNonce(s)
    <2>1. \A i \in 1..Len(chain[s]) : \A j \in 1..i : chain[s][j].block <= chain[s][i].block
      BY <1>2 DEF ChainInv
    <2>2. k < AccountNonce(s)
      BY <1>2, <1>3, ChainTypes DEF n
    <2>. QED
      BY <1>4, <2>1, <2>2
  <1>9. chain[s][k + 1].block \in Nat
    BY <1>2, <1>4, <1>8, ChainTypes DEF AccountNonce
  <1>10. block - chain[s][k + 1].block >= ConfirmationsNeeded
    BY <1>5, <1>6, <1>7, <1>8, <1>9
  <1>. QED
    BY <1>8, <1>10 DEF Final, s
LEMMA StoreUpdate ==
  ASSUME TypeOK, NEW s0 \in Signer, NEW n0 \in Nonce, NEW x, NEW s \in Signer, NEW n \in Nonce
  PROVE  [store EXCEPT ![s0][n0] = x][s][n] = IF s = s0 /\ n = n0 THEN x ELSE store[s][n]
  BY DEF TypeOK

LEMMA RecordIsNotEmpty ==
  ASSUME NEW t, NEW l, NEW b
  PROVE  [tx |-> t, lastSent |-> l, mined |-> b] # Empty
  <1>1. DOMAIN Empty = {"tx"}
    BY DEF Empty
  <1>2. DOMAIN [tx |-> t, lastSent |-> l, mined |-> b] = {"tx", "lastSent", "mined"}
    OBVIOUS
  <1>. QED
    BY <1>1, <1>2

\* The three ways the store changes.
Inserted(c, s, n, x) ==
    /\ SignAndStore(c)
    /\ ~IsStored(s, n)
    /\ s = CallSigner[c]
    /\ n = MaxOf(nonces[s], calls[c].pending)
    /\ x # Empty /\ x.tx.from = s /\ x.tx.nonce = n /\ x.tx.call = c
    /\ x.tx.value = CallValue[c]
    /\ calls' = [calls EXCEPT ![c] = [pc |-> "stored", tx |-> x.tx]]
    /\ \A q \in Signer, k \in Nonce :
          store'[q][k] = IF q = s /\ k = n THEN x ELSE store[q][k]

Rewritten(e, x) ==
    /\ \/ round.pc = "confirm" /\ ConfirmOne(e)
       \/ round.pc = "resend" /\ ResendStore(e)
    /\ x # Empty
    /\ x.tx.from = e.tx.from /\ x.tx.nonce = e.tx.nonce /\ x.tx.call = e.tx.call
    /\ x.tx.value \in {0, e.tx.value}
    /\ \A q \in Signer, k \in Nonce :
          store'[q][k] = IF q = e.tx.from /\ k = e.tx.nonce THEN x ELSE store[q][k]

Removed(e) ==
    /\ round.pc = "confirm" /\ ConfirmOne(e)
    /\ \A k \in Nonce : k <= e.tx.nonce => Final(e.tx.from, k)
    /\ \A q \in Signer, k \in Nonce :
          store'[q][k] = IF q = e.tx.from /\ k <= e.tx.nonce THEN Empty ELSE store[q][k]

LEMMA SignAndStoreStep ==
  ASSUME TypeOK, NEW c \in Call, SignAndStore(c)
  PROVE  \/ /\ store' = store
            /\ IsStored(CallSigner[c], MaxOf(nonces[CallSigner[c]], calls[c].pending))
            /\ calls' = [calls EXCEPT ![c] = [pc |-> "failed"]]
         \/ \E s \in Signer, n \in Nonce : \E x : Inserted(c, s, n, x)
  <1>. DEFINE s == CallSigner[c]
              n == MaxOf(nonces[s], calls[c].pending)
              t == [from |-> s, nonce |-> n, gasPrice |-> CallGasPrice[c],
                    call |-> c, value |-> CallValue[c]]
              x == [tx |-> t, lastSent |-> calls[c].created, mined |-> 0]
  <1>1. s \in Signer /\ n \in Nonce
    BY TransactionManagerAssumption DEF SignAndStore
  <1>2. CASE IsStored(s, n)
    BY <1>2 DEF SignAndStore, InsertFails
  <1>3. CASE ~IsStored(s, n)
    <2>1. /\ calls' = [calls EXCEPT ![c] = [pc |-> "stored", tx |-> t]]
          /\ store' = [store EXCEPT ![s][n] = x]
      BY <1>3 DEF SignAndStore, InsertFails
    <2>2. x # Empty
      BY RecordIsNotEmpty
    <2>3. /\ x.tx = t /\ x.tx.from = s /\ x.tx.nonce = n /\ x.tx.call = c
          /\ x.tx.value = CallValue[c]
      OBVIOUS
    <2>. HIDE DEF s, n, t, x
    <2>4. \A q \in Signer, k \in Nonce :
            store'[q][k] = IF q = s /\ k = n THEN x ELSE store[q][k]
      BY <1>1, <2>1, StoreUpdate
    <2>5. Inserted(c, s, n, x)
      BY <1>3, <2>1, <2>2, <2>3, <2>4 DEF Inserted, s, n
    <2>. QED
      BY <1>1, <2>5
  <1>. QED
    BY <1>2, <1>3

LEMMA ConfirmOneStep ==
  ASSUME TypeOK, ChainInv, RoundInv, round.pc = "confirm", NEW e \in round.todo, ConfirmOne(e)
  PROVE  \/ store' = store
         \/ \E x : Rewritten(e, x)
         \/ Removed(e)
  <1>1. e \in Stored /\ e.tx.from \in Signer /\ e.tx.nonce \in Nonce
    BY DEF TypeOK, RoundOK, Stored, Tx
  <1>2. CASE ~ShouldRecheck(e) \/ MinedIn(e.tx) = 0
    BY <1>2 DEF ConfirmOne
  <1>3. CASE ShouldRecheck(e) /\ MinedIn(e.tx) # 0 /\ OnlyMined(e)
    <2>. DEFINE x == [e EXCEPT !.mined = MinedIn(e.tx)]
    <2>1. x \in Stored /\ x.tx = e.tx
      <3>1. MinedIn(e.tx) \in Nat
        BY <1>1, MinedInNat DEF Stored
      <3>. QED
        BY <1>1, <3>1 DEF Stored
    <2>2. store' = [store EXCEPT ![e.tx.from][e.tx.nonce] = x]
      BY <1>3 DEF ConfirmOne
    <2>. HIDE DEF x
    <2>3. \A q \in Signer, k \in Nonce :
            store'[q][k] = IF q = e.tx.from /\ k = e.tx.nonce THEN x ELSE store[q][k]
      BY <1>1, <2>2, StoreUpdate
    <2>4. x # Empty
      BY <2>1, EmptyIsNotStored
    <2>. QED
      BY <2>1, <2>3, <2>4 DEF Rewritten
  <1>4. CASE ShouldRecheck(e) /\ MinedIn(e.tx) # 0 /\ ~OnlyMined(e)
    <2>1. \A k \in Nonce : k <= e.tx.nonce => Final(e.tx.from, k)
      BY <1>4, RemovedIsFinal, NonceFacts
    <2>2. store' = RemoveTxsUntilNonce(e.tx.from, e.tx.nonce)
      BY <1>4 DEF ConfirmOne
    <2>3. \A q \in Signer, k \in Nonce :
            store'[q][k] = IF q = e.tx.from /\ k <= e.tx.nonce THEN Empty ELSE store[q][k]
      BY <1>1, <2>2 DEF RemoveTxsUntilNonce, TypeOK
    <2>. QED
      BY <2>1, <2>3 DEF Removed
  <1>. QED
    BY <1>2, <1>3, <1>4

LEMMA ResendStoreStep ==
  ASSUME TypeOK, round.pc = "resend", NEW e \in round.todo, ResendStore(e)
  PROVE  \E x : Rewritten(e, x) /\ round'.tx = x.tx
  <1>. DEFINE t == Resent(e.tx, round.price)
              x == [tx |-> t, lastSent |-> round.block, mined |-> e.mined]
  <1>1. e.tx \in Tx /\ round.price \in Nat
    BY DEF TypeOK, RoundOK, Stored
  <1>2. t.from = e.tx.from /\ t.nonce = e.tx.nonce /\ t.call = e.tx.call /\ t.value = 0
    BY <1>1, ResentIsTx
  <1>3. e.tx.from \in Signer /\ e.tx.nonce \in Nonce
    BY <1>1 DEF Tx
  <1>4. store' = [store EXCEPT ![e.tx.from][e.tx.nonce] = x] /\ round'.tx = t
    BY <1>2 DEF ResendStore
  <1>5. x # Empty /\ x.tx = t
    BY RecordIsNotEmpty
  <1>. HIDE DEF t, x
  <1>6. \A q \in Signer, k \in Nonce :
            store'[q][k] = IF q = e.tx.from /\ k = e.tx.nonce THEN x ELSE store[q][k]
    <2>1. ASSUME NEW s \in Signer, NEW n \in Nonce, store' = [store EXCEPT ![s][n] = x]
          PROVE  \A q \in Signer, k \in Nonce :
                    store'[q][k] = IF q = s /\ k = n THEN x ELSE store[q][k]
      BY <2>1, StoreUpdate
    <2>. QED
      BY <1>3, <1>4, <2>1
  <1>. QED
    BY <1>2, <1>4, <1>5, <1>6 DEF Rewritten

LEMMA StoreStep ==
  ASSUME TypeOK, ChainInv, RoundInv, [Next]_vars
  PROVE  \/ store' = store
         \/ \E c \in Call, s \in Signer, n \in Nonce : \E x : Inserted(c, s, n, x)
         \/ \E e \in round.todo : \E x : Rewritten(e, x)
         \/ \E e \in round.todo : Removed(e)
  BY QuietStore, SignAndStoreStep, ConfirmOneStep, ResendStoreStep

LEMMA StoreKeeps ==
  ASSUME TypeOK, ChainInv, RoundInv, [Next]_vars,
         NEW s \in Signer, NEW n \in Nonce, IsStored(s, n)
  PROVE  \/ Final(s, n)'
         \/ IsStored(s, n)' /\ store'[s][n].tx.call = store[s][n].tx.call
  <1>0. Final(s, n) => Final(s, n)'
    BY FinalStable, NonceFacts
  <1>1. CASE store' = store
    BY <1>1 DEF IsStored
  <1>2. ASSUME NEW c \in Call, NEW q \in Signer, NEW k \in Nonce, NEW x, Inserted(c, q, k, x)
        PROVE  IsStored(s, n)' /\ store'[s][n].tx.call = store[s][n].tx.call
    <2>1. store'[s][n] = store[s][n]
      BY <1>2 DEF Inserted, IsStored
    <2>. QED
      BY <2>1 DEF IsStored
  <1>3. ASSUME NEW e \in round.todo, NEW x, Rewritten(e, x)
        PROVE  \/ Final(s, n)
               \/ IsStored(s, n)' /\ store'[s][n].tx.call = store[s][n].tx.call
    <2>1. CASE s = e.tx.from /\ n = e.tx.nonce
      <3>1. store'[s][n] = x /\ x # Empty /\ x.tx.call = e.tx.call
        BY <1>3, <2>1 DEF Rewritten
      <3>2. Final(s, n) \/ store[s][n] = e
        BY <1>3, <2>1 DEF RoundInv, Rewritten
      <3>. QED
        BY <3>1, <3>2 DEF IsStored
    <2>2. CASE ~(s = e.tx.from /\ n = e.tx.nonce)
      <3>1. store'[s][n] = store[s][n]
        BY <1>3, <2>2 DEF Rewritten
      <3>. QED
        BY <3>1 DEF IsStored
    <2>. QED
      BY <2>1, <2>2
  <1>4. ASSUME NEW e \in round.todo, Removed(e)
        PROVE  \/ Final(s, n)
               \/ IsStored(s, n)' /\ store'[s][n].tx.call = store[s][n].tx.call
    BY <1>4 DEF Removed, IsStored
  <1>. QED
    BY <1>0, <1>1, <1>2, <1>3, <1>4, StoreStep

LEMMA HeldStable ==
  ASSUME TypeOK, ChainInv, RoundInv, [Next]_vars, NEW s \in Signer, NEW n \in Nonce
  PROVE  /\ Covered(s, n) => Covered(s, n)'
         /\ \A c : Held(s, n, c) => Held(s, n, c)'
  <1>1. Final(s, n) => Final(s, n)'
    BY FinalStable, NonceFacts
  <1>. QED
    BY <1>1, StoreKeeps DEF Covered, Held
-----------------------------------------------------------------------------
(* The parts of the invariant, one by one *)

LEMMA StoreInvStep ==
  ASSUME TypeOK, ChainInv, RoundInv, StoreInv, [Next]_vars
  PROVE  StoreInv'
  <1>. SUFFICES ASSUME NEW s \in Signer, NEW n \in Nonce, store'[s][n] # Empty
                PROVE  store'[s][n].tx.from = s /\ store'[s][n].tx.nonce = n
    BY DEF StoreInv, IsStored
  <1>1. CASE store'[s][n] = store[s][n]
    BY <1>1 DEF StoreInv, IsStored
  <1>2. ASSUME NEW c \in Call, NEW q \in Signer, NEW k \in Nonce, NEW x, Inserted(c, q, k, x),
               store'[s][n] # store[s][n]
        PROVE  store'[s][n].tx.from = s /\ store'[s][n].tx.nonce = n
    BY <1>2 DEF Inserted
  <1>3. ASSUME NEW e \in round.todo, NEW x, Rewritten(e, x), store'[s][n] # store[s][n]
        PROVE  store'[s][n].tx.from = s /\ store'[s][n].tx.nonce = n
    BY <1>3 DEF Rewritten
  <1>4. ASSUME NEW e \in round.todo, Removed(e)
        PROVE  store'[s][n] = store[s][n]
    BY <1>4 DEF Removed
  <1>. QED
    BY <1>1, <1>2, <1>3, <1>4, StoreStep

\* A transaction that gets into the network is held by its call, and new to
\* the chain.
LEMMA NewlySent ==
  ASSUME TypeOK, CallInv, RoundInv, [Next]_vars
  PROVE  /\ sent \subseteq sent'
         /\ \A t \in sent' \ sent :
               t \in Tx /\ Held(t.from, t.nonce, t.call) /\ Accepts(t)
  <1>1. ASSUME NEW c \in Call, Broadcast(c)
        PROVE  /\ sent \subseteq sent'
               /\ \A t \in sent' \ sent :
                     t \in Tx /\ Held(t.from, t.nonce, t.call) /\ Accepts(t)
    <2>1. calls[c].tx \in Tx
      BY <1>1, CallStates DEF Broadcast, TypeOK
    <2>. QED
      BY <1>1, <2>1 DEF Broadcast, CallInv
  <1>2. ASSUME NEW c \in Call, CallStep(c), ~Broadcast(c)
        PROVE  sent' = sent
    BY <1>2 DEF CallStep, AcquireAndPoll, SignAndStore, BroadcastFails, nodeVars
  <1>3. ASSUME ResendBroadcast \/ ResendFails
        PROVE  /\ sent \subseteq sent'
               /\ \A t \in sent' \ sent :
                     t \in Tx /\ Held(t.from, t.nonce, t.call) /\ Accepts(t)
    <2>1. round.tx \in Tx /\ Held(round.tx.from, round.tx.nonce, round.tx.call)
      BY <1>3 DEF ResendBroadcast, ResendFails, TypeOK, RoundOK, RoundInv
    <2>2. sent' = sent \/ (sent' = sent \cup {round.tx} /\ Accepts(round.tx))
      BY <1>3 DEF ResendBroadcast, ResendFails
    <2>. QED
      BY <2>1, <2>2
  <1>4. ASSUME WorkerStep, ~ResendBroadcast, ~ResendFails
        PROVE  sent' = sent
    BY <1>4 DEF WorkerStep, StartRound, LoadStored, RoundFails, ConfirmOne,
                ConfirmDone, BoostSigner, ResendStore,
                SignerDone, EndRound, nodeVars
  <1>5. ASSUME NEW s \in Signer, PollNonce(s) \/ Reorg(s)
        PROVE  sent' = sent
    BY <1>5 DEF PollNonce, Reorg, nodeVars
  <1>6. ASSUME Crash \/ MineBlock \/ UNCHANGED vars
        PROVE  sent' = sent
    BY <1>6 DEF Crash, MineBlock, vars, nodeVars
  <1>7. ASSUME NEW t \in pool, Drop(t)
        PROVE  sent' = sent
    BY <1>7 DEF Drop
  <1>. QED
    BY <1>1, <1>2, <1>3, <1>4, <1>5, <1>6, <1>7 DEF Next

LEMMA ChainInvStep ==
  ASSUME TypeOK, CallInv, RoundInv, ChainInv, [Next]_vars
  PROVE  ChainInv'
  <1>. DEFINE Entry(s, i) ==
                /\ chain[s][i].tx \in sent
                /\ chain[s][i].tx.from = s
                /\ chain[s][i].tx.nonce = i - 1
                /\ chain[s][i].block <= block
                /\ \A j \in 1..i : chain[s][j].block <= chain[s][i].block
  <1>0. sent \subseteq sent'
    BY NewlySent
  <1>1. ASSUME NEW s \in Signer, chain'[s] = chain[s], block' \in Nat, block <= block',
               NEW i \in 1..Len(chain'[s])
        PROVE  Entry(s, i)'
    <2>1. Entry(s, i) /\ chain[s][i].block \in Nat /\ block \in Nat
      BY <1>1, ChainTypes DEF ChainInv, TypeOK
    <2>. QED
      BY <1>0, <1>1, <2>1
  <1>2. CASE MineBlock
    <2>. SUFFICES ASSUME NEW s \in Signer, NEW i \in 1..Len(chain'[s])
                  PROVE  Entry(s, i)'
      BY DEF ChainInv
    <2>1. block \in Nat /\ block' = block + 1 /\ sent' = sent
      BY <1>2 DEF MineBlock, TypeOK
    <2>2. CASE chain'[s] = chain[s]
      BY <1>1, <2>1, <2>2
    <2>3. ASSUME NEW t \in pool, t.from = s, t.nonce = AccountNonce(s),
                 chain'[s] = Append(chain[s], [tx |-> t, block |-> block + 1])
          PROVE  Entry(s, i)'
      <3>. DEFINE x == [tx |-> t, block |-> block + 1]
      <3>1. x \in MinedTx /\ x.tx = t /\ x.block = block + 1 /\ t \in sent
        BY <2>1 DEF TypeOK, MinedTx
      <3>2. chain[s] \in Seq(MinedTx) /\ Len(chain[s]) \in Nat
        BY ChainTypes
      <3>. HIDE DEF x
      <3>3. /\ Len(chain'[s]) = Len(chain[s]) + 1
            /\ \A j \in 1..Len(chain[s]) : chain'[s][j] = chain[s][j]
            /\ chain'[s][Len(chain[s]) + 1] = x
        BY <2>3, <3>1, <3>2, OneMore DEF x
      <3>4. \A j \in 1..Len(chain[s]) : Entry(s, j) /\ chain[s][j].block \in Nat
        BY ChainTypes DEF ChainInv
      <3>5. CASE i \in 1..Len(chain[s])
        <4>1. \A j \in 1..i : j \in 1..Len(chain[s])
          BY <3>2, <3>5
        <4>2. /\ chain[s][i].tx \in sent /\ chain[s][i].tx.from = s
              /\ chain[s][i].tx.nonce = i - 1 /\ chain[s][i].block <= block + 1
              /\ \A j \in 1..i : chain[s][j].block <= chain[s][i].block
          BY <2>1, <3>4, <3>5
        <4>. QED
          BY <2>1, <3>3, <3>5, <4>1, <4>2
      <3>6. CASE i = Len(chain[s]) + 1
        <4>1. chain'[s][i] = x
          BY <3>3, <3>6
        <4>2. \A j \in 1..i : chain'[s][j].block <= block + 1
          <5>. SUFFICES ASSUME NEW j \in 1..i PROVE chain'[s][j].block <= block + 1
            OBVIOUS
          <5>1. CASE j = i
            BY <2>1, <3>1, <4>1, <5>1
          <5>2. CASE j # i
            <6>1. j \in 1..Len(chain[s])
              BY <3>2, <3>6, <5>2
            <6>2. chain[s][j].block <= block /\ chain[s][j].block \in Nat
              BY <3>4, <6>1
            <6>. QED
              BY <2>1, <3>3, <6>1, <6>2
          <5>. QED
            BY <5>1, <5>2
        <4>3. t.nonce = i - 1
          BY <2>3, <3>2, <3>6 DEF AccountNonce
        <4>. QED
          BY <2>1, <2>3, <3>1, <4>1, <4>2, <4>3
      <3>. QED
        BY <3>2, <3>3, <3>5, <3>6
    <2>. QED
      BY <1>2, <2>2, <2>3, MinedBlock
  <1>3. ASSUME NEW r \in Signer, Reorg(r)
        PROVE  ChainInv'
    <2>. SUFFICES ASSUME NEW s \in Signer, NEW i \in 1..Len(chain'[s])
                  PROVE  Entry(s, i)'
      BY DEF ChainInv
    <2>1. block' = block /\ block \in Nat
      BY <1>3 DEF Reorg, TypeOK
    <2>2. PICK k \in 0..AccountNonce(r)-1 :
            /\ chain' = [chain EXCEPT ![r] = SubSeq(@, 1, k)]
            /\ Len(chain'[r]) = k
            /\ \A j \in 1..k : chain'[r][j] = chain[r][j]
      BY <1>3, CutChain
    <2>3. CASE s # r
      <3>1. chain'[s] = chain[s]
        BY <2>2, <2>3 DEF TypeOK
      <3>. QED
        BY <1>1, <2>1, <3>1
    <2>4. CASE s = r
      <3>1. i \in 1..k /\ i \in 1..Len(chain[s]) /\ \A j \in 1..i : j \in 1..k
        BY <2>2, <2>4, ChainTypes DEF AccountNonce
      <3>2. Entry(s, i)
        BY <3>1 DEF ChainInv
      <3>. QED
        BY <1>0, <2>1, <2>2, <2>4, <3>1, <3>2
    <2>. QED
      BY <2>3, <2>4
  <1>4. CASE ~MineBlock /\ \A r \in Signer : ~Reorg(r)
    <2>1. chain' = chain /\ block' = block /\ block \in Nat
      BY <1>4, QuietNode DEF TypeOK
    <2>. QED
      BY <1>1, <2>1 DEF ChainInv
  <1>. QED
    BY <1>2, <1>3, <1>4

LEMMA SentInvStep ==
  ASSUME IInv, [Next]_vars
  PROVE  SentInv' /\ SameNonceSameCall'
  <1>. USE DEF IInv
  <1>1. \A t \in sent' :
          /\ t.from \in Signer /\ t.nonce \in Nonce
          /\ Held(t.from, t.nonce, t.call)
          /\ t \in sent \/ Accepts(t)
    <2>. SUFFICES ASSUME NEW t \in sent'
                  PROVE  /\ t \in Tx
                         /\ Held(t.from, t.nonce, t.call)
                         /\ t \in sent \/ Accepts(t)
      BY DEF Tx
    <2>1. CASE t \in sent
      BY <2>1 DEF SentInv, TypeOK
    <2>2. CASE t \notin sent
      BY <2>2, NewlySent
    <2>. QED
      BY <2>1, <2>2
  <1>2. SentInv'
    <2>1. ASSUME NEW t \in sent' PROVE Held(t.from, t.nonce, t.call)'
      <3>1. t.from \in Signer /\ t.nonce \in Nonce /\ Held(t.from, t.nonce, t.call)
        BY <1>1
      <3>. QED
        BY <3>1, HeldStable
    <2>. QED
      BY <2>1 DEF SentInv
  <1>3. ASSUME NEW t \in sent', NEW u \in sent', t.from = u.from, t.nonce = u.nonce
        PROVE  t.call = u.call
    <2>1. CASE t \in sent /\ u \in sent
      BY <1>3, <2>1 DEF SameNonceSameCall
    <2>2. CASE Accepts(t) \/ Accepts(u)
      <3>1. t.nonce >= AccountNonce(t.from)
        BY <1>3, <2>2 DEF Accepts
      <3>2. AccountNonce(t.from) \in Nat /\ t.nonce \in Nat
        BY <1>1, ChainTypes, NonceFacts
      <3>3. ~Final(t.from, t.nonce)
        BY <3>1, <3>2 DEF Final
      <3>. QED
        BY <1>1, <1>3, <3>3 DEF Held
    <2>. QED
      BY <1>1, <2>1, <2>2
  <1>. QED
    BY <1>2, <1>3 DEF SameNonceSameCall
\* The nonce that the node takes for the next one leaves no gap behind.
LEMMA PendingCovered ==
  ASSUME IInv, NEW s \in Signer, NEW n \in Nat, IsPendingNonce(s, n), NEW k \in Nat, k < n
  PROVE  k \in Nonce /\ Covered(s, k)
  <1>. USE DEF IInv
  <1>1. k \in Nat /\ n \in Nat /\ AccountNonce(s) \in Nat
    BY NonceFacts, ChainTypes
  <1>2. \E t \in sent : t.from = s /\ t.nonce = k
    <2>1. CASE k < AccountNonce(s)
      <3>1. k + 1 \in 1..Len(chain[s])
        BY <1>1, <2>1 DEF AccountNonce
      <3>2. chain[s][k + 1].tx \in sent /\ chain[s][k + 1].tx.from = s
            /\ chain[s][k + 1].tx.nonce = (k + 1) - 1
        BY <3>1 DEF ChainInv
      <3>. QED
        BY <1>1, <3>2
    <2>2. CASE k >= AccountNonce(s)
      <3>1. k \in AccountNonce(s)..n-1
        BY <1>1, <2>2
      <3>. QED
        BY <3>1 DEF IsPendingNonce, InPool, TypeOK
    <2>. QED
      BY <1>1, <2>1, <2>2
  <1>. QED
    BY <1>2 DEF SentInv, Held, Covered, TypeOK, Tx

LEMMA NonceInvStep ==
  ASSUME IInv, [Next]_vars
  PROVE  NonceInv'
  <1>. USE NonceFacts DEF IInv
  <1>. DEFINE N == Cardinality(Call)
              Good(s) == /\ nonces[s] <= N + 1
                         /\ \A n \in Nonce : n < nonces[s] => Covered(s, n)
  <1>0. nonces \in [Signer -> Nat]
    BY DEF TypeOK
  <1>1. ASSUME NEW s \in Signer, nonces'[s] = nonces[s]
        PROVE  Good(s)'
    <2>1. \A n \in Nonce : Covered(s, n) => Covered(s, n)'
      BY HeldStable
    <2>. QED
      BY <1>1, <2>1 DEF NonceInv
  <1>2. ASSUME NEW c \in Call, SignAndStore(c)
        PROVE  NonceInv'
    <2>0. PICK s \in Signer, n \in Nonce :
             s = CallSigner[c] /\ n = MaxOf(nonces[s], calls[c].pending)
      BY <1>2, TransactionManagerAssumption DEF SignAndStore
    <2>1. nonces' = [nonces EXCEPT ![s] = n + 1]
      BY <1>2, <2>0 DEF SignAndStore
    <2>2. \A k \in Nonce : k < n => Covered(s, k)
      <3>1. calls[c].pending \in Nat
        BY <1>2, CallStates DEF SignAndStore, TypeOK
      <3>2. \A k \in Nonce : k < calls[c].pending => Covered(s, k)
        BY <1>2, <2>0 DEF SignAndStore, CallInv
      <3>3. \A k \in Nonce : k < nonces[s] => Covered(s, k)
        BY DEF NonceInv
      <3>. QED
        BY <1>0, <2>0, <3>1, <3>2, <3>3 DEF MaxOf
    <2>3. Covered(s, n)'
      <3>1. CASE IsStored(s, n)
        BY <3>1, HeldStable DEF Covered
      <3>2. ASSUME NEW q \in Signer, NEW k \in Nonce, NEW x, Inserted(c, q, k, x)
            PROVE  IsStored(s, n)'
        <4>1. q = s /\ k = n
          BY <2>0, <3>2 DEF Inserted
        <4>. QED
          BY <3>2, <4>1 DEF Inserted, IsStored
      <3>. QED
        BY <1>2, <2>0, <3>1, <3>2, SignAndStoreStep DEF Covered
    <2>4. \A k \in Nonce : k < n + 1 => Covered(s, k)'
      <3>1. \A k \in Nonce : k < n => Covered(s, k)'
        BY <2>2, HeldStable
      <3>. QED
        BY <2>3, <3>1
    <2>5. Good(s)'
      <3>1. nonces'[s] = n + 1
        BY <1>0, <2>1
      <3>2. n + 1 <= N + 1
        BY DEF Nonce
      <3>. QED
        BY <2>4, <3>1, <3>2
    <2>6. \A q \in Signer : q # s => nonces'[q] = nonces[q]
      BY <1>0, <2>1
    <2>. QED
      BY <1>1, <2>5, <2>6 DEF NonceInv
  <1>3. ASSUME NEW s \in Signer, PollNonce(s)
        PROVE  NonceInv'
    <2>1. PICK n \in Nonce : IsPendingNonce(s, n) /\ nonces' = [nonces EXCEPT ![s] = MaxOf(@, n)]
      BY <1>3 DEF PollNonce
    <2>2. \A k \in Nonce : k < n => Covered(s, k)'
      BY <2>1, PendingCovered, HeldStable
    <2>3. \A k \in Nonce : k < nonces[s] => Covered(s, k)'
      BY HeldStable DEF NonceInv
    <2>4. nonces'[s] \in {nonces[s], n}
      BY <1>0, <2>1 DEF MaxOf
    <2>5. nonces[s] <= N + 1 /\ n <= N + 1
      BY DEF NonceInv, Nonce
    <2>6. Good(s)'
      BY <2>2, <2>3, <2>4, <2>5
    <2>7. \A q \in Signer : q # s => nonces'[q] = nonces[q]
      BY <1>0, <2>1
    <2>. QED
      BY <1>1, <2>6, <2>7 DEF NonceInv
  <1>4. CASE Crash
    BY <1>4 DEF Crash, NonceInv
  <1>5. CASE nonces' = nonces
    BY <1>1, <1>5 DEF NonceInv
  <1>6. ASSUME \A c \in Call : ~SignAndStore(c), \A s \in Signer : ~PollNonce(s), ~Crash
        PROVE  nonces' = nonces
    <2>1. ASSUME NEW c \in Call, CallStep(c)
          PROVE  nonces' = nonces
      BY <1>6, <2>1 DEF CallStep, AcquireAndPoll, Broadcast, BroadcastFails
    <2>2. CASE WorkerStep
      BY <2>2 DEF WorkerStep, StartRound, LoadStored, RoundFails, ConfirmOne,
                ConfirmDone, BoostSigner, ResendStore,
                  ResendBroadcast, ResendFails, SignerDone, EndRound
    <2>3. ASSUME NEW s \in Signer, Reorg(s)
          PROVE  nonces' = nonces
      BY <2>3 DEF Reorg, serverVars
    <2>4. ASSUME NEW t \in pool, Drop(t)
          PROVE  nonces' = nonces
      BY <2>4 DEF Drop, serverVars
    <2>5. CASE MineBlock \/ UNCHANGED vars
      BY <2>5 DEF MineBlock, vars, serverVars
    <2>. QED
      BY <1>6, <2>1, <2>2, <2>3, <2>4, <2>5 DEF Next
  <1>. QED
    BY <1>2, <1>3, <1>4, <1>5, <1>6

LEMMA OtherwiseNoCall ==
  ASSUME [Next]_vars, \A c \in Call : ~CallStep(c), ~Crash
  PROVE  calls' = calls
  <1>1. ASSUME NEW s \in Signer, PollNonce(s) \/ Reorg(s)
        PROVE  calls' = calls
    BY <1>1 DEF PollNonce, Reorg, serverVars
  <1>2. CASE WorkerStep
    BY <1>2 DEF WorkerStep, StartRound, LoadStored, RoundFails, ConfirmOne,
              ConfirmDone, BoostSigner, ResendStore,
                ResendBroadcast, ResendFails, SignerDone, EndRound
  <1>3. ASSUME NEW t \in pool, Drop(t)
        PROVE  calls' = calls
    BY <1>3 DEF Drop, serverVars
  <1>4. CASE MineBlock \/ UNCHANGED vars
    BY <1>4 DEF MineBlock, vars, serverVars
  <1>. QED
    BY <1>1, <1>2, <1>3, <1>4 DEF Next

LEMMA CallInvStep ==
  ASSUME IInv, [Next]_vars
  PROVE  CallInv'
  <1>. USE NonceFacts DEF IInv
  <1>. DEFINE Good(c) ==
                /\ calls[c].pc = "polled" =>
                      \A n \in Nonce : n < calls[c].pending => Covered(CallSigner[c], n)
                /\ calls[c].pc = "stored" =>
                      Held(calls[c].tx.from, calls[c].tx.nonce, calls[c].tx.call)
  <1>0. calls \in [Call -> CallState] /\ CallSigner \in [Call -> Signer]
    BY TransactionManagerAssumption DEF TypeOK
  <1>1. ASSUME NEW c \in Call, calls'[c] = calls[c]
        PROVE  Good(c)'
    <2>1. CASE calls[c].pc = "polled"
      <3>1. \A n \in Nonce : n < calls[c].pending => Covered(CallSigner[c], n)'
        BY <1>0, <2>1, HeldStable DEF CallInv
      <3>. QED
        BY <1>1, <2>1, <3>1
    <2>2. CASE calls[c].pc = "stored"
      <3>1. calls[c].tx.from \in Signer /\ calls[c].tx.nonce \in Nonce
        BY <1>0, <2>2, CallStates DEF Tx
      <3>2. Held(calls[c].tx.from, calls[c].tx.nonce, calls[c].tx.call)'
        BY <1>1, <2>2, <3>1, HeldStable DEF CallInv
      <3>. QED
        BY <1>1, <2>2, <3>2
    <2>. QED
      BY <1>1, <2>1, <2>2
  <1>2. ASSUME NEW c \in Call, AcquireAndPoll(c)
        PROVE  CallInv'
    <2>1. PICK n \in Nonce, b \in 1..block :
            /\ IsPendingNonce(CallSigner[c], n)
            /\ calls' = [calls EXCEPT ![c] = [pc |-> "polled", created |-> b, pending |-> n]]
      BY <1>2 DEF AcquireAndPoll
    <2>2. \A k \in Nonce : k < n => Covered(CallSigner[c], k)'
      BY <1>0, <2>1, PendingCovered, HeldStable
    <2>3. calls'[c].pc = "polled" /\ calls'[c].pending = n
      BY <1>0, <2>1
    <2>4. \A d \in Call : d # c => calls'[d] = calls[d]
      BY <1>0, <2>1
    <2>. QED
      BY <1>1, <2>2, <2>3, <2>4 DEF CallInv
  <1>3. ASSUME NEW c \in Call, SignAndStore(c)
        PROVE  CallInv'
    <2>1. CASE calls' = [calls EXCEPT ![c] = [pc |-> "failed"]]
      <3>1. calls'[c].pc = "failed" /\ \A d \in Call : d # c => calls'[d] = calls[d]
        BY <1>0, <2>1
      <3>. QED
        BY <1>1, <3>1 DEF CallInv
    <2>2. ASSUME NEW s \in Signer, NEW n \in Nonce, NEW x, Inserted(c, s, n, x)
          PROVE  CallInv'
      <3>1. /\ calls'[c].pc = "stored" /\ calls'[c].tx = x.tx
            /\ \A d \in Call : d # c => calls'[d] = calls[d]
        BY <1>0, <2>2 DEF Inserted
      <3>2. Held(s, n, c)'
        BY <2>2 DEF Inserted, Held, IsStored
      <3>3. x.tx.from = s /\ x.tx.nonce = n /\ x.tx.call = c
        BY <2>2 DEF Inserted
      <3>4. Good(c)'
        BY <3>1, <3>2, <3>3
      <3>. QED
        BY <1>1, <3>1, <3>4 DEF CallInv
    <2>. QED
      BY <1>3, <2>1, <2>2, SignAndStoreStep
  <1>4. ASSUME NEW c \in Call, Broadcast(c) \/ BroadcastFails(c)
        PROVE  CallInv'
    <2>1. calls'[c].pc \in {"done", "failed"} /\ \A d \in Call : d # c => calls'[d] = calls[d]
      BY <1>0, <1>4 DEF Broadcast, BroadcastFails
    <2>. QED
      BY <1>1, <2>1 DEF CallInv
  <1>5. CASE Crash
    <2>1. \A c \in Call : calls'[c].pc \in {"new", "failed"}
      BY <1>5 DEF Crash
    <2>. QED
      BY <2>1 DEF CallInv
  <1>6. CASE calls' = calls
    BY <1>1, <1>6 DEF CallInv
  <1>7. ASSUME \A c \in Call : ~CallStep(c), ~Crash
        PROVE  calls' = calls
    BY <1>7, OtherwiseNoCall
  <1>. QED
    BY <1>2, <1>3, <1>4, <1>5, <1>6, <1>7 DEF CallStep
\* Entry e of a snapshot is up to date.
Fresh(e) == Final(e.tx.from, e.tx.nonce) \/ store[e.tx.from][e.tx.nonce] = e

LEMMA FreshStays ==
  ASSUME TypeOK, ChainInv, RoundInv, [Next]_vars, NEW e \in Stored, Fresh(e),
         store' = store \/ \E c \in Call, s \in Signer, n \in Nonce : \E x : Inserted(c, s, n, x)
  PROVE  Fresh(e)'
  <1>1. e.tx.from \in Signer /\ e.tx.nonce \in Nonce
    BY DEF Stored, Tx
  <1>2. CASE Final(e.tx.from, e.tx.nonce)
    BY <1>1, <1>2, FinalStable, NonceFacts DEF Fresh
  <1>3. CASE store[e.tx.from][e.tx.nonce] = e
    <2>1. IsStored(e.tx.from, e.tx.nonce)
      BY <1>3, EmptyIsNotStored DEF IsStored
    <2>2. store'[e.tx.from][e.tx.nonce] = store[e.tx.from][e.tx.nonce]
      BY <1>1, <2>1 DEF Inserted
    <2>. QED
      BY <1>3, <2>2 DEF Fresh
  <1>. QED
    BY <1>2, <1>3 DEF Fresh

LEMMA OthersStayFresh ==
  ASSUME TypeOK, ChainInv, RoundInv, [Next]_vars,
         NEW e \in Stored, NEW f \in Stored, e # f, Fresh(e), Fresh(f),
         \/ store' = store
         \/ \E x : Rewritten(e, x)
         \/ Removed(e)
  PROVE  Fresh(f)'
  <1>1. f.tx.from \in Signer /\ f.tx.nonce \in Nonce
    BY DEF Stored, Tx
  <1>2. CASE Final(f.tx.from, f.tx.nonce)
    BY <1>1, <1>2, FinalStable, NonceFacts DEF Fresh
  <1>3. CASE store[f.tx.from][f.tx.nonce] = f /\ ~Final(f.tx.from, f.tx.nonce)
    <2>1. ~(f.tx.from = e.tx.from /\ f.tx.nonce = e.tx.nonce)
      BY <1>3 DEF Fresh
    <2>2. store'[f.tx.from][f.tx.nonce] = store[f.tx.from][f.tx.nonce]
      BY <1>1, <1>3, <2>1 DEF Rewritten, Removed
    <2>. QED
      BY <1>3, <2>2 DEF Fresh
  <1>. QED
    BY <1>2, <1>3 DEF Fresh

LEMMA RoundInvStep ==
  ASSUME IInv, [Next]_vars
  PROVE  RoundInv'
  <1>. USE DEF IInv
  <1>0. /\ block \in Nat /\ block' \in Nat
        /\ round.pc # "idle" => round.block \in Nat
    BY NextTypeOK DEF TypeOK, RoundOK
  <1>a. ASSUME NEW s \in Signer, NEW n \in StoredNonces(s)
        PROVE  Fresh(store[s][n])
    BY <1>a DEF Fresh, StoreInv, StoredNonces
  <1>b. round.pc \in {"confirm", "resend", "broadcast"} =>
          round.todo \subseteq Stored /\ \A e \in round.todo : Fresh(e)
    BY DEF TypeOK, RoundOK, RoundInv, Fresh
  <1>c. ASSUME round.pc = "broadcast", NEW t, t = round.tx
        PROVE  Held(t.from, t.nonce, t.call)'
    <2>1. t.from \in Signer /\ t.nonce \in Nonce /\ Held(t.from, t.nonce, t.call)
      BY <1>c DEF TypeOK, RoundOK, RoundInv, Tx
    <2>. QED
      BY <2>1, HeldStable
  <1>1. ASSUME round' = round, block <= block',
               store' = store \/ \E c \in Call, s \in Signer, n \in Nonce : \E x : Inserted(c, s, n, x)
        PROVE  RoundInv'
    <2>1. round.pc # "idle" => round.block <= block'
      BY <1>0, <1>1 DEF RoundInv
    <2>2. round.pc \in {"confirm", "resend", "broadcast"} => \A e \in round.todo : Fresh(e)'
      BY <1>1, <1>b, FreshStays
    <2>. QED
      BY <1>1, <1>c, <2>1, <2>2 DEF RoundInv, Fresh
  <1>2. ASSUME NEW c \in Call, CallStep(c)
        PROVE  RoundInv'
    <2>1. round' = round /\ block' = block
      BY <1>2 DEF CallStep, AcquireAndPoll, SignAndStore, Broadcast, BroadcastFails, nodeVars
    <2>2. CASE SignAndStore(c)
      BY <1>0, <1>1, <2>1, <2>2, SignAndStoreStep
    <2>3. CASE ~SignAndStore(c)
      <3>1. store' = store
        BY <1>2, <2>3 DEF CallStep, AcquireAndPoll, Broadcast, BroadcastFails
      <3>. QED
        BY <1>0, <1>1, <2>1, <3>1
    <2>. QED
      BY <2>2, <2>3
  <1>s. CASE StartRound
    BY <1>0, <1>s DEF StartRound, RoundInv, nodeVars
  <1>f. CASE RoundFails
    BY <1>f DEF RoundFails, Idle, RoundInv, nodeVars
  <1>3. CASE LoadStored
    <2>1. /\ round.block <= block
          /\ round' = [pc |-> "confirm", block |-> round.block,
                       todo |-> UNION {{store[s][n] : n \in StoredNonces(s)} : s \in Signer}]
          /\ UNCHANGED <<store, block, chain>>
      BY <1>3 DEF LoadStored, nodeVars, RoundInv
    <2>2. \A e \in round'.todo : Fresh(e)
      BY <1>a, <2>1
    <2>3. \A e \in round'.todo : Fresh(e)'
      BY <2>1, <2>2 DEF Fresh, Final, AccountNonce
    <2>. QED
      BY <1>0, <2>1, <2>3 DEF RoundInv, Fresh
  <1>4. ASSUME round.pc = "confirm", NEW e \in round.todo, ConfirmOne(e)
        PROVE  RoundInv'
    <2>1. round' = [pc |-> "confirm", block |-> round.block, todo |-> round.todo \ {e}]
          /\ block' = block
      BY <1>4 DEF ConfirmOne, nodeVars
    <2>2. \A f \in round.todo \ {e} : Fresh(f)'
      BY <1>4, <1>b, OthersStayFresh, ConfirmOneStep
    <2>. QED
      BY <1>4, <2>1, <2>2 DEF RoundInv, Fresh
  <1>5. ASSUME ConfirmDone \/ SignerDone \/ EndRound \/ ResendFails \/ Crash
        PROVE  RoundInv'
    BY <1>5 DEF ConfirmDone, SignerDone, EndRound, ResendFails, Crash, Idle, RoundInv, nodeVars
  <1>6. CASE BoostSigner
    <2>. DEFINE s == Head(round.signers)
    <2>1. round.pc = "boost" /\ UNCHANGED <<store, block, chain>> /\ round.block <= block
      BY <1>6 DEF BoostSigner, nodeVars, RoundInv
    <2>2. s \in Signer
      BY <1>6 DEF BoostSigner, TypeOK, RoundOK
    <2>3. ASSUME NEW price PROVE \A e \in Underpriced(s, price) : Fresh(e)
      BY <1>a, <2>2 DEF Underpriced
    <2>4. ASSUME NEW price,
                 round' = [pc |-> "resend", block |-> round.block,
                           signers |-> Tail(round.signers),
                           todo |-> Underpriced(s, price), price |-> price]
          PROVE  RoundInv'
      <3>1. \A e \in round'.todo : Fresh(e)
        BY <2>3, <2>4
      <3>2. \A e \in round'.todo : Fresh(e)'
        BY <2>1, <3>1 DEF Fresh, Final, AccountNonce
      <3>. QED
        BY <2>1, <2>4, <3>2 DEF RoundInv, Fresh
    <2>5. ASSUME round' = [pc |-> "boost", block |-> round.block,
                           signers |-> Tail(round.signers)]
          PROVE  RoundInv'
      BY <2>1, <2>5 DEF RoundInv
    <2>. QED
      BY <1>6, <2>4, <2>5, Zenon DEF BoostSigner
  <1>7. ASSUME round.pc = "resend", NEW e \in round.todo, ResendStore(e)
        PROVE  RoundInv'
    <2>1. PICK x : Rewritten(e, x) /\ round'.tx = x.tx
      BY <1>7, ResendStoreStep
    <2>2. /\ round'.pc = "broadcast" /\ round'.block = round.block
          /\ round'.todo = round.todo \ {e} /\ block' = block
      BY <1>7 DEF ResendStore, nodeVars
    <2>3. \A f \in round.todo \ {e} : Fresh(f)'
      BY <1>7, <1>b, <2>1, OthersStayFresh
    <2>4. Held(x.tx.from, x.tx.nonce, x.tx.call)'
      <3>1. e.tx.from \in Signer /\ e.tx.nonce \in Nonce
        BY <1>7, <1>b DEF Stored, Tx
      <3>2. /\ store'[e.tx.from][e.tx.nonce] = x /\ x # Empty
            /\ x.tx.from = e.tx.from /\ x.tx.nonce = e.tx.nonce
        BY <2>1, <3>1 DEF Rewritten
      <3>. QED
        BY <3>2 DEF Held, IsStored
    <2>. QED
      BY <1>7, <2>1, <2>2, <2>3, <2>4 DEF RoundInv, Fresh
  <1>8. CASE ResendBroadcast
    <2>1. /\ round.pc = "broadcast" /\ round'.pc = "resend"
          /\ round'.block = round.block /\ round'.todo = round.todo
          /\ UNCHANGED <<store, block, chain>>
      BY <1>8 DEF ResendBroadcast
    <2>2. \A e \in round'.todo : Fresh(e)'
      BY <1>b, <2>1 DEF Fresh, Final, AccountNonce
    <2>. QED
      BY <2>1, <2>2 DEF RoundInv, Fresh
  <1>9. ASSUME NEW s \in Signer, PollNonce(s) \/ Reorg(s)
        PROVE  RoundInv'
    <2>1. round' = round /\ store' = store /\ block' = block
      BY <1>9 DEF PollNonce, Reorg, nodeVars, serverVars
    <2>. QED
      BY <1>0, <1>1, <2>1
  <1>10. ASSUME NEW t \in pool, Drop(t)
         PROVE  RoundInv'
    <2>1. round' = round /\ store' = store /\ block' = block
      BY <1>10 DEF Drop, serverVars
    <2>. QED
      BY <1>0, <1>1, <2>1
  <1>11. CASE MineBlock
    <2>1. round' = round /\ store' = store /\ block' = block + 1
      BY <1>11 DEF MineBlock, serverVars
    <2>. QED
      BY <1>0, <1>1, <2>1
  <1>12. CASE UNCHANGED vars
    <2>1. round' = round /\ store' = store /\ block' = block
      BY <1>12 DEF vars, serverVars, nodeVars
    <2>. QED
      BY <1>0, <1>1, <2>1
  <1>. QED
    BY <1>s, <1>f, <1>2, <1>3, <1>4, <1>5, <1>6, <1>7, <1>8, <1>9, <1>10, <1>11, <1>12
    DEF Next, WorkerStep

-----------------------------------------------------------------------------
(* Calls and the transactions that carry them.  A call that was not signed   *)
(* yet is carried by nothing, and every transaction that carries a call      *)
(* transfers what the call transfers, or nothing after a boost.              *)

Carries(t) ==
    \/ t \in sent
    \/ \E s \in Signer, n \in Nonce : IsStored(s, n) /\ store[s][n].tx = t
    \/ round.pc \in {"confirm", "resend", "broadcast"} /\ \E e \in round.todo : e.tx = t
    \/ round.pc = "broadcast" /\ round.tx = t

Unsigned(c) == calls[c].pc \in {"new", "polled"}

Genuine(t) == t.call \in Call /\ ~Unsigned(t.call) /\ t.value \in {0, CallValue[t.call]}

SignedInv ==
    \A c \in Call : calls[c].pc = "stored" =>
        calls[c].tx.call = c /\ calls[c].tx.value = CallValue[c]

CarrierInv == SignedInv /\ \A t : Carries(t) => Genuine(t)

\* A call that was signed is never new again, and what is signed is its own.
LEMMA PhaseStep ==
  ASSUME TypeOK, [Next]_vars, NEW c \in Call
  PROVE  /\ ~Unsigned(c) => ~Unsigned(c)'
         /\ \/ calls'[c].pc # "stored" \/ calls'[c] = calls[c]
            \/ calls'[c].pc = "stored" /\ calls'[c].tx.call = c
                                       /\ calls'[c].tx.value = CallValue[c]
  <1>0. calls \in [Call -> CallState]
    BY DEF TypeOK
  <1>1. CASE calls'[c] = calls[c]
    BY <1>1 DEF Unsigned
  <1>2. ASSUME NEW d \in Call, AcquireAndPoll(d)
        PROVE  calls'[c] = calls[c] \/ (d = c /\ Unsigned(c) /\ calls'[c].pc = "polled")
    BY <1>0, <1>2 DEF AcquireAndPoll, Unsigned
  <1>3. ASSUME NEW d \in Call, SignAndStore(d)
        PROVE  \/ calls'[c] = calls[c]
               \/ calls'[c].pc = "failed"
               \/ calls'[c].pc = "stored" /\ calls'[c].tx.call = c
                                          /\ calls'[c].tx.value = CallValue[c]
    <2>1. CASE calls' = [calls EXCEPT ![d] = [pc |-> "failed"]]
      BY <1>0, <2>1
    <2>2. ASSUME NEW s \in Signer, NEW n \in Nonce, NEW x, Inserted(d, s, n, x)
          PROVE  \/ calls'[c] = calls[c]
                 \/ calls'[c].pc = "stored" /\ calls'[c].tx.call = c
                                            /\ calls'[c].tx.value = CallValue[c]
      BY <1>0, <2>2 DEF Inserted
    <2>. QED
      BY <1>3, <2>1, <2>2, SignAndStoreStep
  <1>4. ASSUME NEW d \in Call, Broadcast(d) \/ BroadcastFails(d)
        PROVE  calls'[c] = calls[c] \/ calls'[c].pc \in {"done", "failed"}
    BY <1>0, <1>4 DEF Broadcast, BroadcastFails
  <1>5. CASE Crash
    BY <1>5 DEF Crash, Unsigned
  <1>6. ASSUME \A d \in Call : ~CallStep(d), ~Crash
        PROVE  calls' = calls
    BY <1>6, OtherwiseNoCall
  <1>. QED
    BY <1>1, <1>2, <1>3, <1>4, <1>5, <1>6 DEF CallStep, Unsigned

\* Only a call that was signed, or the round, gets a transaction into the network.
LEMMA SentSource ==
  ASSUME [Next]_vars, NEW t \in sent', t \notin sent
  PROVE  \/ \E c \in Call : calls[c].pc = "stored" /\ calls[c].tx = t
         \/ round.pc = "broadcast" /\ round.tx = t
  <1>1. ASSUME NEW c \in Call, CallStep(c)
        PROVE  \/ sent' = sent
               \/ calls[c].pc = "stored" /\ sent' = sent \cup {calls[c].tx}
    BY <1>1 DEF CallStep, AcquireAndPoll, SignAndStore, Broadcast, BroadcastFails, nodeVars
  <1>2. ASSUME WorkerStep
        PROVE  \/ sent' = sent
               \/ round.pc = "broadcast" /\ sent' = sent \cup {round.tx}
    BY <1>2 DEF WorkerStep, StartRound, LoadStored, RoundFails, ConfirmOne, ConfirmDone,
                BoostSigner, ResendStore, ResendBroadcast, ResendFails, SignerDone, EndRound, nodeVars
  <1>3. ASSUME NEW s \in Signer, PollNonce(s) \/ Reorg(s)
        PROVE  sent' = sent
    BY <1>3 DEF PollNonce, Reorg, nodeVars
  <1>4. ASSUME Crash \/ MineBlock \/ UNCHANGED vars
        PROVE  sent' = sent
    BY <1>4 DEF Crash, MineBlock, vars, nodeVars
  <1>5. ASSUME NEW u \in pool, Drop(u)
        PROVE  sent' = sent
    BY <1>5 DEF Drop
  <1>. QED
    BY <1>1, <1>2, <1>3, <1>4, <1>5 DEF Next

LEMMA BoostSignerRound ==
  ASSUME BoostSigner
  PROVE  \/ round'.pc = "boost"
         \/ /\ round'.pc = "resend"
            /\ \E price : round'.todo = Underpriced(Head(round.signers), price)
  <1>. DEFINE s == Head(round.signers)
  <1>1. ASSUME NEW price,
               round' = [pc |-> "resend", block |-> round.block,
                         signers |-> Tail(round.signers),
                         todo |-> Underpriced(s, price), price |-> price]
        PROVE  round'.pc = "resend" /\ round'.todo = Underpriced(s, price)
    BY <1>1
  <1>2. ASSUME round' = [pc |-> "boost", block |-> round.block,
                         signers |-> Tail(round.signers)]
        PROVE  round'.pc = "boost"
    BY <1>2
  <1>. QED
    BY <1>1, <1>2, Zenon DEF BoostSigner

\* What the worker has to look at comes from the store.
LEMMA TodoSource ==
  ASSUME TypeOK, [Next]_vars,
         round'.pc \in {"confirm", "resend", "broadcast"}, NEW e \in round'.todo
  PROVE  \/ round.pc \in {"confirm", "resend", "broadcast"} /\ e \in round.todo
         \/ \E s \in Signer, n \in Nonce : IsStored(s, n) /\ store[s][n] = e
  <1>1. CASE round' = round
    BY <1>1
  <1>2. CASE LoadStored
    BY <1>2 DEF LoadStored, StoredNonces
  <1>3. CASE BoostSigner
    <2>1. Head(round.signers) \in Signer
      BY <1>3 DEF BoostSigner, TypeOK, RoundOK
    <2>2. \E price : e \in Underpriced(Head(round.signers), price)
      BY <1>3, BoostSignerRound
    <2>. QED
      BY <2>1, <2>2 DEF Underpriced, StoredNonces
  <1>4. ASSUME NEW f \in round.todo, ConfirmOne(f) \/ ResendStore(f)
        PROVE  round.pc \in {"confirm", "resend"} /\ e \in round.todo
    BY <1>4 DEF ConfirmOne, ResendStore
  <1>5. CASE ResendBroadcast
    BY <1>5 DEF ResendBroadcast
  <1>6. CASE StartRound \/ RoundFails \/ ConfirmDone \/ ResendFails \/ SignerDone \/ EndRound
    BY <1>6 DEF StartRound, RoundFails, ConfirmDone, ResendFails, SignerDone, EndRound, Idle
  <1>7. CASE Crash
    BY <1>7 DEF Crash, Idle
  <1>8. ASSUME NEW c \in Call, CallStep(c)
        PROVE  round' = round
    BY <1>8 DEF CallStep, AcquireAndPoll, SignAndStore, Broadcast, BroadcastFails
  <1>9. ASSUME NEW s \in Signer, PollNonce(s) \/ Reorg(s)
        PROVE  round' = round
    BY <1>9 DEF PollNonce, Reorg, serverVars
  <1>10. ASSUME NEW t \in pool, Drop(t)
         PROVE  round' = round
    BY <1>10 DEF Drop, serverVars
  <1>11. CASE MineBlock \/ UNCHANGED vars
    BY <1>11 DEF MineBlock, vars, serverVars
  <1>. QED
    BY <1>1, <1>2, <1>3, <1>4, <1>5, <1>6, <1>7, <1>8, <1>9, <1>10, <1>11 DEF Next, WorkerStep

\* The transaction of a boost is the one that was just put into the store.
LEMMA BoostSource ==
  ASSUME TypeOK, [Next]_vars, round'.pc = "broadcast"
  PROVE  \/ round' = round
         \/ \E e \in round.todo : \E x :
               round.pc = "resend" /\ Rewritten(e, x) /\ round'.tx = x.tx
  <1>1. ASSUME round.pc = "resend", NEW e \in round.todo, ResendStore(e)
        PROVE  \E x : Rewritten(e, x) /\ round'.tx = x.tx
    BY <1>1, ResendStoreStep
  <1>2. ASSUME NEW e \in round.todo, ConfirmOne(e)
        PROVE  FALSE
    BY <1>2 DEF ConfirmOne
  <1>3. CASE BoostSigner
    BY <1>3, BoostSignerRound
  <1>4. CASE \/ LoadStored \/ ResendBroadcast \/ StartRound \/ RoundFails \/ ConfirmDone
             \/ ResendFails \/ SignerDone \/ EndRound
    BY <1>4 DEF LoadStored, ResendBroadcast, StartRound, RoundFails, ConfirmDone, ResendFails,
                SignerDone, EndRound, Idle
  <1>5. CASE Crash
    BY <1>5 DEF Crash, Idle
  <1>6. ASSUME NEW c \in Call, CallStep(c)
        PROVE  round' = round
    BY <1>6 DEF CallStep, AcquireAndPoll, SignAndStore, Broadcast, BroadcastFails
  <1>7. ASSUME NEW s \in Signer, PollNonce(s) \/ Reorg(s)
        PROVE  round' = round
    BY <1>7 DEF PollNonce, Reorg, serverVars
  <1>8. ASSUME NEW t \in pool, Drop(t)
        PROVE  round' = round
    BY <1>8 DEF Drop, serverVars
  <1>9. CASE MineBlock \/ UNCHANGED vars
    BY <1>9 DEF MineBlock, vars, serverVars
  <1>. QED
    BY <1>1, <1>2, <1>3, <1>4, <1>5, <1>6, <1>7, <1>8, <1>9 DEF Next, WorkerStep

LEMMA GenuineStays ==
  ASSUME TypeOK, [Next]_vars, NEW t, Genuine(t)
  PROVE  Genuine(t)'
  BY PhaseStep DEF Genuine

\* What a boost or a confirmation writes into the store is as genuine as the
\* entry it had read.
LEMMA RewrittenIsGenuine ==
  ASSUME CarrierInv, NEW e, NEW x, NEW t, Rewritten(e, x), t = x.tx,
         round.pc \in {"confirm", "resend", "broadcast"}, e \in round.todo
  PROVE  Genuine(t)
  <1>1. Genuine(e.tx)
    BY DEF CarrierInv, Carries
  <1>. QED
    BY <1>1 DEF Genuine, Rewritten

LEMMA StoredIsGenuine ==
  ASSUME TypeOK, ChainInv, RoundInv, CarrierInv, [Next]_vars,
         NEW s \in Signer, NEW n \in Nonce, IsStored(s, n)',
         NEW t, t = store'[s][n].tx
  PROVE  Genuine(t)'
  <1>1. CASE store'[s][n] = store[s][n]
    <2>1. Genuine(t)
      BY <1>1 DEF CarrierInv, Carries, IsStored
    <2>. QED
      BY <2>1, GenuineStays
  <1>2. ASSUME NEW c \in Call, NEW q \in Signer, NEW k \in Nonce, NEW x, Inserted(c, q, k, x),
               store'[s][n] # store[s][n]
        PROVE  Genuine(t)'
    <2>1. store'[s][n] = x
      BY <1>2 DEF Inserted
    <2>2. t.call = c /\ t.value = CallValue[c]
      BY <1>2, <2>1 DEF Inserted
    <2>3. calls'[c].pc = "stored"
      BY <1>2 DEF Inserted, TypeOK
    <2>. QED
      BY <2>2, <2>3 DEF Genuine, Unsigned
  <1>3. ASSUME NEW e \in round.todo, NEW x, Rewritten(e, x), store'[s][n] # store[s][n]
        PROVE  Genuine(t)'
    <2>1. t = x.tx /\ round.pc \in {"confirm", "resend"}
      BY <1>3 DEF Rewritten
    <2>2. Genuine(t)
      BY <1>3, <2>1, RewrittenIsGenuine
    <2>. QED
      BY <2>2, GenuineStays
  <1>4. ASSUME NEW e \in round.todo, Removed(e)
        PROVE  store'[s][n] = store[s][n]
    BY <1>4 DEF Removed, IsStored
  <1>. QED
    BY <1>1, <1>2, <1>3, <1>4, StoreStep

LEMMA CarrierInvStep ==
  ASSUME IInv, CarrierInv, [Next]_vars
  PROVE  CarrierInv'
  <1>. USE DEF IInv
  <1>1. SignedInv'
    BY PhaseStep DEF CarrierInv, SignedInv
  <1>2. ASSUME NEW t, Carries(t)' PROVE Genuine(t)'
    <2>1. CASE Carries(t)
      <3>1. Genuine(t)
        BY <2>1 DEF CarrierInv
      <3>. QED
        BY <3>1, GenuineStays
    <2>2. CASE t \in sent' /\ t \notin sent
      <3>1. ASSUME NEW c \in Call, calls[c].pc = "stored", calls[c].tx = t
            PROVE  Genuine(t)
        BY <3>1 DEF CarrierInv, SignedInv, Genuine, Unsigned
      <3>2. ASSUME round.pc = "broadcast", round.tx = t
            PROVE  Genuine(t)
        <4>1. Carries(t)
          BY <3>2, Zenon DEF Carries
        <4>. QED
          BY <4>1 DEF CarrierInv
      <3>. QED
        BY <2>2, <3>1, <3>2, SentSource, GenuineStays
    <2>3. ASSUME NEW s \in Signer, NEW n \in Nonce, IsStored(s, n)', store'[s][n].tx = t
          PROVE  Genuine(t)'
      BY <2>3, StoredIsGenuine
    <2>4. ASSUME round'.pc \in {"confirm", "resend", "broadcast"}, NEW e \in round'.todo, e.tx = t
          PROVE  Carries(t)
      BY <2>4, TodoSource DEF Carries
    <2>5. ASSUME round'.pc = "broadcast", round'.tx = t, round' # round
          PROVE  Genuine(t)'
      <3>1. PICK e \in round.todo : \E x :
                round.pc = "resend" /\ Rewritten(e, x) /\ round'.tx = x.tx
        BY <2>5, BoostSource
      <3>2. Genuine(t)
        BY <2>5, <3>1, RewrittenIsGenuine
      <3>. QED
        BY <3>2, GenuineStays
    <2>6. CASE round'.pc = "broadcast" /\ round'.tx = t /\ round' = round
      BY <2>1, <2>6 DEF Carries
    <2>. QED
      BY <1>2, <2>1, <2>2, <2>3, <2>4, <2>5, <2>6 DEF Carries
  <1>. QED
    BY <1>1, <1>2 DEF CarrierInv
-----------------------------------------------------------------------------
(* The slots of Outbox *)

\* No call has two slots.
OneSlotInv ==
    \A s, u \in Signer, n, k \in Nonce :
        SlotOf(s, n) # NoCall /\ SlotOf(s, n) = SlotOf(u, k) => s = u /\ n = k

\* A transaction on the chain was held by its call already before the step that
\* put it there.
LEMMA ChainIsHeld ==
  ASSUME IInv, [Next]_vars, NEW s \in Signer, NEW n \in Nat, n < Len(chain'[s])
  PROVE  /\ n \in Nonce
         /\ chain'[s][n + 1].tx.call \in Call
         /\ Held(s, n, chain'[s][n + 1].tx.call)
  <1>. USE DEF IInv
  <1>1. chain'[s] \in Seq(MinedTx)
    BY NextTypeOK DEF TypeOK, MinedTx
  <1>2. n + 1 \in 1..Len(chain'[s])
    BY <1>1
  <1>3. PICK t : t = chain'[s][n + 1].tx
    OBVIOUS
  <1>4. t \in sent' /\ t.from = s /\ t.nonce = n
    BY <1>2, <1>3, ChainInvStep DEF ChainInv
  <1>5. t \in Tx
    BY <1>4, NextTypeOK DEF TypeOK
  <1>6. Held(t.from, t.nonce, t.call)
    BY <1>4, NewlySent DEF SentInv
  <1>. QED
    BY <1>3, <1>4, <1>5, <1>6 DEF Tx

\* A taken slot keeps its call: across a restart, a boost, the removal of the
\* entry and the block that makes it final.
LEMMA SlotKept ==
  ASSUME IInv, [Next]_vars, NEW s \in Signer, NEW n \in Nonce, Covered(s, n)
  PROVE  SlotOf(s, n)' = SlotOf(s, n)
  <1>. USE NonceFacts DEF IInv
  <1>1. CASE Final(s, n)
    BY <1>1, FinalStable DEF SlotOf
  <1>2. CASE ~Final(s, n) /\ Final(s, n)'
    <2>1. n < Len(chain'[s])
      BY <1>2 DEF Final, AccountNonce
    <2>2. store[s][n].tx.call = chain'[s][n + 1].tx.call /\ IsStored(s, n)
      BY <1>2, <2>1, ChainIsHeld DEF Held
    <2>. QED
      BY <1>2, <2>2 DEF SlotOf
  <1>3. CASE ~Final(s, n) /\ ~Final(s, n)'
    <2>1. IsStored(s, n)
      BY <1>3 DEF Covered
    <2>2. IsStored(s, n)' /\ store'[s][n].tx.call = store[s][n].tx.call
      BY <1>3, <2>1, StoreKeeps
    <2>. QED
      BY <1>3, <2>1, <2>2 DEF SlotOf
  <1>. QED
    BY <1>1, <1>2, <1>3

\* A free slot stays free unless sendTransaction puts its call there.
LEMMA FreeSlot ==
  ASSUME IInv, [Next]_vars, NEW s \in Signer, NEW n \in Nonce, ~Covered(s, n)
  PROVE  /\ SlotOf(s, n) = NoCall
         /\ \/ SlotOf(s, n)' = NoCall
            \/ \E c \in Call : \E x : Inserted(c, s, n, x) /\ SlotOf(s, n)' = c
  <1>. USE NonceFacts DEF IInv
  <1>1. ~Final(s, n) /\ ~IsStored(s, n)
    BY DEF Covered
  <1>2. ~Final(s, n)'
    <2>. SUFFICES ASSUME Final(s, n)' PROVE FALSE
      OBVIOUS
    <2>1. n < Len(chain'[s])
      BY DEF Final, AccountNonce
    <2>. QED
      BY <1>1, <2>1, ChainIsHeld DEF Held
  <1>3. CASE store'[s][n] = store[s][n]
    BY <1>1, <1>2, <1>3 DEF SlotOf, IsStored
  <1>4. ASSUME NEW c \in Call, NEW q \in Signer, NEW k \in Nonce, NEW x, Inserted(c, q, k, x),
               store'[s][n] # store[s][n]
        PROVE  Inserted(c, s, n, x) /\ SlotOf(s, n)' = c
    <2>1. q = s /\ k = n /\ store'[s][n] = x
      BY <1>4 DEF Inserted
    <2>2. x # Empty /\ x.tx.call = c
      BY <1>4 DEF Inserted
    <2>. QED
      BY <1>2, <1>4, <2>1, <2>2 DEF SlotOf, IsStored
  <1>5. ASSUME NEW e \in round.todo, NEW x, Rewritten(e, x), store'[s][n] # store[s][n]
        PROVE  FALSE
    <2>1. s = e.tx.from /\ n = e.tx.nonce /\ round.pc \in {"confirm", "resend"}
      BY <1>5 DEF Rewritten
    <2>2. e \in Stored /\ Fresh(e)
      BY <2>1 DEF TypeOK, RoundOK, RoundInv, Fresh
    <2>. QED
      BY <1>1, <2>1, <2>2, EmptyIsNotStored DEF Fresh, IsStored
  <1>6. ASSUME NEW e \in round.todo, Removed(e)
        PROVE  store'[s][n] = store[s][n]
    BY <1>1, <1>6 DEF Removed, IsStored
  <1>7. SlotOf(s, n) = NoCall
    BY <1>1 DEF SlotOf
  <1>. QED
    BY <1>3, <1>4, <1>5, <1>6, <1>7, StoreStep

LEMMA CoveredSlot ==
  ASSUME IInv, NEW s \in Signer, NEW n \in Nonce
  PROVE  /\ SlotOf(s, n) \in Call \cup {NoCall}
         /\ Covered(s, n) <=> SlotOf(s, n) # NoCall
  <1>. USE NonceFacts DEF IInv
  <1>1. CASE Final(s, n)
    <2>1. n + 1 \in 1..Len(chain[s])
      BY <1>1, ChainTypes DEF Final, AccountNonce
    <2>2. chain[s][n + 1].tx.call \in Call
      BY <2>1, ChainTypes DEF Tx
    <2>. QED
      BY <1>1, <2>2, TransactionManagerAssumption DEF SlotOf, Covered
  <1>2. CASE ~Final(s, n) /\ IsStored(s, n)
    <2>1. store[s][n] \in Stored
      BY <1>2 DEF TypeOK, IsStored
    <2>2. store[s][n].tx.call \in Call
      BY <2>1 DEF Stored, Tx
    <2>. QED
      BY <1>2, <2>2, TransactionManagerAssumption DEF SlotOf, Covered
  <1>3. CASE ~Covered(s, n)
    BY <1>3 DEF SlotOf, Covered
  <1>. QED
    BY <1>1, <1>2, <1>3 DEF Covered

\* Every taken slot carries its call in a transaction.
LEMMA SlotIsCarried ==
  ASSUME IInv, NEW s \in Signer, NEW n \in Nonce, SlotOf(s, n) # NoCall
  PROVE  \E t : Carries(t) /\ t.call = SlotOf(s, n)
  <1>. USE NonceFacts DEF IInv
  <1>1. CASE Final(s, n)
    <2>1. n + 1 \in 1..Len(chain[s])
      BY <1>1, ChainTypes DEF Final, AccountNonce
    <2>2. chain[s][n + 1].tx \in sent
      BY <2>1 DEF ChainInv
    <2>. QED
      BY <1>1, <2>2 DEF SlotOf, Carries
  <1>2. CASE ~Final(s, n)
    BY <1>2 DEF SlotOf, Carries
  <1>. QED
    BY <1>1, <1>2

\* sendTransaction puts a call into the first free slot, and only a call that
\* has no slot yet.
LEMMA InsertedIsFirstFree ==
  ASSUME IInv, CarrierInv, NEW c \in Call, NEW s \in Signer, NEW n \in Nonce, NEW x,
         Inserted(c, s, n, x)
  PROVE  /\ s = CallSigner[c]
         /\ \A k \in Nonce : k < n => Covered(s, k)
         /\ \A u \in Signer, k \in Nonce : SlotOf(u, k) # c
  <1>. USE NonceFacts DEF IInv
  <1>1. s = CallSigner[c] /\ n = MaxOf(nonces[s], calls[c].pending) /\ calls[c].pc = "polled"
    BY DEF Inserted, SignAndStore
  <1>2. calls[c].pending \in Nat /\ nonces[s] \in Nat
    BY <1>1, CallStates DEF TypeOK
  <1>3. \A k \in Nonce : k < n => Covered(s, k)
    BY <1>1, <1>2 DEF NonceInv, CallInv, MaxOf
  <1>4. ASSUME NEW u \in Signer, NEW k \in Nonce, SlotOf(u, k) = c PROVE FALSE
    <2>1. PICK t : Carries(t) /\ t.call = c
      BY <1>4, SlotIsCarried, TransactionManagerAssumption
    <2>. QED
      BY <1>1, <2>1 DEF CarrierInv, Genuine, Unsigned
  <1>. QED
    BY <1>1, <1>3, <1>4

LEMMA OneSlotStep ==
  ASSUME IInv, CarrierInv, OneSlotInv, [Next]_vars
  PROVE  OneSlotInv'
  <1>. SUFFICES ASSUME NEW s \in Signer, NEW u \in Signer, NEW n \in Nonce, NEW k \in Nonce,
                       SlotOf(s, n)' # NoCall, SlotOf(s, n)' = SlotOf(u, k)',
                       ~(s = u /\ n = k)
                PROVE  FALSE
    BY DEF OneSlotInv
  <1>0. \A q \in Signer, j \in Nonce :
            \/ SlotOf(q, j)' = SlotOf(q, j)
            \/ \E c \in Call : \E x : Inserted(c, q, j, x) /\ SlotOf(q, j)' = c
    BY SlotKept, FreeSlot
  <1>1. CASE SlotOf(s, n)' = SlotOf(s, n) /\ SlotOf(u, k)' = SlotOf(u, k)
    BY <1>1 DEF OneSlotInv
  <1>2. ASSUME NEW c \in Call, NEW x, Inserted(c, s, n, x), SlotOf(s, n)' = c
        PROVE  FALSE
    <2>1. SlotOf(u, k)' = SlotOf(u, k)
      <3>1. store'[u][k] = store[u][k]
        BY <1>2 DEF Inserted
      <3>2. \A d \in Call : \A y : ~Inserted(d, u, k, y)
        BY <1>2, <3>1 DEF Inserted, IsStored
      <3>. QED
        BY <1>0, <3>2
    <2>. QED
      BY <1>2, <2>1, InsertedIsFirstFree
  <1>3. ASSUME NEW c \in Call, NEW x, Inserted(c, u, k, x), SlotOf(u, k)' = c
        PROVE  FALSE
    <2>1. SlotOf(s, n)' = SlotOf(s, n)
      <3>1. store'[s][n] = store[s][n]
        BY <1>3 DEF Inserted
      <3>2. \A d \in Call : \A y : ~Inserted(d, s, n, y)
        BY <1>3, <3>1 DEF Inserted, IsStored
      <3>. QED
        BY <1>0, <3>2
    <2>. QED
      BY <1>3, <2>1, InsertedIsFirstFree
  <1>. QED
    BY <1>0, <1>1, <1>2, <1>3
-----------------------------------------------------------------------------
(* The bound on the nonces *)

\* The first n slots of a signer hold n different calls.
LEMMA TakenSlots ==
  ASSUME IInv, OneSlotInv, NEW s \in Signer, NEW n \in Nat, NEW D \in SUBSET Call,
         \A k \in 0..n-1 : k \in Nonce /\ Covered(s, k) /\ SlotOf(s, k) \in D
  PROVE  n <= Cardinality(D)
  <1>. USE NonceFacts
  <1>. DEFINE f == [k \in 0..n-1 |-> SlotOf(s, k)]
  <1>1. f \in [0..n-1 -> D]
    OBVIOUS
  <1>2. \A j, k \in 0..n-1 : f[j] = f[k] => j = k
    BY CoveredSlot DEF OneSlotInv
  <1>3. f \in Injection(0..n-1, D)
    BY <1>1, <1>2 DEF Injection, IsInjective
  <1>4. IsFiniteSet(D)
    BY TransactionManagerAssumption, FS_Subset
  <1>5. Cardinality(0..n-1) <= Cardinality(D)
    BY <1>3, <1>4, FS_Injection
  <1>6. Cardinality(0..n-1) = n
    BY FS_Interval
  <1>. QED
    BY <1>5, <1>6

\* The node never answers with a nonce beyond the bound.
LEMMA PendingIsNonce ==
  ASSUME IInv, OneSlotInv, NEW s \in Signer, NEW n \in Nat, IsPendingNonce(s, n)
  PROVE  n \in Nonce
  <1>1. \A k \in 0..n-1 : k \in Nonce /\ Covered(s, k) /\ SlotOf(s, k) \in Call
    BY PendingCovered, CoveredSlot
  <1>2. n <= Cardinality(Call)
    BY <1>1, TakenSlots
  <1>. QED
    BY <1>2, NonceFacts DEF Nonce

\* The node always has an answer.
LEMMA PendingExists ==
  ASSUME IInv, NEW s \in Signer
  PROVE  \E n \in Nat : IsPendingNonce(s, n)
  <1>. USE NonceFacts
  <1>. DEFINE T == {n \in Nat : n >= AccountNonce(s) /\ ~InPool(s, n)}
  <1>0. AccountNonce(s) \in Nat
    BY ChainTypes DEF IInv
  <1>1. MaxOf(AccountNonce(s), Cardinality(Call) + 1) \in T
    <2>1. MaxOf(AccountNonce(s), Cardinality(Call) + 1) \in Nat \ Nonce
      BY <1>0 DEF MaxOf, Nonce
    <2>2. \A n : InPool(s, n) => n \in Nonce
      BY DEF InPool, IInv, TypeOK, Tx
    <2>3. MaxOf(AccountNonce(s), Cardinality(Call) + 1) >= AccountNonce(s)
      BY <1>0 DEF MaxOf
    <2>. QED
      BY <2>1, <2>2, <2>3
  <1>2. PICK m \in T : \A k \in T : m <= k
    BY <1>1, Least
  <1>3. \A k \in AccountNonce(s)..m-1 : InPool(s, k)
    BY <1>0, <1>2
  <1>. QED
    BY <1>2, <1>3 DEF IsPendingNonce

\* Nor does the server come to use one beyond it.
LEMMA NextIsNonce ==
  ASSUME IInv, CarrierInv, OneSlotInv, NEW c \in Call, calls[c].pc = "polled"
  PROVE  MaxOf(nonces[CallSigner[c]], calls[c].pending) \in Nonce
  <1>. DEFINE s == CallSigner[c]
              n == MaxOf(nonces[s], calls[c].pending)
              N == Cardinality(Call)
  <1>. USE NonceFacts DEF IInv
  <1>1. s \in Signer /\ nonces[s] \in Nat /\ calls[c].pending \in Nat
    BY CallStates, TransactionManagerAssumption DEF TypeOK
  <1>2. n \in Nat /\ \A k \in Nonce : k < n => Covered(s, k)
    BY <1>1 DEF NonceInv, CallInv, MaxOf
  <1>3. ASSUME NEW k \in Nonce, Covered(s, k)
        PROVE  SlotOf(s, k) \in Call \ {c}
    <2>1. SlotOf(s, k) \in Call
      BY <1>1, <1>3, CoveredSlot
    <2>2. ASSUME SlotOf(s, k) = c PROVE FALSE
      <3>1. PICK t : Carries(t) /\ t.call = c
        BY <1>1, <2>2, SlotIsCarried, TransactionManagerAssumption
      <3>. QED
        BY <3>1 DEF CarrierInv, Genuine, Unsigned
    <2>. QED
      BY <2>1, <2>2
  <1>4. Cardinality(Call \ {c}) = N - 1
    BY TransactionManagerAssumption, FS_RemoveElement
  <1>5. ASSUME n \notin Nonce PROVE FALSE
    <2>1. N \in Nat /\ \A k \in 0..N-1 : k \in Nonce /\ k < n
      BY <1>2, <1>5 DEF Nonce
    <2>2. \A k \in 0..N-1 : k \in Nonce /\ Covered(s, k) /\ SlotOf(s, k) \in Call \ {c}
      BY <1>2, <1>3, <2>1
    <2>3. N <= Cardinality(Call \ {c})
      BY <1>1, <2>1, <2>2, TakenSlots
    <2>. QED
      BY <1>4, <2>1, <2>3
  <1>. QED
    BY <1>5

-----------------------------------------------------------------------------
(* The refinement *)

Slots   == [s \in Signer |-> [n \in Nonce |-> SlotOf(s, n)]]
OnChain == [s \in Signer |-> [i \in 1..Len(chain[s]) |-> chain[s][i].tx.call]]
FinalSlots == [s \in Signer |-> {n \in Nonce : Final(s, n)}]

LEMMA OnChainLength ==
  ASSUME TypeOK, NEW s \in Signer
  PROVE  Len(OnChain[s]) = AccountNonce(s)
  BY ChainTypes DEF OnChain, AccountNonce

\* Call c gets slot n.
Enqueued(c, n) ==
    /\ SignAndStore(c)
    /\ \A s \in Signer, k \in Nonce : Slots[s][k] # c
    /\ Slots[CallSigner[c]][n] = NoCall
    /\ \A k \in Nonce : k < n => Slots[CallSigner[c]][k] # NoCall
    /\ Slots' = [Slots EXCEPT ![CallSigner[c]][n] = c]

\* The slots change only where sendTransaction puts a call.
LEMMA SlotsStep ==
  ASSUME IInv, CarrierInv, [Next]_vars
  PROVE  \/ Slots' = Slots
         \/ \E c \in Call, n \in Nonce : Enqueued(c, n)
  <1>0. \A q \in Signer, j \in Nonce :
            \/ SlotOf(q, j)' = SlotOf(q, j)
            \/ SlotOf(q, j) = NoCall /\ \E c \in Call : \E x : Inserted(c, q, j, x) /\ SlotOf(q, j)' = c
    BY SlotKept, FreeSlot
  <1>1. CASE \A q \in Signer, j \in Nonce : SlotOf(q, j)' = SlotOf(q, j)
    BY <1>1 DEF Slots
  <1>2. ASSUME NEW s \in Signer, NEW n \in Nonce, NEW c \in Call, NEW x,
               Inserted(c, s, n, x), SlotOf(s, n) = NoCall, SlotOf(s, n)' = c
        PROVE  Enqueued(c, n)
    <2>1. s = CallSigner[c] /\ SignAndStore(c)
      BY <1>2 DEF Inserted
    <2>2. \A u \in Signer, k \in Nonce : SlotOf(u, k) # c
      BY <1>2, InsertedIsFirstFree
    <2>3. \A k \in Nonce : k < n => SlotOf(s, k) # NoCall
      BY <1>2, InsertedIsFirstFree, CoveredSlot
    <2>4. ASSUME NEW q \in Signer, NEW j \in Nonce, ~(q = s /\ j = n)
          PROVE  SlotOf(q, j)' = SlotOf(q, j)
      <3>1. store'[q][j] = store[q][j]
        BY <1>2, <2>4 DEF Inserted
      <3>2. \A d \in Call : \A y : ~Inserted(d, q, j, y)
        BY <1>2, <2>4, <3>1 DEF Inserted, IsStored
      <3>. QED
        BY <1>0, <3>2
    <2>5. \A q \in Signer, j \in Nonce :
              SlotOf(q, j)' = IF q = s /\ j = n THEN c ELSE SlotOf(q, j)
      BY <1>2, <2>4
    <2>6. Slots' = [Slots EXCEPT ![s][n] = c]
      BY <2>5 DEF Slots
    <2>. QED
      BY <1>2, <2>1, <2>2, <2>3, <2>6 DEF Slots, Enqueued
  <1>. QED
    BY <1>0, <1>1, <1>2

LEMMA QuietSlots ==
  ASSUME IInv, CarrierInv, [Next]_vars, \A c \in Call : ~SignAndStore(c)
  PROVE  Slots' = Slots
  BY SlotsStep DEF Enqueued

\* A block executes, of the signers it has a transaction of, the next slot.
LEMMA BlockStep ==
  ASSUME IInv, MineBlock, [Next]_vars
  PROVE  \E S \in SUBSET Signer :
            /\ \A s \in S : /\ Len(OnChain[s]) \in Nonce
                            /\ Slots[s][Len(OnChain[s])] # NoCall
            /\ OnChain' = [s \in Signer |->
                  IF s \in S THEN Append(OnChain[s], Slots[s][Len(OnChain[s])]) ELSE OnChain[s]]
            /\ FinalSlots' \in [Signer -> SUBSET Nonce]
            /\ \A s \in Signer : /\ FinalSlots[s] \subseteq FinalSlots'[s]
                                 /\ \A n \in FinalSlots'[s] : n < Len(OnChain[s])
  <1>. USE NonceFacts DEF IInv
  <1>. DEFINE S == {s \in Signer : chain'[s] # chain[s]}
  <1>1. ASSUME NEW s \in S
        PROVE  /\ Len(OnChain[s]) \in Nonce
               /\ Slots[s][Len(OnChain[s])] # NoCall
               /\ OnChain'[s] = Append(OnChain[s], Slots[s][Len(OnChain[s])])
               /\ Len(chain'[s]) = Len(chain[s]) + 1
               /\ chain'[s][Len(chain[s]) + 1].block = block + 1
    <2>1. PICK t \in pool : /\ t.from = s /\ t.nonce = AccountNonce(s)
                            /\ chain'[s] = Append(chain[s], [tx |-> t, block |-> block + 1])
      BY MinedBlock
    <2>2. t \in sent /\ t \in Tx
      BY <2>1 DEF TypeOK
    <2>3. AccountNonce(s) \in Nonce /\ Len(OnChain[s]) = AccountNonce(s)
      BY <2>1, <2>2, OnChainLength DEF Tx
    <2>4. Held(s, AccountNonce(s), t.call) /\ ~Final(s, AccountNonce(s))
      BY <2>1, <2>2, <2>3 DEF SentInv, Final
    <2>5. SlotOf(s, AccountNonce(s)) = t.call
      BY <2>4 DEF Held, SlotOf
    <2>6. t.call \in Call
      BY <2>2 DEF Tx
    <2>7. [tx |-> t, block |-> block + 1] \in MinedTx
      BY <2>2 DEF MinedTx, TypeOK
    <2>8. /\ Len(chain'[s]) = Len(chain[s]) + 1
          /\ \A i \in 1..Len(chain[s]) : chain'[s][i] = chain[s][i]
          /\ chain'[s][Len(chain[s]) + 1] = [tx |-> t, block |-> block + 1]
      BY <2>1, <2>7, ChainTypes, OneMore
    <2>9. OnChain'[s] = Append(OnChain[s], t.call)
      <3>1. Len(chain[s]) \in Nat
        BY ChainTypes DEF AccountNonce
      <3>. DEFINE new == [i \in 1..Len(chain[s]) + 1 |-> chain'[s][i].tx.call]
                  old == [i \in 1..Len(chain[s]) |-> chain[s][i].tx.call]
      <3>2. OnChain'[s] = new /\ OnChain[s] = old
        BY <2>8 DEF OnChain
      <3>3. new = Append(old, t.call)
        BY <2>8, <3>1
      <3>. QED
        BY <3>2, <3>3
    <2>. QED
      BY <2>3, <2>5, <2>6, <2>8, <2>9, TransactionManagerAssumption DEF Slots
  <1>2. \A s \in Signer : s \notin S => OnChain'[s] = OnChain[s]
    BY DEF OnChain
  <1>3. OnChain' = [s \in Signer |->
            IF s \in S THEN Append(OnChain[s], Slots[s][Len(OnChain[s])]) ELSE OnChain[s]]
    <2>1. OnChain' = [s \in Signer |-> OnChain'[s]]
      BY DEF OnChain
    <2>. QED
      BY <1>1, <1>2, <2>1
  <1>4. FinalSlots' \in [Signer -> SUBSET Nonce]
    BY DEF FinalSlots
  <1>5. \A s \in Signer : FinalSlots[s] \subseteq FinalSlots'[s]
    BY FinalStable DEF FinalSlots
  <1>6. ASSUME NEW s \in Signer, NEW n \in FinalSlots'[s]
        PROVE  n < Len(OnChain[s])
    <2>1. /\ n \in Nat /\ n < Len(chain'[s])
          /\ block' - chain'[s][n + 1].block >= ConfirmationsNeeded
      BY <1>6 DEF FinalSlots, Final, AccountNonce
    <2>2. block' = block + 1 /\ block \in Nat /\ Len(chain[s]) \in Nat
      BY ChainTypes DEF MineBlock, TypeOK, AccountNonce
    <2>3. CASE s \in S
      <3>1. n # Len(chain[s])
        BY <1>1, <2>1, <2>2, <2>3, TransactionManagerAssumption
      <3>2. n < Len(chain[s])
        BY <1>1, <2>1, <2>2, <2>3, <3>1
      <3>. QED
        BY <3>2, OnChainLength DEF AccountNonce
    <2>4. CASE s \notin S
      BY <2>1, <2>4, OnChainLength DEF AccountNonce
    <2>. QED
      BY <2>3, <2>4
  <1>. QED
    BY <1>1, <1>3, <1>4, <1>5, <1>6

\* A reorganization undoes calls of one signer that are not final.
LEMMA ReorgStep ==
  ASSUME IInv, NEW s \in Signer, Reorg(s), [Next]_vars
  PROVE  \E n \in Nonce :
            /\ n < Len(OnChain[s])
            /\ \A k \in FinalSlots[s] : k < n
            /\ OnChain' = [OnChain EXCEPT ![s] = SubSeq(@, 1, n)]
            /\ FinalSlots' = FinalSlots
  <1>. USE NonceFacts DEF IInv
  <1>1. PICK n \in 0..AccountNonce(s)-1 :
            /\ chain' = [chain EXCEPT ![s] = SubSeq(@, 1, n)]
            /\ chain'[s] \in Seq(MinedTx)
            /\ Len(chain'[s]) = n
            /\ \A i \in 1..n : chain'[s][i] = chain[s][i]
    BY CutChain
  <1>2. block' = block /\ \A q \in Signer : q # s => chain'[q] = chain[q]
    BY <1>1 DEF Reorg, TypeOK
  <1>3. n \in Nat /\ AccountNonce(s) \in Nat /\ n < AccountNonce(s) /\ n + 1 \in 1..Len(chain[s])
    BY <1>1, ChainTypes DEF AccountNonce
  <1>4. n \in Nonce
    <2>1. chain[s][n + 1].tx.nonce = n /\ chain[s][n + 1].tx \in Tx
      BY <1>3, ChainTypes DEF ChainInv
    <2>. QED
      BY <2>1 DEF Tx
  <1>5. \A k \in FinalSlots[s] : k < n
    BY <1>1, FinalStable DEF FinalSlots, Final, AccountNonce
  <1>6. FinalSlots' = FinalSlots
    <2>1. ASSUME NEW q \in Signer, NEW k \in Nonce PROVE Final(q, k)' <=> Final(q, k)
      <3>1. CASE q # s
        BY <1>2, <3>1 DEF Final, AccountNonce
      <3>2. ASSUME Final(s, k)' PROVE Final(s, k)
        <4>0. k \in Nat /\ k < Len(chain'[s])
          BY <3>2 DEF Final, AccountNonce
        <4>1. k < n /\ k + 1 \in 1..n
          BY <1>1, <1>3, <4>0
        <4>2. chain'[s][k + 1] = chain[s][k + 1] /\ k < AccountNonce(s)
          BY <1>1, <1>3, <4>0, <4>1
        <4>. QED
          BY <1>2, <3>2, <4>2 DEF Final
      <3>. QED
        BY <3>1, <3>2, FinalStable
    <2>. QED
      BY <2>1 DEF FinalSlots
  <1>7. OnChain' = [OnChain EXCEPT ![s] = SubSeq(@, 1, n)]
    <2>1. OnChain'[s] = SubSeq(OnChain[s], 1, n)
      <3>. DEFINE old == [i \in 1..Len(chain[s]) |-> chain[s][i].tx.call]
                  new == [i \in 1..n |-> chain'[s][i].tx.call]
      <3>1. OnChain[s] = old /\ OnChain'[s] = new
        BY <1>1 DEF OnChain
      <3>2. new = SubSeq(old, 1, n)
        BY <1>1, <1>3
      <3>. QED
        BY <3>1, <3>2
    <2>2. \A q \in Signer : q # s => OnChain'[q] = OnChain[q]
      BY <1>2 DEF OnChain
    <2>. QED
      BY <2>1, <2>2 DEF OnChain
  <1>8. n < Len(OnChain[s])
    BY <1>3, OnChainLength
  <1>. QED
    BY <1>4, <1>5, <1>6, <1>7, <1>8

LEMMA NextImplementsOutbox ==
  ASSUME IInv, CarrierInv, [Next]_vars
  PROVE  [Promise!Next]_(Promise!vars)
  <1>0. /\ Promise!vars = <<Slots, OnChain, FinalSlots>>
        /\ (Promise!vars)' = <<Slots', OnChain', FinalSlots'>>
    BY DEF Promise!vars, Slots, OnChain, FinalSlots
  <1>1. ASSUME MineBlock PROVE \E S \in SUBSET Signer : Promise!NewBlock(S)
    <2>1. Slots' = Slots
      <3>1. \A c \in Call : ~SignAndStore(c)
        <4>1. block' # block
          BY <1>1 DEF MineBlock, IInv, TypeOK
        <4>. QED
          BY <4>1 DEF SignAndStore, nodeVars
      <3>. QED
        BY <3>1, QuietSlots
    <2>. QED
      BY <1>1, <2>1, BlockStep DEF Promise!NewBlock, Promise!NextSlot, Slots, OnChain, FinalSlots
  <1>2. ASSUME NEW s \in Signer, Reorg(s) PROVE \E n \in Nonce : Promise!Undo(s, n)
    <2>1. Slots' = Slots
      <3>1. \A c \in Call : ~SignAndStore(c)
        <4>1. chain' # chain
          BY <1>2, CutChain, ChainTypes DEF AccountNonce, IInv
        <4>. QED
          BY <4>1 DEF SignAndStore, nodeVars
      <3>. QED
        BY <3>1, QuietSlots
    <2>. QED
      BY <1>2, <2>1, ReorgStep DEF Promise!Undo, Promise!NextSlot, Slots, OnChain, FinalSlots
  <1>3. ASSUME ~MineBlock, \A s \in Signer : ~Reorg(s)
        PROVE  [Promise!Next]_(Promise!vars)
    <2>1. OnChain' = OnChain /\ FinalSlots' = FinalSlots
      <3>1. block' = block /\ chain' = chain
        BY <1>3, QuietNode
      <3>. QED
        BY <3>1 DEF OnChain, FinalSlots, Final, AccountNonce
    <2>2. CASE Slots' = Slots
      BY <1>0, <2>1, <2>2
    <2>3. ASSUME NEW c \in Call, NEW n \in Nonce, Enqueued(c, n)
          PROVE  Promise!Enqueue(c, n)
      BY <2>1, <2>3 DEF Enqueued, Promise!Enqueue, Promise!IsAssigned, Promise!FirstFree,
                        Slots, OnChain, FinalSlots
    <2>. QED
      BY <2>2, <2>3, SlotsStep DEF Promise!Next
  <1>. QED
    BY <1>1, <1>2, <1>3 DEF Promise!Next

-----------------------------------------------------------------------------
(* Theorems *)

LEMMA InitIInv == Init => IInv
  <1>. SUFFICES ASSUME Init PROVE IInv
    OBVIOUS
  <1>1. TypeOK
    BY InitTypeOK
  <1>2. StoreInv /\ ChainInv
    BY NonceFacts DEF Init, StoreInv, ChainInv, IsStored
  <1>3. SentInv /\ SameNonceSameCall
    BY DEF Init, SentInv, SameNonceSameCall
  <1>4. NonceInv /\ CallInv /\ RoundInv
    BY NonceFacts DEF Init, NonceInv, CallInv, RoundInv, Idle
  <1>. QED
    BY <1>1, <1>2, <1>3, <1>4 DEF IInv

\* The inductive invariant of the server's transactions: a nonce handed out by
\* pollNonce or sendTransaction is in the store or final, the store never
\* changes the call behind a nonce, and a round works on entries that are
\* still the ones of the store.
THEOREM TransactionsInvariant == Spec => []IInv
  <1>1. Init => IInv
    BY InitIInv
  <1>2. IInv /\ [Next]_vars => IInv'
    <2>. SUFFICES ASSUME IInv, [Next]_vars PROVE IInv'
      OBVIOUS
    <2>. USE DEF IInv
    <2>1. TypeOK'
      BY NextTypeOK
    <2>2. StoreInv' /\ ChainInv'
      BY StoreInvStep, ChainInvStep
    <2>3. SentInv' /\ SameNonceSameCall'
      BY SentInvStep
    <2>4. NonceInv' /\ CallInv' /\ RoundInv'
      BY NonceInvStep, CallInvStep, RoundInvStep
    <2>. QED
      BY <2>1, <2>2, <2>3, <2>4
  <1>. QED
    BY <1>1, <1>2, PTL DEF Spec

\* The server's and the node's variables keep their types.
THEOREM TransactionsTypeCorrect == Spec => []TypeOK
  <1>1. IInv => TypeOK
    BY DEF IInv
  <1>. QED
    BY <1>1, TransactionsInvariant, PTL

\* Whatever crashes, drops, reorganizations and concurrent calls of
\* sendTransaction do, no two different calls get into the network under one
\* nonce of one account.
THEOREM OneCallPerNonce == Spec => []SameNonceSameCall
  <1>1. IInv => SameNonceSameCall
    BY DEF IInv
  <1>. QED
    BY <1>1, TransactionsInvariant, PTL

\* Every transaction the node accepted stays in the store until its nonce is
\* final: removeConfirmedTransactions never drops one too early.
THEOREM NothingIsForgotten == Spec => []UnconfirmedIsStored
  <1>1. IInv => UnconfirmedIsStored
    BY DEF IInv, SentInv, Held, UnconfirmedIsStored
  <1>. QED
    BY <1>1, TransactionsInvariant, PTL

\* Every nonce that sendTransaction advanced past, also when putTx or the
\* broadcast failed or the server restarted, can still be filled from the store.
THEOREM NoNonceIsLost == Spec => []NoLostNonce
  <1>1. IInv => NoLostNonce
    <2>. SUFFICES ASSUME IInv, NEW s \in Signer, NEW n \in AccountNonce(s)..nonces[s]-1
                  PROVE  IsStored(s, n)
      BY DEF NoLostNonce
    <2>. USE NonceFacts DEF IInv
    <2>1. AccountNonce(s) \in Nat /\ nonces[s] \in Nat
      BY ChainTypes DEF TypeOK
    <2>2. nonces[s] <= Cardinality(Call) + 1
      BY DEF NonceInv
    <2>3. n \in Nonce /\ n < nonces[s] /\ n >= AccountNonce(s)
      BY <2>1, <2>2 DEF Nonce
    <2>4. Covered(s, n)
      BY <2>3 DEF NonceInv
    <2>5. ~Final(s, n)
      BY <2>1, <2>3 DEF Final
    <2>. QED
      BY <2>4, <2>5 DEF Covered
  <1>. QED
    BY <1>1, TransactionsInvariant, PTL


\* The second inductive invariant, over the first one: what carries a call was
\* signed for it and transfers its value or nothing, and no call has two slots.
THEOREM SlotsInvariant == Spec => [](CarrierInv /\ OneSlotInv)
  <1>1. Init => CarrierInv /\ OneSlotInv
    <2>. SUFFICES ASSUME Init PROVE CarrierInv /\ OneSlotInv
      OBVIOUS
    <2>1. \A s \in Signer, n \in Nonce : ~IsStored(s, n) /\ ~Final(s, n)
      BY NonceFacts DEF Init, IsStored, Final, AccountNonce
    <2>2. CarrierInv
      BY <2>1 DEF Init, CarrierInv, SignedInv, Carries, Idle
    <2>3. OneSlotInv
      BY <2>1 DEF OneSlotInv, SlotOf
    <2>. QED
      BY <2>2, <2>3
  <1>2. IInv /\ (CarrierInv /\ OneSlotInv) /\ [Next]_vars => (CarrierInv /\ OneSlotInv)'
    BY CarrierInvStep, OneSlotStep
  <1>. QED
    BY <1>1, <1>2, TransactionsInvariant, PTL DEF Spec

\* Whatever is sent under the nonce of a relayed call is that call with another
\* gas price: nothing the server does on its own can be used against its worker.
THEOREM RelaysGiveNoEvidence == Spec => []RelaysAreNoEvidence
  <1>1. IInv /\ CarrierInv => RelaysAreNoEvidence
    <2>. SUFFICES ASSUME IInv, CarrierInv, NEW t \in sent, NEW u \in sent,
                         t.from = u.from, t.nonce = u.nonce, CallValue[t.call] = 0
                  PROVE  EvidenceBody(t) = EvidenceBody(u)
      BY DEF RelaysAreNoEvidence
    <2>1. t.call = u.call
      BY DEF IInv, SameNonceSameCall
    <2>2. Genuine(t) /\ Genuine(u)
      BY DEF CarrierInv, Carries
    <2>3. t.value = 0 /\ u.value = 0
      BY <2>1, <2>2 DEF Genuine
    <2>. QED
      BY <2>1, <2>3 DEF EvidenceBody
  <1>. QED
    BY <1>1, TransactionsInvariant, SlotsInvariant, PTL

\* The store and the chain are an Outbox: every step of sendTransaction, of the
\* worker, of a restart and of the network is a step of Outbox or none at all.
THEOREM TransactionManagerImplementsOutbox == Spec => ImplementsOutbox
  <1>1. Init => Promise!Init
    <2>. SUFFICES ASSUME Init PROVE Promise!Init
      OBVIOUS
    <2>1. \A s \in Signer, n \in Nonce : ~IsStored(s, n) /\ ~Final(s, n)
      BY NonceFacts DEF Init, IsStored, Final, AccountNonce
    <2>2. Slots = [s \in Signer |-> [n \in Nonce |-> NoCall]]
      BY <2>1 DEF Slots, SlotOf
    <2>3. OnChain = [s \in Signer |-> << >>]
      BY DEF Init, OnChain
    <2>4. FinalSlots = [s \in Signer |-> {}]
      BY <2>1 DEF FinalSlots
    <2>. QED
      BY <2>2, <2>3, <2>4 DEF Promise!Init, Slots, OnChain, FinalSlots
  <1>2. IInv /\ CarrierInv /\ [Next]_vars => [Promise!Next]_(Promise!vars)
    BY NextImplementsOutbox
  <1>. QED
    BY <1>1, <1>2, TransactionsInvariant, SlotsInvariant, PTL
    DEF Spec, ImplementsOutbox, Promise!Spec

\* The chain holds no call twice: neither a boost, nor a restart that forgets the
\* nonce, nor a reorganization has a relayed call or a pay-out happen again.
NoCallMinedTwice ==
    \A s, u \in Signer : \A i \in 1..Len(chain[s]), j \in 1..Len(chain[u]) :
        chain[s][i].tx.call = chain[u][j].tx.call => s = u /\ i = j

THEOREM CallsAreMinedOnce == Spec => []NoCallMinedTwice
  <1>1. ASSUME IInv, NEW s \in Signer, NEW i \in 1..Len(chain[s])
        PROVE  /\ i - 1 \in Nonce
               /\ SlotOf(s, i - 1) = chain[s][i].tx.call
               /\ SlotOf(s, i - 1) # NoCall
    <2>. USE NonceFacts DEF IInv
    <2>. DEFINE t == chain[s][i].tx
    <2>1. t \in sent /\ t.from = s /\ t.nonce = i - 1
      BY <1>1 DEF ChainInv
    <2>2. i - 1 \in Nonce /\ t.call \in Call
      BY <1>1, <2>1 DEF TypeOK, Tx
    <2>3. Held(s, i - 1, t.call)
      BY <1>1, <2>1 DEF SentInv
    <2>4. SlotOf(s, i - 1) = t.call
      <3>1. CASE Final(s, i - 1)
        <4>1. chain[s][(i - 1) + 1] = chain[s][i]
          BY <1>1
        <4>. QED
          BY <3>1, <4>1 DEF SlotOf
      <3>2. CASE ~Final(s, i - 1)
        BY <2>3, <3>2 DEF SlotOf, Held
      <3>. QED
        BY <3>1, <3>2
    <2>. QED
      BY <2>2, <2>4, TransactionManagerAssumption
  <1>2. IInv /\ OneSlotInv => NoCallMinedTwice
    <2>. SUFFICES ASSUME IInv, OneSlotInv, NEW s \in Signer, NEW u \in Signer,
                         NEW i \in 1..Len(chain[s]), NEW j \in 1..Len(chain[u]),
                         chain[s][i].tx.call = chain[u][j].tx.call
                  PROVE  s = u /\ i = j
      BY DEF NoCallMinedTwice
    <2>1. s = u /\ i - 1 = j - 1
      BY <1>1 DEF OneSlotInv
    <2>. QED
      BY <2>1
  <1>. QED
    BY <1>2, TransactionsInvariant, SlotsInvariant, PTL

\* The nonces 0..Cardinality(Call) of the model lose nothing: the node always has
\* a next nonce to answer with and it is one of them, and so is the nonce
\* sendTransaction signs with.  The guards that speak of Nonce never forbid a
\* step the code would take.
NoncesSuffice ==
    /\ \A s \in Signer : \E n \in Nonce : IsPendingNonce(s, n)
    /\ \A s \in Signer, n \in Nat : IsPendingNonce(s, n) => n \in Nonce
    /\ \A c \in Call : calls[c].pc = "polled" =>
            MaxOf(nonces[CallSigner[c]], calls[c].pending) \in Nonce

THEOREM NonceBoundNeverBinds == Spec => []NoncesSuffice
  <1>1. IInv /\ CarrierInv /\ OneSlotInv => NoncesSuffice
    BY PendingExists, PendingIsNonce, NextIsNonce DEF NoncesSuffice
  <1>. QED
    BY <1>1, TransactionsInvariant, SlotsInvariant, PTL
=============================================================================
