-------------------------- MODULE RelayClientProofs --------------------------
(***************************************************************************)
(* Why a call is executed twice only after a relay was given up, asks no   *)
(* relay twice and gives none up without asking: for any logs, relays and  *)
(* configuration, any answers and any number of calls.                     *)
(***************************************************************************)
EXTENDS RelayClient, Induction, FiniteSetTheorems

Posted == [number : Int, kind : Kind, nonce : Nat]
Outcome == {"none", "relayed", "recipientReverted", "reverted"}

CallFields ==
    {"pc", "number", "kind", "only", "pays", "managers", "url", "nonce", "request",
     "errors", "result", "tried", "candidates"}

\* The part of TypeOK the argument needs: call, chain and what was posted.
CallTypes ==
    /\ call = [f \in CallFields |-> call[f]]
    /\ call.pc \in Pc
    /\ call.number \in Nat /\ call.kind \in Kind /\ call.nonce \in Nat
    /\ call.request \in Nat
    /\ nonce \in [Kind -> Nat]
    /\ created \in BOOLEAN
    /\ posted \in Seq(Posted)
    /\ outcome \in Seq(Outcome)
    /\ Len(outcome) = Len(posted)
    /\ draft \in Posted /\ other \in Nat

\* Where a call in progress has no request under way, and where it has one.
Before  == {"fetch", "lookup", "gasPrice", "estimate", "start", "select", "race", "winner",
            "attempt", "check"}
Awaited == {"answer", "broadcast", "receipt"}

\* Requests of the current call were made for the same thing, and all but the one
\* that is awaited were given up.
OneAwaited ==
    /\ \A i \in DOMAIN posted :
          /\ posted[i].number <= call.number
          /\ posted[i].number = call.number /\ InProgress =>
                /\ posted[i].kind = call.kind
                /\ i \in lost \/ (call.pc \in Awaited /\ i = call.request)
    /\ call.pc \in Awaited => call.request \in DOMAIN posted
    /\ \A i, j \in DOMAIN posted :
          i < j /\ posted[i].number = posted[j].number /\ posted[i].number >= 0 =>
             posted[i].kind = posted[j].kind /\ i \in lost

\* A nonce is used once, and a call signs nonces that do not decrease.
NoncesInOrder ==
    /\ \A i \in DOMAIN posted :
          /\ posted[i].nonce <= nonce[posted[i].kind]
          /\ WasExecuted(i) => posted[i].nonce < nonce[posted[i].kind]
    /\ \A i, j \in DOMAIN posted : i < j /\ posted[i].kind = posted[j].kind =>
          /\ WasExecuted(i) /\ WasExecuted(j) => posted[i].nonce # posted[j].nonce
          /\ posted[i].number = posted[j].number => posted[i].nonce <= posted[j].nonce

\* Requests made by hand have negative numbers, which tell them apart.
HandMade ==
    /\ draft # NoDraft => draft.number < 0 /\ -other <= draft.number
    /\ draft.nonce <= nonce[draft.kind]
    /\ \A i \in DOMAIN posted :
          /\ -other <= posted[i].number
          /\ posted[i].number = draft.number /\ draft # NoDraft => posted[i] = draft
    /\ \A i, j \in DOMAIN posted :
          posted[i].number = posted[j].number /\ posted[i].number < 0 =>
             posted[i] = posted[j]

\* A wallet that was created by a request exists, and was created by one only.
CreatedOnce ==
    /\ \A i \in DOMAIN posted : WasExecuted(i) /\ posted[i].kind = "deploy" => created
    /\ \A i, j \in DOMAIN posted :
          /\ WasExecuted(i) /\ WasExecuted(j)
          /\ posted[i].kind = "deploy" /\ posted[j].kind = "deploy"
          => i = j

IInv == CallTypes /\ OneAwaited /\ NoncesInOrder /\ HandMade /\ CreatedOnce

-----------------------------------------------------------------------------
LEMMA SeqFacts ==
  ASSUME NEW S, NEW s \in Seq(S)
  PROVE  /\ DOMAIN s = 1..Len(s) /\ Len(s) \in Nat
         /\ \A i \in DOMAIN s : s[i] \in S
  OBVIOUS

LEMMA PostedFacts ==
  ASSUME CallTypes
  PROVE  /\ DOMAIN posted = 1..Len(posted) /\ DOMAIN outcome = 1..Len(posted)
         /\ Len(posted) \in Nat
         /\ \A i \in DOMAIN posted :
               /\ posted[i] \in Posted
               /\ posted[i].number \in Int
               /\ posted[i].nonce \in Nat
               /\ posted[i].kind \in Kind
               /\ nonce[posted[i].kind] \in Nat
               /\ outcome[i] \in Outcome
  <1>1. /\ DOMAIN posted = 1..Len(posted) /\ Len(posted) \in Nat
        /\ \A i \in DOMAIN posted : posted[i] \in Posted
    BY SeqFacts DEF CallTypes
  <1>2. DOMAIN outcome = 1..Len(posted) /\ \A i \in DOMAIN outcome : outcome[i] \in Outcome
    BY SeqFacts DEF CallTypes
  <1>. QED
    BY <1>1, <1>2 DEF CallTypes, Posted

LEMMA InitOK == Init => IInv
  <1>. SUFFICES ASSUME Init PROVE IInv
    OBVIOUS
  <1>1. /\ call = [f \in CallFields |-> call[f]]
        /\ call.pc = "idle" /\ call.number = 0 /\ call.kind = "call" /\ call.nonce = 0
        /\ call.request = 0
    <2>. DEFINE u == CHOOSE u \in Url : TRUE
    <2>1. call = [pc |-> "idle", number |-> 0, kind |-> "call", only |-> FALSE,
                  pays |-> FALSE, managers |-> {}, url |-> u, nonce |-> 0, request |-> 0,
                  errors |-> {}, result |-> "none", tried |-> << >>, candidates |-> {}]
      BY DEF Init, NewCall
    <2>. HIDE DEF u
    <2>. QED
      BY <2>1 DEF CallFields
  <1>2. posted = << >> /\ outcome = << >> /\ DOMAIN posted = {}
    BY DEF Init
  <1>3. nonce = [k \in Kind |-> 0] /\ created = FALSE /\ draft = NoDraft /\ other = 0
    BY DEF Init
  <1>4. draft \in Posted /\ draft.kind \in Kind /\ draft.nonce = 0
    BY <1>3 DEF NoDraft, Request, Posted, Kind
  <1>5. CallTypes
    <2>1. call.kind \in Kind /\ call.pc \in Pc
      BY <1>1 DEF Kind, Pc
    <2>2. posted \in Seq(Posted) /\ outcome \in Seq(Outcome) /\ Len(outcome) = Len(posted)
      BY <1>2
    <2>3. nonce \in [Kind -> Nat] /\ created \in BOOLEAN /\ other \in Nat
      BY <1>3
    <2>. QED
      BY <1>1, <1>4, <2>1, <2>2, <2>3 DEF CallTypes
  <1>6. HandMade
    BY <1>2, <1>3, <1>4 DEF HandMade
  <1>. QED
    BY <1>1, <1>2, <1>5, <1>6 DEF IInv, OneAwaited, NoncesInOrder, CreatedOnce, Awaited

-----------------------------------------------------------------------------
(* Steps of the client *)

\* The call moves on, with or without a request; nothing is posted or given up.
Quiet ==
    /\ UNCHANGED <<nonce, created, posted, outcome, lost, draft, other>>
    /\ call' = [f \in CallFields |-> call'[f]]
    /\ call'.number = call.number
    /\ call'.kind = call.kind
    /\ call'.request = call.request
    /\ call'.nonce \in Nat
    /\ \/ call.pc \in Before /\ call'.pc \in Before \cup {"done"}
       \/ call.pc \in Awaited /\ call'.pc \in Awaited \cup {"done"}

LEMMA QuietOK == IInv /\ Quiet => IInv'
  <1>. SUFFICES ASSUME IInv, Quiet PROVE IInv'
    OBVIOUS
  <1>. USE DEF IInv, Quiet
  <1>1. CallTypes'
    BY DEF CallTypes, Before, Awaited, Pc
  <1>2. OneAwaited'
    BY DEF CallTypes, OneAwaited, Before, Awaited, InProgress
  <1>3. NoncesInOrder' /\ CreatedOnce'
    BY DEF NoncesInOrder, CreatedOnce, WasExecuted
  <1>4. HandMade'
    BY DEF HandMade, NoDraft
  <1>. QED
    BY <1>1, <1>2, <1>3, <1>4

\* Request q is sent to a server, by a call or by hand.
Sends(q) ==
    /\ q \in Posted
    /\ posted' = Append(posted, q)
    /\ outcome' = Append(outcome, "none")
    /\ UNCHANGED <<nonce, created, draft, other, lost>>

LEMMA SendsFacts ==
  ASSUME CallTypes, NEW q, Sends(q)
  PROVE  /\ Len(posted) + 1 \in Nat /\ Len(posted') = Len(posted) + 1
         /\ posted' \in Seq(Posted) /\ outcome' \in Seq(Outcome)
         /\ Len(outcome') = Len(posted')
         /\ DOMAIN posted' = DOMAIN posted \cup {Len(posted) + 1}
         /\ posted'[Len(posted) + 1] = q
         /\ outcome'[Len(posted) + 1] = "none"
         /\ \A i \in DOMAIN posted :
               i < Len(posted) + 1 /\ posted'[i] = posted[i] /\ (WasExecuted(i)' <=> WasExecuted(i))
  <1>1. posted \in Seq(Posted) /\ outcome \in Seq(Outcome) /\ Len(outcome) = Len(posted)
    BY DEF CallTypes
  <1>2. /\ posted' = Append(posted, q) /\ outcome' = Append(outcome, "none")
        /\ q \in Posted /\ "none" \in Outcome
    BY DEF Sends, Outcome
  <1>3. /\ DOMAIN posted = 1..Len(posted) /\ Len(posted) \in Nat
        /\ DOMAIN outcome = 1..Len(posted)
    BY <1>1
  <1>4. outcome'[Len(posted) + 1] = "none" /\ \A i \in 1..Len(posted) : outcome'[i] = outcome[i]
    BY <1>1, <1>2, <1>3
  <1>5. /\ posted'[Len(posted) + 1] = q
        /\ \A i \in 1..Len(posted) : i < Len(posted) + 1 /\ posted'[i] = posted[i]
    BY <1>1, <1>2, <1>3
  <1>6. DOMAIN posted' = DOMAIN posted \cup {Len(posted) + 1} /\ Len(posted') = Len(posted) + 1
    BY <1>1, <1>2, <1>3
  <1>7. posted' \in Seq(Posted) /\ outcome' \in Seq(Outcome) /\ Len(outcome') = Len(posted')
    BY <1>1, <1>2, <1>3
  <1>. QED
    BY <1>3, <1>4, <1>5, <1>6, <1>7 DEF WasExecuted

\* What it takes of q to keep the order of the nonces.
LEMMA SendsOK ==
  ASSUME IInv, NEW q, Sends(q),
         q.nonce <= nonce[q.kind],
         -other <= q.number,
         q.number < 0 => q = draft /\ draft # NoDraft,
         \A i \in DOMAIN posted :
            posted[i].number = q.number /\ posted[i].kind = q.kind => posted[i].nonce <= q.nonce
  PROVE  NoncesInOrder' /\ HandMade' /\ CreatedOnce'
  <1>. USE DEF IInv
  <1>0. PICK n : n = Len(posted) + 1
    OBVIOUS
  <1>1. /\ n \in Nat
        /\ DOMAIN posted' = DOMAIN posted \cup {n}
        /\ posted'[n] = q /\ outcome'[n] = "none"
        /\ \A i \in DOMAIN posted :
              i < n /\ posted'[i] = posted[i] /\ (WasExecuted(i)' <=> WasExecuted(i))
    BY <1>0, SendsFacts
  <1>7. ~WasExecuted(n)'
    BY <1>1 DEF WasExecuted
  <1>2. nonce' = nonce /\ created' = created /\ draft' = draft /\ other' = other
    BY DEF Sends
  <1>3. DOMAIN posted \subseteq Nat /\ \A i \in DOMAIN posted : ~(n < i)
    BY <1>1, PostedFacts
  <1>4. NoncesInOrder'
    <2>1. ASSUME NEW i \in DOMAIN posted'
          PROVE  /\ posted'[i].nonce <= nonce'[posted'[i].kind]
                 /\ WasExecuted(i)' => posted'[i].nonce < nonce'[posted'[i].kind]
      BY <1>1, <1>2, <1>7 DEF NoncesInOrder
    <2>2. ASSUME NEW i \in DOMAIN posted', NEW j \in DOMAIN posted', i < j,
                 posted'[i].kind = posted'[j].kind
          PROVE  /\ WasExecuted(i)' /\ WasExecuted(j)' => posted'[i].nonce # posted'[j].nonce
                 /\ posted'[i].number = posted'[j].number => posted'[i].nonce <= posted'[j].nonce
      <3>1. i \in DOMAIN posted
        BY <1>1, <1>3, <2>2
      <3>2. CASE j = n
        BY <1>1, <1>7, <2>2, <3>1, <3>2
      <3>3. CASE j \in DOMAIN posted
        BY <1>1, <2>2, <3>1, <3>3 DEF NoncesInOrder
      <3>. QED
        BY <1>1, <3>2, <3>3
    <2>. QED
      BY <2>1, <2>2 DEF NoncesInOrder
  <1>5. HandMade'
    <2>1. (draft # NoDraft)' <=> draft # NoDraft
      BY <1>2 DEF NoDraft
    <2>2. ASSUME NEW i \in DOMAIN posted'
          PROVE  /\ -other' <= posted'[i].number
                 /\ posted'[i].number = draft'.number /\ (draft # NoDraft)' => posted'[i] = draft'
      <3>1. CASE i = n
        BY <1>1, <1>2, <2>1, <3>1 DEF HandMade
      <3>2. CASE i \in DOMAIN posted
        BY <1>1, <1>2, <2>1, <3>2 DEF HandMade
      <3>. QED
        BY <1>1, <3>1, <3>2
    <2>3. ASSUME NEW i \in DOMAIN posted, q.number < 0, posted[i].number = q.number
          PROVE  posted[i] = q
      BY <2>3 DEF HandMade
    <2>4. ASSUME NEW i \in DOMAIN posted', NEW j \in DOMAIN posted',
                 posted'[i].number = posted'[j].number, posted'[i].number < 0
          PROVE  posted'[i] = posted'[j]
      <3>1. CASE i \in DOMAIN posted /\ j \in DOMAIN posted
        BY <1>1, <2>4, <3>1 DEF HandMade
      <3>2. CASE i = n \/ j = n
        BY <1>1, <2>3, <2>4, <3>2
      <3>. QED
        BY <1>1, <3>1, <3>2
    <2>. QED
      BY <1>2, <2>1, <2>2, <2>4 DEF HandMade
  <1>6. CreatedOnce'
    BY <1>1, <1>2, <1>7 DEF CreatedOnce
  <1>. QED
    BY <1>4, <1>5, <1>6

LEMMA PostOK == IInv /\ Post => IInv'
  <1>. SUFFICES ASSUME IInv, Post PROVE IInv'
    OBVIOUS
  <1>. DEFINE q == Request(call.number, call.kind, call.nonce)
  <1>. USE DEF IInv
  <1>1. /\ q \in Posted /\ q.number = call.number /\ q.kind = call.kind /\ q.nonce = call.nonce
        /\ call.nonce = nonce[call.kind] /\ call.pc = "check"
        /\ call.number \in Nat /\ call.nonce \in Nat /\ call.kind \in Kind
    BY DEF CallTypes, Post, Posted, IsCurrent, Request
  <1>2. Sends(q)
    BY <1>1 DEF Sends, Post
  <1>. HIDE DEF q
  <1>3. PICK n : n = Len(posted) + 1
    OBVIOUS
  <1>4. /\ call'.pc = "answer" /\ call'.number = call.number /\ call'.kind = call.kind
        /\ call'.nonce = call.nonce /\ call'.request = n
        /\ call' = [f \in CallFields |-> call'[f]]
    BY <1>3 DEF CallTypes, Post, CallFields
  <1>5. NoncesInOrder' /\ HandMade' /\ CreatedOnce'
    <2>1. q.nonce <= nonce[q.kind]
      BY <1>1
    <2>2. -other <= q.number /\ ~(q.number < 0)
      BY <1>1 DEF CallTypes
    <2>3. \A i \in DOMAIN posted : posted[i].kind = q.kind => posted[i].nonce <= q.nonce
      BY <1>1 DEF NoncesInOrder
    <2>. QED
      BY <1>2, <2>1, <2>2, <2>3, SendsOK
  <1>6. /\ n \in Nat /\ Len(posted') = n
        /\ posted' \in Seq(Posted) /\ outcome' \in Seq(Outcome) /\ Len(outcome') = Len(posted')
        /\ DOMAIN posted' = DOMAIN posted \cup {n}
        /\ posted'[n] = q
        /\ \A i \in DOMAIN posted : i < n /\ posted'[i] = posted[i]
    BY <1>2, <1>3, SendsFacts
  <1>7. lost' = lost /\ nonce' = nonce /\ created' = created /\ draft' = draft /\ other' = other
    BY <1>2 DEF Sends
  <1>8. CallTypes'
    BY <1>1, <1>4, <1>6, <1>7 DEF CallTypes, Pc
  <1>9. OneAwaited'
    <2>1. \A i \in DOMAIN posted :
             /\ posted[i].number <= call.number
             /\ posted[i].number = call.number => posted[i].kind = call.kind /\ i \in lost
      BY <1>1 DEF OneAwaited, InProgress, Awaited
    <2>2. ASSUME NEW i \in DOMAIN posted'
          PROVE  /\ posted'[i].number <= call'.number
                 /\ posted'[i].number = call'.number =>
                       posted'[i].kind = call'.kind /\ (i \in lost' \/ i = call'.request)
      BY <1>1, <1>4, <1>6, <1>7, <2>1
    <2>3. ASSUME NEW i \in DOMAIN posted', NEW j \in DOMAIN posted', i < j,
                 posted'[i].number = posted'[j].number, posted'[i].number >= 0
          PROVE  posted'[i].kind = posted'[j].kind /\ i \in lost'
      <3>1. i \in DOMAIN posted
        BY <1>6, <2>3, PostedFacts
      <3>2. CASE j = n
        BY <1>1, <1>6, <1>7, <2>1, <2>3, <3>1, <3>2
      <3>3. CASE j \in DOMAIN posted
        BY <1>6, <1>7, <2>3, <3>1, <3>3 DEF OneAwaited
      <3>. QED
        BY <1>6, <3>2, <3>3
    <2>4. call'.pc \in Awaited /\ call'.request \in DOMAIN posted'
      BY <1>4, <1>6 DEF Awaited
    <2>. QED
      BY <2>2, <2>3, <2>4 DEF OneAwaited
  <1>. QED
    BY <1>5, <1>8, <1>9

\* A relay is given up with the request it was sent.
LEMMA GiveUpOK == IInv /\ GiveUp => IInv'
  <1>. SUFFICES ASSUME IInv, GiveUp PROVE IInv'
    OBVIOUS
  <1>. USE PostedFacts DEF IInv
  <1>1. /\ UNCHANGED <<nonce, created, posted, outcome, draft, other>>
        /\ lost' = lost \cup {call.request}
        /\ call.pc = "answer"
        /\ call' = [call EXCEPT !.pc = "select", !.errors = @ \cup {call.url}]
    BY DEF GiveUp, RelayFails, chainVars
  <1>2. /\ call'.pc = "select" /\ call'.number = call.number /\ call'.kind = call.kind
        /\ call'.nonce = call.nonce /\ call'.request = call.request
        /\ call' = [f \in CallFields |-> call'[f]]
    BY <1>1 DEF CallTypes, CallFields
  <1>3. CallTypes'
    BY <1>1, <1>2 DEF CallTypes, Pc
  <1>4. OneAwaited'
    BY <1>1, <1>2 DEF OneAwaited, InProgress, Awaited
  <1>5. NoncesInOrder' /\ CreatedOnce'
    BY <1>1 DEF NoncesInOrder, CreatedOnce, WasExecuted
  <1>6. HandMade'
    BY <1>1 DEF HandMade, NoDraft
  <1>. QED
    BY <1>3, <1>4, <1>5, <1>6

\* A new call, or one that is rejected at once, has a number no request has.
Starts(c) ==
    /\ c.pc \in {"fetch", "done"} /\ c.number = call.number + 1
    /\ c.kind \in Kind /\ c.nonce = 0 /\ c.request = 0
    /\ c = [f \in CallFields |-> c[f]]

LEMMA NewCallStarts ==
  ASSUME NEW kind \in Kind, NEW only \in BOOLEAN, NEW pays \in BOOLEAN
  PROVE  /\ Starts(NewCall(call.number + 1, kind, only, pays))
         /\ Starts([NewCall(call.number + 1, kind, only, pays) EXCEPT
                       !.pc = "done", !.result = "rejected"])
  <1>. DEFINE u == CHOOSE u \in Url : TRUE
              c == [pc |-> "fetch", number |-> call.number + 1, kind |-> kind,
                    only |-> only, pays |-> pays, managers |-> {}, url |-> u, nonce |-> 0,
                    request |-> 0, errors |-> {}, result |-> "none", tried |-> << >>,
                    candidates |-> {}]
  <1>1. NewCall(call.number + 1, kind, only, pays) = c
    BY DEF NewCall
  <1>. HIDE DEF u
  <1>2. Starts(c)
    BY DEF Starts, CallFields
  <1>3. Starts([c EXCEPT !.pc = "done", !.result = "rejected"])
    BY DEF Starts, CallFields
  <1>. HIDE DEF c
  <1>. QED
    BY <1>1, <1>2, <1>3

LEMMA StartsOK ==
  ASSUME IInv, Starts(call'), UNCHANGED <<nonce, created, posted, outcome, lost, draft, other>>
  PROVE  IInv'
  <1>. USE PostedFacts DEF IInv
  <1>1. CallTypes'
    BY DEF CallTypes, Pc, Starts
  <1>2. OneAwaited'
    <2>1. \A i \in DOMAIN posted : posted[i].number < call'.number
      <3>1. \A i \in DOMAIN posted : posted[i].number <= call.number
        BY DEF OneAwaited
      <3>2. call.number \in Nat /\ \A i \in DOMAIN posted : posted[i].number \in Int
        BY DEF CallTypes
      <3>. QED
        BY <3>1, <3>2 DEF Starts
    <2>2. \A i \in DOMAIN posted :
             posted[i].number <= call'.number /\ posted[i].number # call'.number
      BY <1>1, <2>1 DEF CallTypes
    <2>. QED
      BY <2>2 DEF OneAwaited, Awaited, Starts
  <1>3. NoncesInOrder' /\ CreatedOnce'
    BY DEF NoncesInOrder, CreatedOnce, WasExecuted
  <1>4. HandMade'
    BY DEF HandMade, NoDraft
  <1>. QED
    BY <1>1, <1>2, <1>3, <1>4

LEMMA RelayTransactionOK ==
  ASSUME IInv, NEW kind \in Kind, NEW only \in BOOLEAN, NEW pays \in BOOLEAN,
         RelayTransaction(kind, only, pays)
  PROVE  IInv'
  <1>1. call' = NewCall(call.number + 1, kind, only, pays)
    BY DEF RelayTransaction
  <1>2. UNCHANGED <<nonce, created, posted, outcome, lost, draft, other>>
    BY DEF RelayTransaction, chainVars
  <1>. QED
    BY <1>1, <1>2, NewCallStarts, StartsOK

LEMMA DeploySmartWalletOK ==
  ASSUME IInv, NEW only \in BOOLEAN, NEW pays \in BOOLEAN, NEW addressKnown \in BOOLEAN,
         DeploySmartWallet(only, pays, addressKnown)
  PROVE  IInv'
  <1>. USE DEF Kind
  <1>1. CASE RelayTransaction("deploy", only, pays)
    BY <1>1, RelayTransactionOK
  <1>2. CASE ~RelayTransaction("deploy", only, pays)
    <2>1. call' = [NewCall(call.number + 1, "deploy", only, pays) EXCEPT
                      !.pc = "done", !.result = "rejected"]
      BY <1>2 DEF DeploySmartWallet
    <2>2. UNCHANGED <<nonce, created, posted, outcome, lost, draft, other>>
      BY <1>2 DEF DeploySmartWallet, chainVars
    <2>. QED
      BY <2>1, <2>2, NewCallStarts, StartsOK
  <1>. QED
    BY <1>1, <1>2

\* The number of a new request made by hand is below those of all the others.
LEMMA CreateRequestOK ==
  ASSUME IInv, NEW kind \in Kind, CreateRequest(kind)
  PROVE  IInv'
  <1>. USE PostedFacts DEF IInv
  <1>1. /\ UNCHANGED <<call, nonce, created, posted, outcome, lost>>
        /\ other' = other + 1 /\ draft' = Request(-(other + 1), kind, nonce[kind])
    BY DEF CreateRequest
  <1>2. /\ draft'.number = -(other + 1) /\ draft'.kind = kind /\ draft'.nonce = nonce[kind]
        /\ draft' \in Posted /\ other \in Nat /\ other' \in Nat
    <2>1. other \in Nat /\ nonce[kind] \in Nat
      BY DEF CallTypes
    <2>2. -(other + 1) \in Int /\ other + 1 \in Nat
      BY <2>1
    <2>. QED
      BY <1>1, <2>1, <2>2 DEF Request, Posted
  <1>3. CallTypes'
    BY <1>1, <1>2 DEF CallTypes
  <1>4. OneAwaited'
    BY <1>1 DEF OneAwaited, InProgress
  <1>5. NoncesInOrder' /\ CreatedOnce'
    BY <1>1 DEF NoncesInOrder, CreatedOnce, WasExecuted
  <1>6. HandMade'
    <2>1. \A i \in DOMAIN posted : -other' <= posted[i].number /\ posted[i].number # draft'.number
      <3>1. \A i \in DOMAIN posted : -other <= posted[i].number /\ posted[i].number \in Int
        BY DEF HandMade
      <3>. QED
        BY <1>1, <1>2, <3>1
    <2>2. draft'.number < 0 /\ -other' <= draft'.number
      BY <1>1, <1>2
    <2>3. draft'.nonce <= nonce'[draft'.kind]
      BY <1>1, <1>2 DEF CallTypes
    <2>. QED
      BY <1>1, <2>1, <2>2, <2>3 DEF HandMade
  <1>. QED
    BY <1>3, <1>4, <1>5, <1>6

LEMMA SendTransactionOK == IInv /\ SendTransaction => IInv'
  <1>. SUFFICES ASSUME IInv, SendTransaction PROVE IInv'
    OBVIOUS
  <1>. USE DEF IInv
  <1>1. draft # NoDraft /\ draft \in Posted /\ call' = call
    BY DEF SendTransaction, CallTypes
  <1>2. Sends(draft)
    BY <1>1 DEF Sends, SendTransaction
  <1>3. PICK n : n = Len(posted) + 1
    OBVIOUS
  <1>4. /\ n \in Nat /\ Len(posted') = n
        /\ posted' \in Seq(Posted) /\ outcome' \in Seq(Outcome) /\ Len(outcome') = Len(posted')
        /\ DOMAIN posted' = DOMAIN posted \cup {n}
        /\ posted'[n] = draft
        /\ \A i \in DOMAIN posted : i < n /\ posted'[i] = posted[i]
    BY <1>2, <1>3, SendsFacts
  <1>5. lost' = lost /\ nonce' = nonce /\ created' = created /\ draft' = draft /\ other' = other
    BY <1>2 DEF Sends
  <1>6. draft.number < 0 /\ draft.number \in Int /\ call.number \in Nat
    BY <1>1 DEF HandMade, CallTypes, Posted
  <1>7. NoncesInOrder' /\ HandMade' /\ CreatedOnce'
    <2>1. draft.nonce <= nonce[draft.kind] /\ -other <= draft.number
      BY <1>1 DEF HandMade
    <2>2. \A i \in DOMAIN posted : posted[i].number = draft.number => posted[i].nonce <= draft.nonce
      <3>1. draft.nonce \in Nat
        BY <1>1 DEF Posted
      <3>. QED
        BY <1>1, <3>1 DEF HandMade
    <2>. QED
      BY <1>1, <1>2, <2>1, <2>2, SendsOK
  <1>8. CallTypes'
    BY <1>1, <1>4, <1>5 DEF CallTypes
  <1>9. OneAwaited'
    <2>1. ASSUME NEW i \in DOMAIN posted'
          PROVE  /\ posted'[i].number <= call.number
                 /\ posted'[i].number = call.number /\ InProgress =>
                       /\ posted'[i].kind = call.kind
                       /\ i \in lost \/ (call.pc \in Awaited /\ i = call.request)
      <3>1. CASE i = n
        BY <1>4, <1>6, <3>1
      <3>2. CASE i \in DOMAIN posted
        BY <1>4, <3>2 DEF OneAwaited
      <3>. QED
        BY <1>4, <3>1, <3>2
    <2>2. ASSUME NEW i \in DOMAIN posted', NEW j \in DOMAIN posted', i < j,
                 posted'[i].number = posted'[j].number, posted'[i].number >= 0
          PROVE  posted'[i].kind = posted'[j].kind /\ i \in lost
      <3>1. i \in DOMAIN posted /\ j \in DOMAIN posted
        BY <1>4, <1>6, <2>2
      <3>. QED
        BY <1>4, <2>2, <3>1 DEF OneAwaited
    <2>3. call.pc \in Awaited => call.request \in DOMAIN posted'
      BY <1>4 DEF OneAwaited
    <2>. QED
      BY <1>1, <1>5, <2>1, <2>2, <2>3 DEF OneAwaited, InProgress
  <1>. QED
    BY <1>7, <1>8, <1>9

-----------------------------------------------------------------------------
(* Steps of the chain *)

\* OneAwaited speaks of the client only.
LEMMA ChainKeepsAwaited ==
  OneAwaited /\ UNCHANGED <<call, posted, lost>> => OneAwaited'
  BY DEF OneAwaited, InProgress

\* The request that is executed carries the current nonce, which no request that was
\* executed before does.
LEMMA ExecutesOK ==
  ASSUME IInv, NEW k \in DOMAIN posted, Executes(k)
  PROVE  IInv'
  <1>. USE PostedFacts DEF IInv
  <1>. DEFINE kind == posted[k].kind
  <1>1. /\ UNCHANGED <<call, posted, lost, draft, other>>
        /\ kind \in Kind /\ posted[k].nonce = nonce[kind]
        /\ kind = "deploy" => ~created
        /\ nonce' = [nonce EXCEPT ![kind] = @ + 1]
        /\ created' = (created \/ kind = "deploy")
        /\ \E o \in Outcome : outcome' = [outcome EXCEPT ![k] = o]
    BY DEF Executes, IsCurrent, Outcome
  <1>2. \A i \in DOMAIN posted : i # k => (WasExecuted(i)' <=> WasExecuted(i))
    BY <1>1 DEF WasExecuted
  <1>3. \A x \in Kind : nonce[x] \in Nat /\ nonce'[x] = IF x = kind THEN nonce[x] + 1 ELSE nonce[x]
    BY <1>1 DEF CallTypes
  <1>4. CallTypes'
    <2>1. outcome' \in Seq(Outcome) /\ Len(outcome') = Len(posted)
      BY <1>1 DEF CallTypes
    <2>2. nonce' \in [Kind -> Nat] /\ created' \in BOOLEAN
      BY <1>1, <1>3 DEF CallTypes
    <2>. QED
      BY <1>1, <2>1, <2>2 DEF CallTypes
  <1>5. OneAwaited'
    BY <1>1, ChainKeepsAwaited
  <1>6. NoncesInOrder'
    <2>1. \A i \in DOMAIN posted : posted[i].kind = kind => posted[i].nonce < nonce'[kind]
      BY <1>1, <1>3 DEF NoncesInOrder
    <2>2. \A i \in DOMAIN posted : i # k /\ WasExecuted(i) /\ posted[i].kind = kind =>
             posted[i].nonce # posted[k].nonce
      BY <1>1 DEF NoncesInOrder
    <2>3. ASSUME NEW i \in DOMAIN posted
          PROVE  /\ posted[i].nonce <= nonce'[posted[i].kind]
                 /\ WasExecuted(i)' => posted[i].nonce < nonce'[posted[i].kind]
      <3>1. CASE posted[i].kind = kind
        BY <1>3, <2>1, <3>1
      <3>2. CASE posted[i].kind # kind
        BY <1>2, <1>3, <3>2 DEF NoncesInOrder
      <3>. QED
        BY <3>1, <3>2
    <2>4. ASSUME NEW i \in DOMAIN posted, NEW j \in DOMAIN posted, i < j,
                 posted[i].kind = posted[j].kind
          PROVE  /\ WasExecuted(i)' /\ WasExecuted(j)' => posted[i].nonce # posted[j].nonce
                 /\ posted[i].number = posted[j].number => posted[i].nonce <= posted[j].nonce
      <3>1. posted[i].number = posted[j].number => posted[i].nonce <= posted[j].nonce
        BY <2>4 DEF NoncesInOrder
      <3>2. CASE i # k /\ j # k
        BY <1>2, <2>4, <3>1, <3>2 DEF NoncesInOrder
      <3>3. CASE i = k \/ j = k
        BY <1>2, <2>2, <2>4, <3>1, <3>3
      <3>. QED
        BY <3>2, <3>3
    <2>. QED
      BY <1>1, <2>3, <2>4 DEF NoncesInOrder
  <1>7. CreatedOnce'
    <2>1. \A i \in DOMAIN posted : WasExecuted(i)' /\ posted[i].kind = "deploy" => created'
      BY <1>1, <1>2 DEF CreatedOnce
    <2>2. ASSUME NEW i \in DOMAIN posted, NEW j \in DOMAIN posted,
                 WasExecuted(i)', WasExecuted(j)',
                 posted[i].kind = "deploy", posted[j].kind = "deploy"
          PROVE  i = j
      <3>1. CASE i # k /\ j # k
        BY <1>2, <2>2, <3>1 DEF CreatedOnce
      <3>2. CASE i = k \/ j = k
        BY <1>1, <1>2, <2>2, <3>2 DEF CreatedOnce
      <3>. QED
        BY <3>1, <3>2
    <2>. QED
      BY <1>1, <2>1, <2>2 DEF CreatedOnce
  <1>8. HandMade'
    <2>1. draft.kind \in Kind /\ draft.nonce \in Nat
      BY DEF CallTypes, Posted
    <2>2. draft.nonce <= nonce'[draft.kind]
      BY <1>3, <2>1 DEF HandMade
    <2>. QED
      BY <1>1, <2>2 DEF HandMade, NoDraft
  <1>. QED
    BY <1>4, <1>5, <1>6, <1>7, <1>8

\* A transaction that reverts, and what the user does elsewhere.
LEMMA RevertsOK ==
  ASSUME IInv, Reverts
  PROVE  IInv'
  <1>. DEFINE k == call.request
  <1>. USE PostedFacts DEF IInv
  <1>1. /\ UNCHANGED <<call, nonce, created, posted, lost, draft, other>>
        /\ k \in DOMAIN posted /\ outcome[k] = "none"
        /\ outcome' = [outcome EXCEPT ![k] = "reverted"]
    BY DEF Reverts, OneAwaited, Awaited
  <1>. HIDE DEF k
  <1>2. \A i \in DOMAIN posted : WasExecuted(i)' <=> WasExecuted(i)
    BY <1>1 DEF WasExecuted
  <1>3. CallTypes'
    <2>1. outcome' \in Seq(Outcome) /\ Len(outcome') = Len(posted)
      BY <1>1 DEF CallTypes, Outcome
    <2>. QED
      BY <1>1, <2>1 DEF CallTypes
  <1>4. OneAwaited'
    BY <1>1, ChainKeepsAwaited
  <1>5. NoncesInOrder' /\ CreatedOnce'
    BY <1>1, <1>2 DEF NoncesInOrder, CreatedOnce
  <1>6. HandMade'
    BY <1>1 DEF HandMade, NoDraft
  <1>. QED
    BY <1>3, <1>4, <1>5, <1>6

LEMMA ActsElsewhereOK ==
  ASSUME IInv, NEW kind \in Kind, ActsElsewhere(kind)
  PROVE  IInv'
  <1>. USE PostedFacts DEF IInv
  <1>1. /\ UNCHANGED <<call, posted, outcome, lost, draft>>
        /\ other' = other + 1
        /\ nonce' = [nonce EXCEPT ![kind] = @ + 1]
        /\ created' \in {created, created \/ kind = "deploy"}
    BY DEF ActsElsewhere
  <1>2. \A x \in Kind : /\ nonce[x] \in Nat /\ nonce'[x] \in Nat
                         /\ nonce[x] <= nonce'[x]
    BY <1>1 DEF CallTypes
  <1>3. created' \in BOOLEAN /\ (created => created')
    BY <1>1 DEF CallTypes
  <1>4. CallTypes'
    BY <1>1, <1>2, <1>3 DEF CallTypes
  <1>5. OneAwaited'
    BY <1>1, ChainKeepsAwaited
  <1>6. NoncesInOrder'
    <2>1. ASSUME NEW i \in DOMAIN posted
          PROVE  /\ posted[i].nonce <= nonce'[posted[i].kind]
                 /\ WasExecuted(i) => posted[i].nonce < nonce'[posted[i].kind]
      BY <1>2 DEF NoncesInOrder
    <2>. QED
      BY <1>1, <2>1 DEF NoncesInOrder, WasExecuted
  <1>7. CreatedOnce'
    BY <1>1, <1>3 DEF CreatedOnce, WasExecuted
  <1>8. HandMade'
    <2>1. draft.kind \in Kind /\ draft.nonce \in Nat /\ draft.number \in Int /\ other \in Nat
      BY DEF CallTypes, Posted
    <2>2. draft.nonce <= nonce'[draft.kind]
      BY <1>2, <2>1 DEF HandMade
    <2>3. \A n \in Int : -other <= n => -other' <= n
      BY <1>1, <2>1
    <2>. QED
      BY <1>1, <2>1, <2>2, <2>3 DEF HandMade, NoDraft
  <1>. QED
    BY <1>4, <1>5, <1>6, <1>7, <1>8

-----------------------------------------------------------------------------
(* All together *)

\* Every step of the client but Post and GiveUp.
LEMMA QuietSteps ==
  ASSUME CallTypes, Step
  PROVE  Quiet \/ Post \/ GiveUp
  <1>. USE DEF CallTypes, CallFields, Quiet, chainVars, Before, Awaited, Done, RelayFails
  <1>1. CASE FetchRecentlyActive
    BY <1>1 DEF FetchRecentlyActive
  <1>2. CASE LookupRelays
    BY <1>2 DEF LookupRelays
  <1>3. CASE CalculateGasPrice \/ EstimateDestinationContractCallGas
    BY <1>3 DEF CalculateGasPrice, EstimateDestinationContractCallGas
  <1>4. CASE StartSelection
    BY <1>4 DEF StartSelection
  <1>5. CASE SelectNextRelay
    BY <1>5 DEF SelectNextRelay
  <1>6. ASSUME NEW i \in sel.waiting, PingFails(i) PROVE Quiet
    BY <1>6 DEF PingFails
  <1>7. ASSUME NEW i \in sel.waiting, PingReady(i) PROVE Quiet
    BY <1>7 DEF PingReady
  <1>8. ASSUME NEW m \in Manager, FindWinner(m) PROVE Quiet
    BY <1>8 DEF FindWinner
  <1>9. CASE NodeFails \/ EstimateTokenTransferGasFails
    BY <1>9 DEF NodeFails, EstimateTokenTransferGasFails
  <1>10. CASE PrepareRelayHttpRequest \/ PrepareDeployHttpRequest
    BY <1>10 DEF PrepareRelayHttpRequest, PrepareDeployHttpRequest, Prepare, Kind
  <1>11. CASE SignFails \/ AttemptFails
    BY <1>11 DEF SignFails, AttemptFails
  <1>12. CASE Post
    BY <1>12
  <1>13. CASE BadAnswer \/ Refused
    BY <1>13 DEF BadAnswer, Refused
  <1>14. CASE GoodAnswer
    BY <1>14 DEF GoodAnswer
  <1>15. CASE Broadcast
    BY <1>15 DEF Broadcast
  <1>16. CASE Receipt \/ NoReceipt
    BY <1>16 DEF Receipt, NoReceipt
  <1>. QED
    BY <1>1, <1>2, <1>3, <1>4, <1>5, <1>6, <1>7, <1>8, <1>9, <1>10, <1>11, <1>12,
       <1>13, <1>14, <1>15, <1>16 DEF Step

LEMMA UserSteps ==
  ASSUME IInv, User
  PROVE  IInv'
  <1>1. ASSUME NEW only \in BOOLEAN, NEW pays \in BOOLEAN, EthSendTransaction(only, pays)
        PROVE  IInv'
    BY <1>1, RelayTransactionOK DEF EthSendTransaction, Kind
  <1>. QED
    BY <1>1, DeploySmartWalletOK, CreateRequestOK, SendTransactionOK DEF User

LEMMA NextOK == IInv /\ [Next]_vars => IInv'
  <1>. SUFFICES ASSUME IInv, [Next]_vars PROVE IInv'
    OBVIOUS
  <1>1. CASE User
    BY <1>1, UserSteps
  <1>2. CASE Step
    BY <1>2, QuietSteps, QuietOK, PostOK, GiveUpOK DEF IInv
  <1>3. CASE Chain
    BY <1>3, ExecutesOK, RevertsOK, ActsElsewhereOK DEF Chain
  <1>4. CASE UNCHANGED vars
    BY <1>4 DEF vars, chainVars, IInv, CallTypes, OneAwaited, NoncesInOrder, CreatedOnce,
                HandMade, NoDraft, InProgress, WasExecuted
  <1>. QED
    BY <1>1, <1>2, <1>3, <1>4 DEF Next

LEMMA Invariance == Spec => []IInv
  BY InitOK, NextOK, PTL DEF Spec

\* What the user asked for once is executed twice only when a relay was given up that
\* held the request, and then under a later nonce; a wallet is never created twice.
THEOREM RepeatedOnlyAfterGivingUp == Spec => []RepeatedOnlyAfterLoss
  <1>1. IInv => RepeatedOnlyAfterLoss
    <2>. SUFFICES ASSUME IInv, NEW i \in DOMAIN posted, NEW j \in DOMAIN posted,
                         i < j, posted[i].number = posted[j].number,
                         WasExecuted(i), WasExecuted(j)
                  PROVE  /\ i \in lost
                         /\ posted[i].nonce < posted[j].nonce
                         /\ posted[i].kind = "call"
      BY DEF RepeatedOnlyAfterLoss
    <2>. USE PostedFacts DEF IInv
    <2>0. posted[i].kind = posted[j].kind => posted[i].nonce # posted[j].nonce
      BY DEF NoncesInOrder
    <2>1. i \in lost /\ posted[i].kind = posted[j].kind
      <3>1. posted[i].number >= 0
        BY <2>0 DEF HandMade
      <3>. QED
        BY <3>1 DEF OneAwaited
    <2>2. posted[i].nonce <= posted[j].nonce /\ posted[i].nonce # posted[j].nonce
      BY <2>0, <2>1 DEF NoncesInOrder
    <2>3. posted[i].kind # "deploy"
      BY <2>1 DEF CreatedOnce
    <2>. QED
      BY <2>1, <2>2, <2>3 DEF Kind
  <1>. QED
    BY <1>1, Invariance, PTL

-----------------------------------------------------------------------------
(* What a call asks for next: of the relays it has, those it has not removed *)

KnownFields == {"parts", "preferred", "all", "failures"}
SelFields == {"lists", "removed", "index", "list", "slice", "waiting", "failed", "errors"}

IsList(s) == s \in Seq(ToSet(s))

\* Where a call has no lists of relays yet, and where it is with one relay.
Early == {"fetch", "lookup", "gasPrice", "estimate", "start"}
Late  == {"winner", "attempt", "check"} \cup Awaited

\* The records have their fields; the lists are lists.
SelectionTypes ==
    /\ call = [f \in CallFields |-> call[f]] /\ call.pc \in Pc
    /\ known = [f \in KnownFields |-> known[f]]
    /\ sel = [f \in SelFields |-> sel[f]]
    /\ log \in Seq(Event)
    /\ known.preferred \in Seq(Relay) /\ known.all \in Seq(Relay)
    /\ sel.lists = <<sel.lists[1], sel.lists[2]>> /\ sel.list \in {1, 2}
    /\ IsList(sel.lists[1]) /\ IsList(sel.lists[2])
    /\ IsList(call.tried)

UrlsOf(l) == {sel.lists[l][i].url : i \in 1..Len(sel.lists[l])}

\* Relays that were tried are removed, and the relays of a race are not.
TriedAreRemoved ==
    /\ IsInjective(call.tried)
    /\ call.pc \in Early => call.tried = << >>
    /\ call.pc \in {"select", "race"} \cup Late => ToSet(call.tried) \subseteq sel.removed
    /\ call.pc = "race" => sel.waiting \subseteq sel.slice /\ sel.slice \subseteq Remaining(sel.list)

\* Relays that are removed have failed, but for the one that is tried; the others
\* are in the lists.
RemovedHaveFailed ==
    /\ call.pc \in {"select", "race"} \cup Late =>
          /\ call.candidates \subseteq UrlsOf(1) \cup UrlsOf(2)
          /\ sel.removed \subseteq sel.errors \cup call.errors
                                   \cup (IF call.pc \in Late THEN {call.url} ELSE {})
    /\ call.result = "failed" => call.pc = "done" /\ EveryRelayTried

SelectionInv == SelectionTypes /\ TriedAreRemoved /\ RemovedHaveFailed

-----------------------------------------------------------------------------
(* The relays that are known *)

LEMMA ApplyEventType ==
  ASSUME NEW relays \in Seq(Relay), NEW e \in Event
  PROVE  ApplyEvent(relays, e) \in Seq(Relay)
  <1>. DEFINE relay == [url |-> e.url, manager |-> e.manager]
  <1>1. relay \in Relay
    BY DEF Event, Relay
  <1>2. \A V : Keep(relays, V) \in Seq(Relay)
    BY KeepFacts
  <1>3. [i \in DOMAIN relays |-> IF relays[i].manager = e.manager THEN relay ELSE relays[i]]
           \in Seq(Relay)
    BY <1>1
  <1>4. Append(relays, relay) \in Seq(Relay)
    BY <1>1
  <1>. QED
    BY <1>2, <1>3, <1>4 DEF ApplyEvent

LEMMA MergedEventsType ==
  ASSUME log \in Seq(Event), NEW managers
  PROVE  MergedEvents(managers) \in Seq(Event)
  BY KeepFacts DEF MergedEvents, EventsOf

\* RelayInfoForManagers is what the events make of no relays, one after the other.
LEMMA RelayInfoSteps ==
  ASSUME log \in Seq(Event), NEW managers, NEW E, E = MergedEvents(managers)
  PROVE  \E H : /\ H[0] = << >>
                /\ \A i \in 1..Len(E) : H[i] = ApplyEvent(H[i-1], E[i])
                /\ \A i \in 0..Len(E) : H[i] \in Seq(Relay)
                /\ RelayInfoForManagers(managers) = H[Len(E)]
  <1>1. E \in Seq(Event)
    BY MergedEventsType
  <1>2. PICK n \in Nat : n = Len(E)
    BY <1>1
  <1>3. PICK SS : SS = Seq(Relay)
    OBVIOUS
  <1>4. PICK G : G = [i \in 1..n |-> [t \in SS |-> ApplyEvent(t, E[i])]]
    OBVIOUS
  <1>5. \A i \in 1..n : E[i] \in Event
    BY <1>1, <1>2
  <1>6. \A i \in 1..n, t \in SS : ApplyEvent(t, E[i]) \in SS
    BY <1>3, <1>5, ApplyEventType
  <1>7. G \in [1..n -> [SS -> SS]] /\ \A i \in 1..n, t \in SS : G[i][t] = ApplyEvent(t, E[i])
    BY <1>4, <1>6
  <1>8. << >> \in Seq(Relay)
    OBVIOUS
  <1>9. PICK e \in SS : e = << >>
    BY <1>3, <1>8, Zenon
  <1>10. PICK f : Iterates(n, SS, e, G, f)
    BY <1>7, <1>9, RecursionExists, Zenon
  <1>11. f \in [0..n -> SS] /\ f[0] = << >> /\ \A i \in 1..n : f[i] = G[i][f[i-1]]
    BY <1>9, <1>10 DEF Iterates
  <1>12. \A i \in 1..n : f[i] = ApplyEvent(f[i-1], E[i])
    <2>. SUFFICES ASSUME NEW i \in 1..n PROVE f[i] = ApplyEvent(f[i-1], E[i])
      OBVIOUS
    <2>1. i - 1 \in 0..n
      OBVIOUS
    <2>2. f[i-1] \in SS
      BY <1>11, <2>1
    <2>. QED
      BY <1>7, <1>11, <2>2
  <1>. DEFINE R(F) == F = [i \in 0..Len(E) |-> IF i = 0 THEN << >> ELSE ApplyEvent(F[i-1], E[i])]
              H == CHOOSE F : R(F)
  <1>13. R(f)
    <2>1. f = [i \in 0..n |-> f[i]]
      BY <1>11
    <2>2. \A i \in 0..n : i # 0 => i \in 1..n
      OBVIOUS
    <2>3. \A i \in 0..n : f[i] = IF i = 0 THEN << >> ELSE ApplyEvent(f[i-1], E[i])
      BY <1>11, <1>12, <2>2
    <2>. QED
      BY <1>2, <2>1, <2>3
  <1>14. R(H)
    <2>. HIDE DEF R
    <2>. QED
      BY <1>13
  <1>15. RelayInfoForManagers(managers) = H[Len(E)]
    BY DEF RelayInfoForManagers, FoldOver
  <1>16. H[0] = << >> /\ \A i \in 1..Len(E) : H[i] = ApplyEvent(H[i-1], E[i])
    <2>1. PICK F : F = H
      OBVIOUS
    <2>2. R(F)
      BY <1>14, <2>1
    <2>3. F[0] = << >>
      BY <1>2, <2>2
    <2>4. \A i \in 1..Len(E) : F[i] = ApplyEvent(F[i-1], E[i])
      <3>1. \A i \in 1..Len(E) : i \in 0..Len(E) /\ i # 0
        BY <1>2
      <3>. QED
        BY <2>2, <3>1
    <2>. HIDE DEF H
    <2>. QED
      BY <2>1, <2>3, <2>4
  <1>. HIDE DEF H
  <1>17. \A i \in 0..n : H[i] \in SS
    <2>. DEFINE P == {i \in 0..n : H[i] \in SS}
    <2>1. 0 \in P
      BY <1>9, <1>16
    <2>2. ASSUME NEW k \in 1..n, k-1 \in P PROVE k \in P
      <3>1. H[k] = ApplyEvent(H[k-1], E[k]) /\ H[k-1] \in SS
        BY <1>2, <1>16, <2>2
      <3>. QED
        BY <1>6, <3>1
    <2>. HIDE DEF P
    <2>3. \A k \in 0..n : k \in P
      BY <2>1, <2>2, SetInduction
    <2>. QED
      BY <2>3 DEF P
  <1>. QED
    BY <1>2, <1>3, <1>15, <1>16, <1>17

LEMMA RelayInfoType ==
  ASSUME log \in Seq(Event), NEW managers
  PROVE  RelayInfoForManagers(managers) \in Seq(Relay)
  <1>1. PICK E : E = MergedEvents(managers) /\ E \in Seq(Event)
    BY MergedEventsType
  <1>2. Len(E) \in 0..Len(E)
    BY <1>1
  <1>. QED
    BY <1>1, <1>2, RelayInfoSteps

LEMMA ListsAreLists ==
  ASSUME NEW S, NEW s \in Seq(S)
  PROVE  IsList(s)
  <1>1. PICK n \in Nat : n = Len(s)
    OBVIOUS
  <1>2. s = [i \in 1..n |-> s[i]]
    BY <1>1
  <1>3. \A i \in 1..n : s[i] \in ToSet(s)
    BY <1>1 DEF ToSet
  <1>. QED
    BY <1>1, <1>2, <1>3 DEF IsList

LEMMA InsertAtType ==
  ASSUME NEW S, NEW s \in Seq(S), NEW i \in 1..(Len(s) + 1), NEW r \in S
  PROVE  InsertAt(s, i, r) \in Seq(S)
  <1>1. SubSeq(s, 1, i - 1) \in Seq(S)
    OBVIOUS
  <1>2. SubSeq(s, i, Len(s)) \in Seq(S)
    OBVIOUS
  <1>3. << r >> \in Seq(S)
    OBVIOUS
  <1>. QED
    BY <1>1, <1>2, <1>3 DEF InsertAt

\* Sorting inserts the relays one after the other, each at a place of the list.
LEMMA SortedType ==
  ASSUME NEW relays \in Seq(Relay)
  PROVE  Sorted(relays) \in Seq(Relay)
  <1>. DEFINE fails(r) == known.failures[r.url]
              NotAfter(s, r) == {i \in DOMAIN s : fails(s[i]) <= fails(r)}
              Insert(s, r) == InsertAt(s, Cardinality(NotAfter(s, r)) + 1, r)
  <1>1. PICK n \in Nat : n = Len(relays)
    OBVIOUS
  <1>2. PICK SS : SS = Seq(Relay)
    OBVIOUS
  <1>3. \A i \in 1..n : relays[i] \in Relay
    BY <1>1
  <1>4. ASSUME NEW t \in SS, NEW r \in Relay PROVE Insert(t, r) \in SS
    <2>1. PICK k \in Nat : k = Len(t) /\ DOMAIN t = 1..k
      BY <1>2
    <2>2. IsFiniteSet(1..k) /\ Cardinality(1..k) = k
      BY FS_Interval
    <2>3. PICK N : N = NotAfter(t, r)
      OBVIOUS
    <2>4. N \subseteq 1..k
      BY <2>1, <2>3
    <2>5. Cardinality(N) \in Nat /\ Cardinality(N) <= k
      BY <2>2, <2>4, FS_Subset, FS_CardinalityType
    <2>6. InsertAt(t, Cardinality(N) + 1, r) \in Seq(Relay)
      BY <1>2, <2>1, <2>5, InsertAtType
    <2>. QED
      BY <1>2, <2>3, <2>6
  <1>5. PICK G : G = [i \in 1..n |-> [t \in SS |-> Insert(t, relays[i])]]
    OBVIOUS
  <1>6. /\ G \in [1..n -> [SS -> SS]]
        /\ \A i \in 1..n, t \in SS : G[i][t] = Insert(t, relays[i]) /\ G[i][t] \in SS
    <2>. HIDE DEF Insert
    <2>. QED
      BY <1>3, <1>4, <1>5
  <1>7. << >> \in Seq(Relay)
    OBVIOUS
  <1>8. PICK e \in SS : e = << >>
    BY <1>2, <1>7, Zenon
  <1>9. PICK f : Iterates(n, SS, e, G, f)
    BY <1>6, <1>8, RecursionExists, Zenon
  <1>. DEFINE R(F) == F = [i \in 0..Len(relays) |-> IF i = 0 THEN << >> ELSE Insert(F[i-1], relays[i])]
              H == CHOOSE F : R(F)
  <1>10. R(f)
    <2>. HIDE DEF Insert
    <2>1. f \in [0..n -> SS] /\ f[0] = << >> /\ \A i \in 1..n : f[i] = G[i][f[i-1]]
      BY <1>8, <1>9 DEF Iterates
    <2>2. \A i \in 0..n : i # 0 => i \in 1..n /\ i - 1 \in 0..n
      OBVIOUS
    <2>3. \A i \in 0..n : f[i] = IF i = 0 THEN << >> ELSE Insert(f[i-1], relays[i])
      BY <1>6, <2>1, <2>2
    <2>4. f = [i \in 0..n |-> f[i]]
      BY <2>1
    <2>. QED
      BY <1>1, <2>3, <2>4
  <1>11. R(H)
    <2>. HIDE DEF R
    <2>. QED
      BY <1>10
  <1>12. Sorted(relays) = H[Len(relays)]
    BY DEF Sorted, FoldOver
  <1>13. PICK F : F = H
    OBVIOUS
  <1>14. R(F)
    BY <1>11, <1>13
  <1>. HIDE DEF H, Insert
  <1>15. \A i \in 0..n : F[i] = IF i = 0 THEN << >> ELSE Insert(F[i-1], relays[i])
    BY <1>1, <1>14
  <1>. DEFINE P == {i \in 0..n : F[i] \in SS}
  <1>16. 0 \in P
    BY <1>8, <1>15
  <1>17. ASSUME NEW k \in 1..n, k-1 \in P PROVE k \in P
    <2>1. k \in 0..n /\ k # 0
      OBVIOUS
    <2>2. F[k] = Insert(F[k-1], relays[k])
      BY <1>15, <2>1
    <2>. QED
      BY <1>3, <1>4, <1>17, <2>1, <2>2
  <1>. HIDE DEF P
  <1>18. \A k \in 0..n : k \in P
    BY <1>16, <1>17, SetInduction
  <1>. QED
    BY <1>1, <1>2, <1>12, <1>13, <1>18 DEF P

LEMMA SortedIsList ==
  ASSUME NEW relays \in Seq(Relay)
  PROVE  IsList(Sorted(relays))
  BY SortedType, ListsAreLists

LEMMA ListFacts ==
  ASSUME NEW s, IsList(s)
  PROVE  /\ Len(s) \in Nat /\ DOMAIN s = 1..Len(s)
         /\ \A x : /\ IsList(Append(s, x))
                   /\ DOMAIN Append(s, x) = DOMAIN s \cup {Len(s) + 1}
                   /\ Append(s, x)[Len(s) + 1] = x
                   /\ \A i \in DOMAIN s : Append(s, x)[i] = s[i] /\ i # Len(s) + 1
                   /\ ToSet(Append(s, x)) = ToSet(s) \cup {x}
  <1>1. Len(s) \in Nat /\ DOMAIN s = 1..Len(s) /\ s \in Seq(ToSet(s))
    BY DEF IsList
  <1>2. ASSUME NEW x
        PROVE  /\ DOMAIN Append(s, x) = DOMAIN s \cup {Len(s) + 1}
               /\ Append(s, x)[Len(s) + 1] = x
               /\ \A i \in DOMAIN s : Append(s, x)[i] = s[i] /\ i # Len(s) + 1
    BY <1>1
  <1>3. ASSUME NEW x PROVE ToSet(Append(s, x)) = ToSet(s) \cup {x}
    BY <1>2 DEF ToSet
  <1>4. ASSUME NEW x PROVE IsList(Append(s, x))
    <2>1. PICK T : T = ToSet(s) \cup {x}
      OBVIOUS
    <2>2. s \in Seq(T) /\ x \in T
      <3>1. \A i \in 1..Len(s) : s[i] \in T
        BY <1>1, <2>1 DEF ToSet
      <3>. QED
        BY <1>1, <2>1, <3>1
    <2>3. Append(s, x) \in Seq(T)
      BY <2>2
    <2>. QED
      BY <1>3, <2>1, <2>3 DEF IsList
  <1>. QED
    BY <1>1, <1>2, <1>3, <1>4

-----------------------------------------------------------------------------
(* The slice of a race *)

\* Some remaining relay is in the slice that starts at 0, if there is any.
LEMMA SliceNotEmpty ==
  ASSUME NEW l, Remaining(l) # {}
  PROVE  SliceFrom(l, 0) # {}
  <1>1. Remaining(l) \subseteq Nat
    BY DEF Remaining
  <1>2. PICK m \in Remaining(l) : \A k \in Remaining(l) : m <= k
    BY <1>1, Least
  <1>3. {j \in Remaining(l) : j < m} = {}
    BY <1>1, <1>2
  <1>4. Cardinality({j \in Remaining(l) : j < m}) = 0
    BY <1>3, FS_EmptySet
  <1>5. 0 \in 0..(0 + SliceSize - 1)
    BY SelectionAssumption
  <1>. QED
    BY <1>2, <1>4, <1>5 DEF SliceFrom

LEMMA RemainingFacts ==
  ASSUME SelectionInv, NEW i, i \in Remaining(sel.list)
  PROVE  RelayAt(i).url \notin sel.removed
  BY DEF Remaining, RelayAt

-----------------------------------------------------------------------------
(* The steps of a call *)

LEMMA NewSelectionFacts ==
  ASSUME NEW lists
  PROVE  /\ NewSelection(lists) = [f \in SelFields |-> NewSelection(lists)[f]]
         /\ NewSelection(lists).lists = lists /\ NewSelection(lists).removed = {}
         /\ NewSelection(lists).list = 1
  BY DEF NewSelection, SelFields

LEMMA EmptyListFacts ==
  /\ IsList(<< >>) /\ IsInjective(<< >>) /\ << >> \in Seq(Relay)
  BY DEF IsList, IsInjective

LEMMA SelectionInitOK == Init => SelectionInv
  <1>. SUFFICES ASSUME Init PROVE SelectionInv
    OBVIOUS
  <1>. DEFINE u == CHOOSE u \in Url : TRUE
  <1>1. call = [pc |-> "idle", number |-> 0, kind |-> "call", only |-> FALSE,
                pays |-> FALSE, managers |-> {}, url |-> u, nonce |-> 0, request |-> 0,
                errors |-> {}, result |-> "none", tried |-> << >>, candidates |-> {}]
    BY DEF Init, NewCall
  <1>. HIDE DEF u
  <1>2. call = [f \in CallFields |-> call[f]]
    BY <1>1 DEF CallFields
  <1>3. call.pc = "idle" /\ call.result = "none" /\ call.tried = << >>
    BY <1>1
  <1>4. log \in Seq(Event)
    BY SelectionAssumption DEF Init, SelectionInit
  <1>5. sel = NewSelection(<<<< >>, << >>>>)
    BY DEF Init, SelectionInit
  <1>6. /\ known = [f \in KnownFields |-> known[f]]
        /\ known.preferred = << >> /\ known.all = << >>
    BY DEF Init, SelectionInit, KnownFields
  <1>7. SelectionTypes
    <2>1. /\ sel = [f \in SelFields |-> sel[f]]
          /\ sel.lists = <<<< >>, << >>>> /\ sel.list = 1
      BY <1>5, NewSelectionFacts
    <2>2. /\ sel.lists = <<sel.lists[1], sel.lists[2]>>
          /\ IsList(sel.lists[1]) /\ IsList(sel.lists[2])
      <3>1. PICK e : e = << >>
        OBVIOUS
      <3>2. sel.lists = <<e, e>>
        BY <2>1, <3>1
      <3>. QED
        BY <3>1, <3>2, EmptyListFacts
    <2>3. IsList(call.tried) /\ call.pc \in Pc
      BY <1>3, EmptyListFacts DEF Pc
    <2>4. known.preferred \in Seq(Relay) /\ known.all \in Seq(Relay)
      BY <1>6, EmptyListFacts
    <2>. QED
      BY <1>2, <1>4, <1>6, <2>1, <2>2, <2>3, <2>4 DEF SelectionTypes
  <1>8. TriedAreRemoved /\ RemovedHaveFailed
    BY <1>3, EmptyListFacts DEF TriedAreRemoved, RemovedHaveFailed, Early, Late, Awaited
  <1>. QED
    BY <1>7, <1>8 DEF SelectionInv

\* What a step may do to the fields of the KnownRelaysManager.
KnownKept ==
    /\ known' = [f \in KnownFields |-> known'[f]]
    /\ known'.preferred \in Seq(Relay) /\ known'.all \in Seq(Relay)

LEMMA KnownKeptOK ==
  ASSUME SelectionTypes
  PROVE  /\ UNCHANGED known => KnownKept
         /\ RefreshFailures => KnownKept
         /\ \A u : SaveRelayFailure(u) => KnownKept
         /\ \A n : known' = [known EXCEPT !.parts = n] => KnownKept
  <1>. USE DEF SelectionTypes, KnownKept, KnownFields
  <1>1. UNCHANGED known => KnownKept
    OBVIOUS
  <1>2. \A f : known' = [known EXCEPT !.failures = f] => KnownKept
    OBVIOUS
  <1>3. RefreshFailures => KnownKept
    BY <1>2 DEF RefreshFailures
  <1>4. \A u, g : known' = [known EXCEPT !.failures[u] = g] => KnownKept
    OBVIOUS
  <1>5. \A u : SaveRelayFailure(u) => KnownKept
    BY <1>2 DEF SaveRelayFailure
  <1>6. \A n : known' = [known EXCEPT !.parts = n] => KnownKept
    OBVIOUS
  <1>. QED
    BY <1>1, <1>3, <1>5, <1>6

\* A step that is not about relays: the call stays as it is.
LEMMA SameCallOK ==
  ASSUME SelectionInv, UNCHANGED <<log, known, sel, call>>
  PROVE  SelectionInv'
  <1>1. SelectionTypes'
    BY DEF SelectionInv, SelectionTypes
  <1>2. TriedAreRemoved'
    BY DEF SelectionInv, TriedAreRemoved, Remaining
  <1>3. RemovedHaveFailed'
    BY DEF SelectionInv, RemovedHaveFailed, EveryRelayTried, UrlsOf
  <1>. QED
    BY <1>1, <1>2, <1>3 DEF SelectionInv

\* A new call, which may be rejected at once.
LEMMA NewCallOK ==
  ASSUME SelectionInv, NEW number, NEW kind, NEW only, NEW pays, KnownKept, UNCHANGED log,
         \/ /\ call' = NewCall(number, kind, only, pays)
            /\ sel' = NewSelection(<<<< >>, << >>>>)
         \/ /\ call' = [NewCall(number, kind, only, pays) EXCEPT
                            !.pc = "done", !.result = "rejected"]
            /\ UNCHANGED sel
  PROVE  SelectionInv'
  <1>1. PICK u : u = CHOOSE v \in Url : TRUE
    OBVIOUS
  <1>2. \/ call' = [pc |-> "fetch", number |-> number, kind |-> kind, only |-> only,
                pays |-> pays, managers |-> {}, url |-> u, nonce |-> 0, request |-> 0,
                errors |-> {}, result |-> "none", tried |-> << >>, candidates |-> {}]
        \/ call' = [pc |-> "done", number |-> number, kind |-> kind, only |-> only,
                pays |-> pays, managers |-> {}, url |-> u, nonce |-> 0, request |-> 0,
                errors |-> {}, result |-> "rejected", tried |-> << >>, candidates |-> {}]
    <2>1. NewCall(number, kind, only, pays) = [pc |-> "fetch", number |-> number,
             kind |-> kind, only |-> only,
             pays |-> pays, managers |-> {}, url |-> u, nonce |-> 0, request |-> 0,
             errors |-> {}, result |-> "none", tried |-> << >>, candidates |-> {}]
      BY <1>1 DEF NewCall
    <2>2. CASE call' = NewCall(number, kind, only, pays)
      BY <2>1, <2>2
    <2>3. CASE call' = [NewCall(number, kind, only, pays) EXCEPT
                            !.pc = "done", !.result = "rejected"]
      BY <1>1, <2>3 DEF NewCall
    <2>. QED
      BY <2>2, <2>3
  <1>3. call' = [f \in CallFields |-> call'[f]]
    BY <1>2 DEF CallFields
  <1>4. /\ call'.pc \in {"fetch", "done"} /\ call'.tried = << >>
        /\ call'.result \in {"none", "rejected"}
    BY <1>2
  <1>5. /\ sel' = [f \in SelFields |-> sel'[f]]
        /\ sel'.lists = <<sel'.lists[1], sel'.lists[2]>> /\ sel'.list \in {1, 2}
        /\ IsList(sel'.lists[1]) /\ IsList(sel'.lists[2])
    BY NewSelectionFacts, EmptyListFacts DEF SelectionInv, SelectionTypes
  <1>6. SelectionTypes'
    BY <1>3, <1>4, <1>5, EmptyListFacts DEF SelectionInv, SelectionTypes, KnownKept, Pc
  <1>7. TriedAreRemoved' /\ RemovedHaveFailed'
    BY <1>4, EmptyListFacts DEF TriedAreRemoved, RemovedHaveFailed, Early, Late, Awaited
  <1>. QED
    BY <1>6, <1>7 DEF SelectionInv

\* The call moves on, before it has a list of relays or with the relay it tries.
Moves ==
    /\ UNCHANGED <<log, sel>>
    /\ KnownKept
    /\ call' = [f \in CallFields |-> call'[f]]
    /\ call'.tried = call.tried /\ call'.candidates = call.candidates
    /\ call'.url = call.url /\ call'.errors = call.errors
    /\ call'.result # "failed"
    /\ \/ call.pc \in Early /\ call'.pc \in Early \cup {"done"}
       \/ call.pc \in Late /\ call'.pc \in Late \cup {"done"}

LEMMA MovesOK == SelectionInv /\ Moves => SelectionInv'
  <1>. SUFFICES ASSUME SelectionInv, Moves PROVE SelectionInv'
    OBVIOUS
  <1>. USE DEF SelectionInv, Moves
  <1>1. SelectionTypes'
    BY DEF SelectionTypes, KnownKept, Early, Late, Awaited, Pc
  <1>2. TriedAreRemoved'
    BY DEF TriedAreRemoved, Early, Late, Awaited
  <1>3. RemovedHaveFailed'
    BY DEF RemovedHaveFailed, Early, Late, Awaited, UrlsOf
  <1>. QED
    BY <1>1, <1>2, <1>3

\* The relay that is tried has failed, and is forgotten.
LEMMA RelayFailsOK ==
  ASSUME SelectionInv, call.pc \in Late, RelayFails, UNCHANGED <<log, sel>>, KnownKept
  PROVE  SelectionInv'
  <1>. USE DEF SelectionInv
  <1>1. /\ call' = [f \in CallFields |-> call'[f]]
        /\ call'.pc = "select" /\ call'.tried = call.tried /\ call'.candidates = call.candidates
        /\ call'.errors = call.errors \cup {call.url} /\ call'.result = call.result
    BY DEF SelectionTypes, RelayFails, CallFields
  <1>2. SelectionTypes'
    BY <1>1 DEF SelectionTypes, KnownKept, Pc
  <1>3. TriedAreRemoved'
    BY <1>1 DEF TriedAreRemoved, Early, Late, Awaited
  <1>4. RemovedHaveFailed'
    <2>1. call.result # "failed"
      BY DEF RemovedHaveFailed, Late, Awaited
    <2>. QED
      BY <1>1, <2>1 DEF RemovedHaveFailed, UrlsOf, Late, Awaited
  <1>. QED
    BY <1>2, <1>3, <1>4

LEMMA StartSelectionOK ==
  ASSUME SelectionInv, StartSelection
  PROVE  SelectionInv'
  <1>. USE DEF SelectionInv
  <1>1. PICK lists : lists = RelaysSortedForTransaction
    OBVIOUS
  <1>2. /\ sel' = NewSelection(lists) /\ UNCHANGED <<log, known>> /\ call.pc = "start"
        /\ \/ Done("rejected")
           \/ call' = [call EXCEPT !.pc = "select",
                  !.candidates = {r.url : r \in ToSet(lists[1]) \cup ToSet(lists[2])}]
    BY <1>1 DEF StartSelection
  <1>3. PICK P, A : P = known.preferred /\ A = Sorted(known.all)
    OBVIOUS
  <1>4. lists = <<P, A>> /\ IsList(P) /\ IsList(A)
    <2>1. known.preferred \in Seq(Relay) /\ known.all \in Seq(Relay)
      BY DEF SelectionTypes
    <2>2. IsList(known.preferred)
      BY <2>1 DEF IsList, ToSet
    <2>. QED
      BY <1>1, <1>3, <2>1, <2>2, SortedIsList, Zenon DEF RelaysSortedForTransaction
  <1>5. /\ sel' = [f \in SelFields |-> sel'[f]]
        /\ sel'.lists = <<P, A>> /\ sel'.removed = {} /\ sel'.list = 1
    BY <1>2, <1>4, NewSelectionFacts
  <1>6. /\ call' = [f \in CallFields |-> call'[f]]
        /\ call'.tried = call.tried /\ call'.result # "failed"
        /\ \/ call'.pc = "done"
           \/ /\ call'.pc = "select"
              /\ call'.candidates = {r.url : r \in ToSet(P) \cup ToSet(A)}
    <2>1. call.result # "failed"
      BY <1>2 DEF RemovedHaveFailed
    <2>. QED
      BY <1>2, <1>4, <2>1 DEF SelectionTypes, Done, CallFields
  <1>7. SelectionTypes'
    BY <1>2, <1>4, <1>5, <1>6 DEF SelectionTypes, Pc
  <1>8. TriedAreRemoved'
    <2>1. call.tried = << >>
      BY <1>2 DEF TriedAreRemoved, Early
    <2>. QED
      BY <1>6, <2>1, EmptyListFacts DEF TriedAreRemoved, Early, Late, Awaited, ToSet
  <1>9. RemovedHaveFailed'
    <2>1. DOMAIN P = 1..Len(P) /\ DOMAIN A = 1..Len(A)
      BY <1>4, ListFacts
    <2>2. {r.url : r \in ToSet(P) \cup ToSet(A)}
             \subseteq {P[i].url : i \in 1..Len(P)} \cup {A[i].url : i \in 1..Len(A)}
      BY <2>1 DEF ToSet
    <2>. QED
      BY <1>5, <1>6, <2>2 DEF RemovedHaveFailed, UrlsOf, Late, Awaited
  <1>. QED
    BY <1>7, <1>8, <1>9

\* When no list has relays left, all of them were removed.
LEMMA SelectNextRelayOK ==
  ASSUME SelectionInv, SelectNextRelay
  PROVE  SelectionInv'
  <1>. USE DEF SelectionInv
  <1>1. PICK l, slice :
          /\ l = IF call.only THEN 1 ELSE NextList
          /\ slice = SliceFrom(l, IF call.only THEN sel.index ELSE 0)
    OBVIOUS
  <1>2. /\ call.pc = "select" /\ UNCHANGED <<log, known>>
        /\ \/ slice = {} /\ Done("failed") /\ UNCHANGED sel
           \/ slice # {} /\ StartRace(l, slice) /\ call' = [call EXCEPT !.pc = "race"]
    BY <1>1 DEF SelectNextRelay
  <1>3. l \in {1, 2} /\ slice \subseteq Remaining(l)
    BY <1>1 DEF NextList, SliceFrom
  <1>4. call.result # "failed"
    BY <1>2 DEF RemovedHaveFailed
  <1>5. CASE slice = {}
    <2>1. /\ call' = [f \in CallFields |-> call'[f]]
          /\ call'.pc = "done" /\ call'.tried = call.tried /\ call'.candidates = call.candidates
          /\ call'.errors = call.errors /\ call'.only = call.only
          /\ sel' = sel
      BY <1>2, <1>5 DEF SelectionTypes, Done, CallFields
    <2>2. SelectionTypes'
      BY <1>2, <2>1 DEF SelectionTypes, Pc
    <2>3. TriedAreRemoved'
      BY <2>1 DEF TriedAreRemoved, Early, Late, Awaited
    <2>4. ASSUME ~call.only
          PROVE  call.candidates \subseteq sel.errors \cup call.errors
      <3>1. SliceFrom(NextList, 0) = {}
        BY <1>1, <1>5, <2>4
      <3>2. Remaining(NextList) = {}
        BY <3>1, SliceNotEmpty
      <3>3. Remaining(1) = {} /\ Remaining(2) = {}
        BY <3>2 DEF NextList
      <3>4. UrlsOf(1) \cup UrlsOf(2) \subseteq sel.removed
        BY <3>3 DEF UrlsOf, Remaining
      <3>. QED
        BY <1>2, <3>4 DEF RemovedHaveFailed, Late, Awaited
    <2>5. RemovedHaveFailed'
      BY <2>1, <2>4 DEF RemovedHaveFailed, EveryRelayTried, Late, Awaited
    <2>. QED
      BY <2>2, <2>3, <2>5
  <1>6. CASE slice # {}
    <2>1. /\ call' = [f \in CallFields |-> call'[f]]
          /\ call'.pc = "race" /\ call'.tried = call.tried /\ call'.candidates = call.candidates
          /\ call'.errors = call.errors /\ call'.result = call.result
      BY <1>2, <1>6 DEF SelectionTypes, CallFields
    <2>2. /\ sel' = [f \in SelFields |-> sel'[f]]
          /\ sel'.lists = sel.lists /\ sel'.removed = sel.removed /\ sel'.errors = sel.errors
          /\ sel'.list = l /\ sel'.slice = slice /\ sel'.waiting = slice
      BY <1>2, <1>6 DEF SelectionTypes, StartRace, SelFields
    <2>3. SelectionTypes'
      BY <1>2, <1>3, <2>1, <2>2 DEF SelectionTypes, Pc
    <2>4. TriedAreRemoved'
      BY <1>2, <1>3, <2>1, <2>2 DEF TriedAreRemoved, Early, Late, Awaited, Remaining
    <2>5. RemovedHaveFailed'
      BY <1>2, <1>4, <2>1, <2>2 DEF RemovedHaveFailed, UrlsOf, Late, Awaited
    <2>. QED
      BY <2>3, <2>4, <2>5
  <1>. QED
    BY <1>5, <1>6

\* Who fails in a race is removed, with an error, when the race is over.
LEMMA PingFailsOK ==
  ASSUME SelectionInv, NEW i \in sel.waiting, PingFails(i)
  PROVE  SelectionInv'
  <1>. USE DEF SelectionInv
  <1>1. PICK failed, index : /\ failed = sel.failed \cup {RelayAt(i).url}
                             /\ index = sel.index + Cardinality(sel.slice)
    OBVIOUS
  <1>2. /\ call.pc = "race" /\ UNCHANGED <<log, known>>
        /\ call' = [call EXCEPT !.pc = IF RaceLost(i) THEN "select" ELSE "race"]
        /\ sel' = IF RaceLost(i)
                  THEN [NewSelection(sel.lists) EXCEPT
                           !.removed = Removed(failed), !.index = index,
                           !.errors = sel.errors \cup failed]
                  ELSE [sel EXCEPT !.failed = failed, !.waiting = @ \ {i}]
    BY <1>1 DEF PingFails, PingError
  <1>3. call.result # "failed"
    BY <1>2 DEF RemovedHaveFailed
  <1>4. /\ call' = [f \in CallFields |-> call'[f]]
        /\ call'.pc = IF RaceLost(i) THEN "select" ELSE "race"
        /\ call'.tried = call.tried /\ call'.candidates = call.candidates
        /\ call'.errors = call.errors /\ call'.result = call.result
    BY <1>2 DEF SelectionTypes, CallFields
  <1>5. CASE RaceLost(i)
    <2>1. sel' = [lists |-> sel.lists, removed |-> sel.removed \cup failed, index |-> index,
                  list |-> 1, slice |-> {}, waiting |-> {}, failed |-> {},
                  errors |-> sel.errors \cup failed]
      BY <1>2, <1>5 DEF NewSelection, Removed
    <2>2. sel' = [f \in SelFields |-> sel'[f]]
      BY <2>1 DEF SelFields
    <2>3. /\ sel'.lists = sel.lists /\ sel'.removed = sel.removed \cup failed
          /\ sel'.errors = sel.errors \cup failed /\ sel'.list = 1
      BY <2>1
    <2>4. SelectionTypes'
      BY <1>2, <1>4, <1>5, <2>2, <2>3 DEF SelectionTypes, Pc
    <2>5. TriedAreRemoved'
      BY <1>2, <1>4, <1>5, <2>3 DEF TriedAreRemoved, Early, Late, Awaited
    <2>6. RemovedHaveFailed'
      BY <1>2, <1>3, <1>4, <1>5, <2>3 DEF RemovedHaveFailed, UrlsOf, Late, Awaited
    <2>. QED
      BY <2>4, <2>5, <2>6
  <1>6. CASE ~RaceLost(i)
    <2>1. /\ sel' = [f \in SelFields |-> sel'[f]]
          /\ sel'.lists = sel.lists /\ sel'.removed = sel.removed /\ sel'.errors = sel.errors
          /\ sel'.list = sel.list /\ sel'.slice = sel.slice
          /\ sel'.waiting = sel.waiting \ {i}
      BY <1>2, <1>6 DEF SelectionTypes, SelFields
    <2>2. SelectionTypes'
      BY <1>2, <1>4, <1>6, <2>1 DEF SelectionTypes, Pc
    <2>3. TriedAreRemoved'
      BY <1>2, <1>4, <1>6, <2>1 DEF TriedAreRemoved, Early, Late, Awaited, Remaining
    <2>4. RemovedHaveFailed'
      BY <1>2, <1>3, <1>4, <1>6, <2>1 DEF RemovedHaveFailed, UrlsOf, Late, Awaited
    <2>. QED
      BY <2>2, <2>3, <2>4
  <1>. QED
    BY <1>5, <1>6

\* The winner was not removed, so it was not tried; from now on it is.
LEMMA PingReadyOK ==
  ASSUME SelectionInv, NEW i \in sel.waiting, PingReady(i)
  PROVE  SelectionInv'
  <1>. USE DEF SelectionInv
  <1>1. PICK u, pc : /\ u = RelayAt(i).url
                     /\ pc = IF RelayAt(i).manager = NoManager THEN "winner" ELSE "attempt"
    OBVIOUS
  <1>2. /\ call.pc = "race" /\ UNCHANGED <<log, known>>
        /\ call' = [call EXCEPT !.url = u, !.pc = pc, !.tried = Append(@, u)]
        /\ sel' = [NewSelection(sel.lists) EXCEPT
                      !.removed = Removed(sel.failed \cup {u}),
                      !.errors = sel.errors \cup sel.failed]
    BY <1>1 DEF PingReady, RaceWon
  <1>3. call.result # "failed" /\ pc \in Late /\ pc \in Pc
    BY <1>1, <1>2 DEF RemovedHaveFailed, Late, Pc
  <1>4. /\ call' = [f \in CallFields |-> call'[f]]
        /\ call'.pc = pc /\ call'.url = u
        /\ call'.tried = Append(call.tried, u) /\ call'.candidates = call.candidates
        /\ call'.errors = call.errors /\ call'.result = call.result
    BY <1>2 DEF SelectionTypes, CallFields
  <1>5. /\ sel' = [f \in SelFields |-> sel'[f]]
        /\ sel'.lists = sel.lists /\ sel'.removed = sel.removed \cup sel.failed \cup {u}
        /\ sel'.errors = sel.errors \cup sel.failed /\ sel'.list = 1
    <2>1. sel' = [lists |-> sel.lists, removed |-> sel.removed \cup (sel.failed \cup {u}),
                  index |-> 0, list |-> 1, slice |-> {}, waiting |-> {}, failed |-> {},
                  errors |-> sel.errors \cup sel.failed]
      BY <1>2 DEF NewSelection, Removed
    <2>2. sel' = [f \in SelFields |-> sel'[f]]
      BY <2>1 DEF SelFields
    <2>. QED
      BY <2>1, <2>2
  <1>6. IsList(call.tried) /\ IsInjective(call.tried) /\ ToSet(call.tried) \subseteq sel.removed
    BY <1>2 DEF SelectionTypes, TriedAreRemoved
  <1>7. u \notin sel.removed
    BY <1>1, <1>2, RemainingFacts DEF TriedAreRemoved
  <1>8. /\ IsList(Append(call.tried, u))
        /\ ToSet(Append(call.tried, u)) = ToSet(call.tried) \cup {u}
        /\ IsInjective(Append(call.tried, u))
    <2>1. PICK t : t = Append(call.tried, u)
      OBVIOUS
    <2>2. PICK n : n = Len(call.tried) + 1
      OBVIOUS
    <2>3. /\ IsList(t) /\ ToSet(t) = ToSet(call.tried) \cup {u}
          /\ DOMAIN t = DOMAIN call.tried \cup {n} /\ t[n] = u
          /\ \A k \in DOMAIN call.tried : t[k] = call.tried[k] /\ k # n
      BY <1>6, <2>1, <2>2, ListFacts
    <2>4. \A k \in DOMAIN call.tried : call.tried[k] # u
      BY <1>6, <1>7 DEF ToSet
    <2>5. IsInjective(t)
      BY <1>6, <2>3, <2>4 DEF IsInjective
    <2>. QED
      BY <2>1, <2>3, <2>5
  <1>9. SelectionTypes'
    BY <1>2, <1>3, <1>4, <1>5, <1>8 DEF SelectionTypes
  <1>10. TriedAreRemoved'
    BY <1>3, <1>4, <1>5, <1>6, <1>8 DEF TriedAreRemoved, Early, Late, Awaited
  <1>11. RemovedHaveFailed'
    <2>1. /\ call.candidates \subseteq UrlsOf(1) \cup UrlsOf(2)
          /\ sel.removed \subseteq sel.errors \cup call.errors
      BY <1>2 DEF RemovedHaveFailed, Late, Awaited
    <2>2. sel'.removed \subseteq sel'.errors \cup call'.errors \cup {call'.url}
      BY <1>4, <1>5, <2>1
    <2>3. call'.candidates \subseteq UrlsOf(1)' \cup UrlsOf(2)'
      BY <1>4, <1>5, <2>1 DEF UrlsOf
    <2>. QED
      BY <1>3, <1>4, <2>2, <2>3 DEF RemovedHaveFailed
  <1>. QED
    BY <1>9, <1>10, <1>11

-----------------------------------------------------------------------------
(* The theorems *)

LEMMA LookupRelaysMoves == SelectionInv /\ LookupRelays => Moves
  <1>. SUFFICES ASSUME SelectionInv, LookupRelays PROVE Moves
    OBVIOUS
  <1>1. /\ call' = [call EXCEPT !.pc = "gasPrice"] /\ call.pc = "lookup"
        /\ UNCHANGED <<log, sel>> /\ log \in Seq(Event)
        /\ call = [f \in CallFields |-> call[f]] /\ call.result # "failed"
    BY DEF LookupRelays, SelectionInv, SelectionTypes, RemovedHaveFailed
  <1>2. PICK P, A : /\ P = [i \in DOMAIN PreferredRelays |->
                               [url |-> PreferredRelays[i], manager |-> NoManager]]
                    /\ A = RelayInfoForManagers(call.managers)
    OBVIOUS
  <1>3. P \in Seq(Relay) /\ A \in Seq(Relay)
    <2>1. PICK n \in Nat : DOMAIN PreferredRelays = 1..n /\ PreferredRelays \in [1..n -> Url]
      BY SelectionAssumption
    <2>2. P \in [1..n -> Relay]
      BY <1>2, <2>1 DEF Relay
    <2>3. P \in Seq(Relay)
      BY <2>2
    <2>. QED
      BY <1>1, <1>2, <2>3, RelayInfoType
  <1>4. known' = [known EXCEPT !.preferred = P, !.all = A]
    BY <1>2 DEF LookupRelays
  <1>5. KnownKept
    BY <1>3, <1>4 DEF KnownKept, SelectionInv, SelectionTypes, KnownFields
  <1>. QED
    BY <1>1, <1>5 DEF Moves, CallFields, Early

LEMMA StepMoves ==
  ASSUME SelectionInv,
         \/ FetchRecentlyActive \/ CalculateGasPrice \/ EstimateDestinationContractCallGas
         \/ \E m \in Manager : FindWinner(m)
         \/ NodeFails \/ EstimateTokenTransferGasFails
         \/ PrepareRelayHttpRequest \/ PrepareDeployHttpRequest
         \/ Post \/ GoodAnswer \/ Broadcast \/ Receipt \/ NoReceipt
  PROVE  Moves
  <1>1. call = [f \in CallFields |-> call[f]] /\ (call.result = "failed" => call.pc = "done")
    BY DEF SelectionInv, SelectionTypes, RemovedHaveFailed
  <1>2. UNCHANGED <<log, sel>>
    BY DEF FetchRecentlyActive, CalculateGasPrice, EstimateDestinationContractCallGas,
           FindWinner, NodeFails, EstimateTokenTransferGasFails, PrepareRelayHttpRequest,
           PrepareDeployHttpRequest, Prepare, Post, GoodAnswer, Broadcast, Receipt, NoReceipt
  <1>3. UNCHANGED known \/ \E n : known' = [known EXCEPT !.parts = n]
    BY DEF FetchRecentlyActive, CalculateGasPrice, EstimateDestinationContractCallGas,
           FindWinner, NodeFails, EstimateTokenTransferGasFails, PrepareRelayHttpRequest,
           PrepareDeployHttpRequest, Prepare, Post, GoodAnswer, Broadcast, Receipt, NoReceipt
  <1>4. KnownKept
    BY <1>3, KnownKeptOK DEF SelectionInv
  <1>5. CASE FetchRecentlyActive
    <2>1. PICK m : m = RecentlyActive
      OBVIOUS
    <2>. QED
      BY <1>1, <1>2, <1>4, <1>5, <2>1
      DEF FetchRecentlyActive, Moves, Done, CallFields, Early
  <1>6. CASE CalculateGasPrice \/ EstimateDestinationContractCallGas \/ NodeFails
    BY <1>1, <1>2, <1>4, <1>6
    DEF CalculateGasPrice, EstimateDestinationContractCallGas, NodeFails, Moves, Done, CallFields,
        Early, Late, Awaited
  <1>7. CASE (\E m \in Manager : FindWinner(m)) \/ EstimateTokenTransferGasFails
    BY <1>1, <1>2, <1>4, <1>7
    DEF FindWinner, EstimateTokenTransferGasFails, Moves, Done, CallFields, Late, Awaited
  <1>8. CASE PrepareRelayHttpRequest \/ PrepareDeployHttpRequest
    BY <1>1, <1>2, <1>4, <1>8
    DEF PrepareRelayHttpRequest, PrepareDeployHttpRequest, Prepare, Moves, CallFields, Late,
        Awaited
  <1>9. CASE Post \/ GoodAnswer
    BY <1>1, <1>2, <1>4, <1>9 DEF Post, GoodAnswer, Moves, CallFields, Late, Awaited
  <1>10. CASE Broadcast \/ Receipt \/ NoReceipt
    BY <1>1, <1>2, <1>4, <1>10
    DEF Broadcast, Receipt, NoReceipt, Moves, Done, CallFields, Late, Awaited
  <1>. QED
    BY <1>5, <1>6, <1>7, <1>8, <1>9, <1>10

\* The steps after which the next relay is asked.
LEMMA FailuresOK ==
  ASSUME SelectionInv, SignFails \/ AttemptFails \/ BadAnswer \/ Refused
  PROVE  SelectionInv'
  <1>1. call.pc \in Late /\ RelayFails /\ UNCHANGED <<log, sel>>
    BY DEF SignFails, AttemptFails, BadAnswer, Refused, GiveUp, Late, Awaited
  <1>2. UNCHANGED known \/ SaveRelayFailure(call.url)
    BY DEF SignFails, AttemptFails, BadAnswer, Refused
  <1>3. KnownKept
    BY <1>2, KnownKeptOK DEF SelectionInv
  <1>. QED
    BY <1>1, <1>3, RelayFailsOK

LEMMA UserOK ==
  ASSUME SelectionInv, User
  PROVE  SelectionInv'
  <1>. USE DEF SelectionInv
  <1>1. ASSUME NEW kind, NEW only, NEW pays, RelayTransaction(kind, only, pays)
        PROVE  SelectionInv'
    <2>1. KnownKept
      BY <1>1, KnownKeptOK DEF RelayTransaction
    <2>. QED
      BY <1>1, <2>1, NewCallOK DEF RelayTransaction
  <1>2. ASSUME NEW only \in BOOLEAN, NEW pays \in BOOLEAN, NEW addressKnown \in BOOLEAN,
               DeploySmartWallet(only, pays, addressKnown)
        PROVE  SelectionInv'
    <2>1. CASE RelayTransaction("deploy", only, pays)
      BY <1>1, <2>1
    <2>2. CASE /\ call' = [NewCall(call.number + 1, "deploy", only, pays) EXCEPT
                              !.pc = "done", !.result = "rejected"]
               /\ UNCHANGED <<log, known, sel, chainVars, posted, lost>>
      <3>1. KnownKept
        BY <2>2, KnownKeptOK
      <3>. QED
        BY <2>2, <3>1, NewCallOK
    <2>. QED
      BY <1>2, <2>1, <2>2 DEF DeploySmartWallet
  <1>3. CASE SendTransaction \/ \E kind \in Kind : CreateRequest(kind)
    BY <1>3, SameCallOK DEF SendTransaction, CreateRequest
  <1>. QED
    BY <1>1, <1>2, <1>3 DEF User, EthSendTransaction

LEMMA SelectionNextOK == SelectionInv /\ [Next]_vars => SelectionInv'
  <1>. SUFFICES ASSUME SelectionInv, [Next]_vars PROVE SelectionInv'
    OBVIOUS
  <1>1. CASE UNCHANGED vars
    BY <1>1, SameCallOK DEF vars
  <1>2. CASE Chain
    BY <1>2, SameCallOK DEF Chain, Executes, Reverts, ActsElsewhere
  <1>3. CASE User
    BY <1>3, UserOK
  <1>4. CASE Step
    BY <1>4, MovesOK, LookupRelaysMoves, StepMoves, FailuresOK, StartSelectionOK,
       SelectNextRelayOK, PingFailsOK, PingReadyOK DEF Step
  <1>. QED
    BY <1>1, <1>2, <1>3, <1>4 DEF Next

THEOREM SelectionInvariance == Spec => []SelectionInv
  BY SelectionInitOK, SelectionNextOK, PTL DEF Spec

\* A call never tries a relay that it tried before, also when a preferred relay is a
\* registered one, and when many managers registered one URL (selectNextRelay).
THEOREM RelaysAreTriedOnce == Spec => []NoRelayTwice
  <1>1. SelectionInv => NoRelayTwice
    BY DEF SelectionInv, TriedAreRemoved, NoRelayTwice
  <1>. QED
    BY <1>1, SelectionInvariance, PTL

\* A call that may use all relays fails only after each of them has failed: whoever
\* loses a race, or is in the second list, is asked later (_nextRelay).
THEOREM NoRelayIsForgotten == Spec => []EveryRelayTried
  <1>1. SelectionInv => EveryRelayTried
    BY DEF SelectionInv, RemovedHaveFailed, EveryRelayTried
  <1>. QED
    BY <1>1, SelectionInvariance, PTL

-----------------------------------------------------------------------------
(* The relays that are known are the registered ones *)

\* An event takes the relays of its manager away; a registration adds one.
LEMMA ApplyEventSet ==
  ASSUME NEW relays \in Seq(Relay), NEW e \in Event, e.name \in ExitEvents \cup {Registered}
  PROVE  ToSet(ApplyEvent(relays, e)) =
            {r \in ToSet(relays) : r.manager # e.manager}
               \cup (IF e.name = Registered THEN {[url |-> e.url, manager |-> e.manager]} ELSE {})
  <1>1. PICK relay, m : relay = [url |-> e.url, manager |-> e.manager] /\ m = e.manager
    OBVIOUS
  <1>2. relay.manager = m
    BY <1>1
  <1>3. PICK n \in Nat : n = Len(relays) /\ DOMAIN relays = 1..n
    OBVIOUS
  <1>4. ToSet(relays) = {relays[i] : i \in 1..n}
    BY <1>3 DEF ToSet
  <1>5. CASE e.name \in ExitEvents
    <2>1. e.name # Registered
      BY <1>5 DEF ExitEvents, Registered
    <2>2. PICK V : V = {r \in ToSet(relays) : r.manager # m}
      OBVIOUS
    <2>3. /\ Keep(relays, V) \in Seq(Relay)
          /\ \A i \in 1..Len(Keep(relays, V)) : Keep(relays, V)[i] \in V
          /\ \A j \in 1..Len(relays) : relays[j] \in V =>
                \E i \in 1..Len(Keep(relays, V)) : Keep(relays, V)[i] = relays[j]
      BY KeepFacts
    <2>4. PICK t \in Seq(Relay) : ApplyEvent(relays, e) = t /\ t = Keep(relays, V)
      BY <1>1, <1>5, <2>2, <2>3 DEF ApplyEvent
    <2>5. /\ \A i \in 1..Len(t) : t[i] \in V
          /\ \A j \in 1..Len(relays) : relays[j] \in V => \E i \in 1..Len(t) : t[i] = relays[j]
      BY <2>3, <2>4
    <2>6. ToSet(t) = {t[i] : i \in 1..Len(t)}
      BY DEF ToSet
    <2>7. ToSet(t) = V
      BY <1>3, <1>4, <2>2, <2>5, <2>6
    <2>. QED
      BY <1>1, <2>1, <2>2, <2>4, <2>7
  <1>6. CASE e.name \notin ExitEvents
    <2>1. e.name = Registered
      BY <1>6
    <2>2. CASE \E i \in 1..n : relays[i].manager = m
      <3>1. PICK t : t = [i \in 1..n |-> IF relays[i].manager = m THEN relay ELSE relays[i]]
        OBVIOUS
      <3>2. ApplyEvent(relays, e) = t
        BY <1>1, <1>3, <1>6, <2>2, <3>1 DEF ApplyEvent
      <3>3. ToSet(t) = {t[i] : i \in 1..n}
        BY <3>1 DEF ToSet
      <3>4. \A i \in 1..n : t[i] = IF relays[i].manager = m THEN relay ELSE relays[i]
        BY <3>1
      <3>5. ToSet(t) = {r \in ToSet(relays) : r.manager # m} \cup {relay}
        BY <1>2, <1>4, <2>2, <3>3, <3>4
      <3>. QED
        BY <1>1, <2>1, <3>2, <3>5
    <2>3. CASE ~ \E i \in 1..n : relays[i].manager = m
      <3>1. ApplyEvent(relays, e) = Append(relays, relay)
        BY <1>1, <1>3, <1>6, <2>3 DEF ApplyEvent
      <3>2. ToSet(Append(relays, relay)) = ToSet(relays) \cup {relay}
        BY ListsAreLists, ListFacts
      <3>3. {r \in ToSet(relays) : r.manager # m} = ToSet(relays)
        BY <1>4, <2>3
      <3>. QED
        BY <1>1, <2>1, <3>1, <3>2, <3>3
    <2>. QED
      BY <2>2, <2>3
  <1>. QED
    BY <1>5, <1>6

\* In a list of such events, the i-th of the first n is the last one of its manager.
IsLastOf(E, n, i) ==
    E[i].name = Registered /\ \A j \in 1..n : j > i => E[j].manager # E[i].manager

RelayOf(e) == [url |-> e.url, manager |-> e.manager]

LEMMA RelayInfoSet ==
  ASSUME log \in Seq(Event), NEW managers, NEW E, E = MergedEvents(managers)
  PROVE  ToSet(RelayInfoForManagers(managers)) =
            {RelayOf(E[i]) : i \in {k \in 1..Len(E) : IsLastOf(E, Len(E), k)}}
  <1>1. PICK H : /\ H[0] = << >>
                 /\ \A i \in 1..Len(E) : H[i] = ApplyEvent(H[i-1], E[i])
                 /\ \A i \in 0..Len(E) : H[i] \in Seq(Relay)
                 /\ RelayInfoForManagers(managers) = H[Len(E)]
    BY RelayInfoSteps
  <1>2. E \in Seq(Event)
    BY MergedEventsType
  <1>3. PICK n \in Nat : n = Len(E) /\ \A i \in 1..n : E[i] \in Event
    BY <1>2
  <1>4. \A i \in 1..n : E[i].name \in ExitEvents \cup {Registered}
    BY <1>3, KeepFacts DEF MergedEvents, EventsOf
  <1>. DEFINE Offers(k) == {RelayOf(E[i]) : i \in {j \in 1..k : IsLastOf(E, k, j)}}
              P == {k \in 0..n : ToSet(H[k]) = Offers(k)}
  <1>5. 0 \in P
    <2>1. 1..0 = {} /\ ToSet(<< >>) = {}
      BY DEF ToSet
    <2>2. ToSet(H[0]) = {}
      BY <1>1, <2>1
    <2>3. Offers(0) = {}
      BY <2>1
    <2>. QED
      BY <2>2, <2>3
  <1>6. ASSUME NEW k \in 1..n, k-1 \in P PROVE k \in P
    <2>1. PICK m : m = E[k].manager
      OBVIOUS
    <2>2. ToSet(H[k]) = {r \in Offers(k-1) : r.manager # m}
                           \cup (IF E[k].name = Registered THEN {RelayOf(E[k])} ELSE {})
      <3>1. H[k] = ApplyEvent(H[k-1], E[k]) /\ H[k-1] \in Seq(Relay) /\ E[k] \in Event
        BY <1>1, <1>3
      <3>2. ToSet(H[k-1]) = Offers(k-1)
        BY <1>6
      <3>. HIDE DEF Offers
      <3>. QED
        BY <1>4, <2>1, <3>1, <3>2, ApplyEventSet DEF RelayOf
    <2>3. \A j \in 1..k : j = k \/ j \in 1..(k-1)
      OBVIOUS
    <2>4. \A j \in 1..(k-1) : IsLastOf(E, k, j) <=> IsLastOf(E, k-1, j) /\ E[j].manager # m
      <3>1. k \in 1..k /\ \A j \in 1..(k-1) : j \in 1..k /\ k > j
        OBVIOUS
      <3>. QED
        BY <2>1, <2>3, <3>1 DEF IsLastOf
    <2>5. IsLastOf(E, k, k) <=> E[k].name = Registered
      <3>1. \A j \in 1..k : ~(j > k)
        OBVIOUS
      <3>. QED
        BY <3>1 DEF IsLastOf
    <2>6. \A j \in 1..n : RelayOf(E[j]).manager = E[j].manager
      BY DEF RelayOf
    <2>7. \A r : r \in Offers(k) <=>
             \/ \E j \in 1..(k-1) : r = RelayOf(E[j]) /\ IsLastOf(E, k, j)
             \/ r = RelayOf(E[k]) /\ IsLastOf(E, k, k)
      <3>1. k \in 1..k /\ \A j \in 1..(k-1) : j \in 1..k
        OBVIOUS
      <3>. QED
        BY <2>3, <3>1
    <2>8. \A r : r \in {q \in Offers(k-1) : q.manager # m} <=>
             \E j \in 1..(k-1) : r = RelayOf(E[j]) /\ IsLastOf(E, k-1, j) /\ E[j].manager # m
      <3>1. \A j \in 1..(k-1) : j \in 1..n
        BY <1>3
      <3>. QED
        BY <2>6, <3>1
    <2>9. ToSet(H[k]) = Offers(k)
      <3>. HIDE DEF Offers
      <3>. QED
        BY <2>2, <2>4, <2>5, <2>7, <2>8
    <2>10. k \in 0..n
      OBVIOUS
    <2>. HIDE DEF Offers
    <2>. QED
      BY <2>9, <2>10
  <1>. HIDE DEF P
  <1>7. \A k \in 0..n : k \in P
    BY <1>5, <1>6, SetInduction
  <1>8. ToSet(H[n]) = Offers(n)
    <2>1. n \in P
      BY <1>7
    <2>. HIDE DEF Offers
    <2>. QED
      BY <2>1 DEF P
  <1>. QED
    BY <1>1, <1>3, <1>8

\* The relays of the managers are the ones whose last registration stands.
LEMMA RelaysAreRegistered ==
  ASSUME log \in Seq(Event), NEW managers
  PROVE  ToSet(RelayInfoForManagers(managers)) =
            {RelayOf(log[i]) : i \in {k \in DOMAIN log :
                IsRegistration(k) /\ log[k].manager \in managers}}
  <1>1. PICK n \in Nat : n = Len(log) /\ DOMAIN log = 1..n
    OBVIOUS
  <1>2. PICK V : V = {e \in ToSet(log) : e.manager \in managers
                                        /\ e.name \in ExitEvents \cup {Registered}}
    OBVIOUS
  <1>3. PICK E \in Seq(Event) : E = MergedEvents(managers) /\ E = Keep(log, V)
    BY <1>2, MergedEventsType DEF MergedEvents, EventsOf
  <1>4. PICK pos : KeptAt(log, n, V, E, pos)
    BY <1>1, <1>3, KeepOrder
  <1>5. \A k \in 1..n : log[k] \in ToSet(log)
    BY <1>1 DEF ToSet
  <1>6. PICK m \in Nat : m = Len(E)
    BY <1>3
  <1>7. /\ \A i \in 1..m : pos[i] \in 1..n /\ E[i] = log[pos[i]] /\ log[pos[i]] \in V
        /\ \A i, j \in 1..m : i < j => pos[i] < pos[j]
        /\ \A k \in 1..n : log[k] \in V => \E i \in 1..m : pos[i] = k
    BY <1>4, <1>6 DEF KeptAt
  <1>8. \A i, j \in 1..m : pos[i] < pos[j] => i < j
    <2>1. \A i, j \in 1..m : ~(i < j) => i = j \/ j < i
      OBVIOUS
    <2>2. \A i, j \in 1..m : pos[j] < pos[i] => ~(pos[i] < pos[j])
      BY <1>7
    <2>3. \A i \in 1..m : ~(pos[i] < pos[i])
      BY <1>7
    <2>. QED
      BY <1>7, <2>1, <2>2, <2>3
  <1>9. \A k \in 1..n : log[k] \in V <=> /\ log[k].manager \in managers
                                         /\ log[k].name \in ExitEvents \cup {Registered}
    BY <1>2, <1>5
  <1>10. ASSUME NEW i \in 1..m
         PROVE  IsLastOf(E, m, i) <=> IsRegistration(pos[i])
    <2>1. ASSUME IsLastOf(E, m, i) PROVE IsRegistration(pos[i])
      <3>1. log[pos[i]].name = Registered /\ log[pos[i]].manager \in managers
        BY <1>7, <1>9, <2>1 DEF IsLastOf
      <3>2. ASSUME NEW k \in 1..n, k > pos[i], log[k].manager = log[pos[i]].manager,
                   log[k].name \in ExitEvents \cup {Registered}
            PROVE  FALSE
        <4>1. PICK j \in 1..m : pos[j] = k
          BY <1>7, <1>9, <3>1, <3>2
        <4>2. pos[i] < pos[j]
          BY <1>7, <3>2, <4>1
        <4>3. j > i
          BY <1>8, <4>2
        <4>. QED
          BY <1>7, <2>1, <3>2, <4>1, <4>3 DEF IsLastOf
      <3>. QED
        BY <1>1, <3>1, <3>2 DEF IsRegistration
    <2>2. ASSUME IsRegistration(pos[i]) PROVE IsLastOf(E, m, i)
      <3>1. E[i].name = Registered
        BY <1>7, <2>2 DEF IsRegistration
      <3>2. ASSUME NEW j \in 1..m, j > i, E[j].manager = E[i].manager PROVE FALSE
        <4>1. pos[j] > pos[i] /\ pos[j] \in 1..n
          BY <1>7, <3>2
        <4>2. log[pos[j]].name \in ExitEvents \cup {Registered}
          BY <1>7, <1>9
        <4>. QED
          BY <1>1, <1>7, <2>2, <3>2, <4>1, <4>2 DEF IsRegistration
      <3>. QED
        BY <3>1, <3>2 DEF IsLastOf
    <2>. QED
      BY <2>1, <2>2
  <1>11. \A k \in 1..n : IsRegistration(k) /\ log[k].manager \in managers =>
                            \E i \in 1..m : pos[i] = k
    BY <1>7, <1>9 DEF IsRegistration
  <1>12. ToSet(RelayInfoForManagers(managers)) =
            {RelayOf(E[i]) : i \in {k \in 1..m : IsLastOf(E, m, k)}}
    <2>1. ToSet(RelayInfoForManagers(managers)) =
            {RelayOf(E[i]) : i \in {k \in 1..Len(E) : IsLastOf(E, Len(E), k)}}
      BY <1>3, RelayInfoSet, Zenon
    <2>. QED
      BY <1>6, <2>1
  <1>13. \A r : (\E i \in 1..m : r = RelayOf(E[i]) /\ IsLastOf(E, m, i)) <=>
                (\E k \in 1..n : /\ r = RelayOf(log[k])
                                 /\ IsRegistration(k) /\ log[k].manager \in managers)
    <2>1. ASSUME NEW r, NEW i \in 1..m, r = RelayOf(E[i]), IsLastOf(E, m, i)
          PROVE  \E k \in 1..n : /\ r = RelayOf(log[k])
                                 /\ IsRegistration(k) /\ log[k].manager \in managers
      BY <1>7, <1>9, <1>10, <2>1
    <2>2. ASSUME NEW r, NEW k \in 1..n, r = RelayOf(log[k]),
                 IsRegistration(k), log[k].manager \in managers
          PROVE  \E i \in 1..m : r = RelayOf(E[i]) /\ IsLastOf(E, m, i)
      <3>1. PICK i \in 1..m : pos[i] = k
        BY <1>11, <2>2
      <3>2. E[i] = log[k] /\ IsLastOf(E, m, i)
        BY <1>7, <1>10, <2>2, <3>1
      <3>. QED
        BY <2>2, <3>2
    <2>. QED
      BY <2>1, <2>2
  <1>. QED
    BY <1>1, <1>12, <1>13

LEMMA MinMax ==
  ASSUME NEW a \in Int, NEW b \in Int
  PROVE  /\ Min({a, b}) = IF a <= b THEN a ELSE b
         /\ Max({a, b}) = IF a >= b THEN a ELSE b
  <1>1. \E x \in {a, b} : \A y \in {a, b} : x <= y
    OBVIOUS
  <1>2. \E x \in {a, b} : \A y \in {a, b} : x >= y
    OBVIOUS
  <1>. QED
    BY <1>1, <1>2 DEF Min, Max

\* What is left of y, when the remainder is taken away, is a multiple of n.
LEMMA Multiples ==
  ASSUME NEW y \in Nat, NEW n \in Nat \ {0}
  PROVE  y % n \in 0..(n - 1) /\ y % n <= y /\ (y - (y % n)) % n = 0
  <1>1. PICK r \in 0..(n - 1), q \in Nat : r = y % n /\ y = n * q + r
    <2>1. y % n \in 0..(n - 1) /\ y \div n \in Nat
      OBVIOUS
    <2>2. y = n * (y \div n) + (y % n)
      OBVIOUS
    <2>. QED
      BY <2>1, <2>2
  <1>2. (n * q) % n = 0
    OBVIOUS
  <1>3. n * q \in Nat
    OBVIOUS
  <1>. QED
    BY <1>1, <1>2, <1>3

\* The parts of a range lie in it, and leave out no more than its last block.
LEMMA PartsCover ==
  ASSUME NEW from \in Int, NEW to \in Int, from <= to, NEW splits \in Nat \ {0}
  PROVE  /\ \A part \in SplitRange(from, to, splits) : part.from..part.to \subseteq from..to
         /\ \A x \in from..(to - 1) :
               \E part \in SplitRange(from, to, splits) : x \in part.from..part.to
  <1>1. PICK size : size = (to - from + splits) \div splits
    OBVIOUS
  <1>2. size \in Nat \ {0}
    <2>1. PICK d \in Nat : d = to - from
      OBVIOUS
    <2>2. (d + splits) \div splits \in Nat \ {0}
      OBVIOUS
    <2>. QED
      BY <1>1, <2>1, <2>2
  <1>3. SplitRange(from, to, splits) =
          {[from |-> b, to |-> Min({to, b + size - 1})] :
              b \in {x \in from..(to - 1) : (x - from) % size = 0}}
    BY <1>1 DEF SplitRange
  <1>4. ASSUME NEW part \in SplitRange(from, to, splits)
        PROVE  part.from..part.to \subseteq from..to
    <2>1. PICK b \in from..(to - 1) : part = [from |-> b, to |-> Min({to, b + size - 1})]
      BY <1>3
    <2>2. Min({to, b + size - 1}) <= to /\ Min({to, b + size - 1}) \in Int
      BY <1>2, MinMax
    <2>. QED
      BY <2>1, <2>2
  <1>5. ASSUME NEW x \in from..(to - 1)
        PROVE  \E part \in SplitRange(from, to, splits) : x \in part.from..part.to
    <2>1. PICK y \in Nat : y = x - from
      OBVIOUS
    <2>2. PICK r : r = y % size
      OBVIOUS
    <2>3. r \in 0..(size - 1) /\ r <= y /\ (y - r) % size = 0
      BY <1>2, <2>2, Multiples
    <2>4. PICK b \in Int : b = x - r
      BY <2>3
    <2>5. b \in from..(to - 1) /\ (b - from) % size = 0
      <3>1. b - from = y - r
        BY <2>1, <2>3, <2>4
      <3>. QED
        BY <2>1, <2>3, <2>4, <3>1
    <2>6. PICK e \in Int : e = Min({to, b + size - 1}) /\ x <= e
      BY <1>2, <2>3, <2>4, MinMax
    <2>7. PICK part : part = [from |-> b, to |-> e]
      OBVIOUS
    <2>8. part \in SplitRange(from, to, splits)
      BY <1>3, <2>5, <2>6, <2>7
    <2>9. x \in part.from..part.to
      BY <2>3, <2>4, <2>6, <2>7
    <2>. QED
      BY <2>8, <2>9
  <1>. QED
    BY <1>4, <1>5

\* The managers that are found were active in the window; at most those that were
\* active in the latest block only are missed.
LEMMA ActiveManagers ==
  ASSUME log \in Seq(Event), known.parts \in Nat \ {0}
  PROVE  \A m : /\ RecentIn(m, WindowStart..(LatestBlock - 1)) => m \in RecentlyActive
                /\ m \in RecentlyActive => RecentIn(m, WindowStart..LatestBlock)
  <1>1. WindowStart \in Int /\ WindowStart <= LatestBlock
    <2>1. LatestBlock - LookupWindowBlocks \in Int /\ 0 \in Int
      BY SelectionAssumption
    <2>2. WindowStart = IF 0 >= LatestBlock - LookupWindowBlocks THEN 0
                        ELSE LatestBlock - LookupWindowBlocks
      BY <2>1, MinMax DEF WindowStart
    <2>. QED
      BY <2>1, <2>2, SelectionAssumption
  <1>2. /\ \A part \in RangeParts : part.from..part.to \subseteq WindowStart..LatestBlock
        /\ \A x \in WindowStart..(LatestBlock - 1) :
              \E part \in RangeParts : x \in part.from..part.to
    <2>1. PICK from \in Int, to \in Int, splits \in Nat \ {0} :
             from = WindowStart /\ to = LatestBlock /\ splits = known.parts
      BY <1>1, SelectionAssumption
    <2>2. RangeParts = SplitRange(from, to, splits) /\ from <= to
      BY <1>1, <2>1 DEF RangeParts
    <2>3. /\ \A part \in SplitRange(from, to, splits) : part.from..part.to \subseteq from..to
          /\ \A x \in from..(to - 1) :
                \E part \in SplitRange(from, to, splits) : x \in part.from..part.to
      BY <2>2, PartsCover
    <2>4. PICK R : R = RangeParts
      OBVIOUS
    <2>5. /\ \A part \in R : part.from..part.to \subseteq from..to
          /\ \A x \in from..(to - 1) : \E part \in R : x \in part.from..part.to
      BY <2>2, <2>3, <2>4
    <2>. QED
      BY <2>1, <2>4, <2>5
  <1>3. \A m : m \in RecentlyActive <=>
           \E part \in RangeParts : \E i \in ActiveIn(part) : m = log[i].manager
    BY DEF RecentlyActive
  <1>4. ASSUME NEW m, RecentIn(m, WindowStart..(LatestBlock - 1)) PROVE m \in RecentlyActive
    <2>1. PICK j \in DOMAIN log : /\ log[j].manager = m
                                  /\ log[j].name \in ActiveManagerEvents
                                  /\ log[j].block \in WindowStart..(LatestBlock - 1)
      BY <1>4 DEF RecentIn
    <2>2. PICK part \in RangeParts : log[j].block \in part.from..part.to
      BY <1>2, <2>1
    <2>. QED
      BY <1>3, <2>1, <2>2 DEF ActiveIn
  <1>5. ASSUME NEW m, m \in RecentlyActive PROVE RecentIn(m, WindowStart..LatestBlock)
    <2>1. PICK part \in RangeParts : \E i \in ActiveIn(part) : m = log[i].manager
      BY <1>3, <1>5
    <2>. QED
      BY <1>2, <2>1 DEF ActiveIn, RecentIn
  <1>. QED
    BY <1>4, <1>5

-----------------------------------------------------------------------------
(* Types, and what is known during a call *)

\* The rest of TypeOK.
KnownTypes ==
    /\ known.parts \in {LookupWindowParts * k : k \in {1, 4, 16}}
    /\ known.failures \in [Url -> 0..MaxFailures]

RaceTypes ==
    /\ sel.lists \in [1..2 -> Seq(Relay)]
    /\ sel.waiting \subseteq sel.slice
    /\ sel.slice \subseteq DOMAIN sel.lists[sel.list]

\* Where the relays of a call are known.
Informed == {"gasPrice", "estimate", "start", "select", "race"} \cup Late

LastIn(lo, hi) ==
    {RelayOf(log[i]) : i \in {k \in DOMAIN log : IsRegistration(k) /\ RecentIn(log[k].manager, lo..hi)}}

\* What is found about managers and relays is not changed until the next call.
FoundInv ==
    /\ call.pc = "lookup" =>
          \A m : /\ RecentIn(m, WindowStart..(LatestBlock - 1)) => m \in call.managers
                 /\ m \in call.managers => RecentIn(m, WindowStart..LatestBlock)
    /\ call.pc \in Informed =>
          /\ LastIn(WindowStart, LatestBlock - 1) \subseteq ToSet(known.all)
          /\ ToSet(known.all) \subseteq LastIn(WindowStart, LatestBlock)

ClientInv ==
    /\ IInv /\ SelectionInv
    /\ KnownTypes /\ RaceTypes /\ FoundInv
    /\ call.result \in Result
    /\ lost \subseteq DOMAIN posted

LEMMA PartsPositive ==
  ASSUME KnownTypes
  PROVE  known.parts \in Nat \ {0}
  <1>1. LookupWindowParts \in Nat \ {0}
    BY SelectionAssumption
  <1>2. LookupWindowParts * 1 \in Nat \ {0} /\ LookupWindowParts * 4 \in Nat \ {0}
        /\ LookupWindowParts * 16 \in Nat \ {0}
    BY <1>1
  <1>. QED
    BY <1>2 DEF KnownTypes

\* Failures stay within their bound, and the window is not split for ever.
LEMMA KnownTypesOK ==
  ASSUME SelectionInv, KnownTypes, [Next]_vars
  PROVE  KnownTypes'
  <1>. USE DEF KnownTypes
  <1>1. known = [f \in KnownFields |-> known[f]]
    BY DEF SelectionInv, SelectionTypes
  <1>2. CASE UNCHANGED known
    BY <1>2
  <1>3. CASE RefreshFailures
    <2>1. PICK f \in [Url -> 0..MaxFailures] : known' = [known EXCEPT !.failures = f]
      BY <1>3 DEF RefreshFailures
    <2>. QED
      BY <1>1, <2>1 DEF KnownFields
  <1>4. ASSUME NEW u, SaveRelayFailure(u) PROVE KnownTypes'
    <2>1. PICK f : f = known.failures
      OBVIOUS
    <2>2. PICK g : g = [f EXCEPT ![u] = Min({@ + 1, MaxFailures})]
      OBVIOUS
    <2>3. known' = [known EXCEPT !.failures = g]
      BY <1>4, <2>1, <2>2 DEF SaveRelayFailure
    <2>4. ASSUME u \in Url PROVE Min({f[u] + 1, MaxFailures}) \in 0..MaxFailures
      <3>1. f[u] \in 0..MaxFailures /\ MaxFailures \in Nat
        BY <2>1, <2>4, SelectionAssumption
      <3>2. f[u] + 1 \in Int /\ MaxFailures \in Int
        BY <3>1
      <3>3. Min({f[u] + 1, MaxFailures}) = IF f[u] + 1 <= MaxFailures THEN f[u] + 1 ELSE MaxFailures
        BY <3>2, MinMax
      <3>. QED
        BY <3>1, <3>3
    <2>5. g \in [Url -> 0..MaxFailures]
      <3>1. f \in [Url -> 0..MaxFailures]
        BY <2>1
      <3>2. PICK m : m = Min({f[u] + 1, MaxFailures})
        OBVIOUS
      <3>3. g = [f EXCEPT ![u] = m]
        BY <2>2, <3>2
      <3>. QED
        BY <2>4, <3>1, <3>2, <3>3
    <2>. QED
      BY <1>1, <2>3, <2>5 DEF KnownFields
  <1>5. CASE LookupRelays
    BY <1>1, <1>5 DEF LookupRelays, KnownFields
  <1>6. CASE FetchRecentlyActive
    <2>1. CASE known' = [known EXCEPT !.parts = @ * 4] /\ MaySplitFurther
      <3>1. PICK p : p = known.parts
        OBVIOUS
      <3>2. PICK w \in Nat \ {0} : w = LookupWindowParts
        BY SelectionAssumption
      <3>3. p \in {w * 1, w * 4, w * 16} /\ p < 16
        BY <2>1, <3>1, <3>2 DEF MaySplitFurther
      <3>4. p * 4 \in {w * 4, w * 16}
        BY <3>3
      <3>5. known' = [known EXCEPT !.parts = p * 4]
        BY <2>1, <3>1
      <3>. QED
        BY <1>1, <3>2, <3>4, <3>5 DEF KnownFields
    <2>. QED
      BY <1>2, <1>6, <2>1 DEF FetchRecentlyActive
  <1>7. \/ UNCHANGED known \/ RefreshFailures \/ LookupRelays \/ FetchRecentlyActive
        \/ SaveRelayFailure(call.url)
    BY DEF vars, Next, User, EthSendTransaction, DeploySmartWallet, RelayTransaction,
       CreateRequest, SendTransaction, Step, CalculateGasPrice,
       EstimateDestinationContractCallGas, StartSelection, SelectNextRelay, PingFails, PingReady,
       FindWinner, NodeFails, EstimateTokenTransferGasFails, PrepareRelayHttpRequest,
       PrepareDeployHttpRequest, Prepare, SignFails, AttemptFails, Post, BadAnswer, Refused,
       GoodAnswer, Broadcast, Receipt, NoReceipt, Chain, Executes, Reverts, ActsElsewhere
  <1>. QED
    BY <1>2, <1>3, <1>4, <1>5, <1>6, <1>7

LEMMA NewRaceOK ==
  ASSUME NEW lists \in [1..2 -> Seq(Relay)], sel'.lists = lists, sel'.waiting = {}, sel'.slice = {}
  PROVE  RaceTypes'
  BY DEF RaceTypes

LEMMA NewSelectionRace ==
  ASSUME NEW lists
  PROVE  /\ NewSelection(lists).lists = lists
         /\ NewSelection(lists).waiting = {} /\ NewSelection(lists).slice = {}
  BY DEF NewSelection

\* A race is among relays of its list; answers that arrived are not waited for.
LEMMA RaceTypesOK ==
  ASSUME SelectionInv, RaceTypes, [Next]_vars
  PROVE  RaceTypes'
  <1>1. sel = [f \in SelFields |-> sel[f]] /\ sel.lists \in [1..2 -> Seq(Relay)]
    BY DEF SelectionInv, SelectionTypes, RaceTypes
  <1>2. CASE UNCHANGED sel
    BY <1>2 DEF RaceTypes
  <1>3. CASE sel' = NewSelection(<<<< >>, << >>>>)
    <2>1. <<<< >>, << >>>> \in [1..2 -> Seq(Relay)]
      <3>1. PICK e \in Seq(Relay) : e = << >>
        BY EmptyListFacts, Zenon
      <3>2. <<e, e>> \in [1..2 -> Seq(Relay)]
        OBVIOUS
      <3>. QED
        BY <3>1, <3>2
    <2>. QED
      BY <1>3, <2>1, NewRaceOK, NewSelectionRace
  <1>4. CASE StartSelection
    <2>1. PICK P, A : P = known.preferred /\ A = Sorted(known.all)
      OBVIOUS
    <2>2. P \in Seq(Relay) /\ A \in Seq(Relay)
      BY <2>1, SortedType DEF SelectionInv, SelectionTypes
    <2>3. <<P, A>> \in [1..2 -> Seq(Relay)]
      BY <2>2
    <2>4. sel' = NewSelection(<<P, A>>)
      BY <1>4, <2>1, Zenon DEF StartSelection, RelaysSortedForTransaction
    <2>. QED
      BY <2>3, <2>4, NewRaceOK, NewSelectionRace
  <1>5. CASE SelectNextRelay
    <2>1. PICK l, slice :
            /\ l = IF call.only THEN 1 ELSE NextList
            /\ slice = SliceFrom(l, IF call.only THEN sel.index ELSE 0)
      OBVIOUS
    <2>2. UNCHANGED sel \/ StartRace(l, slice)
      BY <1>5, <2>1 DEF SelectNextRelay
    <2>3. l \in {1, 2} /\ slice \subseteq Remaining(l)
      BY <2>1 DEF NextList, SliceFrom
    <2>4. slice \subseteq DOMAIN sel.lists[l]
      <3>1. sel.lists[l] \in Seq(Relay)
        BY <1>1, <2>3
      <3>2. DOMAIN sel.lists[l] = 1..Len(sel.lists[l])
        BY <3>1
      <3>. QED
        BY <2>3, <3>2 DEF Remaining
    <2>5. CASE StartRace(l, slice)
      <3>1. /\ sel'.lists = sel.lists /\ sel'.list = l
            /\ sel'.slice = slice /\ sel'.waiting = slice
        BY <1>1, <2>5 DEF StartRace, SelFields
      <3>. QED
        BY <1>1, <2>4, <3>1 DEF RaceTypes
    <2>. QED
      BY <1>2, <2>2, <2>5
  <1>6. ASSUME NEW i \in sel.waiting, PingFails(i) PROVE RaceTypes'
    <2>1. PICK failed, index : /\ failed = sel.failed \cup {RelayAt(i).url}
                               /\ index = sel.index + Cardinality(sel.slice)
      OBVIOUS
    <2>2. \/ sel' = [NewSelection(sel.lists) EXCEPT
                        !.removed = Removed(failed), !.index = index,
                        !.errors = sel.errors \cup failed]
          \/ sel' = [sel EXCEPT !.failed = failed, !.waiting = @ \ {i}]
      BY <1>6, <2>1 DEF PingFails, PingError
    <2>3. CASE sel' = [NewSelection(sel.lists) EXCEPT
                          !.removed = Removed(failed), !.index = index,
                          !.errors = sel.errors \cup failed]
      <3>1. sel'.lists = sel.lists /\ sel'.waiting = {} /\ sel'.slice = {}
        BY <2>3 DEF NewSelection
      <3>. QED
        BY <1>1, <3>1, NewRaceOK
    <2>4. CASE sel' = [sel EXCEPT !.failed = failed, !.waiting = @ \ {i}]
      <3>1. /\ sel'.lists = sel.lists /\ sel'.list = sel.list
            /\ sel'.slice = sel.slice /\ sel'.waiting = sel.waiting \ {i}
        BY <1>1, <2>4 DEF SelFields
      <3>. QED
        BY <3>1 DEF RaceTypes
    <2>. QED
      BY <2>2, <2>3, <2>4
  <1>7. ASSUME NEW i \in sel.waiting, PingReady(i) PROVE RaceTypes'
    <2>1. PICK removed, errors : /\ removed = Removed(sel.failed \cup {RelayAt(i).url})
                                 /\ errors = sel.errors \cup sel.failed
      OBVIOUS
    <2>2. sel' = [NewSelection(sel.lists) EXCEPT !.removed = removed, !.errors = errors]
      BY <1>7, <2>1 DEF PingReady, RaceWon
    <2>3. sel'.lists = sel.lists /\ sel'.waiting = {} /\ sel'.slice = {}
      BY <2>2 DEF NewSelection
    <2>. QED
      BY <1>1, <2>3, NewRaceOK
  <1>8. \/ UNCHANGED sel \/ StartSelection \/ SelectNextRelay
        \/ sel' = NewSelection(<<<< >>, << >>>>)
        \/ \E i \in sel.waiting : PingFails(i) \/ PingReady(i)
    BY DEF vars, Next, User, EthSendTransaction, DeploySmartWallet, RelayTransaction,
       CreateRequest, SendTransaction, Step, FetchRecentlyActive, LookupRelays, CalculateGasPrice,
       EstimateDestinationContractCallGas,
       FindWinner, NodeFails, EstimateTokenTransferGasFails, PrepareRelayHttpRequest,
       PrepareDeployHttpRequest, Prepare, SignFails, AttemptFails, Post, BadAnswer, Refused, GiveUp,
       GoodAnswer, Broadcast, Receipt, NoReceipt, Chain, Executes, Reverts, ActsElsewhere
  <1>. QED
    BY <1>2, <1>3, <1>4, <1>5, <1>6, <1>7, <1>8

\* Nothing but the lookup changes what is known, and nothing but the first request
\* the managers; only then a call is informed.
KeepsFound ==
    /\ UNCHANGED log
    /\ known'.all = known.all /\ call'.managers = call.managers
    /\ call'.pc = "lookup" => call.pc = "lookup"
    /\ call'.pc \in Informed => call.pc \in Informed

LEMMA KnownAllKept ==
  ASSUME SelectionInv, NEW f
  PROVE  /\ known' = [known EXCEPT !.failures = f] => known'.all = known.all
         /\ known' = [known EXCEPT !.parts = f] => known'.all = known.all
  BY DEF SelectionInv, SelectionTypes, KnownFields

LEMMA KeepsFoundOK ==
  ASSUME SelectionInv, Step, ~FetchRecentlyActive, ~LookupRelays
  PROVE  KeepsFound
  <1>. USE DEF KeepsFound, CallFields, Informed, Late, Awaited
  <1>1. call = [f \in CallFields |-> call[f]]
    BY DEF SelectionInv, SelectionTypes
  <1>2. CASE UNCHANGED <<log, known>>
    <2>1. CASE CalculateGasPrice \/ EstimateDestinationContractCallGas
      BY <1>1, <1>2, <2>1 DEF CalculateGasPrice, EstimateDestinationContractCallGas
    <2>2. CASE StartSelection
      BY <1>1, <1>2, <2>2 DEF StartSelection, Done
    <2>3. CASE SelectNextRelay
      BY <1>1, <1>2, <2>3 DEF SelectNextRelay, Done
    <2>4. ASSUME NEW i \in sel.waiting, PingFails(i) \/ PingReady(i) PROVE KeepsFound
      BY <1>1, <1>2, <2>4 DEF PingFails, PingReady
    <2>5. CASE \E m \in Manager : FindWinner(m)
      BY <1>1, <1>2, <2>5 DEF FindWinner, Done
    <2>6. CASE NodeFails \/ EstimateTokenTransferGasFails
      BY <1>1, <1>2, <2>6 DEF NodeFails, EstimateTokenTransferGasFails, Done
    <2>7. CASE PrepareRelayHttpRequest \/ PrepareDeployHttpRequest
      BY <1>1, <1>2, <2>7 DEF PrepareRelayHttpRequest, PrepareDeployHttpRequest, Prepare
    <2>8. CASE SignFails \/ AttemptFails \/ Refused
      BY <1>1, <1>2, <2>8 DEF SignFails, AttemptFails, Refused, GiveUp, RelayFails
    <2>9. CASE Post
      BY <1>1, <1>2, <2>9 DEF Post
    <2>10. CASE GoodAnswer
      BY <1>1, <1>2, <2>10 DEF GoodAnswer
    <2>11. CASE Broadcast \/ Receipt \/ NoReceipt
      BY <1>1, <1>2, <2>11 DEF Broadcast, Receipt, NoReceipt, Done
    <2>12. CASE BadAnswer
      BY <1>1, <1>2, <2>12 DEF BadAnswer, GiveUp, RelayFails
    <2>. QED
      BY <2>1, <2>2, <2>3, <2>4, <2>5, <2>6, <2>7, <2>8, <2>9, <2>10, <2>11, <2>12 DEF Step
  <1>3. CASE BadAnswer
    <2>1. known'.all = known.all
      BY <1>3, KnownAllKept DEF BadAnswer, SaveRelayFailure
    <2>. QED
      BY <1>1, <1>3, <2>1 DEF BadAnswer, GiveUp, RelayFails
  <1>4. UNCHANGED <<log, known>> \/ BadAnswer
    BY DEF Step, CalculateGasPrice, EstimateDestinationContractCallGas, StartSelection,
       SelectNextRelay, PingFails, PingReady,
       FindWinner, NodeFails, EstimateTokenTransferGasFails, PrepareRelayHttpRequest,
       PrepareDeployHttpRequest, Prepare, SignFails, AttemptFails, Post, Refused, GiveUp,
       GoodAnswer, Broadcast, Receipt, NoReceipt
  <1>. QED
    BY <1>2, <1>3, <1>4

\* A new call knows nothing yet.
LEMMA NewCallFound ==
  ASSUME NEW number, NEW kind, NEW only, NEW pays
  PROVE  /\ NewCall(number, kind, only, pays).pc = "fetch"
         /\ NewCall(number, kind, only, pays).result = "none"
  BY DEF NewCall

LEMMA UserFound ==
  ASSUME User
  PROVE  \/ UNCHANGED <<log, known, call>>
         \/ call'.pc \in {"fetch", "done"} /\ call'.result \in Result
  <1>1. ASSUME NEW kind, NEW only, NEW pays, RelayTransaction(kind, only, pays)
        PROVE  call'.pc = "fetch" /\ call'.result = "none"
    BY <1>1, NewCallFound DEF RelayTransaction
  <1>2. ASSUME NEW only \in BOOLEAN, NEW pays \in BOOLEAN, NEW addressKnown \in BOOLEAN,
               DeploySmartWallet(only, pays, addressKnown)
        PROVE  call'.pc \in {"fetch", "done"} /\ call'.result \in {"none", "rejected"}
    <2>1. CASE RelayTransaction("deploy", only, pays)
      BY <1>1, <2>1
    <2>2. CASE call' = [NewCall(call.number + 1, "deploy", only, pays) EXCEPT
                           !.pc = "done", !.result = "rejected"]
      <3>1. PICK u : u = CHOOSE v \in Url : TRUE
        OBVIOUS
      <3>2. call'.pc = "done" /\ call'.result = "rejected"
        BY <2>2, <3>1 DEF NewCall
      <3>. QED
        BY <3>2
    <2>. QED
      BY <1>2, <2>1, <2>2 DEF DeploySmartWallet
  <1>3. CASE SendTransaction \/ \E kind \in Kind : CreateRequest(kind)
    BY <1>3 DEF SendTransaction, CreateRequest
  <1>. QED
    BY <1>1, <1>2, <1>3 DEF User, EthSendTransaction, Result

LEMMA WindowStays == WindowStart' = WindowStart
  BY DEF WindowStart, Max

LEMMA FoundOK ==
  ASSUME SelectionInv, KnownTypes, FoundInv, [Next]_vars
  PROVE  FoundInv'
  <1>. USE DEF Informed, Late, Awaited
  <1>1. log \in Seq(Event) /\ call = [f \in CallFields |-> call[f]]
    BY DEF SelectionInv, SelectionTypes
  <1>2. CASE KeepsFound
    BY <1>2, WindowStays DEF KeepsFound, FoundInv, LastIn, IsRegistration, RecentIn
  <1>3. CASE call'.pc \in {"fetch", "done"}
    BY <1>3 DEF FoundInv
  <1>4. CASE FetchRecentlyActive
    <2>1. CASE call'.pc = "lookup" /\ call'.managers = RecentlyActive /\ UNCHANGED <<log, known>>
      <3>1. \A m : /\ RecentIn(m, WindowStart..(LatestBlock - 1)) => m \in RecentlyActive
                   /\ m \in RecentlyActive => RecentIn(m, WindowStart..LatestBlock)
        BY <1>1, PartsPositive, ActiveManagers
      <3>. QED
        BY <2>1, <3>1, WindowStays DEF FoundInv, RecentIn
    <2>2. call'.pc \in {"fetch", "done"} \/
             (call'.pc = "lookup" /\ call'.managers = RecentlyActive /\ UNCHANGED <<log, known>>)
      <3>1. PICK R : R = RecentlyActive
        OBVIOUS
      <3>. QED
        BY <1>1, <1>4, <3>1 DEF FetchRecentlyActive, Done, CallFields
    <2>. QED
      BY <1>3, <2>1, <2>2
  <1>5. CASE LookupRelays
    <2>1. PICK A : A = RelayInfoForManagers(call.managers)
      OBVIOUS
    <2>2. call.pc = "lookup" /\ call'.pc = "gasPrice" /\ UNCHANGED log /\ known'.all = A
      <3>1. known = [f \in KnownFields |-> known[f]]
        BY DEF SelectionInv, SelectionTypes
      <3>2. \E P : known' = [known EXCEPT !.preferred = P, !.all = A]
        BY <1>5, <2>1 DEF LookupRelays
      <3>. QED
        BY <1>1, <1>5, <3>1, <3>2 DEF LookupRelays, CallFields, KnownFields
    <2>3. ToSet(A) = {RelayOf(log[i]) : i \in {k \in DOMAIN log :
                        IsRegistration(k) /\ log[k].manager \in call.managers}}
      BY <1>1, <2>1, RelaysAreRegistered
    <2>4. /\ \A m : /\ RecentIn(m, WindowStart..(LatestBlock - 1)) => m \in call.managers
                    /\ m \in call.managers => RecentIn(m, WindowStart..LatestBlock)
      BY <2>2 DEF FoundInv
    <2>5. /\ LastIn(WindowStart, LatestBlock - 1) \subseteq ToSet(A)
          /\ ToSet(A) \subseteq LastIn(WindowStart, LatestBlock)
      BY <2>3, <2>4 DEF LastIn
    <2>. QED
      BY <2>2, <2>5, WindowStays DEF FoundInv, LastIn, IsRegistration, RecentIn
  <1>6. CASE User
    <2>1. CASE UNCHANGED <<log, known, call>>
      BY <1>2, <2>1 DEF KeepsFound
    <2>. QED
      BY <1>3, <1>6, <2>1, UserFound
  <1>7. CASE Chain \/ UNCHANGED vars
    BY <1>2, <1>7 DEF Chain, Executes, Reverts, ActsElsewhere, vars, KeepsFound
  <1>. QED
    BY <1>2, <1>4, <1>5, <1>6, <1>7, KeepsFoundOK DEF Next

LEMMA ResultOK ==
  ASSUME SelectionInv, call.result \in Result, [Next]_vars
  PROVE  call'.result \in Result
  <1>1. call = [f \in CallFields |-> call[f]]
    BY DEF SelectionInv, SelectionTypes
  <1>2. CASE Step
    <2>1. call'.result = call.result \/ \E r \in Result : Done(r)
      BY <1>1, <1>2
      DEF Step, FetchRecentlyActive, LookupRelays, CalculateGasPrice,
          EstimateDestinationContractCallGas, StartSelection, SelectNextRelay, PingFails, PingReady,
          FindWinner, NodeFails, EstimateTokenTransferGasFails, PrepareRelayHttpRequest,
          PrepareDeployHttpRequest, Prepare, SignFails, AttemptFails, Post, BadAnswer, Refused,
          GiveUp, RelayFails, GoodAnswer, Broadcast, Receipt, NoReceipt, CallFields, Result
    <2>. QED
      BY <1>1, <2>1 DEF Done, CallFields
  <1>3. CASE User
    BY <1>3, UserFound
  <1>4. CASE Chain \/ UNCHANGED vars
    BY <1>4 DEF Chain, Executes, Reverts, ActsElsewhere, vars
  <1>. QED
    BY <1>2, <1>3, <1>4 DEF Next

\* What is given up was posted.
LEMMA LostOK ==
  ASSUME IInv, lost \subseteq DOMAIN posted, [Next]_vars
  PROVE  lost' \subseteq DOMAIN posted'
  <1>1. posted \in Seq(Posted)
    BY DEF IInv, CallTypes
  <1>2. ASSUME NEW q, posted' = Append(posted, q) PROVE DOMAIN posted \subseteq DOMAIN posted'
    BY <1>1, <1>2
  <1>3. CASE UNCHANGED <<posted, lost>>
    BY <1>3
  <1>4. CASE UNCHANGED lost /\ \E q : posted' = Append(posted, q)
    BY <1>2, <1>4
  <1>5. CASE GiveUp
    BY <1>5 DEF GiveUp, IInv, OneAwaited, Awaited
  <1>6. \/ UNCHANGED <<posted, lost>>
        \/ UNCHANGED lost /\ \E q : posted' = Append(posted, q)
        \/ GiveUp
    BY DEF vars, Next, User, EthSendTransaction, DeploySmartWallet, RelayTransaction,
       CreateRequest, SendTransaction, Step, FetchRecentlyActive, LookupRelays, CalculateGasPrice,
       EstimateDestinationContractCallGas, StartSelection, SelectNextRelay, PingFails, PingReady,
       FindWinner, NodeFails, EstimateTokenTransferGasFails, PrepareRelayHttpRequest,
       PrepareDeployHttpRequest, Prepare, SignFails, AttemptFails, Post, BadAnswer, Refused,
       GoodAnswer, Broadcast, Receipt, NoReceipt, Chain, Executes, Reverts, ActsElsewhere
  <1>. QED
    BY <1>3, <1>4, <1>5, <1>6

LEMMA ClientInitOK == Init => ClientInv
  <1>. SUFFICES ASSUME Init PROVE ClientInv
    OBVIOUS
  <1>1. IInv /\ SelectionInv
    BY InitOK, SelectionInitOK
  <1>2. PICK f \in Failures : known = [parts |-> LookupWindowParts, preferred |-> << >>,
                                       all |-> << >>, failures |-> f]
    BY DEF Init, SelectionInit
  <1>3. KnownTypes
    <2>1. LookupWindowParts = LookupWindowParts * 1 /\ f \in [Url -> 0..MaxFailures]
      BY SelectionAssumption
    <2>. QED
      BY <1>2, <2>1 DEF KnownTypes
  <1>4. RaceTypes
    <2>1. <<<< >>, << >>>> \in [1..2 -> Seq(Relay)]
      <3>1. PICK e \in Seq(Relay) : e = << >>
        BY EmptyListFacts, Zenon
      <3>2. <<e, e>> \in [1..2 -> Seq(Relay)]
        OBVIOUS
      <3>. QED
        BY <3>1, <3>2
    <2>2. sel = NewSelection(<<<< >>, << >>>>)
      BY DEF Init, SelectionInit
    <2>. QED
      BY <2>1, <2>2, NewSelectionRace DEF RaceTypes
  <1>5. call.pc = "idle" /\ call.result = "none"
    BY DEF Init, NewCall
  <1>6. lost = {}
    BY DEF Init
  <1>. QED
    BY <1>1, <1>3, <1>4, <1>5, <1>6 DEF ClientInv, FoundInv, Informed, Late, Awaited, Result

THEOREM ClientInvariance == Spec => []ClientInv
  <1>1. ClientInv /\ [Next]_vars => ClientInv'
    BY NextOK, SelectionNextOK, KnownTypesOK, RaceTypesOK, FoundOK, ResultOK, LostOK
    DEF ClientInv
  <1>. QED
    BY <1>1, ClientInitOK, PTL DEF Spec

\* The client's state keeps its types: the window is not split into more than 16 times
\* the configured parts, a race is among relays of its list, and what was given up was
\* sent.
THEOREM ClientTypeCorrect == Spec => []TypeOK
  <1>1. ClientInv => TypeOK
    BY DEF ClientInv, IInv, CallTypes, SelectionInv, SelectionTypes, KnownTypes, RaceTypes, TypeOK,
       Posted, Outcome
  <1>. QED
    BY <1>1, ClientInvariance, PTL

\* The relays offered to a call are the registered ones that were active in the window,
\* but for the latest block, however many parts the window is read in
\* (_fetchRecentlyActiveRelayManagers, splitRange, getRelayInfoForManagers).
THEOREM OfferedRelaysAreRegistered == Spec => []KnownAreRegistered
  <1>1. ClientInv => KnownAreRegistered
    <2>. SUFFICES ASSUME ClientInv, call.pc \in {"gasPrice", "estimate", "start", "select"}
                  PROVE  /\ LastIn(WindowStart, LatestBlock - 1) \subseteq ToSet(known.all)
                         /\ ToSet(known.all) \subseteq LastIn(WindowStart, LatestBlock)
      BY DEF KnownAreRegistered, LastIn, RelayOf
    <2>. QED
      BY DEF ClientInv, FoundInv, Informed
  <1>. QED
    BY <1>1, ClientInvariance, PTL
=============================================================================
