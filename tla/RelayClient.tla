----------------------------- MODULE RelayClient -----------------------------
(***************************************************************************)
(* The relaying client (src/relayclient/RelayClient.ts, RelayProvider.ts,  *)
(* RelayedTransactionValidator.ts, HttpClient.ts): one call after another  *)
(* is offered to relay after relay until one returns a transaction.        *)
(*                                                                         *)
(* A step is what happens between two answers of the node, of a server or  *)
(* of the user who signs.  A server that received a request may have it    *)
(* executed from then on, whatever it answered and whether or not the      *)
(* answer arrived.  The user may also make requests by hand, with the      *)
(* facade of Enveloping.ts, while a call is under way.                     *)
(***************************************************************************)
EXTENDS RelaySelection

CONSTANTS
    MaxCalls,  \* bound: calls made through the client
    MaxOther,  \* bound: transactions of the user's wallet and factory from elsewhere
    MaxSends   \* bound: servers a request made by hand is sent to

VARIABLES
    call,     \* the current call of relayTransaction
    nonce,    \* the nonces the client signs: of the wallet, and of its owner in
              \* the factory
    created,  \* whether the wallet a deploy request asks for exists
    posted,   \* the requests that were sent to a server
    outcome,  \* outcome[i]: what became of posted[i] on the chain
    lost,     \* history: the indexes of the requests that were given up
    draft,    \* the request the user made by hand
    other     \* how often the user acted elsewhere

chainVars == <<nonce, created, outcome, draft, other>>
vars      == <<log, known, sel, call, chainVars, posted, lost>>

Kind == {"call", "deploy"}

\* pays: tokens are paid and the gas of their transfer is to be estimated.
\* request: the index of the request that is under way.  History: the relays tried
\* for this call, and the candidates there were.
NewCall(number, kind, only, pays) ==
    [pc |-> "fetch", number |-> number, kind |-> kind, only |-> only, pays |-> pays,
     managers |-> {}, url |-> CHOOSE u \in Url : TRUE, nonce |-> 0, request |-> 0,
     errors |-> {}, result |-> "none", tried |-> << >>, candidates |-> {}]

\* Requests made by hand are numbered -1, -2, ...
Request(number, kind, n) == [number |-> number, kind |-> kind, nonce |-> n]
NoDraft == Request(0, "call", 0)

InProgress == call.pc \notin {"idle", "done"}

Done(result) == call' = [call EXCEPT !.pc = "done", !.result = result]

-----------------------------------------------------------------------------
(* RelayProvider.send, deploySmartWallet and RelayClient.relayTransaction *)

\* Whether only the preferred relays are asked comes from the details of the call.
RelayTransaction(kind, only, pays) ==
    /\ ~InProgress
    /\ call.number < MaxCalls
    /\ call' = NewCall(call.number + 1, kind, only, pays)
    /\ sel' = NewSelection(<<<< >>, << >>>>)
    /\ RefreshFailures
    /\ UNCHANGED <<log, chainVars, posted, lost>>

EthSendTransaction(only, pays) == RelayTransaction("call", only, pays)

\* For the gas of a token transfer from a wallet that is only being deployed, the
\* caller has to tell the wallet's address; without it nothing is relayed.
DeploySmartWallet(only, pays, addressKnown) ==
    \/ (pays => addressKnown) /\ RelayTransaction("deploy", only, pays)
    \/ /\ ~(pays => addressKnown)
       /\ ~InProgress
       /\ call.number < MaxCalls
       /\ call' = [NewCall(call.number + 1, "deploy", only, pays) EXCEPT
                       !.pc = "done", !.result = "rejected"]
       /\ UNCHANGED <<log, known, sel, chainVars, posted, lost>>

\* _fetchRecentlyActiveRelayManagers, getPastEventsForHub.
FetchRecentlyActive ==
    /\ call.pc = "fetch"
    /\ IF TooManyEvents
       THEN IF MaySplitFurther
            THEN known' = [known EXCEPT !.parts = @ * 4] /\ UNCHANGED call
            ELSE Done("rejected") /\ UNCHANGED known
       ELSE /\ call' = [call EXCEPT !.pc = "lookup", !.managers = RecentlyActive]
            /\ UNCHANGED known
    /\ UNCHANGED <<log, sel, chainVars, posted, lost>>

LookupRelays ==
    /\ call.pc = "lookup"
    /\ known' = [known EXCEPT
          !.preferred = [i \in DOMAIN PreferredRelays |->
                            [url |-> PreferredRelays[i], manager |-> NoManager]],
          !.all = RelayInfoForManagers(call.managers)]
    /\ call' = [call EXCEPT !.pc = "gasPrice"]
    /\ UNCHANGED <<log, sel, chainVars, posted, lost>>

\* A deploy request has no gas of its own.
CalculateGasPrice ==
    /\ call.pc = "gasPrice"
    /\ call' = [call EXCEPT !.pc = IF call.kind = "deploy" THEN "start" ELSE "estimate"]
    /\ UNCHANGED <<log, known, sel, chainVars, posted, lost>>

EstimateDestinationContractCallGas ==
    /\ call.pc = "estimate"
    /\ call' = [call EXCEPT !.pc = "start"]
    /\ UNCHANGED <<log, known, sel, chainVars, posted, lost>>

StartSelection ==
    /\ call.pc = "start"
    /\ LET lists == RelaysSortedForTransaction
       IN  /\ sel' = NewSelection(lists)
           /\ IF lists[1] \o lists[2] = << >>
              THEN Done("rejected")
              ELSE call' = [call EXCEPT !.pc = "select",
                               !.candidates = {r.url : r \in ToSet(lists[1]) \cup ToSet(lists[2])}]
    /\ UNCHANGED <<log, known, chainVars, posted, lost>>

\* selectNextRelay, up to its first answer; without relays the call has failed.
SelectNextRelay ==
    /\ call.pc = "select"
    /\ LET l == IF call.only THEN 1 ELSE NextList
           slice == SliceFrom(l, IF call.only THEN sel.index ELSE 0)
       IN  IF slice = {}
           THEN Done("failed") /\ UNCHANGED sel
           ELSE StartRace(l, slice) /\ call' = [call EXCEPT !.pc = "race"]
    /\ UNCHANGED <<log, known, chainVars, posted, lost>>

PingFails(i) ==
    /\ call.pc = "race"
    /\ PingError(i)
    /\ call' = [call EXCEPT !.pc = IF RaceLost(i) THEN "select" ELSE "race"]
    /\ UNCHANGED <<log, known, chainVars, posted, lost>>

PingReady(i) ==
    /\ call.pc = "race"
    /\ RaceWon(i)
    /\ call' = [call EXCEPT !.url = RelayAt(i).url,
                    !.pc = IF RelayAt(i).manager = NoManager THEN "winner" ELSE "attempt",
                    !.tried = Append(@, RelayAt(i).url)]
    /\ UNCHANGED <<log, known, chainVars, posted, lost>>

\* A preferred relay names its manager m, which must be a registered one.
FindWinner(m) ==
    /\ call.pc = "winner"
    /\ IF Len(RelayInfoForManagers({m})) = 1
       THEN call' = [call EXCEPT !.pc = "attempt"]
       ELSE Done("rejected")
    /\ UNCHANGED <<log, known, sel, chainVars, posted, lost>>

\* An exception outside of _attemptRelay ends the call.
NodeFails ==
    /\ call.pc \in {"fetch", "lookup", "gasPrice", "estimate", "winner"}
    /\ Done("rejected")
    /\ UNCHANGED <<log, known, sel, chainVars, posted, lost>>

\* The transfer of the tokens to the worker of the relay is estimated: when the
\* wallet cannot pay, no other relay is tried.
EstimateTokenTransferGasFails ==
    /\ call.pc = "attempt" /\ call.pays
    /\ Done("rejected")
    /\ UNCHANGED <<log, known, sel, chainVars, posted, lost>>

-----------------------------------------------------------------------------
(* _attemptRelay *)

\* An error of an attempt is kept; the next relay is selected.
RelayFails == call' = [call EXCEPT !.pc = "select", !.errors = @ \cup {call.url}]

\* For every relay the nonce is read anew, before the user signs.
Prepare(kind) ==
    /\ call.pc = "attempt" /\ call.kind = kind
    /\ call' = [call EXCEPT !.pc = "check", !.nonce = nonce[kind]]
    /\ UNCHANGED <<log, known, sel, chainVars, posted, lost>>

PrepareRelayHttpRequest  == Prepare("call")
PrepareDeployHttpRequest == Prepare("deploy")

\* The user does not sign.
SignFails ==
    /\ call.pc = "check"
    /\ RelayFails
    /\ UNCHANGED <<log, known, sel, chainVars, posted, lost>>

\* The node fails, or the verifier or the view call rejects the request.
AttemptFails ==
    /\ call.pc \in {"attempt", "check"}
    /\ RelayFails
    /\ UNCHANGED <<log, known, sel, chainVars, posted, lost>>

IsCurrent(kind, n) ==
    /\ n = nonce[kind]
    /\ kind = "deploy" => ~created

\* validateAcceptRelayCall, validateAcceptDeployCall; then the request is sent.
Post ==
    /\ call.pc = "check"
    /\ IsCurrent(call.kind, call.nonce)
    /\ posted' = Append(posted, Request(call.number, call.kind, call.nonce))
    /\ outcome' = Append(outcome, "none")
    /\ call' = [call EXCEPT !.pc = "answer", !.request = Len(posted) + 1]
    /\ UNCHANGED <<log, known, sel, nonce, created, draft, other, lost>>

GiveUp ==
    /\ call.pc = "answer"
    /\ lost' = lost \cup {call.request}
    /\ RelayFails
    /\ UNCHANGED <<log, sel, chainVars, posted>>

\* No answer within the time limit, or not the transaction that was asked for.
BadAnswer == GiveUp /\ SaveRelayFailure(call.url)

\* The server answers with an error, or with a nonce above relayMaxNonce.
Refused == GiveUp /\ UNCHANGED known

\* The answer is the transaction asked for: validateRelayResponse.
GoodAnswer ==
    /\ call.pc = "answer"
    /\ call' = [call EXCEPT !.pc = "broadcast"]
    /\ UNCHANGED <<log, known, sel, chainVars, posted, lost>>

\* mutant: when the node does not take the transaction, the next relay is tried.
BroadcastOrNext ==
    /\ call.pc = "broadcast"
    /\ RelayFails \/ Done("hash")
    /\ UNCHANGED <<log, known, sel, chainVars, posted, lost>>

\* _broadcastRawTx, whose result is not looked at.  deploySmartWallet returns the
\* hash, _ethSendTransaction waits for the receipt.
Broadcast ==
    /\ call.pc = "broadcast"
    /\ IF call.kind = "deploy"
       THEN Done("hash")
       ELSE call' = [call EXCEPT !.pc = "receipt"]
    /\ UNCHANGED <<log, known, sel, chainVars, posted, lost>>

\* _getRelayStatus: only a revert of the recipient is an error.
Receipt ==
    /\ call.pc = "receipt"
    /\ \/ /\ outcome[call.request] \in {"relayed", "reverted"}
          /\ Done("hash")
       \/ /\ outcome[call.request] = "recipientReverted"
          /\ Done("recipientReverted")
    /\ UNCHANGED <<log, known, sel, chainVars, posted, lost>>

\* getTransactionReceipt gives up after its retries.
NoReceipt ==
    /\ call.pc = "receipt"
    /\ Done("noReceipt")
    /\ UNCHANGED <<log, known, sel, chainVars, posted, lost>>

-----------------------------------------------------------------------------
(* The facade of Enveloping.ts: the user makes and sends requests by hand *)

\* createRelayRequest, createDeployRequest; the user signs it when he likes.
CreateRequest(kind) ==
    /\ other < MaxOther
    /\ other' = other + 1
    /\ draft' = Request(-(other + 1), kind, nonce[kind])
    /\ UNCHANGED <<log, known, sel, call, nonce, created, posted, outcome, lost>>

\* Nothing is checked before it is sent, and it may be sent again, to any server.
SendTransaction ==
    /\ draft # NoDraft
    /\ Cardinality({i \in DOMAIN posted : posted[i] = draft}) < MaxSends
    /\ posted' = Append(posted, draft)
    /\ outcome' = Append(outcome, "none")
    /\ UNCHANGED <<log, known, sel, call, nonce, created, draft, other, lost>>

-----------------------------------------------------------------------------
(* The chain *)

\* A server's transaction with the i-th request is mined.
Executes(i) ==
    LET kind == posted[i].kind
    IN  /\ outcome[i] \in {"none", "reverted"}
        /\ IsCurrent(kind, posted[i].nonce)
        /\ \E o \in {"relayed"} \cup (IF kind = "call" THEN {"recipientReverted"} ELSE {}) :
              outcome' = [outcome EXCEPT ![i] = o]
        /\ nonce' = [nonce EXCEPT ![kind] = @ + 1]
        /\ created' = (created \/ kind = "deploy")
        /\ UNCHANGED <<log, known, sel, call, posted, lost, draft, other>>

\* Only told apart from "none" when the client waits for this transaction's receipt.
Reverts ==
    /\ call.pc = "receipt"
    /\ outcome[call.request] = "none"
    /\ outcome' = [outcome EXCEPT ![call.request] = "reverted"]
    /\ UNCHANGED <<log, known, sel, call, nonce, created, posted, lost, draft, other>>

\* The user's wallet, or another wallet of the user, is used without this client.
ActsElsewhere(kind) ==
    /\ other < MaxOther
    /\ other' = other + 1
    /\ nonce' = [nonce EXCEPT ![kind] = @ + 1]
    /\ created' \in {created, created \/ kind = "deploy"}
    /\ UNCHANGED <<log, known, sel, call, posted, outcome, lost, draft>>

-----------------------------------------------------------------------------
Init ==
    /\ SelectionInit
    /\ call = [NewCall(0, "call", FALSE, FALSE) EXCEPT !.pc = "idle"]
    /\ nonce = [k \in Kind |-> 0]
    /\ created = FALSE
    /\ posted = << >>
    /\ outcome = << >>
    /\ lost = {}
    /\ draft = NoDraft
    /\ other = 0

\* What the client does with an answer.  Nodes and servers answer, or the time limit
\* of the HTTP client ends the wait.
Step ==
    \/ FetchRecentlyActive \/ LookupRelays
    \/ CalculateGasPrice \/ EstimateDestinationContractCallGas
    \/ StartSelection \/ SelectNextRelay
    \/ \E i \in sel.waiting : PingFails(i) \/ PingReady(i)
    \/ \E m \in Manager : FindWinner(m)
    \/ NodeFails \/ EstimateTokenTransferGasFails
    \/ PrepareRelayHttpRequest \/ PrepareDeployHttpRequest
    \/ SignFails \/ AttemptFails \/ Post
    \/ BadAnswer \/ Refused \/ GoodAnswer
    \/ Broadcast \/ Receipt \/ NoReceipt

User ==
    \/ \E only, pays \in BOOLEAN : EthSendTransaction(only, pays)
    \/ \E only, pays, addressKnown \in BOOLEAN : DeploySmartWallet(only, pays, addressKnown)
    \/ \E kind \in Kind : CreateRequest(kind)
    \/ SendTransaction

Chain ==
    \/ \E i \in DOMAIN posted : Executes(i)
    \/ Reverts
    \/ \E kind \in Kind : ActsElsewhere(kind)

Next == User \/ Step \/ Chain

Spec == Init /\ [][Next]_vars /\ WF_vars(Step)
-----------------------------------------------------------------------------
(* Properties *)

Pc == {"idle", "fetch", "lookup", "gasPrice", "estimate", "start", "select", "race",
       "winner", "attempt", "check", "answer", "broadcast", "receipt", "done"}
Result == {"none", "rejected", "failed", "hash", "recipientReverted", "noReceipt"}

TypeOK ==
    /\ known.parts \in {LookupWindowParts * k : k \in {1, 4, 16}}
    /\ known.failures \in [Url -> 0..MaxFailures]
    /\ known.all \in Seq(Relay)
    /\ sel.lists \in [1..2 -> Seq(Relay)]
    /\ sel.waiting \subseteq sel.slice /\ sel.slice \subseteq DOMAIN sel.lists[sel.list]
    /\ call.pc \in Pc
    /\ call.result \in Result
    /\ nonce \in [Kind -> Nat]
    /\ posted \in Seq([number : Int, kind : Kind, nonce : Nat])
    /\ outcome \in Seq({"none", "relayed", "recipientReverted", "reverted"})
    /\ Len(outcome) = Len(posted)
    /\ lost \subseteq DOMAIN posted

WasExecuted(i) == outcome[i] \in {"relayed", "recipientReverted"}

\* What the user asked for once happens twice only when a relay was given up that
\* had the request, and only when the client signed the second request after the
\* first had been executed (the nonce is read again for every relay); a wallet is
\* never created twice.
RepeatedOnlyAfterLoss ==
    \A i, j \in DOMAIN posted :
        /\ i < j
        /\ posted[i].number = posted[j].number
        /\ WasExecuted(i) /\ WasExecuted(j)
        => /\ i \in lost
           /\ posted[i].nonce < posted[j].nonce
           /\ posted[i].kind = "call"

\* "will never return the same relay twice" (selectNextRelay), even when a preferred
\* relay is also a registered one.
NoRelayTwice == IsInjective(call.tried)

\* A call that may use all relays fails only after every one of them has failed to
\* answer the ping or to relay: neither the losers of a race nor the second list
\* are forgotten.
EveryRelayTried ==
    call.result = "failed" /\ ~call.only => call.candidates \subseteq sel.errors \cup call.errors

\* The same for a call that may use preferred relays only.
EveryPreferredTried ==
    call.result = "failed" /\ call.only =>
        ToSet(PreferredRelays) \subseteq sel.errors \cup call.errors

\* The relay's last registration, with no exit after it.
IsRegistration(i) ==
    /\ log[i].name = Registered
    /\ \A j \in DOMAIN log : j > i /\ log[j].manager = log[i].manager =>
          log[j].name \notin ExitEvents \cup {Registered}

RecentIn(m, blocks) ==
    \E j \in DOMAIN log : /\ log[j].manager = m
                          /\ log[j].name \in ActiveManagerEvents
                          /\ log[j].block \in blocks

\* The relays offered to a call are those whose manager was active in the window,
\* each at the URL of its latest registration, unless it left after that; in
\* whatever parts the window is read, at most the latest block is missed.
KnownAreRegistered ==
    call.pc \in {"gasPrice", "estimate", "start", "select"} =>
        LET last(lo, hi) == {[url |-> log[i].url, manager |-> log[i].manager] :
                i \in {k \in DOMAIN log : IsRegistration(k) /\ RecentIn(log[k].manager, lo..hi)}}
        IN  /\ last(WindowStart, LatestBlock - 1) \subseteq ToSet(known.all)
            /\ ToSet(known.all) \subseteq last(WindowStart, LatestBlock)

\* A call ends, whatever the relays do, unless it waits for a race of relays with
\* the same URL.
CallEnds == InProgress ~> (~InProgress \/ NeverResolved)
=============================================================================
