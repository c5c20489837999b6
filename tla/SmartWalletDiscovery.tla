------------------------ MODULE SmartWalletDiscovery ------------------------
(***************************************************************************)
(* The search for a user's accounts and wallets                            *)
(* (src/relayclient/SmartWalletDiscovery.ts): the addresses of one account *)
(* after the other, and of each of them the addresses of its wallets, are  *)
(* looked up until too many in a row show no activity.                     *)
(*                                                                         *)
(* An address is <<account, index, wallet>>; wallet is EOA for the address *)
(* of a key itself.  A step is what happens between two answers of the     *)
(* node, which may fail, and which may show more from one to the next.     *)
(***************************************************************************)
EXTENDS Integers, Sequences, SequencesExt

CONSTANTS
    EoaGap, SWalletGap,    \* config.eoaGap, config.sWalletGap
    Tokens,                \* the tokens to look for, a sequence
    ReconnectionAttempts,
    Keys,                  \* how many extended public keys there are
    Activities,            \* what may be on the chain when a search starts
    Growth,                \* what may appear later
    MaxCalls, MaxFaults    \* bounds

EOA == -1

Addresses == Nat \X Nat \X (Nat \cup {EOA})

\* What a search looks for at an address.
Evidence == {"balance", "nonce"} \cup (IF ReconnectionAttempts = 0 THEN {} ELSE ToSet(Tokens))

ASSUME DiscoveryAssumption ==
    /\ EoaGap \in Nat /\ SWalletGap \in Nat
    /\ Tokens \in Seq(STRING)
    /\ ReconnectionAttempts \in Nat
    /\ Keys \in Nat /\ MaxCalls \in Nat /\ MaxFaults \in Nat
    /\ Activities \subseteq SUBSET (Addresses \X Evidence)
    /\ Growth \subseteq Addresses \X Evidence

VARIABLES
    activity,  \* the pairs <<address, evidence>> on the chain
    accounts,  \* this.accounts
    scan,      \* the search under way
    faults,    \* how many requests have failed
    hist       \* history, of the current call: the activity at its start, the
               \* accounts there were, the failures in a row, and the active
               \* addresses that were given up, with those failures

vars == <<activity, accounts, scan, faults, hist>>

Mode == {"mnemonic", "keys", "reader"}

NewSearch == [read |-> "balance", retried |-> FALSE, token |-> 1, errors |-> 0]

Scanning == scan.pc \in {"account", "search"}

-----------------------------------------------------------------------------
(* The accounts *)

Start(mode) ==
    /\ ~Scanning
    /\ hist.calls < MaxCalls
    /\ scan' = [scan EXCEPT !.pc = "account", !.mode = mode, !.account = 0]
    /\ hist' = [calls |-> hist.calls + 1, start |-> {p[1] : p \in activity},
                before |-> Len(accounts), row |-> 0, missed |-> {}]
    /\ UNCHANGED <<activity, accounts, faults>>

DiscoverAccountsFromMnemonic           == Start("mnemonic")
DiscoverAccountsFromExtendedPublicKeys == Start("keys")
DiscoverAccounts                       == Start("reader")

\* A mnemonic has all accounts; otherwise there is a key for each of them.
HasKey == scan.mode = "mnemonic" \/ scan.account < Keys

NextAccount ==
    /\ scan.pc = "account"
    /\ scan' = IF HasKey
               THEN [scan EXCEPT !.pc = "search", !.any = FALSE, !.index = 0, !.gap = 0,
                                 !.wallet = EOA, !.search = NewSearch]
               ELSE [scan EXCEPT !.pc = "done"]
    /\ UNCHANGED <<activity, accounts, faults, hist>>

\* An account without activity is the last one, unless the keys are given.
AfterAccount(s) ==
    IF s.any \/ s.mode = "keys"
    THEN [s EXCEPT !.pc = "account", !.account = @ + 1]
    ELSE [s EXCEPT !.pc = "done"]

-----------------------------------------------------------------------------
(* The addresses of an account, and their wallets *)

StrictGap(gap, limit) == gap < limit      \* mutant: the limit itself is too much
LooseGap(gap, limit)  == gap <= limit + 1  \* mutant: one more is allowed
GapAllows(gap, limit) == gap <= limit

AfterEoa(s, active) ==
    [s EXCEPT !.found = [eoa |-> active, wallets |-> << >>],
              !.any = @ \/ active,
              !.gap = IF active THEN 0 ELSE @ + 1,
              !.wallet = 0, !.walletGap = 0, !.search = NewSearch]

\* A wallet with activity resets both gaps.
AfterWallet(s, active) ==
    [s EXCEPT !.found.wallets = IF active THEN Append(@, s.wallet) ELSE @,
              !.any = @ \/ active,
              !.gap = IF active THEN 0 ELSE @,
              !.walletGap = IF active THEN 0 ELSE @ + 1,
              !.wallet = @ + 1, !.search = NewSearch]

\* An address is listed for its own activity or for that of its wallets.
Listed(s) ==
    IF s.found.eoa \/ s.found.wallets # << >>
    THEN Append(accounts,
                [account |-> s.account, index |-> s.index, wallets |-> s.found.wallets])
    ELSE accounts

AfterIndex(s) ==
    IF GapAllows(s.gap, EoaGap)
    THEN [s EXCEPT !.index = @ + 1, !.wallet = EOA]
    ELSE AfterAccount(s)

\* searchTrx returns for the current address.
Searched(active) ==
    IF scan.wallet = EOA
    THEN scan' = AfterEoa(scan, active) /\ UNCHANGED accounts
    ELSE LET s == AfterWallet(scan, active)
         IN  IF GapAllows(s.walletGap, SWalletGap)
             THEN scan' = s /\ UNCHANGED accounts
             ELSE scan' = AfterIndex(s) /\ accounts' = Listed(s)

-----------------------------------------------------------------------------
(* searchTrx *)

Address == <<scan.account, scan.index, scan.wallet>>

Shows(evidence) == <<Address, evidence>> \in activity

Reads(what) == scan.pc = "search" /\ scan.search.read = what

Answered == hist' = [hist EXCEPT !.row = 0] /\ UNCHANGED <<activity, faults>>

ReadBalance ==
    /\ Reads("balance")
    /\ IF Shows("balance")
       THEN Searched(TRUE)
       ELSE /\ scan' = [scan EXCEPT !.search = [NewSearch EXCEPT !.read = "nonce"]]
            /\ UNCHANGED accounts
    /\ Answered

ReadNonce ==
    /\ Reads("nonce")
    /\ IF Shows("nonce") \/ Tokens = << >> \/ ReconnectionAttempts = 0
       THEN Searched(Shows("nonce"))
       ELSE /\ scan' = [scan EXCEPT !.search = [NewSearch EXCEPT !.read = "token"]]
            /\ UNCHANGED accounts
    /\ Answered

ErrorsStay(search) == [search EXCEPT !.token = @ + 1]  \* mutant: errorCount is kept
SameToken(search)  == [search EXCEPT !.errors = 0]      \* mutant: i is not increased
NextToken(search)  == [search EXCEPT !.token = @ + 1, !.errors = 0]

ReadToken ==
    /\ Reads("token")
    /\ LET shows == Shows(Tokens[scan.search.token])
       IN  IF shows \/ scan.search.token = Len(Tokens)
           THEN Searched(shows)
           ELSE scan' = [scan EXCEPT !.search = NextToken(@)] /\ UNCHANGED accounts
    /\ Answered

Fault ==
    /\ faults < MaxFaults
    /\ faults' = faults + 1
    /\ UNCHANGED activity

\* The balance or the nonce is asked for a second time.
ReadFails ==
    /\ Reads("balance") \/ Reads("nonce")
    /\ ~scan.search.retried
    /\ Fault
    /\ scan' = [scan EXCEPT !.search.retried = TRUE]
    /\ hist' = [hist EXCEPT !.row = @ + 1]
    /\ UNCHANGED accounts

\* A token is asked for until ReconnectionAttempts requests in a row have failed;
\* then the address passes for one without activity.
TokenFails ==
    /\ Reads("token")
    /\ Fault
    /\ IF scan.search.errors + 1 < ReconnectionAttempts
       THEN /\ scan' = [scan EXCEPT !.search.errors = @ + 1]
            /\ hist' = [hist EXCEPT !.row = @ + 1]
            /\ UNCHANGED accounts
       ELSE /\ Searched(FALSE)
            /\ hist' = [hist EXCEPT !.row = @ + 1, !.missed = @ \cup
                  {[address |-> p[1], row |-> hist.row + 1] :
                      p \in {q \in activity : q[1] = Address}}]

\* The second request failed as well, reconnect threw, or the key or what the
\* addresses are computed from could not be read: what was listed stays.
Rejected ==
    /\ Scanning
    /\ scan.pc = "account" => scan.account = 0 \/ scan.mode = "reader"
    /\ Fault
    /\ scan' = [scan EXCEPT !.pc = "rejected"]
    /\ UNCHANGED <<accounts, hist>>

-----------------------------------------------------------------------------
\* Activity stays: balances can only leave an address that has a nonce by then.
Appear ==
    /\ \E p \in Growth \ activity : activity' = activity \cup {p}
    /\ UNCHANGED <<accounts, scan, faults, hist>>

Init ==
    /\ activity \in Activities
    /\ accounts = << >>
    /\ scan = [pc |-> "idle", mode |-> "mnemonic", account |-> 0, index |-> 0,
               wallet |-> EOA, gap |-> 0, walletGap |-> 0, any |-> FALSE,
               found |-> [eoa |-> FALSE, wallets |-> << >>],
               search |-> NewSearch]
    /\ faults = 0
    /\ hist = [calls |-> 0, start |-> {}, before |-> 0, row |-> 0, missed |-> {}]

\* The node answers or refuses every request.
Step ==
    \/ NextAccount
    \/ ReadBalance \/ ReadNonce \/ ReadToken
    \/ ReadFails \/ TokenFails \/ Rejected

Next ==
    \/ DiscoverAccountsFromMnemonic
    \/ DiscoverAccountsFromExtendedPublicKeys
    \/ DiscoverAccounts
    \/ Step
    \/ Appear

Spec == Init /\ [][Next]_vars /\ WF_vars(Step)

-----------------------------------------------------------------------------
(* What there is to discover: of the active addresses x, those that have no gap *)
(* before them.                                                                 *)

\* Every gap + 1 places in a row before place n have a busy one among them.
NoGapBefore(n, gap, Busy(_)) ==
    \A k \in 0..n - gap - 1 : \E j \in k..k + gap : Busy(j)

WalletsOf(x, a, i) ==
    {w \in {y[3] : y \in {z \in x : z[1] = a /\ z[2] = i}} :
        w # EOA /\ NoGapBefore(w, SWalletGap, LAMBDA j : <<a, i, j>> \in x)}

IsBusy(x, a, i) == <<a, i, EOA>> \in x \/ WalletsOf(x, a, i) # {}

IndexesOf(x, a) ==
    {i \in {y[2] : y \in {z \in x : z[1] = a}} :
        /\ IsBusy(x, a, i)
        /\ NoGapBefore(i, EoaGap, LAMBDA j : IsBusy(x, a, j))}

AccountsOf(x) ==
    {a \in {y[1] : y \in x} :
        /\ scan.mode # "mnemonic" => a < Keys
        /\ scan.mode # "keys" => \A b \in 0..a - 1 : IndexesOf(x, b) # {}}

Discoverable(x) ==
    UNION {{[account |-> a, index |-> i, wallets |-> WalletsOf(x, a, i)] :
               i \in IndexesOf(x, a)} : a \in AccountsOf(x)}

-----------------------------------------------------------------------------
(* Properties *)

TypeOK ==
    /\ accounts \in Seq([account : Nat, index : Nat, wallets : Seq(Nat)])
    /\ scan.pc \in {"idle", "account", "search", "done", "rejected"}
    /\ scan.gap \in 0..EoaGap + 1 /\ scan.walletGap \in 0..SWalletGap + 1
    /\ scan.search.token \in 1..Len(Tokens) + 1
    /\ hist.before <= Len(accounts)

\* "should discover all the user accounts": the nested loops and their counters
\* list what the gaps define.  A search that ends lists, in the order of accounts
\* and once, all that could be discovered when it began, apart from addresses it
\* has given up, and nothing that cannot be discovered when it ends.
DiscoversAll ==
    scan.pc = "done" =>
        LET list  == SubSeq(accounts, hist.before + 1, Len(accounts))
            found == {[e EXCEPT !.wallets = ToSet(@)] : e \in ToSet(list)}
            Within(xs, ys) == \A e \in xs : \E f \in ys :
                e.account = f.account /\ e.index = f.index /\ e.wallets \subseteq f.wallets
        IN  /\ Within(Discoverable(hist.start \ {m.address : m \in hist.missed}), found)
            /\ Within(found, Discoverable({p[1] : p \in activity}))
            /\ \A i, j \in DOMAIN list : i < j =>
                  \/ list[i].account < list[j].account
                  \/ list[i].account = list[j].account /\ list[i].index < list[j].index

\* An address that is active is given up only when the node did not answer
\* ReconnectionAttempts times in a row.
GivenUpWhenUnreachable == \A m \in hist.missed : m.row >= ReconnectionAttempts

\* A search ends: activity resets the gaps only finitely often, and failing
\* requests are not repeated for ever.
SearchEnds == Scanning ~> ~Scanning
=============================================================================
