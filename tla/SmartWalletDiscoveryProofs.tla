---------------------- MODULE SmartWalletDiscoveryProofs ----------------------
(***************************************************************************)
(* Why a search lists what there is to discover, and gives up only what    *)
(* the node does not answer for: for any gap limits, tokens and activity,  *)
(* however the chain grows and the requests fail.                          *)
(***************************************************************************)
EXTENDS SmartWalletDiscovery, Induction

Wallet == Nat \cup {EOA}
Found  == [eoa : BOOLEAN, wallets : Seq(Nat)]
Search == [read : {"balance", "nonce", "token"}, retried : BOOLEAN, token : Nat, errors : Nat]
Scan   == [pc : {"idle", "account", "search", "done", "rejected"}, mode : Mode, account : Nat,
           index : Nat, wallet : Wallet, gap : Nat, walletGap : Nat, any : BOOLEAN,
           found : Found, search : Search]
Entry  == [account : Nat, index : Nat, wallets : Seq(Nat)]
Missed == [address : Addresses, row : Nat]
Hist   == [calls : Nat, start : SUBSET Addresses, before : Nat, row : Nat, missed : SUBSET Missed]

\* The loops go on only below the limits of the gaps.
Bounds ==
    /\ scan.gap <= EoaGap + 1 /\ scan.walletGap <= SWalletGap + 1
    /\ scan.pc = "search" /\ scan.wallet = EOA => scan.gap <= EoaGap
    /\ scan.pc = "search" /\ scan.wallet # EOA => scan.walletGap <= SWalletGap

\* A token is asked for as often as requests in a row have failed.
Counted ==
    /\ scan.search.token \in 1..(Len(Tokens) + 1)
    /\ Reads("token") =>
          scan.search.token \in 1..Len(Tokens) /\ scan.search.errors <= hist.row

Types ==
    /\ activity \subseteq Addresses \X Evidence
    /\ accounts \in Seq(Entry)
    /\ scan \in Scan
    /\ hist \in Hist
    /\ hist.before <= Len(accounts)
    /\ Bounds /\ Counted

TypeInv == Types /\ GivenUpWhenUnreachable

-----------------------------------------------------------------------------
LEMMA NewSearchType == NewSearch \in Search /\ NewSearch.token = 1 /\ NewSearch.read = "balance"
  BY DEF NewSearch, Search

LEMMA InitTypes == Init => TypeInv
  <1>. SUFFICES ASSUME Init PROVE TypeInv
    OBVIOUS
  <1>1. PICK s : s = NewSearch /\ s \in Search /\ s.token = 1 /\ s.read = "balance"
    BY NewSearchType
  <1>2. << >> \in Seq(Nat) /\ << >> \in Seq(Entry) /\ Len(<< >>) = 0
    OBVIOUS
  <1>3. scan \in Scan /\ scan.pc = "idle" /\ scan.gap = 0 /\ scan.walletGap = 0 /\ scan.search = s
    <2>1. [eoa |-> FALSE, wallets |-> << >>] \in Found
      BY <1>2 DEF Found
    <2>. QED
      BY <1>1, <2>1 DEF Init, Scan, Mode, Wallet
  <1>4. hist \in Hist /\ hist.before = 0 /\ hist.missed = {}
    BY DEF Init, Hist
  <1>5. Bounds /\ Counted
    BY <1>1, <1>3, DiscoveryAssumption DEF Bounds, Counted, Reads
  <1>6. activity \subseteq Addresses \X Evidence /\ accounts \in Seq(Entry) /\ Len(accounts) = 0
    BY <1>2, DiscoveryAssumption DEF Init
  <1>. QED
    BY <1>3, <1>4, <1>5, <1>6 DEF TypeInv, Types, GivenUpWhenUnreachable

\* What a verdict on an address makes of the position and the accounts.
LEMMA AfterEoaType ==
  ASSUME NEW s \in Scan, NEW active \in BOOLEAN, s.gap <= EoaGap
  PROVE  /\ AfterEoa(s, active) \in Scan
         /\ AfterEoa(s, active).pc = s.pc /\ AfterEoa(s, active).mode = s.mode
         /\ AfterEoa(s, active).account = s.account /\ AfterEoa(s, active).index = s.index
         /\ AfterEoa(s, active).wallet = 0 /\ AfterEoa(s, active).walletGap = 0
         /\ AfterEoa(s, active).found = [eoa |-> active, wallets |-> << >>]
         /\ AfterEoa(s, active).any <=> (s.any \/ active)
         /\ AfterEoa(s, active).gap = (IF active THEN 0 ELSE s.gap + 1)
         /\ AfterEoa(s, active).search = NewSearch
  <1>1. PICK n \in Search : n = NewSearch
    BY NewSearchType
  <1>2. PICK e \in Seq(Nat) : e = << >>
    <2>1. << >> \in Seq(Nat)
      OBVIOUS
    <2>. QED
      BY <2>1, Zenon
  <1>3. PICK f \in Found : f = [eoa |-> active, wallets |-> << >>]
    BY <1>2 DEF Found
  <1>4. PICK any \in BOOLEAN : any <=> (s.any \/ active)
    OBVIOUS
  <1>5. PICK g \in Nat : g = IF active THEN 0 ELSE s.gap + 1
    BY DEF Scan
  <1>6. PICK t : t = AfterEoa(s, active)
    OBVIOUS
  <1>7. t = [s EXCEPT !.found = f, !.any = any, !.gap = g,
                      !.wallet = 0, !.walletGap = 0, !.search = n]
    <2>1. any = (s.any \/ active)
      BY <1>4 DEF Scan
    <2>. QED
      BY <1>1, <1>3, <2>1, <1>5, <1>6 DEF AfterEoa, Scan
  <1>8. t = [pc |-> s.pc, mode |-> s.mode, account |-> s.account, index |-> s.index,
             wallet |-> 0, gap |-> g, walletGap |-> 0, any |-> any,
             found |-> f, search |-> n]
    BY <1>7 DEF Scan
  <1>9. t \in Scan
    BY <1>8 DEF Scan, Wallet
  <1>10. /\ t.pc = s.pc /\ t.mode = s.mode /\ t.account = s.account /\ t.index = s.index
         /\ t.wallet = 0 /\ t.walletGap = 0 /\ t.found = f /\ t.any = any
         /\ t.gap = g /\ t.search = n
    BY <1>8
  <1>11. t.any <=> (s.any \/ active)
    BY <1>4, <1>10
  <1>. QED
    BY <1>1, <1>3, <1>5, <1>6, <1>9, <1>10, <1>11

LEMMA AfterWalletType ==
  ASSUME NEW s \in Scan, NEW active \in BOOLEAN, s.wallet \in Nat
  PROVE  /\ AfterWallet(s, active) \in Scan
         /\ AfterWallet(s, active).pc = s.pc /\ AfterWallet(s, active).mode = s.mode
         /\ AfterWallet(s, active).account = s.account /\ AfterWallet(s, active).index = s.index
         /\ AfterWallet(s, active).wallet = s.wallet + 1
         /\ AfterWallet(s, active).walletGap = (IF active THEN 0 ELSE s.walletGap + 1)
         /\ AfterWallet(s, active).found.eoa = s.found.eoa
         /\ AfterWallet(s, active).found.wallets =
               (IF active THEN Append(s.found.wallets, s.wallet) ELSE s.found.wallets)
         /\ AfterWallet(s, active).any <=> (s.any \/ active)
         /\ AfterWallet(s, active).gap = (IF active THEN 0 ELSE s.gap)
         /\ AfterWallet(s, active).search = NewSearch
  <1>1. PICK n \in Search : n = NewSearch
    BY NewSearchType
  <1>2. s.found \in Found /\ s.found.wallets \in Seq(Nat) /\ s.found.eoa \in BOOLEAN
    BY DEF Scan, Found
  <1>3. PICK w \in Seq(Nat) :
           w = IF active THEN Append(s.found.wallets, s.wallet) ELSE s.found.wallets
    <2>1. Append(s.found.wallets, s.wallet) \in Seq(Nat)
      BY <1>2
    <2>. QED
      BY <1>2, <2>1
  <1>4. PICK f : f = [s.found EXCEPT !.wallets = w]
    OBVIOUS
  <1>14. f \in Found /\ f.wallets = w /\ f.eoa = s.found.eoa
    <2>1. f = [eoa |-> s.found.eoa, wallets |-> w]
      BY <1>2, <1>4 DEF Found
    <2>. QED
      BY <1>2, <2>1 DEF Found
  <1>5. PICK any \in BOOLEAN : any <=> (s.any \/ active)
    OBVIOUS
  <1>6. PICK g \in Nat : g = IF active THEN 0 ELSE s.gap
    BY DEF Scan
  <1>7. PICK h \in Nat : h = IF active THEN 0 ELSE s.walletGap + 1
    BY DEF Scan
  <1>8. PICK t : t = AfterWallet(s, active)
    OBVIOUS
  <1>9. t = [s EXCEPT !.found = f, !.any = any, !.gap = g, !.walletGap = h,
                      !.wallet = s.wallet + 1, !.search = n]
    <2>1. any = (s.any \/ active)
      BY <1>5 DEF Scan
    <2>. QED
      BY <1>1, <1>3, <1>4, <2>1, <1>6, <1>7, <1>8 DEF AfterWallet, Scan, Found
  <1>10. t = [pc |-> s.pc, mode |-> s.mode, account |-> s.account, index |-> s.index,
             wallet |-> s.wallet + 1, gap |-> g, walletGap |-> h, any |-> any,
             found |-> f, search |-> n]
    BY <1>9 DEF Scan
  <1>11. t \in Scan
    BY <1>10, <1>14 DEF Scan, Wallet
  <1>12. /\ t.pc = s.pc /\ t.mode = s.mode /\ t.account = s.account /\ t.index = s.index
         /\ t.wallet = s.wallet + 1 /\ t.walletGap = h /\ t.found = f /\ t.any = any
         /\ t.gap = g /\ t.search = n
    BY <1>10
  <1>13. t.any <=> (s.any \/ active)
    BY <1>5, <1>12
  <1>. QED
    BY <1>1, <1>3, <1>14, <1>6, <1>7, <1>8, <1>11, <1>12, <1>13

LEMMA AfterIndexType ==
  ASSUME NEW s \in Scan
  PROVE  \E t \in Scan :
            /\ t = AfterIndex(s)
            /\ t.gap = s.gap /\ t.walletGap = s.walletGap /\ t.search = s.search
            /\ t.mode = s.mode /\ t.any = s.any
            /\ s.gap <= EoaGap =>
                  /\ t.pc = s.pc /\ t.account = s.account /\ t.index = s.index + 1
                  /\ t.wallet = EOA
            /\ ~(s.gap <= EoaGap) =>
                  \/ /\ s.any \/ s.mode = "keys"
                     /\ t.pc = "account" /\ t.account = s.account + 1
                  \/ /\ ~s.any /\ s.mode # "keys"
                     /\ t.pc = "done" /\ t.account = s.account
  <1>1. PICK t : t = AfterIndex(s)
    OBVIOUS
  <1>2. CASE s.gap <= EoaGap
    <2>1. t = [s EXCEPT !.index = s.index + 1, !.wallet = EOA]
      BY <1>1, <1>2 DEF AfterIndex, GapAllows, Scan
    <2>2. t = [pc |-> s.pc, mode |-> s.mode, account |-> s.account, index |-> s.index + 1,
               wallet |-> EOA, gap |-> s.gap, walletGap |-> s.walletGap, any |-> s.any,
               found |-> s.found, search |-> s.search]
      BY <2>1 DEF Scan
    <2>3. t \in Scan
      BY <2>2 DEF Scan, Wallet
    <2>. QED
      BY <1>1, <1>2, <2>2, <2>3
  <1>3. CASE ~(s.gap <= EoaGap) /\ (s.any \/ s.mode = "keys")
    <2>1. t = [s EXCEPT !.pc = "account", !.account = s.account + 1]
      BY <1>1, <1>3 DEF AfterIndex, AfterAccount, GapAllows, Scan
    <2>2. t = [pc |-> "account", mode |-> s.mode, account |-> s.account + 1, index |-> s.index,
               wallet |-> s.wallet, gap |-> s.gap, walletGap |-> s.walletGap, any |-> s.any,
               found |-> s.found, search |-> s.search]
      BY <2>1 DEF Scan
    <2>3. t \in Scan
      BY <2>2 DEF Scan
    <2>. QED
      BY <1>1, <1>3, <2>2, <2>3
  <1>4. CASE ~(s.gap <= EoaGap) /\ ~(s.any \/ s.mode = "keys")
    <2>1. t = [s EXCEPT !.pc = "done"]
      BY <1>1, <1>4 DEF AfterIndex, AfterAccount, GapAllows, Scan
    <2>2. t = [pc |-> "done", mode |-> s.mode, account |-> s.account, index |-> s.index,
               wallet |-> s.wallet, gap |-> s.gap, walletGap |-> s.walletGap, any |-> s.any,
               found |-> s.found, search |-> s.search]
      BY <2>1 DEF Scan
    <2>3. t \in Scan
      BY <2>2 DEF Scan
    <2>. QED
      BY <1>1, <1>4, <2>2, <2>3
  <1>. QED
    BY <1>2, <1>3, <1>4

LEMMA ListedType ==
  ASSUME NEW s \in Scan, accounts \in Seq(Entry)
  PROVE  /\ Listed(s) \in Seq(Entry) /\ Len(accounts) <= Len(Listed(s))
  <1>1. PICK e : e = [account |-> s.account, index |-> s.index, wallets |-> s.found.wallets]
    OBVIOUS
  <1>2. e \in Entry
    BY <1>1 DEF Scan, Found, Entry
  <1>3. Listed(s) = Append(accounts, e) \/ Listed(s) = accounts
    BY <1>1 DEF Listed
  <1>. QED
    BY <1>2, <1>3

\* searchTrx returns: what changes besides the history.
LEMMA SearchedTypes ==
  ASSUME Types, scan.pc = "search", NEW active \in BOOLEAN, Searched(active)
  PROVE  /\ scan' \in Scan /\ accounts' \in Seq(Entry) /\ Len(accounts) <= Len(accounts')
         /\ scan'.search = NewSearch
         /\ Bounds'
  <1>1. scan \in Scan /\ accounts \in Seq(Entry)
    BY DEF Types
  <1>2. CASE scan.wallet = EOA
    <2>1. PICK t : t = AfterEoa(scan, active)
      OBVIOUS
    <2>2. scan' = t /\ accounts' = accounts
      BY <1>2, <2>1 DEF Searched
    <2>3. scan.gap <= EoaGap
      BY <1>2 DEF Types, Bounds
    <2>4. /\ t \in Scan /\ t.pc = "search" /\ t.wallet = 0 /\ t.walletGap = 0
          /\ t.gap = (IF active THEN 0 ELSE scan.gap + 1) /\ t.search = NewSearch
      BY <1>1, <2>1, <2>3, AfterEoaType
    <2>5. Bounds'
      BY <1>1, <2>2, <2>3, <2>4, DiscoveryAssumption DEF Bounds, EOA, Scan
    <2>. QED
      BY <1>1, <2>2, <2>4, <2>5
  <1>3. CASE scan.wallet # EOA
    <2>1. PICK t : t = AfterWallet(scan, active)
      OBVIOUS
    <2>2. scan.wallet \in Nat /\ scan.walletGap <= SWalletGap
      BY <1>1, <1>3 DEF Scan, Wallet, Types, Bounds
    <2>3. /\ t \in Scan /\ t.pc = "search" /\ t.wallet = scan.wallet + 1
          /\ t.walletGap = (IF active THEN 0 ELSE scan.walletGap + 1)
          /\ t.gap = (IF active THEN 0 ELSE scan.gap) /\ t.search = NewSearch
      BY <1>1, <2>1, <2>2, AfterWalletType
    <2>4. /\ t.gap \in Nat /\ t.gap <= EoaGap + 1
          /\ t.walletGap \in Nat /\ t.walletGap <= SWalletGap + 1
      BY <1>1, <2>2, <2>3, DiscoveryAssumption DEF Types, Bounds, Scan
    <2>5. CASE t.walletGap <= SWalletGap
      <3>1. scan' = t /\ accounts' = accounts
        BY <1>3, <2>1, <2>5 DEF Searched, GapAllows
      <3>2. Bounds'
        BY <2>2, <2>3, <2>4, <2>5, <3>1 DEF Bounds, EOA
      <3>. QED
        BY <1>1, <2>3, <3>1, <3>2
    <2>6. CASE ~(t.walletGap <= SWalletGap)
      <3>1. scan' = AfterIndex(t) /\ accounts' = Listed(t)
        BY <1>3, <2>1, <2>6 DEF Searched, GapAllows
      <3>2. PICK u \in Scan :
              /\ u = AfterIndex(t)
              /\ u.gap = t.gap /\ u.walletGap = t.walletGap /\ u.search = t.search
              /\ t.gap <= EoaGap => u.wallet = EOA
              /\ ~(t.gap <= EoaGap) => u.pc \in {"account", "done"}
        BY <2>3, AfterIndexType
      <3>4. Bounds'
        BY <2>4, <3>1, <3>2 DEF Bounds
      <3>. QED
        BY <1>1, <2>3, <3>1, <3>2, <3>4, ListedType
    <2>. QED
      BY <2>5, <2>6
  <1>. QED
    BY <1>2, <1>3


\* How the history is kept.
LEMMA HistFields ==
  ASSUME NEW h \in Hist, NEW r \in Nat, NEW m \in SUBSET Missed
  PROVE  /\ [h EXCEPT !.row = r] \in Hist
         /\ [h EXCEPT !.row = r].row = r /\ [h EXCEPT !.row = r].missed = h.missed
         /\ [h EXCEPT !.row = r].before = h.before /\ [h EXCEPT !.row = r].start = h.start
         /\ [h EXCEPT !.row = r, !.missed = m] \in Hist
         /\ [h EXCEPT !.row = r, !.missed = m].row = r
         /\ [h EXCEPT !.row = r, !.missed = m].missed = m
         /\ [h EXCEPT !.row = r, !.missed = m].before = h.before
         /\ [h EXCEPT !.row = r, !.missed = m].start = h.start
  BY DEF Hist

\* A step of searchTrx that asks for the next thing.
Asks(n) ==
    /\ scan.pc = "search" /\ n \in Search
    /\ scan' = [scan EXCEPT !.search = n]
    /\ UNCHANGED accounts

LEMMA AsksTypes ==
  ASSUME Types, NEW n, Asks(n)
  PROVE  /\ scan' \in Scan /\ scan'.search = n /\ accounts' = accounts
         /\ scan'.pc = "search" /\ scan'.mode = scan.mode
         /\ scan'.account = scan.account /\ scan'.index = scan.index
         /\ scan'.wallet = scan.wallet /\ scan'.gap = scan.gap /\ scan'.walletGap = scan.walletGap
         /\ scan'.any = scan.any /\ scan'.found = scan.found
         /\ Bounds'
  <1>1. /\ scan' \in Scan /\ scan'.search = n /\ accounts' = accounts
        /\ scan'.pc = "search" /\ scan'.mode = scan.mode
        /\ scan'.account = scan.account /\ scan'.index = scan.index
        /\ scan'.wallet = scan.wallet /\ scan'.gap = scan.gap /\ scan'.walletGap = scan.walletGap
        /\ scan'.any = scan.any /\ scan'.found = scan.found
    BY DEF Types, Asks, Scan
  <1>. QED
    BY <1>1 DEF Types, Asks, Bounds

\* The three ways in which searchTrx goes on: it asks for something else, it has a
\* verdict, or it has none because the node did not answer.
LEMMA ReadSteps ==
  ASSUME Types, ReadBalance \/ ReadNonce \/ ReadToken
  PROVE  /\ scan.pc = "search" /\ UNCHANGED activity
         /\ hist' = [hist EXCEPT !.row = 0]
         /\ \/ \E active \in BOOLEAN : Searched(active)
            \/ \E n : /\ Asks(n) /\ n.read # "balance" /\ n.errors = 0
                      /\ \/ n.read = "token" /\ n.token \in 1..Len(Tokens)
                         \/ n.read = "nonce" /\ n.token = 1
  <1>1. Len(Tokens) \in Nat /\ (Tokens # << >> => Len(Tokens) >= 1)
    BY DiscoveryAssumption
  <1>2. /\ scan.search \in Search /\ scan.search.token \in Nat
    BY DEF Types, Scan, Search
  <1>3. CASE ReadBalance
    <2>1. PICK n : n = [NewSearch EXCEPT !.read = "nonce"]
      OBVIOUS
    <2>2. n \in Search /\ n.read = "nonce" /\ n.errors = 0 /\ n.token = 1
      BY <2>1 DEF NewSearch, Search
    <2>. QED
      BY <1>3, <2>1, <2>2 DEF ReadBalance, Reads, Answered, Asks
  <1>4. CASE ReadNonce
    <2>1. PICK n : n = [NewSearch EXCEPT !.read = "token"]
      OBVIOUS
    <2>2. n \in Search /\ n.read = "token" /\ n.errors = 0 /\ n.token = 1
      BY <2>1 DEF NewSearch, Search
    <2>3. CASE Shows("nonce") \/ Tokens = << >> \/ ReconnectionAttempts = 0
      <3>1. Shows("nonce") \in BOOLEAN
        BY DEF Shows
      <3>. QED
        BY <1>4, <2>3, <3>1 DEF ReadNonce, Reads, Answered
    <2>4. CASE ~(Shows("nonce") \/ Tokens = << >> \/ ReconnectionAttempts = 0)
      <3>1. n.token \in 1..Len(Tokens)
        BY <1>1, <2>2, <2>4
      <3>2. Asks(n)
        BY <1>4, <2>1, <2>2, <2>4 DEF ReadNonce, Reads, Asks
      <3>. QED
        BY <1>4, <2>2, <3>1, <3>2 DEF ReadNonce, Reads, Answered
    <2>. QED
      BY <2>3, <2>4
  <1>5. CASE ReadToken
    <2>1. PICK n : n = NextToken(scan.search)
      OBVIOUS
    <2>8. n = [read |-> "token", retried |-> scan.search.retried,
               token |-> scan.search.token + 1, errors |-> 0]
      BY <1>2, <1>5, <2>1 DEF NextToken, Search, ReadToken, Reads
    <2>2. n \in Search /\ n.read = "token" /\ n.errors = 0 /\ n.token = scan.search.token + 1
      BY <1>2, <2>8 DEF Search
    <2>3. scan.search.token \in 1..Len(Tokens)
      BY <1>5 DEF Types, Counted, ReadToken, Reads
    <2>4. PICK shows \in BOOLEAN : shows <=> Shows(Tokens[scan.search.token])
      OBVIOUS
    <2>5. shows = Shows(Tokens[scan.search.token])
      BY <2>4 DEF Shows
    <2>6. CASE shows \/ scan.search.token = Len(Tokens)
      BY <1>5, <2>5, <2>6 DEF ReadToken, Reads, Answered
    <2>7. CASE ~(shows \/ scan.search.token = Len(Tokens))
      <3>1. n.token \in 1..Len(Tokens)
        BY <1>1, <2>2, <2>3, <2>7
      <3>2. Asks(n)
        BY <1>5, <2>1, <2>2, <2>5, <2>7 DEF ReadToken, Reads, Asks
      <3>. QED
        BY <1>5, <2>2, <3>1, <3>2 DEF ReadToken, Reads, Answered
    <2>. QED
      BY <2>6, <2>7
  <1>. QED
    BY <1>3, <1>4, <1>5

LEMMA FailSteps ==
  ASSUME Types, ReadFails \/ TokenFails
  PROVE  /\ scan.pc = "search" /\ UNCHANGED activity
         /\ \/ /\ hist' = [hist EXCEPT !.row = hist.row + 1]
               /\ \E n : /\ Asks(n) /\ n.read = scan.search.read /\ n.token = scan.search.token
                         /\ n.read = "token" => n.errors <= hist.row + 1
            \/ /\ scan.search.read = "token" /\ scan.search.token \in 1..Len(Tokens)
               /\ Searched(FALSE)
               /\ hist.row + 1 >= ReconnectionAttempts
               /\ hist' = [hist EXCEPT !.row = hist.row + 1, !.missed = hist.missed \cup
                     {[address |-> p[1], row |-> hist.row + 1] :
                         p \in {q \in activity : q[1] = Address}}]
  <1>1. /\ scan.search \in Search /\ scan.search.token \in Nat /\ scan.search.errors \in Nat
        /\ hist \in Hist /\ hist.row \in Nat
    BY DEF Types, Scan, Search, Hist
  <1>2. CASE ReadFails
    <2>1. PICK n : n = [scan.search EXCEPT !.retried = TRUE]
      OBVIOUS
    <2>2. n \in Search /\ n.read = scan.search.read /\ n.token = scan.search.token
      BY <1>1, <2>1 DEF Search
    <2>3. Asks(n) /\ n.read # "token"
      BY <1>1, <1>2, <2>1, <2>2 DEF ReadFails, Reads, Asks, Types, Scan
    <2>4. hist' = [hist EXCEPT !.row = hist.row + 1] /\ UNCHANGED activity /\ scan.pc = "search"
      BY <1>1, <1>2 DEF ReadFails, Reads, Fault, Hist
    <2>5. n.read = "token" => n.errors <= hist.row + 1
      BY <2>3
    <2>6. \E m : /\ Asks(m) /\ m.read = scan.search.read /\ m.token = scan.search.token
                 /\ m.read = "token" => m.errors <= hist.row + 1
      BY <2>2, <2>3, <2>5
    <2>. QED
      BY <2>4, <2>6, Zenon
  <1>3. CASE TokenFails
    <2>1. /\ scan.pc = "search" /\ scan.search.read = "token" /\ UNCHANGED activity
          /\ scan.search.token \in 1..Len(Tokens) /\ scan.search.errors <= hist.row
      BY <1>3 DEF TokenFails, Reads, Fault, Types, Counted
    <2>2. CASE scan.search.errors + 1 < ReconnectionAttempts
      <3>1. PICK n : n = [scan.search EXCEPT !.errors = scan.search.errors + 1]
        OBVIOUS
      <3>2. n \in Search /\ n.read = "token" /\ n.token = scan.search.token
            /\ n.errors = scan.search.errors + 1
        BY <1>1, <2>1, <3>1 DEF Search
      <3>3. Asks(n)
        BY <1>1, <1>3, <2>1, <2>2, <3>1, <3>2 DEF TokenFails, Asks, Types, Scan, Search
      <3>4. hist' = [hist EXCEPT !.row = hist.row + 1]
        BY <1>1, <1>3, <2>2 DEF TokenFails, Hist
      <3>5. n.errors <= hist.row + 1
        BY <1>1, <2>1, <3>2
      <3>6. \E m : /\ Asks(m) /\ m.read = scan.search.read /\ m.token = scan.search.token
                   /\ m.read = "token" => m.errors <= hist.row + 1
        BY <2>1, <3>2, <3>3, <3>5
      <3>. QED
        BY <2>1, <3>4, <3>6, Zenon
    <2>3. CASE ~(scan.search.errors + 1 < ReconnectionAttempts)
      <3>1. hist.row + 1 >= ReconnectionAttempts
        BY <1>1, <2>1, <2>3, DiscoveryAssumption
      <3>2. Searched(FALSE)
        BY <1>3, <2>3 DEF TokenFails
      <3>3. hist' = [hist EXCEPT !.row = hist.row + 1, !.missed = hist.missed \cup
                     {[address |-> p[1], row |-> hist.row + 1] :
                         p \in {q \in activity : q[1] = Address}}]
        BY <1>1, <1>3, <2>3 DEF TokenFails, Hist
      <3>. QED
        BY <2>1, <3>1, <3>2, <3>3
    <2>. QED
      BY <2>2, <2>3
  <1>. QED
    BY <1>2, <1>3

LEMMA StartTypes ==
  ASSUME TypeInv, NEW mode \in Mode, Start(mode)
  PROVE  /\ TypeInv'
         /\ scan'.pc = "account" /\ scan'.account = 0 /\ scan'.mode = mode
         /\ hist'.before = Len(accounts) /\ hist'.start = {p[1] : p \in activity}
         /\ hist'.missed = {} /\ UNCHANGED <<activity, accounts>>
  <1>1. Types
    BY DEF TypeInv
  <1>2. /\ scan' = [scan EXCEPT !.pc = "account", !.mode = mode, !.account = 0]
        /\ hist' = [calls |-> hist.calls + 1, start |-> {p[1] : p \in activity},
                    before |-> Len(accounts), row |-> 0, missed |-> {}]
        /\ UNCHANGED <<activity, accounts>> /\ ~Scanning
    BY DEF Start
  <1>3. /\ scan' \in Scan /\ scan'.pc = "account" /\ scan'.account = 0 /\ scan'.mode = mode
        /\ scan'.gap = scan.gap /\ scan'.walletGap = scan.walletGap /\ scan'.search = scan.search
    BY <1>1, <1>2 DEF Types, Scan
  <1>4. {p[1] : p \in activity} \subseteq Addresses
    BY <1>1 DEF Types
  <1>5. hist' \in Hist
    BY <1>1, <1>2, <1>4 DEF Types, Hist
  <1>6. Bounds' /\ Counted'
    BY <1>1, <1>3 DEF Types, Bounds, Counted, Reads
  <1>7. hist'.before = Len(accounts) /\ hist'.start = {p[1] : p \in activity} /\ hist'.missed = {}
    BY <1>2
  <1>8. accounts \in Seq(Entry) /\ activity \subseteq Addresses \X Evidence
    BY <1>1 DEF Types
  <1>9. Types'
    BY <1>2, <1>3, <1>5, <1>6, <1>7, <1>8 DEF Types
  <1>10. GivenUpWhenUnreachable'
    BY <1>7 DEF GivenUpWhenUnreachable
  <1>. QED
    BY <1>2, <1>3, <1>7, <1>9, <1>10 DEF TypeInv


LEMMA NextAccountTypes ==
  ASSUME Types, NextAccount
  PROVE  /\ scan' \in Scan /\ Bounds' /\ Counted' /\ UNCHANGED <<activity, accounts, hist>>
         /\ scan.pc = "account" /\ scan'.account = scan.account /\ scan'.mode = scan.mode
         /\ HasKey => /\ scan'.pc = "search" /\ scan'.any = FALSE /\ scan'.index = 0
                      /\ scan'.gap = 0 /\ scan'.wallet = EOA /\ scan'.search = NewSearch
         /\ ~HasKey => scan'.pc = "done"
  <1>1. scan \in Scan /\ scan.pc = "account" /\ UNCHANGED <<activity, accounts, hist>>
    BY DEF Types, NextAccount
  <1>2. PICK n \in Search : n = NewSearch /\ n.token = 1 /\ n.read = "balance"
    BY NewSearchType
  <1>3. CASE HasKey
    <2>1. scan' = [scan EXCEPT !.pc = "search", !.any = FALSE, !.index = 0, !.gap = 0,
                               !.wallet = EOA, !.search = n]
      BY <1>2, <1>3 DEF NextAccount
    <2>2. scan' = [pc |-> "search", mode |-> scan.mode, account |-> scan.account, index |-> 0,
                   wallet |-> EOA, gap |-> 0, walletGap |-> scan.walletGap, any |-> FALSE,
                   found |-> scan.found, search |-> n]
      BY <1>1, <2>1 DEF Scan
    <2>3. scan' \in Scan
      BY <1>1, <2>2 DEF Scan, Wallet
    <2>4. Bounds' /\ Counted'
      BY <1>1, <1>2, <2>2, DiscoveryAssumption DEF Bounds, Counted, Reads, Types
    <2>. QED
      BY <1>1, <1>2, <1>3, <2>2, <2>3, <2>4
  <1>4. CASE ~HasKey
    <2>1. scan' = [scan EXCEPT !.pc = "done"]
      BY <1>4 DEF NextAccount
    <2>2. /\ scan' \in Scan /\ scan'.pc = "done" /\ scan'.account = scan.account
          /\ scan'.mode = scan.mode /\ scan'.gap = scan.gap /\ scan'.walletGap = scan.walletGap
          /\ scan'.search = scan.search
      BY <1>1, <2>1 DEF Scan
    <2>3. Bounds' /\ Counted'
      BY <1>1, <2>2 DEF Bounds, Counted, Reads, Types
    <2>. QED
      BY <1>1, <1>4, <2>2, <2>3
  <1>. QED
    BY <1>3, <1>4

LEMMA RejectedTypes ==
  ASSUME Types, Rejected
  PROVE  /\ scan' \in Scan /\ scan'.pc = "rejected" /\ Bounds' /\ Counted'
         /\ UNCHANGED <<activity, accounts, hist>>
  <1>1. scan \in Scan /\ scan' = [scan EXCEPT !.pc = "rejected"]
    BY DEF Types, Rejected
  <1>2. /\ scan' \in Scan /\ scan'.pc = "rejected" /\ scan'.gap = scan.gap
        /\ scan'.walletGap = scan.walletGap /\ scan'.search = scan.search
    BY <1>1 DEF Scan
  <1>. QED
    BY <1>2 DEF Rejected, Fault, Bounds, Counted, Reads, Types

LEMMA MissedTypes ==
  ASSUME Types
  PROVE  {[address |-> p[1], row |-> hist.row + 1] : p \in {q \in activity : q[1] = Address}}
            \subseteq Missed
  BY DEF Types, Hist, Missed

LEMMA TypesNext ==
  ASSUME TypeInv, [Next]_vars
  PROVE  TypeInv'
  <1>1. Types /\ GivenUpWhenUnreachable /\ hist \in Hist /\ hist.row \in Nat
    BY DEF TypeInv, Types, Hist
  <1>2. ASSUME NEW mode \in Mode, Start(mode) PROVE TypeInv'
    BY <1>2, StartTypes
  <1>3. CASE NextAccount
    BY <1>1, <1>3, NextAccountTypes DEF TypeInv, Types, GivenUpWhenUnreachable
  <1>4. CASE ReadBalance \/ ReadNonce \/ ReadToken
    <2>1. /\ scan.pc = "search" /\ UNCHANGED activity
          /\ hist' = [hist EXCEPT !.row = 0]
          /\ \/ \E active \in BOOLEAN : Searched(active)
             \/ \E n : /\ Asks(n) /\ n.read # "balance" /\ n.errors = 0
                       /\ \/ n.read = "token" /\ n.token \in 1..Len(Tokens)
                          \/ n.read = "nonce" /\ n.token = 1
      BY <1>1, <1>4, ReadSteps
    <2>2. /\ hist' \in Hist /\ hist'.row = 0 /\ hist'.missed = hist.missed
          /\ hist'.before = hist.before
      BY <1>1, <2>1, HistFields
    <2>3. scan' \in Scan /\ accounts' \in Seq(Entry) /\ Len(accounts) <= Len(accounts')
          /\ Bounds' /\ Counted'
      <3>1. CASE \E active \in BOOLEAN : Searched(active)
        <4>1. /\ scan' \in Scan /\ accounts' \in Seq(Entry) /\ Len(accounts) <= Len(accounts')
              /\ scan'.search = NewSearch /\ Bounds'
          BY <1>1, <2>1, <3>1, SearchedTypes
        <4>2. Counted'
          BY <4>1, NewSearchType, DiscoveryAssumption DEF Counted, Reads
        <4>. QED
          BY <4>1, <4>2
      <3>2. CASE \E n : /\ Asks(n) /\ n.read # "balance" /\ n.errors = 0
                        /\ \/ n.read = "token" /\ n.token \in 1..Len(Tokens)
                           \/ n.read = "nonce" /\ n.token = 1
        <4>1. PICK n : /\ Asks(n) /\ n.errors = 0
                       /\ \/ n.read = "token" /\ n.token \in 1..Len(Tokens)
                          \/ n.read = "nonce" /\ n.token = 1
          BY <3>2
        <4>2. scan' \in Scan /\ scan'.search = n /\ accounts' = accounts /\ Bounds'
          BY <1>1, <4>1, AsksTypes
        <4>3. Counted'
          BY <2>2, <4>1, <4>2, DiscoveryAssumption DEF Counted, Reads
        <4>. QED
          BY <1>1, <4>2, <4>3 DEF Types
      <3>. QED
        BY <2>1, <3>1, <3>2
    <2>4. hist'.before <= Len(accounts')
      BY <1>1, <2>2, <2>3 DEF Types, Hist
    <2>5. Types'
      BY <1>1, <2>1, <2>2, <2>3, <2>4 DEF Types
    <2>6. GivenUpWhenUnreachable'
      BY <1>1, <2>2 DEF GivenUpWhenUnreachable
    <2>. QED
      BY <2>5, <2>6 DEF TypeInv
  <1>5. CASE ReadFails \/ TokenFails
    <2>. DEFINE new == {[address |-> p[1], row |-> hist.row + 1] :
                           p \in {q \in activity : q[1] = Address}}
    <2>1. PICK lost \in SUBSET Missed : lost = hist.missed \cup new
      BY <1>1, MissedTypes DEF Hist
    <2>2. \A m \in new : m.row = hist.row + 1
      OBVIOUS
    <2>. HIDE DEF new
    <2>3. /\ scan.pc = "search" /\ UNCHANGED activity
          /\ \/ /\ hist' = [hist EXCEPT !.row = hist.row + 1]
                /\ \E n : /\ Asks(n) /\ n.read = scan.search.read /\ n.token = scan.search.token
                          /\ n.read = "token" => n.errors <= hist.row + 1
             \/ /\ scan.search.read = "token" /\ scan.search.token \in 1..Len(Tokens)
                /\ Searched(FALSE)
                /\ hist.row + 1 >= ReconnectionAttempts
                /\ hist' = [hist EXCEPT !.row = hist.row + 1, !.missed = hist.missed \cup new]
      BY <1>1, <1>5, FailSteps, Zenon DEF new
    <2>4. CASE /\ hist' = [hist EXCEPT !.row = hist.row + 1]
               /\ \E n : /\ Asks(n) /\ n.read = scan.search.read /\ n.token = scan.search.token
                         /\ n.read = "token" => n.errors <= hist.row + 1
      <3>1. PICK n : /\ Asks(n) /\ n.read = scan.search.read /\ n.token = scan.search.token
                     /\ n.read = "token" => n.errors <= hist.row + 1
        BY <2>4
      <3>2. scan' \in Scan /\ scan'.search = n /\ scan'.pc = "search" /\ accounts' = accounts
            /\ Bounds'
        BY <1>1, <3>1, AsksTypes
      <3>3. /\ hist' \in Hist /\ hist'.row = hist.row + 1 /\ hist'.missed = hist.missed
            /\ hist'.before = hist.before
        BY <1>1, <2>4 DEF Hist
      <3>4. Counted'
        BY <1>1, <2>3, <3>1, <3>2, <3>3 DEF Types, Counted, Reads
      <3>. QED
        BY <1>1, <2>3, <3>2, <3>3, <3>4 DEF TypeInv, Types, GivenUpWhenUnreachable
    <2>5. CASE /\ Searched(FALSE) /\ hist.row + 1 >= ReconnectionAttempts
               /\ hist' = [hist EXCEPT !.row = hist.row + 1, !.missed = hist.missed \cup new]
      <3>1. /\ scan' \in Scan /\ accounts' \in Seq(Entry) /\ Len(accounts) <= Len(accounts')
            /\ scan'.search = NewSearch /\ Bounds'
        BY <1>1, <2>3, <2>5, SearchedTypes
      <3>2. Counted'
        BY <3>1, NewSearchType, DiscoveryAssumption DEF Counted, Reads
      <3>3. /\ hist' \in Hist /\ hist'.row = hist.row + 1 /\ hist'.missed = lost
            /\ hist'.before = hist.before
        <4>1. hist' = [hist EXCEPT !.row = hist.row + 1, !.missed = lost]
          BY <2>1, <2>5
        <4>2. PICK r \in Nat : r = hist.row + 1
          BY <1>1
        <4>3. hist' = [hist EXCEPT !.row = r, !.missed = lost]
          BY <4>1, <4>2
        <4>5. hist' = [calls |-> hist.calls, start |-> hist.start, before |-> hist.before,
                       row |-> r, missed |-> lost]
          BY <1>1, <4>3 DEF Hist
        <4>4. /\ hist' \in Hist /\ hist'.row = r /\ hist'.missed = lost
              /\ hist'.before = hist.before
          BY <1>1, <4>5 DEF Hist
        <4>. QED
          BY <4>2, <4>4
      <3>4. hist'.before <= Len(accounts')
        BY <1>1, <3>1, <3>3 DEF Types, Hist
      <3>5. GivenUpWhenUnreachable'
        BY <1>1, <2>1, <2>2, <2>5, <3>3 DEF GivenUpWhenUnreachable
      <3>. QED
        BY <1>1, <2>3, <3>1, <3>2, <3>3, <3>4, <3>5 DEF TypeInv, Types
    <2>. QED
      BY <2>3, <2>4, <2>5
  <1>6. CASE Rejected
    BY <1>1, <1>6, RejectedTypes DEF TypeInv, Types, GivenUpWhenUnreachable
  <1>7. CASE Appear
    BY <1>1, <1>7, DiscoveryAssumption
    DEF Appear, TypeInv, Types, Bounds, Counted, Reads, GivenUpWhenUnreachable
  <1>8. CASE UNCHANGED vars
    BY <1>1, <1>8 DEF vars, TypeInv, Types, Bounds, Counted, Reads, GivenUpWhenUnreachable
  <1>. QED
    BY <1>2, <1>3, <1>4, <1>5, <1>6, <1>7, <1>8
    DEF Next, Step, Mode, DiscoverAccountsFromMnemonic, DiscoverAccountsFromExtendedPublicKeys,
        DiscoverAccounts

\* A search keeps the types and the limits of its counters.
THEOREM TypesHold == Spec => []TypeInv
  <1>1. Init => TypeInv
    BY InitTypes
  <1>2. TypeInv /\ [Next]_vars => TypeInv'
    BY TypesNext
  <1>. QED
    BY <1>1, <1>2, PTL DEF Spec

\* Type correctness: the gaps and the number of the token stay within their limits.
THEOREM DiscoveryTypeCorrect == Spec => []TypeOK
  <1>1. TypeInv => TypeOK
    BY DiscoveryAssumption DEF TypeInv, Types, TypeOK, Bounds, Counted, Scan, Entry
  <1>. QED
    BY <1>1, TypesHold, PTL

\* An active address is given up only after ReconnectionAttempts failed requests in a
\* row: the counter of searchTrx starts again with every token.
THEOREM UnreachableIsGivenUp == Spec => []GivenUpWhenUnreachable
  <1>1. TypeInv => GivenUpWhenUnreachable
    BY DEF TypeInv
  <1>. QED
    BY <1>1, TypesHold, PTL

-----------------------------------------------------------------------------
(* What there is to discover, place by place *)

LEMMA WalletsOfIs ==
  ASSUME NEW x, x \subseteq Addresses, NEW a, NEW i, NEW w
  PROVE  w \in WalletsOf(x, a, i) <=>
            /\ w \in Nat /\ <<a, i, w>> \in x
            /\ \A k \in 0..(w - SWalletGap - 1) : \E j \in k..(k + SWalletGap) : <<a, i, j>> \in x
  <1>1. \A z \in x : z = <<z[1], z[2], z[3]>> /\ z[3] \in Nat \cup {EOA}
    BY DEF Addresses
  <1>2. w \in {y[3] : y \in {z \in x : z[1] = a /\ z[2] = i}} <=> <<a, i, w>> \in x
    <2>1. ASSUME <<a, i, w>> \in x
          PROVE  w \in {y[3] : y \in {z \in x : z[1] = a /\ z[2] = i}}
      <3>1. PICK y \in x : y = <<a, i, w>>
        BY <2>1
      <3>2. y[1] = a /\ y[2] = i /\ y[3] = w
        BY <3>1
      <3>. QED
        BY <3>2
    <2>2. ASSUME NEW y \in x, y[1] = a, y[2] = i, y[3] = w
          PROVE  <<a, i, w>> \in x
      BY <1>1, <2>2
    <2>. QED
      BY <2>1, <2>2
  <1>3. <<a, i, w>> \in x => w \in Nat \cup {EOA}
    <2>. SUFFICES ASSUME <<a, i, w>> \in x PROVE w \in Nat \cup {EOA}
      OBVIOUS
    <2>1. PICK y \in x : y = <<a, i, w>>
      OBVIOUS
    <2>2. y[3] = w
      BY <2>1
    <2>. QED
      BY <1>1, <2>2
  <1>4. NoGapBefore(w, SWalletGap, LAMBDA j : <<a, i, j>> \in x) <=>
           \A k \in 0..(w - SWalletGap - 1) : \E j \in k..(k + SWalletGap) : <<a, i, j>> \in x
    BY DEF NoGapBefore
  <1>5. w \in WalletsOf(x, a, i) <=>
           /\ w \in {y[3] : y \in {z \in x : z[1] = a /\ z[2] = i}}
           /\ w # EOA /\ NoGapBefore(w, SWalletGap, LAMBDA j : <<a, i, j>> \in x)
    BY DEF WalletsOf
  <1>6. w \in Nat => w # EOA
    BY DEF EOA
  <1>. QED
    BY <1>2, <1>3, <1>4, <1>5, <1>6

LEMMA BusyPlaces ==
  ASSUME NEW x, x \subseteq Addresses, NEW a, NEW i, IsBusy(x, a, i)
  PROVE  \E w : <<a, i, w>> \in x
  <1>1. CASE <<a, i, EOA>> \in x
    BY <1>1
  <1>2. CASE WalletsOf(x, a, i) # {}
    BY <1>2, WalletsOfIs
  <1>. QED
    BY <1>1, <1>2 DEF IsBusy

LEMMA IndexesOfIs ==
  ASSUME NEW x, x \subseteq Addresses, NEW a, NEW i
  PROVE  i \in IndexesOf(x, a) <=>
            /\ i \in Nat /\ a \in Nat /\ IsBusy(x, a, i)
            /\ \A k \in 0..(i - EoaGap - 1) : \E j \in k..(k + EoaGap) : IsBusy(x, a, j)
  <1>1. IsBusy(x, a, i) => i \in {y[2] : y \in {z \in x : z[1] = a}} /\ i \in Nat /\ a \in Nat
    <2>. SUFFICES ASSUME IsBusy(x, a, i)
                  PROVE  i \in {y[2] : y \in {z \in x : z[1] = a}} /\ i \in Nat /\ a \in Nat
      OBVIOUS
    <2>1. PICK w : <<a, i, w>> \in x
      BY BusyPlaces
    <2>2. PICK y \in x : y = <<a, i, w>>
      BY <2>1
    <2>3. y[1] = a /\ y[2] = i
      BY <2>2
    <2>4. y[1] \in Nat /\ y[2] \in Nat
      BY DEF Addresses
    <2>. QED
      BY <2>3, <2>4
  <1>2. NoGapBefore(i, EoaGap, LAMBDA j : IsBusy(x, a, j)) <=>
           \A k \in 0..(i - EoaGap - 1) : \E j \in k..(k + EoaGap) : IsBusy(x, a, j)
    BY DEF NoGapBefore
  <1>3. i \in IndexesOf(x, a) <=>
           /\ i \in {y[2] : y \in {z \in x : z[1] = a}}
           /\ IsBusy(x, a, i) /\ NoGapBefore(i, EoaGap, LAMBDA j : IsBusy(x, a, j))
    BY DEF IndexesOf
  <1>. QED
    BY <1>1, <1>2, <1>3

\* The accounts a search may get to.
Reached(x, mode) ==
    {a \in Nat : /\ mode # "mnemonic" => a < Keys
                 /\ mode # "keys" => \A b \in 0..(a - 1) : IndexesOf(x, b) # {}}

\* More activity leads further.
LEMMA MoreActivity ==
  ASSUME NEW x, NEW y, y \subseteq Addresses, x \subseteq y
  PROVE  /\ \A a, i : WalletsOf(x, a, i) \subseteq WalletsOf(y, a, i)
         /\ \A a, i : IsBusy(x, a, i) => IsBusy(y, a, i)
         /\ \A a : IndexesOf(x, a) \subseteq IndexesOf(y, a)
         /\ \A mode : Reached(x, mode) \subseteq Reached(y, mode)
  <1>0. x \subseteq Addresses
    OBVIOUS
  <1>1. ASSUME NEW a, NEW i PROVE WalletsOf(x, a, i) \subseteq WalletsOf(y, a, i)
    <2>. SUFFICES ASSUME NEW w, w \in WalletsOf(x, a, i) PROVE w \in WalletsOf(y, a, i)
      OBVIOUS
    <2>1. /\ w \in Nat /\ <<a, i, w>> \in x
          /\ \A k \in 0..(w - SWalletGap - 1) : \E j \in k..(k + SWalletGap) : <<a, i, j>> \in x
      BY <1>0, WalletsOfIs
    <2>2. /\ w \in Nat /\ <<a, i, w>> \in y
          /\ \A k \in 0..(w - SWalletGap - 1) : \E j \in k..(k + SWalletGap) : <<a, i, j>> \in y
      BY <2>1
    <2>. QED
      BY <2>2, WalletsOfIs
  <1>2. ASSUME NEW a, NEW i, IsBusy(x, a, i) PROVE IsBusy(y, a, i)
    BY <1>1, <1>2 DEF IsBusy
  <1>3. ASSUME NEW a PROVE IndexesOf(x, a) \subseteq IndexesOf(y, a)
    <2>. SUFFICES ASSUME NEW i, i \in IndexesOf(x, a) PROVE i \in IndexesOf(y, a)
      OBVIOUS
    <2>1. /\ i \in Nat /\ a \in Nat /\ IsBusy(x, a, i)
          /\ \A k \in 0..(i - EoaGap - 1) : \E j \in k..(k + EoaGap) : IsBusy(x, a, j)
      BY <1>0, IndexesOfIs
    <2>2. /\ i \in Nat /\ a \in Nat /\ IsBusy(y, a, i)
          /\ \A k \in 0..(i - EoaGap - 1) : \E j \in k..(k + EoaGap) : IsBusy(y, a, j)
      BY <1>2, <2>1
    <2>. QED
      BY <2>2, IndexesOfIs
  <1>4. ASSUME NEW mode PROVE Reached(x, mode) \subseteq Reached(y, mode)
    BY <1>3 DEF Reached
  <1>. QED
    BY <1>1, <1>2, <1>3, <1>4

-----------------------------------------------------------------------------
(* What a loop with a gap knows: it is at place n, the last g places were not in *)
(* B, and below n the set B has no gap.                                          *)

GapState(n, g, limit, B) ==
    /\ n \in Nat /\ g \in 0..n
    /\ B \subseteq 0..(n - 1)
    /\ \A j \in (n - g)..(n - 1) : j \notin B
    /\ g = n \/ n - g - 1 \in B
    /\ \A k \in 0..(n - limit - 1) : \E j \in k..(k + limit) : j \in B

LEMMA GapStart ==
  ASSUME NEW limit \in Nat
  PROVE  GapState(0, 0, limit, {})
  BY DEF GapState

\* The place is in B: no gap.
LEMMA GapCloses ==
  ASSUME NEW n, NEW g, NEW limit \in Nat, NEW B, GapState(n, g, limit, B), g <= limit
  PROVE  GapState(n + 1, 0, limit, B \cup {n})
  <1>1. /\ n \in Nat /\ g \in 0..n /\ B \subseteq 0..(n - 1)
        /\ g = n \/ n - g - 1 \in B
        /\ \A k \in 0..(n - limit - 1) : \E j \in k..(k + limit) : j \in B
    BY DEF GapState
  <1>2. ASSUME NEW k \in 0..(n + 1 - limit - 1)
        PROVE  \E j \in k..(k + limit) : j \in B \cup {n}
    <2>1. CASE k \in 0..(n - limit - 1)
      BY <1>1, <2>1
    <2>2. CASE k = n - limit
      <3>1. n \in k..(k + limit)
        BY <1>1, <2>2
      <3>. QED
        BY <3>1
    <2>. QED
      BY <1>1, <2>1, <2>2
  <1>3. B \cup {n} \subseteq 0..(n + 1 - 1)
    BY <1>1
  <1>4. 0 \in 0..(n + 1) /\ n + 1 - 0 - 1 = n /\ n + 1 \in Nat
    BY <1>1
  <1>5. \A j \in (n + 1 - 0)..(n + 1 - 1) : j \notin B \cup {n}
    BY <1>1
  <1>6. n + 1 - 0 - 1 \in B \cup {n}
    BY <1>4
  <1>. QED
    BY <1>2, <1>3, <1>4, <1>5, <1>6 DEF GapState

\* The place is not in B, and the limit is not reached.
LEMMA GapGrows ==
  ASSUME NEW n, NEW g, NEW limit \in Nat, NEW B, GapState(n, g, limit, B), g + 1 <= limit
  PROVE  GapState(n + 1, g + 1, limit, B)
  <1>1. /\ n \in Nat /\ g \in 0..n /\ B \subseteq 0..(n - 1)
        /\ \A j \in (n - g)..(n - 1) : j \notin B
        /\ g = n \/ n - g - 1 \in B
        /\ \A k \in 0..(n - limit - 1) : \E j \in k..(k + limit) : j \in B
    BY DEF GapState
  <1>2. ASSUME NEW k \in 0..(n + 1 - limit - 1)
        PROVE  \E j \in k..(k + limit) : j \in B
    <2>1. CASE k \in 0..(n - limit - 1)
      BY <1>1, <2>1
    <2>2. CASE k = n - limit
      <3>1. g # n
        BY <1>1, <2>2
      <3>2. n - g - 1 \in k..(k + limit)
        BY <1>1, <2>2
      <3>. QED
        BY <1>1, <3>1, <3>2
    <2>. QED
      BY <1>1, <2>1, <2>2
  <1>3. B \subseteq 0..(n + 1 - 1)
    BY <1>1
  <1>4. g + 1 \in 0..(n + 1) /\ n + 1 \in Nat
    BY <1>1
  <1>5. ASSUME NEW j \in (n + 1 - (g + 1))..(n + 1 - 1) PROVE j \notin B
    BY <1>1
  <1>6. g + 1 = n + 1 \/ n + 1 - (g + 1) - 1 \in B
    <2>1. n + 1 - (g + 1) - 1 = n - g - 1
      BY <1>1
    <2>. QED
      BY <1>1, <2>1
  <1>. QED
    BY <1>2, <1>3, <1>4, <1>5, <1>6 DEF GapState

\* The place is not in B, and the limit is reached: what is left of a set D without
\* gaps, whose places so far are all in B, is nothing.
LEMMA GapEnds ==
  ASSUME NEW n, NEW g, NEW limit \in Nat, NEW B, GapState(n, g, limit, B), g <= limit,
         ~(g + 1 <= limit),
         NEW D, \A j \in 0..n : j \in D => j \in B,
         NEW d \in Nat, d \in D, \A k \in 0..(d - limit - 1) : \E j \in k..(k + limit) : j \in D
  PROVE  d \in B
  <1>1. /\ n \in Nat /\ g \in 0..n /\ B \subseteq 0..(n - 1)
        /\ \A j \in (n - g)..(n - 1) : j \notin B
    BY DEF GapState
  <1>2. g = limit
    BY <1>1
  <1>3. CASE d <= n
    BY <1>3
  <1>4. CASE d > n
    <2>1. n - limit \in 0..(d - limit - 1)
      BY <1>1, <1>2, <1>4
    <2>2. PICK j \in (n - limit)..(n - limit + limit) : j \in D
      BY <2>1
    <2>3. j \in (n - g)..n /\ j \in 0..n
      BY <1>1, <1>2, <2>2
    <2>4. j \in B
      BY <2>2, <2>3
    <2>. QED
      BY <1>1, <2>3, <2>4
  <1>. QED
    BY <1>1, <1>3, <1>4

-----------------------------------------------------------------------------
(* The nested loops: s is the position, E the set of entries listed so far, N what *)
(* is active by now, and D what was active from the start and not given up.        *)

IndexesIn(E, a) == {e.index : e \in {f \in E : f.account = a}}

Covered(E, D, a, i) ==
    \E e \in E : e.account = a /\ e.index = i /\ WalletsOf(D, a, i) \subseteq ToSet(e.wallets)

Complete(E, D, a) == \A i \in IndexesOf(D, a) : Covered(E, D, a, i)

Sound(e, N, mode) ==
    /\ e.account \in Reached(N, mode) /\ e.index \in IndexesOf(N, e.account)
    /\ ToSet(e.wallets) \subseteq WalletsOf(N, e.account, e.index)

AllSound(E, N, mode) == \A e \in E : Sound(e, N, mode)

\* The accounts before this one.
AccountsDone(s, E, D) ==
    /\ \A a \in 0..(s.account - 1) :
          Complete(E, D, a) /\ (s.mode # "keys" => IndexesIn(E, a) # {})
    /\ s.mode # "mnemonic" => s.account <= Keys

AccountInv(s, E, D) ==
    s.pc = "account" => AccountsDone(s, E, D) /\ \A e \in E : e.account < s.account

HasFound(s) == s.found.eoa \/ s.found.wallets # << >>

\* The addresses of the account before this one.
IndexInv(s, E, D) ==
    s.pc = "search" =>
        /\ AccountsDone(s, E, D)
        /\ s.mode # "mnemonic" => s.account < Keys
        /\ \A e \in E : e.account < s.account \/ (e.account = s.account /\ e.index < s.index)
        /\ \A j \in 0..(s.index - 1) : IsBusy(D, s.account, j) => Covered(E, D, s.account, j)
        /\ \E g \in 0..EoaGap :
              /\ GapState(s.index, g, EoaGap, IndexesIn(E, s.account))
              /\ s.wallet = EOA => s.gap = g
              /\ s.wallet # EOA => s.gap = IF HasFound(s) THEN 0 ELSE g + 1
        /\ s.any <=> (IndexesIn(E, s.account) # {} \/ (s.wallet # EOA /\ HasFound(s)))

\* The wallets of the address before this one.
WalletInv(s, N, D) ==
    s.pc = "search" /\ s.wallet # EOA =>
        /\ GapState(s.wallet, s.walletGap, SWalletGap, ToSet(s.found.wallets))
        /\ ToSet(s.found.wallets) \subseteq WalletsOf(N, s.account, s.index)
        /\ \A j \in 0..(s.wallet - 1) :
              <<s.account, s.index, j>> \in D => j \in ToSet(s.found.wallets)
        /\ s.found.eoa => <<s.account, s.index, EOA>> \in N
        /\ <<s.account, s.index, EOA>> \in D => s.found.eoa

DoneInv(s, E, D) == s.pc = "done" => \A a \in Reached(D, s.mode) : Complete(E, D, a)

LoopInv(s, E, N, D) ==
    /\ AllSound(E, N, s.mode)
    /\ AccountInv(s, E, D) /\ IndexInv(s, E, D) /\ WalletInv(s, N, D) /\ DoneInv(s, E, D)

\* What was listed stays good when more becomes active and more is given up.
LEMMA CoveredStays ==
  ASSUME NEW D, D \subseteq Addresses, NEW C, C \subseteq D, NEW E, NEW F, E \subseteq F
  PROVE  /\ \A a, i : Covered(E, D, a, i) => Covered(F, C, a, i)
         /\ \A a : Complete(E, D, a) => Complete(F, C, a)
         /\ \A a : IndexesIn(E, a) \subseteq IndexesIn(F, a)
         /\ \A s, t : /\ AccountsDone(s, E, D) /\ s.account = t.account /\ s.mode = t.mode
                      => AccountsDone(t, F, C)
  <1>1. ASSUME NEW a, NEW i, Covered(E, D, a, i) PROVE Covered(F, C, a, i)
    <2>1. PICK e \in E : /\ e.account = a /\ e.index = i
                         /\ WalletsOf(D, a, i) \subseteq ToSet(e.wallets)
      BY <1>1 DEF Covered
    <2>2. WalletsOf(C, a, i) \subseteq WalletsOf(D, a, i)
      BY MoreActivity
    <2>3. e \in F /\ WalletsOf(C, a, i) \subseteq ToSet(e.wallets)
      BY <2>1, <2>2
    <2>. QED
      BY <2>1, <2>3 DEF Covered
  <1>2. ASSUME NEW a, Complete(E, D, a) PROVE Complete(F, C, a)
    <2>1. IndexesOf(C, a) \subseteq IndexesOf(D, a)
      BY MoreActivity
    <2>. QED
      BY <1>1, <1>2, <2>1 DEF Complete
  <1>3. ASSUME NEW a PROVE IndexesIn(E, a) \subseteq IndexesIn(F, a)
    BY DEF IndexesIn
  <1>4. ASSUME NEW s, NEW t, AccountsDone(s, E, D), s.account = t.account, s.mode = t.mode
        PROVE  AccountsDone(t, F, C)
    BY <1>2, <1>3, <1>4 DEF AccountsDone
  <1>. QED
    BY <1>1, <1>2, <1>3, <1>4

LEMMA SoundStays ==
  ASSUME NEW N, NEW M, M \subseteq Addresses, N \subseteq M, NEW E, NEW mode, AllSound(E, N, mode)
  PROVE  AllSound(E, M, mode)
  <1>. SUFFICES ASSUME NEW e \in E PROVE Sound(e, M, mode)
    BY DEF AllSound
  <1>1. Sound(e, N, mode)
    BY DEF AllSound
  <1>2. /\ WalletsOf(N, e.account, e.index) \subseteq WalletsOf(M, e.account, e.index)
        /\ IndexesOf(N, e.account) \subseteq IndexesOf(M, e.account)
        /\ Reached(N, mode) \subseteq Reached(M, mode)
    BY MoreActivity
  <1>. QED
    BY <1>1, <1>2 DEF Sound

LEMMA LoopStays ==
  ASSUME NEW s, NEW E, NEW N, NEW M, M \subseteq Addresses, N \subseteq M,
         NEW D, D \subseteq Addresses, NEW C, C \subseteq D, LoopInv(s, E, N, D)
  PROVE  LoopInv(s, E, M, C)
  <1>1. AllSound(E, M, s.mode)
    BY SoundStays DEF LoopInv
  <1>2. /\ \A a, i : Covered(E, D, a, i) => Covered(E, C, a, i)
        /\ \A a : Complete(E, D, a) => Complete(E, C, a)
        /\ AccountsDone(s, E, D) => AccountsDone(s, E, C)
    BY CoveredStays
  <1>3. /\ \A a, i : WalletsOf(N, a, i) \subseteq WalletsOf(M, a, i)
        /\ \A a, i : IsBusy(C, a, i) => IsBusy(D, a, i)
        /\ Reached(C, s.mode) \subseteq Reached(D, s.mode)
    BY MoreActivity
  <1>4. AccountInv(s, E, C)
    BY <1>2 DEF LoopInv, AccountInv
  <1>5. IndexInv(s, E, C)
    BY <1>2, <1>3 DEF LoopInv, IndexInv
  <1>6. WalletInv(s, M, C)
    <2>. SUFFICES ASSUME s.pc = "search", s.wallet # EOA PROVE WalletInv(s, M, C)
      BY DEF WalletInv
    <2>1. /\ GapState(s.wallet, s.walletGap, SWalletGap, ToSet(s.found.wallets))
          /\ ToSet(s.found.wallets) \subseteq WalletsOf(N, s.account, s.index)
          /\ \A j \in 0..(s.wallet - 1) :
                <<s.account, s.index, j>> \in D => j \in ToSet(s.found.wallets)
          /\ s.found.eoa => <<s.account, s.index, EOA>> \in N
          /\ <<s.account, s.index, EOA>> \in D => s.found.eoa
      BY DEF LoopInv, WalletInv
    <2>2. /\ ToSet(s.found.wallets) \subseteq WalletsOf(M, s.account, s.index)
          /\ \A j \in 0..(s.wallet - 1) :
                <<s.account, s.index, j>> \in C => j \in ToSet(s.found.wallets)
          /\ s.found.eoa => <<s.account, s.index, EOA>> \in M
          /\ <<s.account, s.index, EOA>> \in C => s.found.eoa
      BY <1>3, <2>1
    <2>. QED
      BY <2>1, <2>2 DEF WalletInv
  <1>7. DoneInv(s, E, C)
    BY <1>2, <1>3 DEF LoopInv, DoneInv
  <1>. QED
    BY <1>1, <1>4, <1>5, <1>6, <1>7 DEF LoopInv

\* The first account.
LEMMA LoopStarts ==
  ASSUME NEW s \in Scan, s.pc = "account", s.account = 0, NEW N, NEW D
  PROVE  LoopInv(s, {}, N, D)
  <1>1. 0..(0 - 1) = {}
    OBVIOUS
  <1>2. AccountsDone(s, {}, D)
    BY <1>1, DiscoveryAssumption DEF AccountsDone
  <1>. QED
    BY <1>2 DEF LoopInv, AllSound, AccountInv, IndexInv, WalletInv, DoneInv

\* The next account, if there is a key for it.
LEMMA LoopGoesOn ==
  ASSUME NEW s \in Scan, NEW t \in Scan, NEW E, E \subseteq Entry, NEW N, NEW D,
         LoopInv(s, E, N, D), s.pc = "account", t.mode = s.mode, t.account = s.account,
         \/ /\ t.pc = "search" /\ t.any = FALSE /\ t.index = 0 /\ t.gap = 0 /\ t.wallet = EOA
            /\ s.mode # "mnemonic" => s.account < Keys
         \/ t.pc = "done" /\ s.mode # "mnemonic" /\ ~(s.account < Keys)
  PROVE  LoopInv(t, E, N, D)
  <1>1. /\ AllSound(E, N, t.mode) /\ AccountsDone(t, E, D)
        /\ \A e \in E : e.account < t.account
    BY DEF LoopInv, AccountInv, AccountsDone
  <1>2. CASE /\ t.pc = "search" /\ t.any = FALSE /\ t.index = 0 /\ t.gap = 0 /\ t.wallet = EOA
             /\ s.mode # "mnemonic" => s.account < Keys
    <2>1. \A e \in E : e.account \in Nat
      BY DEF Entry
    <2>2. IndexesIn(E, t.account) = {}
      <3>1. t.account \in Nat
        BY DEF Scan
      <3>. QED
        BY <1>1, <2>1, <3>1 DEF IndexesIn
    <2>3. GapState(0, 0, EoaGap, {}) /\ 0 \in 0..EoaGap
      BY GapStart, DiscoveryAssumption
    <2>4. IndexInv(t, E, D)
      BY <1>1, <1>2, <2>2, <2>3 DEF IndexInv
    <2>. QED
      BY <1>1, <1>2, <2>4 DEF LoopInv, AccountInv, WalletInv, DoneInv
  <1>3. CASE t.pc = "done" /\ s.mode # "mnemonic" /\ ~(s.account < Keys)
    <2>1. s.account \in Nat /\ Keys \in Nat
      BY DiscoveryAssumption DEF Scan
    <2>2. ASSUME NEW a \in Reached(D, t.mode) PROVE Complete(E, D, a)
      <3>1. a \in Nat /\ a < Keys
        BY <1>3 DEF Reached
      <3>2. a \in 0..(s.account - 1)
        BY <1>3, <2>1, <3>1
      <3>. QED
        BY <1>1, <3>2 DEF AccountsDone
    <2>. QED
      BY <1>1, <1>3, <2>2 DEF LoopInv, AccountInv, IndexInv, WalletInv, DoneInv
  <1>. QED
    BY <1>2, <1>3

\* A request changes nothing but what is asked for.
LEMMA LoopAsks ==
  ASSUME NEW s, NEW t, NEW E, NEW N, NEW D, LoopInv(s, E, N, D),
         s.pc = "search", t.pc = "search", t.mode = s.mode, t.account = s.account,
         t.index = s.index, t.wallet = s.wallet, t.gap = s.gap, t.walletGap = s.walletGap,
         t.any = s.any, t.found = s.found
  PROVE  LoopInv(t, E, N, D)
  BY DEF LoopInv, AccountInv, IndexInv, WalletInv, DoneInv, AccountsDone, HasFound

\* The verdict on the address of a key.
LEMMA LoopEoa ==
  ASSUME NEW s \in Scan, NEW E, NEW N, NEW D, NEW active \in BOOLEAN, LoopInv(s, E, N, D),
         s.pc = "search", s.wallet = EOA, s.gap <= EoaGap,
         active => <<s.account, s.index, EOA>> \in N,
         ~active => <<s.account, s.index, EOA>> \notin D
  PROVE  LoopInv(AfterEoa(s, active), E, N, D)
  <1>1. PICK t : t = AfterEoa(s, active)
    OBVIOUS
  <1>2. /\ t \in Scan /\ t.pc = "search" /\ t.mode = s.mode
        /\ t.account = s.account /\ t.index = s.index /\ t.wallet = 0 /\ t.walletGap = 0
        /\ t.found = [eoa |-> active, wallets |-> << >>]
        /\ t.any <=> (s.any \/ active)
        /\ t.gap = (IF active THEN 0 ELSE s.gap + 1)
    BY <1>1, AfterEoaType
  <1>3. /\ t.found.eoa = active /\ t.found.wallets = << >> /\ ToSet(t.found.wallets) = {}
        /\ HasFound(t) <=> active
    BY <1>2 DEF HasFound, ToSet
  <1>4. t.wallet # EOA
    BY <1>2 DEF EOA
  <1>5. /\ AccountsDone(s, E, D) /\ (s.mode # "mnemonic" => s.account < Keys)
        /\ \A e \in E : e.account < s.account \/ (e.account = s.account /\ e.index < s.index)
        /\ \A j \in 0..(s.index - 1) : IsBusy(D, s.account, j) => Covered(E, D, s.account, j)
        /\ s.any <=> IndexesIn(E, s.account) # {}
    BY DEF LoopInv, IndexInv
  <1>6. PICK g \in 0..EoaGap : GapState(s.index, g, EoaGap, IndexesIn(E, s.account)) /\ s.gap = g
    BY DEF LoopInv, IndexInv
  <1>7. IndexInv(t, E, D)
    <2>1. AccountsDone(t, E, D)
      BY <1>2, <1>5 DEF AccountsDone
    <2>2. GapState(t.index, g, EoaGap, IndexesIn(E, t.account))
      BY <1>2, <1>6
    <2>3. t.gap = IF HasFound(t) THEN 0 ELSE g + 1
      BY <1>2, <1>3, <1>6
    <2>4. t.any <=> (IndexesIn(E, t.account) # {} \/ (t.wallet # EOA /\ HasFound(t)))
      BY <1>2, <1>3, <1>4, <1>5
    <2>. QED
      BY <1>2, <1>4, <1>5, <2>1, <2>2, <2>3, <2>4 DEF IndexInv
  <1>8. WalletInv(t, N, D)
    <2>1. GapState(0, 0, SWalletGap, {})
      BY GapStart, DiscoveryAssumption
    <2>2. 0..(0 - 1) = {}
      OBVIOUS
    <2>. QED
      BY <1>2, <1>3, <2>1, <2>2 DEF WalletInv
  <1>. QED
    BY <1>1, <1>2, <1>7, <1>8 DEF LoopInv, AccountInv, DoneInv

LEMMA AppendSet ==
  ASSUME NEW S, NEW q \in Seq(S), NEW x \in S
  PROVE  /\ ToSet(Append(q, x)) = ToSet(q) \cup {x} /\ Append(q, x) # << >>
  <1>1. PICK u : u = Append(q, x)
    OBVIOUS
  <1>2. /\ Len(u) = Len(q) + 1 /\ Len(q) \in Nat
        /\ DOMAIN u = 1..Len(u) /\ DOMAIN q = 1..Len(q)
        /\ \A k \in 1..Len(q) : u[k] = q[k]
        /\ u[Len(q) + 1] = x
    BY <1>1
  <1>3. ToSet(u) = ToSet(q) \cup {x}
    BY <1>2 DEF ToSet
  <1>4. u # << >>
    BY <1>2
  <1>. QED
    BY <1>1, <1>3, <1>4

\* The verdict on the address of a wallet.
AtWallet(s, E, N, D, active) ==
    /\ s \in Scan /\ E \subseteq Entry /\ N \subseteq Addresses /\ D \subseteq Addresses
    /\ active \in BOOLEAN /\ LoopInv(s, E, N, D)
    /\ s.pc = "search" /\ s.wallet \in Nat /\ s.walletGap <= SWalletGap
    /\ active => <<s.account, s.index, s.wallet>> \in N
    /\ ~active => <<s.account, s.index, s.wallet>> \notin D

\* The verdict on the address of a wallet: what was found at this address of the
\* account, now that the wallet is looked at.
LEMMA WalletVerdict ==
  ASSUME NEW s, NEW E, NEW N, NEW D, NEW active, AtWallet(s, E, N, D, active),
         NEW t, t = AfterWallet(s, active)
  PROVE  /\ ToSet(t.found.wallets) = ToSet(s.found.wallets) \cup (IF active THEN {s.wallet} ELSE {})
         /\ HasFound(t) <=> (HasFound(s) \/ active)
         /\ ToSet(t.found.wallets) \subseteq WalletsOf(N, s.account, s.index)
         /\ \A j \in 0..s.wallet :
               <<s.account, s.index, j>> \in D => j \in ToSet(t.found.wallets)
         /\ t.walletGap <= SWalletGap =>
               GapState(s.wallet + 1, t.walletGap, SWalletGap, ToSet(t.found.wallets))
         /\ ~(t.walletGap <= SWalletGap) =>
               WalletsOf(D, s.account, s.index) \subseteq ToSet(t.found.wallets)
  <1>0. /\ s \in Scan /\ E \subseteq Entry /\ N \subseteq Addresses /\ D \subseteq Addresses
        /\ active \in BOOLEAN /\ LoopInv(s, E, N, D)
        /\ s.pc = "search" /\ s.wallet \in Nat /\ s.walletGap <= SWalletGap
        /\ active => <<s.account, s.index, s.wallet>> \in N
        /\ ~active => <<s.account, s.index, s.wallet>> \notin D
    BY DEF AtWallet
  <1>. USE <1>0
  <1>1. /\ t.walletGap = (IF active THEN 0 ELSE s.walletGap + 1)
        /\ t.found.eoa = s.found.eoa
        /\ t.found.wallets = (IF active THEN Append(s.found.wallets, s.wallet) ELSE s.found.wallets)
    BY AfterWalletType
  <1>2. s.found.wallets \in Seq(Nat) /\ s.walletGap \in Nat
    BY DEF Scan, Found
  <1>3. s.wallet # EOA
    BY DEF EOA
  <1>4. PICK B : B = ToSet(s.found.wallets)
    OBVIOUS
  <1>5. /\ GapState(s.wallet, s.walletGap, SWalletGap, B)
        /\ B \subseteq WalletsOf(N, s.account, s.index)
        /\ \A j \in 0..(s.wallet - 1) : <<s.account, s.index, j>> \in D => j \in B
    BY <1>3, <1>4 DEF LoopInv, WalletInv
  <1>6. PICK C : C = ToSet(t.found.wallets)
    OBVIOUS
  <1>7. C = B \cup (IF active THEN {s.wallet} ELSE {})
    BY <1>1, <1>2, <1>4, <1>6, AppendSet
  <1>8. HasFound(t) <=> (HasFound(s) \/ active)
    <2>1. active => t.found.wallets # << >>
      BY <1>1, <1>2, AppendSet
    <2>. QED
      BY <1>1, <2>1 DEF HasFound
  <1>9. SWalletGap \in Nat
    BY DiscoveryAssumption
  <1>10. C \subseteq WalletsOf(N, s.account, s.index)
    <2>1. CASE active
      <3>1. \A k \in 0..(s.wallet - SWalletGap - 1) : \E j \in k..(k + SWalletGap) : j \in B
        BY <1>5 DEF GapState
      <3>2. \A j \in B : <<s.account, s.index, j>> \in N
        BY <1>5, WalletsOfIs
      <3>3. s.wallet \in WalletsOf(N, s.account, s.index)
        BY <2>1, <3>1, <3>2, WalletsOfIs
      <3>. QED
        BY <1>5, <1>7, <2>1, <3>3
    <2>2. CASE ~active
      BY <1>5, <1>7, <2>2
    <2>. QED
      BY <2>1, <2>2
  <1>11. \A j \in 0..s.wallet : <<s.account, s.index, j>> \in D => j \in C
    BY <1>5, <1>7
  <1>12. t.walletGap <= SWalletGap => GapState(s.wallet + 1, t.walletGap, SWalletGap, C)
    <2>1. CASE active
      BY <1>1, <1>5, <1>7, <1>9, <2>1, GapCloses
    <2>2. CASE ~active
      <3>1. C = B /\ t.walletGap = s.walletGap + 1
        BY <1>1, <1>7, <2>2
      <3>. QED
        BY <1>5, <1>9, <3>1, GapGrows
    <2>. QED
      BY <2>1, <2>2
  <1>13. ASSUME ~(t.walletGap <= SWalletGap) PROVE WalletsOf(D, s.account, s.index) \subseteq C
    <2>1. ~active /\ C = B /\ ~(s.walletGap + 1 <= SWalletGap)
      BY <1>1, <1>7, <1>9, <1>13
    <2>. DEFINE A == {j \in Nat : <<s.account, s.index, j>> \in D}
    <2>2. \A j \in 0..s.wallet : j \in A => j \in B
      BY <1>11, <2>1
    <2>3. ASSUME NEW w, w \in WalletsOf(D, s.account, s.index)
          PROVE  /\ w \in Nat /\ w \in A
                 /\ \A k \in 0..(w - SWalletGap - 1) : \E j \in k..(k + SWalletGap) : j \in A
      <3>1. /\ w \in Nat /\ <<s.account, s.index, w>> \in D
            /\ \A k \in 0..(w - SWalletGap - 1) :
                  \E j \in k..(k + SWalletGap) : <<s.account, s.index, j>> \in D
        BY <2>3, WalletsOfIs
      <3>2. \A k \in 0..(w - SWalletGap - 1) : \A j \in k..(k + SWalletGap) : j \in Nat
        BY <1>9
      <3>. QED
        BY <3>1, <3>2
    <2>. HIDE DEF A
    <2>4. ASSUME NEW w, w \in WalletsOf(D, s.account, s.index) PROVE w \in B
      <3>1. PICK d \in Nat : d = w
        BY <2>3, <2>4
      <3>2. /\ d \in A
            /\ \A k \in 0..(d - SWalletGap - 1) : \E j \in k..(k + SWalletGap) : j \in A
        BY <2>3, <2>4, <3>1
      <3>. HIDE <2>3
      <3>3. GapState(s.wallet, s.walletGap, SWalletGap, B)
        BY <1>5
      <3>4. d \in B
        BY <1>9, <2>1, <2>2, <3>2, <3>3, GapEnds
      <3>. QED
        BY <3>1, <3>4
    <2>. QED
      BY <2>1, <2>4
  <1>. QED
    BY <1>4, <1>6, <1>7, <1>8, <1>10, <1>11, <1>12, <1>13

\* Another wallet follows.
LEMMA LoopWallet ==
  ASSUME NEW s, NEW E, NEW N, NEW D, NEW active, AtWallet(s, E, N, D, active),
         NEW t, t = AfterWallet(s, active), t.walletGap <= SWalletGap
  PROVE  LoopInv(t, E, N, D)
  <1>0. /\ s \in Scan /\ E \subseteq Entry /\ N \subseteq Addresses /\ D \subseteq Addresses
        /\ active \in BOOLEAN /\ LoopInv(s, E, N, D)
        /\ s.pc = "search" /\ s.wallet \in Nat /\ s.walletGap <= SWalletGap
        /\ active => <<s.account, s.index, s.wallet>> \in N
        /\ ~active => <<s.account, s.index, s.wallet>> \notin D
    BY DEF AtWallet
  <1>. USE <1>0
  <1>1. /\ t \in Scan /\ t.pc = "search" /\ t.mode = s.mode
        /\ t.account = s.account /\ t.index = s.index /\ t.wallet = s.wallet + 1
        /\ t.found.eoa = s.found.eoa
        /\ t.any <=> (s.any \/ active)
        /\ t.gap = (IF active THEN 0 ELSE s.gap)
    BY AfterWalletType
  <1>2. /\ HasFound(t) <=> (HasFound(s) \/ active)
        /\ ToSet(t.found.wallets) \subseteq WalletsOf(N, s.account, s.index)
        /\ \A j \in 0..s.wallet :
              <<s.account, s.index, j>> \in D => j \in ToSet(t.found.wallets)
        /\ GapState(s.wallet + 1, t.walletGap, SWalletGap, ToSet(t.found.wallets))
    BY WalletVerdict
  <1>3. s.wallet # EOA /\ t.wallet # EOA
    BY <1>1 DEF EOA
  <1>4. /\ AccountsDone(s, E, D) /\ (s.mode # "mnemonic" => s.account < Keys)
        /\ \A e \in E : e.account < s.account \/ (e.account = s.account /\ e.index < s.index)
        /\ \A j \in 0..(s.index - 1) : IsBusy(D, s.account, j) => Covered(E, D, s.account, j)
        /\ s.any <=> (IndexesIn(E, s.account) # {} \/ HasFound(s))
    BY <1>3 DEF LoopInv, IndexInv
  <1>5. PICK g \in 0..EoaGap : /\ GapState(s.index, g, EoaGap, IndexesIn(E, s.account))
                              /\ s.gap = IF HasFound(s) THEN 0 ELSE g + 1
    BY <1>3 DEF LoopInv, IndexInv
  <1>6. IndexInv(t, E, D)
    <2>1. AccountsDone(t, E, D)
      BY <1>1, <1>4 DEF AccountsDone
    <2>2. GapState(t.index, g, EoaGap, IndexesIn(E, t.account))
      BY <1>1, <1>5
    <2>3. t.gap = IF HasFound(t) THEN 0 ELSE g + 1
      BY <1>1, <1>2, <1>5
    <2>4. t.any <=> (IndexesIn(E, t.account) # {} \/ (t.wallet # EOA /\ HasFound(t)))
      BY <1>1, <1>2, <1>3, <1>4
    <2>. QED
      BY <1>1, <1>3, <1>4, <2>1, <2>2, <2>3, <2>4 DEF IndexInv
  <1>7. WalletInv(t, N, D)
    <2>1. /\ s.found.eoa => <<s.account, s.index, EOA>> \in N
          /\ <<s.account, s.index, EOA>> \in D => s.found.eoa
      BY <1>3 DEF LoopInv, WalletInv
    <2>2. s.wallet + 1 - 1 = s.wallet
      OBVIOUS
    <2>. QED
      BY <1>1, <1>2, <2>1, <2>2 DEF WalletInv
  <1>. QED
    BY <1>1, <1>6, <1>7 DEF LoopInv, AccountInv, DoneInv

Earlier(e, f) == e.account < f.account \/ (e.account = f.account /\ e.index < f.index)

\* The wallets of the address of t are done, which turned E into F.
Ended(t, E, F, N, D) ==
    /\ AllSound(F, N, t.mode)
    /\ AccountsDone(t, F, D) /\ (t.mode # "mnemonic" => t.account < Keys)
    /\ \A f \in F : f.account < t.account \/ (f.account = t.account /\ f.index <= t.index)
    /\ \A j \in 0..t.index : IsBusy(D, t.account, j) => Covered(F, D, t.account, j)
    /\ t.any <=> IndexesIn(F, t.account) # {}
    /\ \E g \in 0..EoaGap :
          /\ GapState(t.index, g, EoaGap, IndexesIn(E, t.account))
          /\ t.gap = IF HasFound(t) THEN 0 ELSE g + 1
    /\ IndexesIn(F, t.account) =
          IndexesIn(E, t.account) \cup (IF HasFound(t) THEN {t.index} ELSE {})

\* The wallets of an address are done: it is listed if anything was found.
LEMMA LoopLists ==
  ASSUME NEW s, NEW E, NEW N, NEW D, NEW active, AtWallet(s, E, N, D, active),
         NEW t, t = AfterWallet(s, active), ~(t.walletGap <= SWalletGap),
         NEW e, e = [account |-> t.account, index |-> t.index, wallets |-> t.found.wallets],
         NEW F, F = IF HasFound(t) THEN E \cup {e} ELSE E
  PROVE  /\ t \in Scan /\ t.pc = "search" /\ e \in Entry
         /\ \A f \in E : Earlier(f, e)
         /\ Ended(t, E, F, N, D)
  <1>0. /\ s \in Scan /\ E \subseteq Entry /\ N \subseteq Addresses /\ D \subseteq Addresses
        /\ active \in BOOLEAN /\ LoopInv(s, E, N, D)
        /\ s.pc = "search" /\ s.wallet \in Nat /\ s.walletGap <= SWalletGap
        /\ active => <<s.account, s.index, s.wallet>> \in N
        /\ ~active => <<s.account, s.index, s.wallet>> \notin D
    BY DEF AtWallet
  <1>. USE <1>0
  <1>1. /\ t \in Scan /\ t.pc = "search" /\ t.mode = s.mode
        /\ t.account = s.account /\ t.index = s.index
        /\ t.found.eoa = s.found.eoa
        /\ t.any <=> (s.any \/ active)
        /\ t.gap = (IF active THEN 0 ELSE s.gap)
    BY AfterWalletType
  <1>2. /\ HasFound(t) <=> (HasFound(s) \/ active)
        /\ ToSet(t.found.wallets) \subseteq WalletsOf(N, s.account, s.index)
        /\ WalletsOf(D, s.account, s.index) \subseteq ToSet(t.found.wallets)
    BY WalletVerdict
  <1>3. s.wallet # EOA
    BY DEF EOA
  <1>4. PICK a \in Nat, i \in Nat : a = s.account /\ i = s.index
    BY DEF Scan
  <1>5. /\ AccountsDone(s, E, D) /\ (s.mode # "mnemonic" => a < Keys)
        /\ \A f \in E : f.account < a \/ (f.account = a /\ f.index < i)
        /\ \A j \in 0..(i - 1) : IsBusy(D, a, j) => Covered(E, D, a, j)
        /\ s.any <=> (IndexesIn(E, a) # {} \/ HasFound(s))
        /\ AllSound(E, N, s.mode)
    BY <1>3, <1>4 DEF LoopInv, IndexInv
  <1>6. PICK g \in 0..EoaGap : /\ GapState(i, g, EoaGap, IndexesIn(E, a))
                              /\ s.gap = IF HasFound(s) THEN 0 ELSE g + 1
    BY <1>3, <1>4 DEF LoopInv, IndexInv
  <1>7. /\ s.found.eoa => <<a, i, EOA>> \in N
        /\ <<a, i, EOA>> \in D => s.found.eoa
    BY <1>3, <1>4 DEF LoopInv, WalletInv
  <1>8. /\ e.account = a /\ e.index = i /\ e.wallets = t.found.wallets /\ e \in Entry
    <2>1. t.found.wallets \in Seq(Nat)
      BY <1>1 DEF Scan, Found
    <2>. QED
      BY <1>1, <1>4, <2>1 DEF Entry
  <1>9. t.found.wallets # << >> <=> ToSet(t.found.wallets) # {}
    <2>1. t.found.wallets \in Seq(Nat)
      BY <1>1 DEF Scan, Found
    <2>2. PICK q \in Seq(Nat) : q = t.found.wallets
      BY <2>1
    <2>3. q # << >> <=> 1 \in DOMAIN q
      OBVIOUS
    <2>4. q = << >> => DOMAIN q = {}
      OBVIOUS
    <2>5. q # << >> <=> ToSet(q) # {}
      BY <2>3, <2>4 DEF ToSet
    <2>. QED
      BY <2>2, <2>5
  <1>10. \A f \in E : Earlier(f, e)
    BY <1>5, <1>8 DEF Earlier
  <1>11. \A f \in E : Sound(f, N, s.mode)
    BY <1>5 DEF AllSound
  <1>12. ASSUME HasFound(t) PROVE Sound(e, N, s.mode)
    <2>1. IsBusy(N, a, i)
      BY <1>1, <1>2, <1>4, <1>7, <1>9, <1>12 DEF HasFound, IsBusy
    <2>2. \A j \in IndexesIn(E, a) : IsBusy(N, a, j)
      <3>. SUFFICES ASSUME NEW j \in IndexesIn(E, a) PROVE IsBusy(N, a, j)
        OBVIOUS
      <3>1. PICK f \in E : f.account = a /\ f.index = j
        BY DEF IndexesIn
      <3>2. j \in IndexesOf(N, a)
        BY <1>11, <3>1 DEF Sound
      <3>. QED
        BY <3>2, IndexesOfIs
    <2>3. \A k \in 0..(i - EoaGap - 1) : \E j \in k..(k + EoaGap) : IsBusy(N, a, j)
      BY <1>6, <2>2 DEF GapState
    <2>4. i \in IndexesOf(N, a)
      BY <2>1, <2>3, IndexesOfIs
    <2>5. ASSUME s.mode # "keys", NEW b \in 0..(a - 1) PROVE IndexesOf(N, b) # {}
      <3>1. IndexesIn(E, b) # {}
        BY <1>4, <1>5, <2>5 DEF AccountsDone
      <3>2. PICK f \in E : f.account = b
        BY <3>1 DEF IndexesIn
      <3>3. f.index \in IndexesOf(N, b)
        BY <1>11, <3>2 DEF Sound
      <3>. QED
        BY <3>3
    <2>6. a \in Reached(N, s.mode)
      BY <1>5, <2>5 DEF Reached
    <2>. QED
      BY <1>2, <1>4, <1>8, <2>4, <2>6 DEF Sound
  <1>13. AllSound(F, N, t.mode)
    <2>1. \A f \in F : f \in E \/ (HasFound(t) /\ f = e)
      OBVIOUS
    <2>. QED
      BY <1>1, <1>11, <1>12, <2>1 DEF AllSound
  <1>14. E \subseteq F
    OBVIOUS
  <1>15. AccountsDone(t, F, D)
    BY <1>1, <1>5, <1>14, CoveredStays
  <1>16. \A f \in F : f.account < a \/ (f.account = a /\ f.index <= i)
    <2>1. \A f \in E : f.index \in Nat
      BY DEF Entry
    <2>2. \A f \in F : f \in E \/ f = e
      OBVIOUS
    <2>. QED
      BY <1>5, <1>8, <2>1, <2>2
  <1>17. ASSUME NEW j \in 0..i, IsBusy(D, a, j) PROVE Covered(F, D, a, j)
    <2>1. CASE j < i
      <3>1. Covered(E, D, a, j)
        BY <1>5, <1>17, <2>1
      <3>. QED
        BY <1>14, <3>1, CoveredStays
    <2>2. CASE j = i
      <3>1. HasFound(t)
        BY <1>1, <1>2, <1>4, <1>7, <1>9, <1>17, <2>2 DEF HasFound, IsBusy
      <3>2. e \in F
        BY <3>1
      <3>. QED
        BY <1>2, <1>4, <1>8, <2>2, <3>2 DEF Covered
    <2>. QED
      BY <1>17, <2>1, <2>2
  <1>18. IndexesIn(F, a) = IndexesIn(E, a) \cup (IF HasFound(t) THEN {i} ELSE {})
    <2>1. CASE HasFound(t)
      <3>1. F = E \cup {e}
        BY <2>1
      <3>2. IndexesIn(F, a) = IndexesIn(E, a) \cup {i}
        BY <1>8, <3>1 DEF IndexesIn
      <3>. QED
        BY <2>1, <3>2
    <2>2. CASE ~HasFound(t)
      BY <2>2
    <2>. QED
      BY <2>1, <2>2
  <1>19. t.any <=> IndexesIn(F, a) # {}
    BY <1>1, <1>2, <1>5, <1>18
  <1>20. t.gap = IF HasFound(t) THEN 0 ELSE g + 1
    BY <1>1, <1>2, <1>6
  <1>21. t.account = a /\ t.index = i
    BY <1>1, <1>4
  <1>22. t.mode # "mnemonic" => t.account < Keys
    BY <1>1, <1>5, <1>21
  <1>23. \E h \in 0..EoaGap :
            /\ GapState(t.index, h, EoaGap, IndexesIn(E, t.account))
            /\ t.gap = IF HasFound(t) THEN 0 ELSE h + 1
    BY <1>6, <1>20, <1>21
  <1>. QED
    BY <1>1, <1>8, <1>10, <1>13, <1>15, <1>16, <1>17, <1>18, <1>19, <1>21, <1>22, <1>23 DEF Ended

\* What follows it: the next address, the next account or the end.
LEMMA LoopIndex ==
  ASSUME NEW t \in Scan, NEW E, NEW F, F \subseteq Entry, NEW N, N \subseteq Addresses,
         NEW D, D \subseteq Addresses,
         t.pc = "search",
         Ended(t, E, F, N, D)
  PROVE  LoopInv(AfterIndex(t), F, N, D)
  <1>0. /\ AllSound(F, N, t.mode)
        /\ AccountsDone(t, F, D) /\ (t.mode # "mnemonic" => t.account < Keys)
        /\ \A f \in F : f.account < t.account \/ (f.account = t.account /\ f.index <= t.index)
        /\ \A j \in 0..t.index : IsBusy(D, t.account, j) => Covered(F, D, t.account, j)
        /\ t.any <=> IndexesIn(F, t.account) # {}
        /\ IndexesIn(F, t.account) =
              IndexesIn(E, t.account) \cup (IF HasFound(t) THEN {t.index} ELSE {})
    BY DEF Ended
  <1>8. PICK g \in 0..EoaGap : /\ GapState(t.index, g, EoaGap, IndexesIn(E, t.account))
                              /\ t.gap = IF HasFound(t) THEN 0 ELSE g + 1
    BY DEF Ended
  <1>. USE <1>0, <1>8
  <1>1. PICK u \in Scan :
            /\ u = AfterIndex(t)
            /\ u.gap = t.gap /\ u.mode = t.mode /\ (u.any <=> t.any)
            /\ t.gap <= EoaGap =>
                  /\ u.pc = t.pc /\ u.account = t.account /\ u.index = t.index + 1
                  /\ u.wallet = EOA
            /\ ~(t.gap <= EoaGap) =>
                  \/ /\ t.any \/ t.mode = "keys"
                     /\ u.pc = "account" /\ u.account = t.account + 1
                  \/ /\ ~t.any /\ t.mode # "keys"
                     /\ u.pc = "done" /\ u.account = t.account
    BY AfterIndexType
  <1>2. PICK a \in Nat, i \in Nat : a = t.account /\ i = t.index
    BY DEF Scan
  <1>3. PICK B : B = IndexesIn(E, a)
    OBVIOUS
  <1>4. GapState(i, g, EoaGap, B) /\ EoaGap \in Nat /\ g <= EoaGap
    BY <1>2, <1>3, DiscoveryAssumption
  <1>5. \A f \in F : f.account \in Nat /\ f.index \in Nat
    BY DEF Entry
  <1>6. CASE t.gap <= EoaGap
    <2>1. GapState(i + 1, t.gap, EoaGap, IndexesIn(F, a))
      <3>1. CASE HasFound(t)
        <4>1. t.gap = 0 /\ IndexesIn(F, a) = B \cup {i}
          BY <1>2, <1>3, <3>1
        <4>. HIDE <1>0, <1>8
        <4>2. GapState(i + 1, 0, EoaGap, B \cup {i})
          BY <1>4, GapCloses
        <4>. QED
          BY <4>1, <4>2
      <3>2. CASE ~HasFound(t)
        <4>1. t.gap = g + 1 /\ IndexesIn(F, a) = B
          BY <1>2, <1>3, <3>2
        <4>. QED
          BY <1>4, <1>6, <4>1, GapGrows
      <3>. QED
        BY <3>1, <3>2
    <2>2. AccountsDone(u, F, D)
      BY <1>1, <1>6 DEF AccountsDone
    <2>3. \A f \in F : f.account < u.account \/ (f.account = u.account /\ f.index < u.index)
      BY <1>1, <1>2, <1>5, <1>6
    <2>4. \A j \in 0..(u.index - 1) : IsBusy(D, u.account, j) => Covered(F, D, u.account, j)
      BY <1>1, <1>2, <1>6
    <2>5. t.gap \in 0..EoaGap
      BY <1>4, <1>6
    <2>6. IndexInv(u, F, D)
      BY <1>1, <1>2, <1>6, <2>1, <2>2, <2>3, <2>4, <2>5 DEF IndexInv
    <2>. QED
      BY <1>1, <1>6, <2>6 DEF LoopInv, AccountInv, WalletInv, DoneInv
  <1>7. CASE ~(t.gap <= EoaGap)
    <2>1. ~HasFound(t) /\ ~(g + 1 <= EoaGap) /\ IndexesIn(F, a) = B
      BY <1>2, <1>3, <1>4, <1>7
    <2>2. \A j \in 0..i : IsBusy(D, a, j) => Covered(F, D, a, j)
      BY <1>2
    <2>3. \A j : Covered(F, D, a, j) => j \in B
      BY <2>1 DEF Covered, IndexesIn
    <2>4. Complete(F, D, a)
      <3>. DEFINE A == {j \in Nat : IsBusy(D, a, j)}
      <3>1. \A j \in 0..i : j \in A => j \in B
        BY <2>2, <2>3
      <3>. SUFFICES ASSUME NEW j, j \in IndexesOf(D, a) PROVE Covered(F, D, a, j)
        BY DEF Complete
      <3>2. PICK d \in Nat : d = j
        BY IndexesOfIs
      <3>3. /\ IsBusy(D, a, d)
            /\ \A k \in 0..(d - EoaGap - 1) : \E l \in k..(k + EoaGap) : IsBusy(D, a, l)
        BY <3>2, IndexesOfIs
      <3>4. /\ d \in A
            /\ \A k \in 0..(d - EoaGap - 1) : \E l \in k..(k + EoaGap) : l \in A
        <4>1. \A k \in 0..(d - EoaGap - 1) : \A l \in k..(k + EoaGap) : l \in Nat
          BY <1>4
        <4>. QED
          BY <3>3, <4>1
      <3>. HIDE DEF A
      <3>5. d \in B
        BY <1>4, <2>1, <3>1, <3>4, GapEnds
      <3>6. d \in 0..i
        BY <1>4, <3>5 DEF GapState
      <3>. QED
        BY <2>2, <3>2, <3>3, <3>6
    <2>5. \A b \in 0..a : Complete(F, D, b) /\ (b # a => (t.mode # "keys" => IndexesIn(F, b) # {}))
      <3>1. \A b \in 0..(a - 1) : Complete(F, D, b) /\ (t.mode # "keys" => IndexesIn(F, b) # {})
        BY <1>2 DEF AccountsDone
      <3>2. \A b \in 0..a : b = a \/ b \in 0..(a - 1)
        OBVIOUS
      <3>. QED
        BY <2>4, <3>1, <3>2
    <2>6. CASE (t.any \/ t.mode = "keys") /\ u.pc = "account" /\ u.account = t.account + 1
      <3>1. \A b \in 0..(a + 1 - 1) : Complete(F, D, b) /\ (u.mode # "keys" => IndexesIn(F, b) # {})
        <4>1. a + 1 - 1 = a
          OBVIOUS
        <4>2. u.mode # "keys" => IndexesIn(F, a) # {}
          BY <1>1, <1>2, <2>6
        <4>3. u.mode = t.mode
          BY <1>1
        <4>. HIDE <1>0, <1>8
        <4>. QED
          BY <2>5, <4>1, <4>2, <4>3
      <3>2. u.mode # "mnemonic" => a + 1 <= Keys
        BY <1>1, <1>2, DiscoveryAssumption
      <3>3. \A f \in F : f.account < a + 1
        BY <1>2, <1>5
      <3>4. AccountsDone(u, F, D) /\ \A f \in F : f.account < u.account
        BY <1>2, <2>6, <3>1, <3>2, <3>3 DEF AccountsDone
      <3>. QED
        BY <1>1, <2>6, <3>4 DEF LoopInv, AccountInv, IndexInv, WalletInv, DoneInv
    <2>7. CASE ~t.any /\ t.mode # "keys" /\ u.pc = "done"
      <3>1. IndexesOf(D, a) = {}
        <4>1. \A j \in IndexesOf(D, a) : j \in B
          BY <2>3, <2>4 DEF Complete
        <4>2. B = {}
          BY <1>2, <2>1, <2>7
        <4>. QED
          BY <4>1, <4>2
      <3>2. ASSUME NEW b \in Reached(D, u.mode) PROVE Complete(F, D, b)
        <4>1. b \in Nat /\ \A c \in 0..(b - 1) : IndexesOf(D, c) # {}
          BY <1>1, <2>7 DEF Reached
        <4>2. ~(a \in 0..(b - 1))
          BY <3>1, <4>1
        <4>3. b \in 0..a
          BY <4>1, <4>2
        <4>. QED
          BY <2>5, <4>3
      <3>. QED
        BY <1>1, <2>7, <3>2 DEF LoopInv, AccountInv, IndexInv, WalletInv, DoneInv
    <2>. QED
      BY <1>1, <1>7, <2>6, <2>7
  <1>. QED
    BY <1>6, <1>7

-----------------------------------------------------------------------------
(* The search: what is active, what was asked for, what is listed. *)

Now == {p[1] : p \in activity}
Due == hist.start \ {m.address : m \in hist.missed}

\* An address active from the start still has something to show that was not asked for.
Asked ==
    /\ hist.start \subseteq Now
    /\ Address \in hist.start =>
          /\ Reads("nonce") => \E e \in Evidence : e # "balance" /\ Shows(e)
          /\ Reads("token") => \E j \in scan.search.token..Len(Tokens) : Shows(Tokens[j])

\* What the call under way has listed: L without the first b entries.
Entries(L, b) == {L[p] : p \in (b + 1)..Len(L)}
InOrder(L, b) == \A p, q \in (b + 1)..Len(L) : p < q => Earlier(L[p], L[q])

Listing ==
    scan.pc \in {"account", "search", "done"} =>
        /\ LoopInv(scan, Entries(accounts, hist.before), Now, Due)
        /\ InOrder(accounts, hist.before)

SearchInv == TypeInv /\ Asked /\ Listing

LEMMA ActiveShows ==
  ASSUME Types
  PROVE  /\ Now \subseteq Addresses
         /\ Address \in Now <=> \E e \in Evidence : Shows(e)
  <1>1. activity \subseteq Addresses \X Evidence
    BY DEF Types
  <1>2. \A p \in activity : p[1] \in Addresses /\ p[2] \in Evidence /\ p = <<p[1], p[2]>>
    BY <1>1
  <1>3. Now \subseteq Addresses
    BY <1>2 DEF Now
  <1>4. ASSUME Address \in Now PROVE \E e \in Evidence : Shows(e)
    BY <1>2, <1>4 DEF Now, Shows
  <1>5. ASSUME NEW e \in Evidence, Shows(e) PROVE Address \in Now
    <2>1. PICK p \in activity : p = <<Address, e>>
      BY <1>5 DEF Shows
    <2>2. p[1] = Address
      BY <2>1
    <2>. QED
      BY <2>2 DEF Now
  <1>. QED
    BY <1>3, <1>4, <1>5

\* A verdict is right: what passes for active is, and what passes for inactive was
\* not active from the start.
LEMMA ReadShows ==
  ASSUME Types, Asked, ReadBalance \/ ReadNonce \/ ReadToken
  PROVE  \/ \E active \in BOOLEAN :
                /\ Searched(active)
                /\ active => Address \in Now
                /\ ~active => Address \notin hist.start
         \/ \E n : /\ Asks(n)
                   /\ Address \in hist.start =>
                        /\ n.read = "nonce" => \E e \in Evidence : e # "balance" /\ Shows(e)
                        /\ n.read = "token" => \E j \in n.token..Len(Tokens) : Shows(Tokens[j])
  <1>1. Len(Tokens) \in Nat /\ (Tokens = << >> <=> Len(Tokens) = 0) /\ DOMAIN Tokens = 1..Len(Tokens)
    BY DiscoveryAssumption
  <1>2. scan.search \in Search /\ scan.search.token \in Nat
    BY DEF Types, Scan, Search
  <1>3. \A e : Shows(e) => e \in Evidence
    <2>1. \A p \in activity : p[2] \in Evidence
      BY DEF Types
    <2>. SUFFICES ASSUME NEW e, Shows(e) PROVE e \in Evidence
      OBVIOUS
    <2>2. PICK p \in activity : p = <<Address, e>>
      BY DEF Shows
    <2>. QED
      BY <2>1, <2>2
  <1>4. \A e : Shows(e) => Address \in Now
    BY <1>3, ActiveShows
  <1>5. Address \in hist.start => \E e \in Evidence : Shows(e)
    BY ActiveShows DEF Asked
  <1>6. CASE ReadBalance
    <2>1. CASE Shows("balance")
      BY <1>4, <1>6, <2>1 DEF ReadBalance
    <2>2. CASE ~Shows("balance")
      <3>1. PICK n : n = [NewSearch EXCEPT !.read = "nonce"]
        OBVIOUS
      <3>2. n \in Search /\ n.read = "nonce"
        BY <3>1 DEF NewSearch, Search
      <3>3. Asks(n)
        BY <1>6, <2>2, <3>1, <3>2 DEF ReadBalance, Reads, Asks
      <3>4. Address \in hist.start => \E e \in Evidence : e # "balance" /\ Shows(e)
        BY <1>5, <2>2
      <3>. QED
        BY <3>2, <3>3, <3>4
    <2>. QED
      BY <2>1, <2>2
  <1>7. CASE ReadNonce
    <2>1. CASE Shows("nonce")
      BY <1>4, <1>7, <2>1 DEF ReadNonce
    <2>2. CASE ~Shows("nonce")
      <3>1. Address \in hist.start =>
               /\ ReconnectionAttempts # 0
               /\ \E j \in 1..Len(Tokens) : Shows(Tokens[j])
        <4>. SUFFICES ASSUME Address \in hist.start
                      PROVE  /\ ReconnectionAttempts # 0
                             /\ \E j \in 1..Len(Tokens) : Shows(Tokens[j])
          OBVIOUS
        <4>1. PICK e \in Evidence : e # "balance" /\ Shows(e)
          BY <1>7 DEF Asked, ReadNonce
        <4>2. e # "nonce"
          BY <2>2, <4>1
        <4>3. ReconnectionAttempts # 0 /\ e \in ToSet(Tokens)
          BY <4>1, <4>2 DEF Evidence
        <4>4. PICK j \in 1..Len(Tokens) : Tokens[j] = e
          BY <1>1, <4>3 DEF ToSet
        <4>. QED
          BY <4>1, <4>3, <4>4
      <3>2. CASE Tokens = << >> \/ ReconnectionAttempts = 0
        <4>3. Shows("nonce") = FALSE
          BY <2>2 DEF Shows
        <4>4. Searched(Shows("nonce"))
          BY <1>7, <3>2 DEF ReadNonce
        <4>1. Searched(FALSE)
          BY <4>3, <4>4
        <4>2. Address \notin hist.start
          BY <1>1, <3>1, <3>2
        <4>. QED
          BY <4>1, <4>2
      <3>3. CASE ~(Tokens = << >> \/ ReconnectionAttempts = 0)
        <4>1. PICK n : n = [NewSearch EXCEPT !.read = "token"]
          OBVIOUS
        <4>2. n \in Search /\ n.read = "token" /\ n.token = 1
          BY <4>1 DEF NewSearch, Search
        <4>3. Asks(n)
          BY <1>7, <2>2, <3>3, <4>1, <4>2 DEF ReadNonce, Reads, Asks
        <4>. QED
          BY <3>1, <4>2, <4>3
      <3>. QED
        BY <3>2, <3>3
    <2>. QED
      BY <2>1, <2>2
  <1>8. CASE ReadToken
    <2>1. scan.search.token \in 1..Len(Tokens)
      BY <1>8 DEF Types, Counted, ReadToken
    <2>2. Address \in hist.start => \E j \in scan.search.token..Len(Tokens) : Shows(Tokens[j])
      BY <1>8 DEF Asked, ReadToken
    <2>3. CASE Shows(Tokens[scan.search.token])
      BY <1>4, <1>8, <2>3 DEF ReadToken
    <2>4. CASE ~Shows(Tokens[scan.search.token])
      <3>1. Address \in hist.start =>
               \E j \in (scan.search.token + 1)..Len(Tokens) : Shows(Tokens[j])
        BY <1>1, <2>1, <2>2, <2>4
      <3>2. CASE scan.search.token = Len(Tokens)
        <4>3. Shows(Tokens[scan.search.token]) = FALSE
          BY <2>4 DEF Shows
        <4>4. Searched(Shows(Tokens[scan.search.token]))
          BY <1>8, <3>2 DEF ReadToken
        <4>1. Searched(FALSE)
          BY <4>3, <4>4
        <4>2. Address \notin hist.start
          BY <1>1, <3>1, <3>2
        <4>. QED
          BY <4>1, <4>2
      <3>3. CASE scan.search.token # Len(Tokens)
        <4>1. PICK n : n = NextToken(scan.search)
          OBVIOUS
        <4>2. n = [read |-> "token", retried |-> scan.search.retried,
                   token |-> scan.search.token + 1, errors |-> 0]
          BY <1>2, <1>8, <4>1 DEF NextToken, Search, ReadToken, Reads
        <4>3. n \in Search /\ n.read = "token" /\ n.token = scan.search.token + 1
          BY <1>2, <4>2 DEF Search
        <4>4. Asks(n)
          BY <1>8, <2>4, <3>3, <4>1, <4>3 DEF ReadToken, Reads, Asks
        <4>. QED
          BY <3>1, <4>3, <4>4
      <3>. QED
        BY <3>2, <3>3
    <2>. QED
      BY <2>3, <2>4
  <1>. QED
    BY <1>6, <1>7, <1>8

LEMMA EntriesAppend ==
  ASSUME NEW L \in Seq(Entry), NEW b \in Nat, b <= Len(L)
  PROVE  /\ Entries(L, b) \subseteq Entry
         /\ Entries(L, Len(L)) = {}
         /\ \A e \in Entry :
               /\ Entries(Append(L, e), b) = Entries(L, b) \cup {e}
               /\ InOrder(L, b) /\ (\A f \in Entries(L, b) : Earlier(f, e))
                     => InOrder(Append(L, e), b)
  <1>1. Len(L) \in Nat /\ \A p \in 1..Len(L) : L[p] \in Entry
    OBVIOUS
  <1>2. Entries(L, b) \subseteq Entry
    BY <1>1 DEF Entries
  <1>3. Entries(L, Len(L)) = {}
    <2>1. (Len(L) + 1)..Len(L) = {}
      BY <1>1
    <2>. QED
      BY <2>1 DEF Entries
  <1>4. ASSUME NEW e \in Entry
        PROVE  /\ Entries(Append(L, e), b) = Entries(L, b) \cup {e}
               /\ InOrder(L, b) /\ (\A f \in Entries(L, b) : Earlier(f, e))
                     => InOrder(Append(L, e), b)
    <2>1. PICK M : M = Append(L, e)
      OBVIOUS
    <2>2. /\ Len(M) = Len(L) + 1 /\ M[Len(L) + 1] = e
          /\ \A p \in 1..Len(L) : M[p] = L[p]
      BY <2>1
    <2>3. \A p \in (b + 1)..Len(M) : p \in (b + 1)..Len(L) \/ p = Len(L) + 1
      BY <1>1, <2>2
    <2>4. \A p \in (b + 1)..Len(L) : p \in (b + 1)..Len(M) /\ M[p] = L[p]
      BY <1>1, <2>2
    <2>5. Len(L) + 1 \in (b + 1)..Len(M)
      BY <1>1, <2>2
    <2>6. Entries(M, b) = Entries(L, b) \cup {e}
      BY <2>2, <2>3, <2>4, <2>5 DEF Entries
    <2>7. ASSUME InOrder(L, b), \A f \in Entries(L, b) : Earlier(f, e),
                 NEW p \in (b + 1)..Len(M), NEW q \in (b + 1)..Len(M), p < q
          PROVE  Earlier(M[p], M[q])
      <3>1. p \in (b + 1)..Len(L)
        BY <1>1, <2>2, <2>7
      <3>2. CASE q \in (b + 1)..Len(L)
        BY <2>4, <2>7, <3>1, <3>2 DEF InOrder
      <3>3. CASE q = Len(L) + 1
        <4>1. L[p] \in Entries(L, b)
          BY <3>1 DEF Entries
        <4>. QED
          BY <2>2, <2>4, <2>7, <3>1, <3>3, <4>1
      <3>. QED
        BY <2>3, <3>2, <3>3
    <2>. QED
      BY <2>1, <2>6, <2>7 DEF InOrder
  <1>. QED
    BY <1>2, <1>3, <1>4

\* A verdict keeps what the loops know.
LEMMA VerdictKeeps ==
  ASSUME Types, scan.pc = "search", Listing,
         NEW active \in BOOLEAN, Searched(active),
         UNCHANGED activity, hist'.before = hist.before, Due' \subseteq Due,
         active => Address \in Now, ~active => Address \notin Due'
  PROVE  Listing'
  <1>1. PICK s \in Scan : s = scan
    BY DEF Types
  <1>2. PICK L \in Seq(Entry) : L = accounts
    BY DEF Types
  <1>3. PICK b \in Nat : b = hist.before /\ b <= Len(L)
    BY <1>2 DEF Types, Hist
  <1>4. PICK N : N = Now
    OBVIOUS
  <1>5. PICK D : D = Due'
    OBVIOUS
  <1>6. PICK E : E = Entries(L, b)
    OBVIOUS
  <1>7. N \subseteq Addresses /\ Due \subseteq Addresses /\ D \subseteq Due /\ D \subseteq Addresses
    <2>1. Due \subseteq Addresses
      BY DEF Types, Hist, Due
    <2>. QED
      BY <1>4, <1>5, <2>1, ActiveShows
  <1>8. Now' = N
    BY <1>4 DEF Now
  <1>9. LoopInv(s, E, N, Due) /\ InOrder(L, b) /\ s.pc = "search"
    BY <1>1, <1>2, <1>3, <1>4, <1>6 DEF Listing
  <1>10. LoopInv(s, E, N, D)
    BY <1>7, <1>9, LoopStays
  <1>11. E \subseteq Entry
    BY <1>3, <1>6, EntriesAppend
  <1>12. active => <<s.account, s.index, s.wallet>> \in N
    BY <1>1, <1>4 DEF Address
  <1>13. ~active => <<s.account, s.index, s.wallet>> \notin D
    BY <1>1, <1>5 DEF Address
  <1>14. SUFFICES LoopInv(scan', Entries(accounts', b), N, D) /\ InOrder(accounts', b)
    BY <1>3, <1>5, <1>8 DEF Listing
  <1>15. CASE s.wallet = EOA
    <2>1. scan' = AfterEoa(s, active) /\ accounts' = L
      BY <1>1, <1>2, <1>15 DEF Searched
    <2>2. s.gap <= EoaGap
      BY <1>1, <1>9, <1>15 DEF Types, Bounds
    <2>3. LoopInv(AfterEoa(s, active), E, N, D)
      BY <1>9, <1>10, <1>12, <1>13, <1>15, <2>2, LoopEoa
    <2>. QED
      BY <1>6, <1>9, <2>1, <2>3
  <1>16. CASE s.wallet # EOA
    <2>1. PICK t : t = AfterWallet(s, active)
      OBVIOUS
    <2>2. s.wallet \in Nat /\ s.walletGap <= SWalletGap
      BY <1>1, <1>9, <1>16 DEF Types, Bounds, Scan, Wallet
    <2>5. AtWallet(s, E, N, D, active)
      BY <1>7, <1>9, <1>10, <1>11, <1>12, <1>13, <2>2 DEF AtWallet
    <2>3. CASE t.walletGap <= SWalletGap
      <3>1. scan' = t /\ accounts' = L
        BY <1>1, <1>2, <1>16, <2>1, <2>3 DEF Searched, GapAllows
      <3>2. LoopInv(t, E, N, D)
        BY <2>1, <2>3, <2>5, LoopWallet
      <3>. QED
        BY <1>6, <1>9, <3>1, <3>2
    <2>4. CASE ~(t.walletGap <= SWalletGap)
      <3>1. scan' = AfterIndex(t) /\ accounts' = Listed(t)
        BY <1>1, <1>16, <2>1, <2>4 DEF Searched, GapAllows
      <3>2. PICK e : e = [account |-> t.account, index |-> t.index, wallets |-> t.found.wallets]
        OBVIOUS
      <3>3. accounts' = IF HasFound(t) THEN Append(L, e) ELSE L
        BY <1>2, <3>1, <3>2 DEF Listed, HasFound
      <3>4. PICK F : F = IF HasFound(t) THEN E \cup {e} ELSE E
        OBVIOUS
      <3>5. /\ t \in Scan /\ t.pc = "search" /\ e \in Entry
            /\ \A f \in E : Earlier(f, e)
            /\ Ended(t, E, F, N, D)
        BY <2>1, <2>4, <2>5, <3>2, <3>4, LoopLists
      <3>7. F \subseteq Entry
        BY <1>11, <3>4, <3>5
      <3>8. LoopInv(AfterIndex(t), F, N, D)
        BY <1>7, <3>5, <3>7, LoopIndex
      <3>9. F = Entries(accounts', b) /\ InOrder(accounts', b)
        <4>1. CASE HasFound(t)
          BY <1>3, <1>6, <1>9, <3>3, <3>4, <3>5, <4>1, EntriesAppend
        <4>2. CASE ~HasFound(t)
          BY <1>6, <1>9, <3>3, <3>4, <4>2
        <4>. QED
          BY <4>1, <4>2
      <3>. QED
        BY <3>1, <3>8, <3>9
    <2>. QED
      BY <2>3, <2>4
  <1>. QED
    BY <1>15, <1>16

LEMMA ListingAsks ==
  ASSUME Types, Listing, NEW n, Asks(n), UNCHANGED activity,
         hist'.before = hist.before, hist'.start = hist.start, hist'.missed = hist.missed
  PROVE  Listing'
  <1>1. /\ scan'.pc = "search" /\ scan'.mode = scan.mode /\ accounts' = accounts
        /\ scan'.account = scan.account /\ scan'.index = scan.index
        /\ scan'.wallet = scan.wallet /\ scan'.gap = scan.gap /\ scan'.walletGap = scan.walletGap
        /\ scan'.any = scan.any /\ scan'.found = scan.found
    BY AsksTypes
  <1>2. PICK t, N, D : t = scan' /\ N = Now /\ D = Due
    OBVIOUS
  <1>3. Now' = N /\ Due' = D
    BY <1>2 DEF Now, Due
  <1>4. scan.pc = "search"
    BY DEF Asks
  <1>5. LoopInv(scan, Entries(accounts, hist.before), N, D) /\ InOrder(accounts, hist.before)
    BY <1>2, <1>4 DEF Listing
  <1>6. LoopInv(t, Entries(accounts, hist.before), N, D)
    BY <1>1, <1>2, <1>4, <1>5, LoopAsks
  <1>. QED
    BY <1>1, <1>2, <1>3, <1>5, <1>6 DEF Listing

\* After a verdict the next search starts anew.
LEMMA AskedAnew ==
  ASSUME Asked, UNCHANGED activity, hist'.start = hist.start,
         scan'.search = NewSearch \/ scan'.pc # "search"
  PROVE  Asked'
  BY NewSearchType DEF Asked, Now, Reads

LEMMA SearchReads ==
  ASSUME SearchInv, ReadBalance \/ ReadNonce \/ ReadToken
  PROVE  Asked' /\ Listing'
  <1>1. Types /\ Asked /\ Listing /\ hist \in Hist
    BY DEF SearchInv, TypeInv, Types
  <1>2. scan.pc = "search" /\ UNCHANGED activity /\ hist' = [hist EXCEPT !.row = 0]
    BY <1>1, ReadSteps
  <1>3. hist'.before = hist.before /\ hist'.start = hist.start /\ hist'.missed = hist.missed
    BY <1>1, <1>2, HistFields
  <1>4. ASSUME NEW active \in BOOLEAN, Searched(active),
               active => Address \in Now, ~active => Address \notin hist.start
        PROVE  Asked' /\ Listing'
    <2>1. Asked'
      BY <1>1, <1>2, <1>3, <1>4, SearchedTypes, AskedAnew
    <2>2. Due' = Due
      BY <1>3 DEF Due
    <2>3. ~active => Address \notin Due'
      BY <1>4, <2>2 DEF Due
    <2>4. Listing'
      BY <1>1, <1>2, <1>3, <1>4, <2>2, <2>3, VerdictKeeps
    <2>. QED
      BY <2>1, <2>4
  <1>5. ASSUME NEW n, Asks(n),
               Address \in hist.start =>
                  /\ n.read = "nonce" => \E e \in Evidence : e # "balance" /\ Shows(e)
                  /\ n.read = "token" => \E j \in n.token..Len(Tokens) : Shows(Tokens[j])
        PROVE  Asked' /\ Listing'
    <2>1. /\ scan'.pc = "search" /\ scan'.search = n
          /\ scan'.account = scan.account /\ scan'.index = scan.index
          /\ scan'.wallet = scan.wallet
      BY <1>1, <1>5, AsksTypes
    <2>2. Address' = Address
      BY <2>1 DEF Address
    <2>3. \A e : Shows(e)' <=> Shows(e)
      BY <1>2, <2>2 DEF Shows
    <2>4. Asked'
      BY <1>1, <1>2, <1>3, <1>5, <2>1, <2>2, <2>3 DEF Asked, Reads, Now
    <2>. QED
      BY <1>1, <1>2, <1>3, <1>5, <2>4, ListingAsks
  <1>6. \/ \E active \in BOOLEAN :
                /\ Searched(active)
                /\ active => Address \in Now
                /\ ~active => Address \notin hist.start
        \/ \E n : /\ Asks(n)
                  /\ Address \in hist.start =>
                        /\ n.read = "nonce" => \E e \in Evidence : e # "balance" /\ Shows(e)
                        /\ n.read = "token" => \E j \in n.token..Len(Tokens) : Shows(Tokens[j])
    BY <1>1, ReadShows
  <1>. QED
    BY <1>4, <1>5, <1>6

LEMMA SearchFails ==
  ASSUME SearchInv, ReadFails \/ TokenFails
  PROVE  Asked' /\ Listing'
  <1>1. Types /\ Asked /\ Listing /\ hist \in Hist /\ hist.row \in Nat
    BY DEF SearchInv, TypeInv, Types, Hist
  <1>2. PICK new : new = {[address |-> p[1], row |-> hist.row + 1] :
                             p \in {q \in activity : q[1] = Address}}
    OBVIOUS
  <1>3. /\ scan.pc = "search" /\ UNCHANGED activity
        /\ \/ /\ hist' = [hist EXCEPT !.row = hist.row + 1]
              /\ \E n : /\ Asks(n) /\ n.read = scan.search.read /\ n.token = scan.search.token
                        /\ n.read = "token" => n.errors <= hist.row + 1
           \/ /\ scan.search.read = "token" /\ scan.search.token \in 1..Len(Tokens)
              /\ Searched(FALSE)
              /\ hist.row + 1 >= ReconnectionAttempts
              /\ hist' = [hist EXCEPT !.row = hist.row + 1, !.missed = hist.missed \cup new]
    BY <1>1, <1>2, FailSteps, Zenon
  <1>4. ASSUME hist' = [hist EXCEPT !.row = hist.row + 1],
               NEW n, Asks(n), n.read = scan.search.read, n.token = scan.search.token
        PROVE  Asked' /\ Listing'
    <2>1. /\ scan'.pc = "search" /\ scan'.search = n
          /\ scan'.account = scan.account /\ scan'.index = scan.index
          /\ scan'.wallet = scan.wallet
      BY <1>1, <1>4, AsksTypes
    <2>2. hist'.before = hist.before /\ hist'.start = hist.start /\ hist'.missed = hist.missed
      BY <1>1, <1>4 DEF Hist
    <2>3. Address' = Address
      BY <2>1 DEF Address
    <2>4. \A e : Shows(e)' <=> Shows(e)
      BY <1>3, <2>3 DEF Shows
    <2>5. Asked'
      BY <1>1, <1>3, <1>4, <2>1, <2>2, <2>3, <2>4 DEF Asked, Reads, Now
    <2>. QED
      BY <1>1, <1>3, <1>4, <2>2, <2>5, ListingAsks
  <1>5. ASSUME Searched(FALSE),
               hist' = [hist EXCEPT !.row = hist.row + 1, !.missed = hist.missed \cup new]
        PROVE  Asked' /\ Listing'
    <2>1. PICK lost : lost = hist.missed \cup new
      OBVIOUS
    <2>2. hist' = [calls |-> hist.calls, start |-> hist.start, before |-> hist.before,
                   row |-> hist.row + 1, missed |-> lost]
      BY <1>1, <1>5, <2>1 DEF Hist
    <2>3. hist'.before = hist.before /\ hist'.start = hist.start /\ hist'.missed = lost
      BY <2>2
    <2>4. Asked'
      BY <1>1, <1>3, <1>5, <2>3, SearchedTypes, AskedAnew
    <2>5. Due' \subseteq Due
      BY <2>1, <2>3 DEF Due
    <2>6. Address \notin Due'
      <3>1. ASSUME Address \in hist.start PROVE Address \in {m.address : m \in new}
        <4>1. PICK p \in activity : p[1] = Address
          BY <1>1, <3>1 DEF Asked, Now
        <4>2. PICK m : m = [address |-> p[1], row |-> hist.row + 1]
          OBVIOUS
        <4>3. m \in new
          BY <1>2, <4>1, <4>2
        <4>4. m.address = Address
          BY <4>1, <4>2
        <4>. QED
          BY <4>3, <4>4
      <3>. QED
        BY <2>1, <2>3, <3>1 DEF Due
    <2>7. Listing'
      BY <1>1, <1>3, <1>5, <2>3, <2>5, <2>6, VerdictKeeps
    <2>. QED
      BY <2>4, <2>7
  <1>. QED
    BY <1>3, <1>4, <1>5

LEMMA SearchNext ==
  ASSUME SearchInv, [Next]_vars
  PROVE  SearchInv'
  <1>1. TypeInv /\ Types /\ Asked /\ Listing /\ TypeInv'
    BY TypesNext DEF SearchInv, TypeInv
  <1>. SUFFICES Asked' /\ Listing'
    BY <1>1 DEF SearchInv
  <1>2. accounts \in Seq(Entry) /\ hist.before \in Nat /\ hist.before <= Len(accounts)
    BY <1>1 DEF Types, Hist
  <1>3. Now \subseteq Addresses /\ Due \subseteq Addresses
    BY <1>1, ActiveShows DEF Types, Hist, Due
  <1>4. ASSUME NEW mode \in Mode, Start(mode) PROVE Asked' /\ Listing'
    <2>1. /\ scan'.pc = "account" /\ scan'.account = 0 /\ scan' \in Scan
          /\ hist'.before = Len(accounts) /\ hist'.start = Now
          /\ UNCHANGED <<activity, accounts>>
      BY <1>1, <1>4, StartTypes DEF Now, TypeInv, Types
    <2>2. Asked'
      BY <2>1 DEF Asked, Reads, Now
    <2>8. PICK t \in Scan : t = scan'
      BY <2>1
    <2>9. PICK N, D : N = Now' /\ D = Due'
      OBVIOUS
    <2>3. t = scan' /\ N = Now' /\ D = Due'
      BY <2>8, <2>9
    <2>4. LoopInv(t, {}, N, D)
      BY <2>1, <2>3, LoopStarts
    <2>5. Entries(accounts, Len(accounts)) = {}
      BY <1>2, EntriesAppend
    <2>6. InOrder(accounts, Len(accounts))
      <3>1. (Len(accounts) + 1)..Len(accounts) = {}
        BY <1>2
      <3>. QED
        BY <3>1 DEF InOrder
    <2>7. Listing'
      BY <2>1, <2>3, <2>4, <2>5, <2>6 DEF Listing
    <2>. QED
      BY <2>2, <2>7
  <1>5. CASE NextAccount
    <2>1. /\ scan' \in Scan /\ UNCHANGED <<activity, accounts, hist>>
          /\ scan.pc = "account" /\ scan'.account = scan.account /\ scan'.mode = scan.mode
          /\ HasKey => /\ scan'.pc = "search" /\ scan'.any = FALSE /\ scan'.index = 0
                       /\ scan'.gap = 0 /\ scan'.wallet = EOA /\ scan'.search = NewSearch
          /\ ~HasKey => scan'.pc = "done"
      BY <1>1, <1>5, NextAccountTypes
    <2>2. Asked'
      BY <1>1, <2>1, AskedAnew
    <2>9. PICK s \in Scan, t \in Scan : s = scan /\ t = scan'
      BY <1>1, <2>1 DEF Types
    <2>10. PICK E, N, D : E = Entries(accounts, hist.before) /\ N = Now /\ D = Due
      OBVIOUS
    <2>3. s = scan /\ t = scan' /\ E = Entries(accounts, hist.before) /\ N = Now /\ D = Due
      BY <2>9, <2>10
    <2>4. E \subseteq Entry
      BY <1>2, <2>3, EntriesAppend
    <2>5. LoopInv(s, E, N, D) /\ InOrder(accounts, hist.before)
      BY <1>1, <2>1, <2>3 DEF Listing
    <2>6. LoopInv(t, E, N, D)
      <3>1. \/ /\ t.pc = "search" /\ t.any = FALSE /\ t.index = 0 /\ t.gap = 0 /\ t.wallet = EOA
               /\ s.mode # "mnemonic" => s.account < Keys
            \/ t.pc = "done" /\ s.mode # "mnemonic" /\ ~(s.account < Keys)
        BY <2>1, <2>3 DEF HasKey
      <3>2. s.pc = "account" /\ t.mode = s.mode /\ t.account = s.account
        BY <2>1, <2>3
      <3>. QED
        BY <2>4, <2>5, <3>1, <3>2, LoopGoesOn
    <2>7. Now' = N /\ Due' = D
      BY <2>1, <2>3 DEF Now, Due
    <2>8. Listing'
      BY <2>1, <2>3, <2>5, <2>6, <2>7 DEF Listing
    <2>. QED
      BY <2>2, <2>8
  <1>6. CASE ReadBalance \/ ReadNonce \/ ReadToken
    BY <1>6, SearchReads
  <1>7. CASE ReadFails \/ TokenFails
    BY <1>7, SearchFails
  <1>8. CASE Rejected
    BY <1>1, <1>8, RejectedTypes, AskedAnew DEF Listing
  <1>9. CASE Appear
    <2>1. PICK p \in Growth : activity' = activity \cup {p}
      BY <1>9 DEF Appear
    <2>2. UNCHANGED <<accounts, scan, faults, hist>>
      BY <1>9 DEF Appear
    <2>3. Now \subseteq Now' /\ Due' = Due
      BY <2>1, <2>2 DEF Now, Due
    <2>4. Now' \subseteq Addresses
      <3>1. \A q \in activity' : q[1] \in Addresses
        BY <1>1, <2>1, DiscoveryAssumption DEF Types
      <3>. QED
        BY <3>1 DEF Now
    <2>5. \A e : Shows(e) => Shows(e)'
      BY <2>1, <2>2 DEF Shows, Address
    <2>6. Asked'
      BY <1>1, <2>2, <2>3, <2>5 DEF Asked, Reads, Address
    <2>7. PICK N, M, D : N = Now /\ M = Now' /\ D = Due
      OBVIOUS
    <2>8. Listing'
      <3>1. \A s, E : LoopInv(s, E, N, D) => LoopInv(s, E, M, D)
        BY <1>3, <2>3, <2>4, <2>7, LoopStays
      <3>. QED
        BY <1>1, <2>2, <2>3, <2>7, <3>1 DEF Listing
    <2>. QED
      BY <2>6, <2>8
  <1>10. CASE UNCHANGED vars
    BY <1>1, <1>10 DEF vars, Asked, Listing, Reads, Shows, Address, Now, Due
  <1>. QED
    BY <1>4, <1>5, <1>6, <1>7, <1>8, <1>9, <1>10
    DEF Next, Step, Mode, DiscoverAccountsFromMnemonic, DiscoverAccountsFromExtendedPublicKeys,
        DiscoverAccounts

\* What the loops have seen, kept by every step.
THEOREM SearchInvariant == Spec => []SearchInv
  <1>1. Init => SearchInv
    <2>. SUFFICES ASSUME Init PROVE SearchInv
      OBVIOUS
    <2>1. TypeInv
      BY InitTypes
    <2>2. scan.pc = "idle" /\ hist.start = {}
      BY DEF Init
    <2>. QED
      BY <2>1, <2>2 DEF SearchInv, Asked, Listing, Reads
  <1>2. SearchInv /\ [Next]_vars => SearchInv'
    BY SearchNext
  <1>. QED
    BY <1>1, <1>2, PTL DEF Spec

-----------------------------------------------------------------------------
(* What the list of a finished search is. *)

LEMMA FoundEntries ==
  ASSUME NEW L \in Seq(Entry), NEW b \in Nat, b <= Len(L), NEW list, list = SubSeq(L, b + 1, Len(L))
  PROVE  ToSet(list) = Entries(L, b) /\ DOMAIN list = 1..(Len(L) - b)
         /\ \A p \in 1..(Len(L) - b) : list[p] = L[b + p]
  <1>1. Len(L) \in Nat
    OBVIOUS
  <1>2. /\ DOMAIN list = 1..(Len(L) - b) /\ \A p \in 1..(Len(L) - b) : list[p] = L[b + p]
    <2>1. list = [p \in 1..(Len(L) - (b + 1) + 1) |-> L[p + (b + 1) - 1]]
      BY <1>1
    <2>2. Len(L) - (b + 1) + 1 = Len(L) - b
      BY <1>1
    <2>3. \A p \in 1..(Len(L) - b) : p + (b + 1) - 1 = b + p
      OBVIOUS
    <2>. QED
      BY <2>1, <2>2, <2>3
  <1>3. ASSUME NEW p \in DOMAIN list PROVE list[p] \in Entries(L, b)
    <2>1. b + p \in (b + 1)..Len(L)
      BY <1>1, <1>2
    <2>. QED
      BY <1>2, <2>1 DEF Entries
  <1>4. ASSUME NEW q \in (b + 1)..Len(L) PROVE L[q] \in ToSet(list)
    <2>1. q - b \in 1..(Len(L) - b) /\ b + (q - b) = q
      BY <1>1
    <2>2. list[q - b] = L[q] /\ q - b \in DOMAIN list
      BY <1>2, <2>1
    <2>. QED
      BY <2>2 DEF ToSet
  <1>5. ToSet(list) = Entries(L, b)
    BY <1>3, <1>4 DEF ToSet, Entries
  <1>. QED
    BY <1>2, <1>5

LEMMA DoneDiscovers ==
  ASSUME SearchInv
  PROVE  DiscoversAll
  <1>. SUFFICES ASSUME scan.pc = "done" PROVE DiscoversAll
    BY DEF DiscoversAll
  <1>1. Types /\ Listing
    BY DEF SearchInv, TypeInv
  <1>2. PICK L \in Seq(Entry), b \in Nat : L = accounts /\ b = hist.before /\ b <= Len(L)
    BY <1>1 DEF Types, Hist
  <1>3. PICK E : E = Entries(L, b)
    OBVIOUS
  <1>. DEFINE list  == SubSeq(accounts, hist.before + 1, Len(accounts))
              found == {[e EXCEPT !.wallets = ToSet(@)] : e \in ToSet(list)}
  <1>4. ToSet(list) = E
    BY <1>2, <1>3, FoundEntries
  <1>5. /\ DOMAIN list = 1..(Len(L) - b)
        /\ \A p \in 1..(Len(L) - b) : list[p] = L[b + p]
    BY <1>2, FoundEntries
  <1>6. E \subseteq Entry
    BY <1>2, <1>3, EntriesAppend
  <1>. HIDE DEF list
  <1>7. \A e \in ToSet(list) :
           [e EXCEPT !.wallets = ToSet(@)] =
              [account |-> e.account, index |-> e.index, wallets |-> ToSet(e.wallets)]
    BY <1>4, <1>6 DEF Entry
  <1>8. \A e \in E : \E f \in found :
           f = [account |-> e.account, index |-> e.index, wallets |-> ToSet(e.wallets)]
    BY <1>4, <1>7
  <1>9. \A f \in found : \E e \in E :
           f = [account |-> e.account, index |-> e.index, wallets |-> ToSet(e.wallets)]
    BY <1>4, <1>7
  <1>. HIDE DEF found
  <1>10. /\ AllSound(E, Now, scan.mode) /\ InOrder(L, b)
         /\ \A a \in Reached(Due, scan.mode) : Complete(E, Due, a)
    BY <1>1, <1>2, <1>3 DEF Listing, LoopInv, DoneInv
  <1>11. ASSUME NEW x \in Discoverable(Due)
         PROVE  \E f \in found :
                    x.account = f.account /\ x.index = f.index /\ x.wallets \subseteq f.wallets
    <2>1. PICK a \in AccountsOf(Due) :
             \E j \in IndexesOf(Due, a) :
                x = [account |-> a, index |-> j, wallets |-> WalletsOf(Due, a, j)]
      BY DEF Discoverable
    <2>5. PICK i \in IndexesOf(Due, a) :
             x = [account |-> a, index |-> i, wallets |-> WalletsOf(Due, a, i)]
      BY <2>1
    <2>2. a \in Reached(Due, scan.mode)
      <3>1. Due \subseteq Addresses
        BY <1>1 DEF Types, Hist, Due
      <3>2. a \in Nat
        BY <3>1, IndexesOfIs
      <3>. QED
        BY <3>2 DEF AccountsOf, Reached
    <2>3. PICK e \in E : /\ e.account = a /\ e.index = i
                         /\ WalletsOf(Due, a, i) \subseteq ToSet(e.wallets)
      BY <1>10, <2>2 DEF Complete, Covered
    <2>4. PICK f \in found :
             f = [account |-> e.account, index |-> e.index, wallets |-> ToSet(e.wallets)]
      BY <1>8
    <2>. QED
      BY <2>3, <2>4, <2>5
  <1>12. ASSUME NEW x \in found
         PROVE  \E f \in Discoverable(Now) :
                    x.account = f.account /\ x.index = f.index /\ x.wallets \subseteq f.wallets
    <2>1. PICK e \in E :
             x = [account |-> e.account, index |-> e.index, wallets |-> ToSet(e.wallets)]
      BY <1>9
    <2>2. /\ e.account \in Reached(Now, scan.mode) /\ e.index \in IndexesOf(Now, e.account)
          /\ ToSet(e.wallets) \subseteq WalletsOf(Now, e.account, e.index)
      BY <1>10 DEF AllSound, Sound
    <2>3. e.account \in {y[1] : y \in Now}
      <3>1. Now \subseteq Addresses
        BY <1>1, ActiveShows
      <3>2. PICK w : <<e.account, e.index, w>> \in Now
        BY <2>2, <3>1, IndexesOfIs, BusyPlaces
      <3>3. PICK y \in Now : y = <<e.account, e.index, w>>
        BY <3>2
      <3>4. y[1] = e.account
        BY <3>3
      <3>. QED
        BY <3>4
    <2>4. e.account \in AccountsOf(Now)
      BY <2>2, <2>3 DEF AccountsOf, Reached
    <2>5. PICK f : f = [account |-> e.account, index |-> e.index,
                        wallets |-> WalletsOf(Now, e.account, e.index)]
      OBVIOUS
    <2>6. f \in Discoverable(Now)
      BY <2>2, <2>4, <2>5 DEF Discoverable
    <2>. QED
      BY <2>1, <2>2, <2>5, <2>6
  <1>13. ASSUME NEW i \in DOMAIN list, NEW j \in DOMAIN list, i < j
         PROVE  \/ list[i].account < list[j].account
                \/ list[i].account = list[j].account /\ list[i].index < list[j].index
    <2>1. /\ b + i \in (b + 1)..Len(L) /\ b + j \in (b + 1)..Len(L) /\ b + i < b + j
          /\ list[i] = L[b + i] /\ list[j] = L[b + j]
      BY <1>2, <1>5, <1>13
    <2>. QED
      BY <1>10, <2>1 DEF InOrder, Earlier
  <1>. QED
    BY <1>11, <1>12, <1>13 DEF DiscoversAll, Now, Due, list, found

\* A search that ends has listed, once and in order, what the gaps define: all that was
\* active from its start and not given up, and nothing that is not active.  The nested
\* loops and their two counters compute that for any limits and any activity.
THEOREM SearchDiscoversAll == Spec => []DiscoversAll
  <1>1. SearchInv => DiscoversAll
    BY DoneDiscovers
  <1>. QED
    BY <1>1, SearchInvariant, PTL
=============================================================================
