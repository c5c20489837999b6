---------------------------- MODULE RelaySelection ----------------------------
(***************************************************************************)
(* How the client finds a relay (src/relayclient/KnownRelaysManager.ts,    *)
(* RelaySelectionManager.ts): the relays that were active lately, read     *)
(* from the hub's events, and the ping races that pick the next one.       *)
(*                                                                         *)
(* A relay is a record [url, manager]; of a preferred relay only the URL   *)
(* is known.  The hub's log stands still while the client looks at it.     *)
(***************************************************************************)
EXTENDS Lists, FiniteSets, SequencesExt

CONSTANTS
    Manager, NoManager,  \* relay managers; "not known yet"
    Url,                 \* the URLs of relay servers
    Log,                 \* logs of the hub: sequences of [name, manager, url, block]
    PreferredRelays,     \* config.preferredRelays, a sequence of URLs
    LatestBlock,         \* the latest block
    LookupWindowBlocks,  \* config.relayLookupWindowBlocks
    LookupWindowParts,   \* config.relayLookupWindowParts
    QueryLimit,          \* the node refuses to return more events than this
    SliceSize,           \* config.sliceSize
    MaxFailures,         \* bound: failures that are told apart
    Failures             \* the relayFailures that earlier calls may have left

VARIABLES
    log,    \* the log of the hub
    known,  \* the fields of the KnownRelaysManager
    sel     \* the fields of the RelaySelectionManager, and of its current race

Relay == [url : Url, manager : Manager \cup {NoManager}]
Event == [name : STRING, manager : Manager, url : Url, block : Nat]

\* A slice of no relays is never raced (config.sliceSize is 3 by default).
ASSUME SelectionAssumption ==
    /\ NoManager \notin Manager
    /\ Log \subseteq Seq(Event)
    /\ PreferredRelays \in Seq(Url)
    /\ LatestBlock \in Nat /\ LookupWindowBlocks \in Nat
    /\ LookupWindowParts \in Nat \ {0}
    /\ QueryLimit \in Nat
    /\ SliceSize \in Nat \ {0}
    /\ MaxFailures \in Nat
    /\ Failures \subseteq [Url -> 0..MaxFailures]

-----------------------------------------------------------------------------
(* KnownRelaysManager *)

Registered == "RelayServerRegistered"
ActiveManagerEvents ==
    {Registered, "RelayWorkersAdded", "TransactionRelayed",
     "TransactionRelayedButRevertedByRecipient"}
ExitEvents == {"StakeUnlocked", "StakePenalized"}

\* The parts start below "to": a last part of one block is left out.
SplitRange(from, to, splits) ==
    LET size == (to - from + splits) \div splits  \* Math.ceil
    IN  {[from |-> b, to |-> Min({to, b + size - 1})] :
             b \in {x \in from..(to - 1) : (x - from) % size = 0}}

WindowStart == Max({0, LatestBlock - LookupWindowBlocks})

RangeParts == SplitRange(WindowStart, LatestBlock, known.parts)

ActiveIn(part) ==
    {i \in DOMAIN log : /\ log[i].name \in ActiveManagerEvents
                        /\ log[i].block \in part.from..part.to}

TooManyEvents == \E part \in RangeParts : Cardinality(ActiveIn(part)) > QueryLimit

AlwaysSplit == TRUE  \* mutant: no end of splitting
MaySplitFurther == LookupWindowBlocks > known.parts /\ known.parts < 16

RecentlyActive ==
    UNION {{log[i].manager : i \in ActiveIn(part)} : part \in RangeParts}

EventsOf(managers, names) ==
    Keep(log, {e \in ToSet(log) : e.manager \in managers /\ e.name \in names})

\* mutant: the two lists are not sorted by block and transaction.
Unsorted(managers) == EventsOf(managers, ExitEvents) \o EventsOf(managers, {Registered})
MergedEvents(managers) == EventsOf(managers, ExitEvents \cup {Registered})

\* Map.set and Map.delete on the relays by manager, in the order of insertion.
ApplyEvent(relays, e) ==
    LET relay == [url |-> e.url, manager |-> e.manager]
    IN  IF e.name \in ExitEvents
        THEN Keep(relays, {r \in ToSet(relays) : r.manager # e.manager})
        ELSE IF \E i \in DOMAIN relays : relays[i].manager = e.manager
        THEN [i \in DOMAIN relays |->
                 IF relays[i].manager = e.manager THEN relay ELSE relays[i]]
        ELSE Append(relays, relay)

RelayInfoForManagers(managers) == FoldOver(ApplyEvent, << >>, MergedEvents(managers))

\* The score 0.9^failures, higher first; the sort is stable.
Sorted(relays) ==
    LET fails(r) == known.failures[r.url]
        NotAfter(s, r) == {i \in DOMAIN s : fails(s[i]) <= fails(r)}
        Insert(s, r) == InsertAt(s, Cardinality(NotAfter(s, r)) + 1, r)
    IN  FoldOver(Insert, << >>, relays)

RelaysSortedForTransaction == <<known.preferred, Sorted(known.all)>>

\* Failures older than relayTimeoutGrace are forgotten.
RefreshFailures ==
    \E f \in [Url -> 0..MaxFailures] :
        /\ \A u \in Url : f[u] \in {0, known.failures[u]}
        /\ known' = [known EXCEPT !.failures = f]

SaveRelayFailure(u) ==
    known' = [known EXCEPT !.failures[u] = Min({@ + 1, MaxFailures})]

-----------------------------------------------------------------------------
(* RelaySelectionManager *)

\* lists: the preferred relays, and all relays, in the order in which they are to be
\* asked.  A relay that is removed, by its URL, is removed from both.
NewSelection(lists) ==
    [lists |-> lists, removed |-> {}, index |-> 0, list |-> 1, slice |-> {},
     waiting |-> {}, failed |-> {}, errors |-> {}]

Remaining(l) == {i \in 1..Len(sel.lists[l]) : sel.lists[l][i].url \notin sel.removed}

\* Of those that remain, SliceSize after the first start ones.
SliceFrom(l, start) ==
    {i \in Remaining(l) :
        Cardinality({j \in Remaining(l) : j < i}) \in start..(start + SliceSize - 1)}

NextList == IF Remaining(1) = {} THEN 2 ELSE 1

RelayAt(i) == sel.lists[sel.list][i]

\* mutant: whoever took part in the race is removed.
RemoveTheSlice(urls) == sel.removed \cup {RelayAt(i).url : i \in sel.slice}

\* mutant: only relays that failed are removed.
RemoveFailed(urls) == sel.removed \cup sel.failed

Removed(urls) == sel.removed \cup urls

\* The pings of the slice are sent.
StartRace(l, slice) ==
    sel' = [sel EXCEPT !.list = l, !.slice = slice, !.waiting = slice, !.failed = {}]

\* The i-th relay is the first to answer that it is ready.  Answers that come later
\* are ignored; the next selectNextRelay counts its index from 0.
RaceWon(i) ==
    sel' = [NewSelection(sel.lists) EXCEPT
               !.removed = Removed(sel.failed \cup {RelayAt(i).url}),
               !.errors = sel.errors \cup sel.failed]

\* The i-th relay does not answer, is not ready or is filtered out.  The race is over
\* when as many URLs have failed as there are relays in it.
LostWhenFull(i) ==  \* mutant: a race is taken to have SliceSize relays
    Cardinality(sel.failed \cup {RelayAt(i).url}) = SliceSize
RaceLost(i) == Cardinality(sel.failed \cup {RelayAt(i).url}) = Cardinality(sel.slice)

PingError(i) ==
    LET failed == sel.failed \cup {RelayAt(i).url}
    IN  sel' = IF RaceLost(i)
               THEN [NewSelection(sel.lists) EXCEPT
                        !.removed = Removed(failed),
                        !.index = sel.index + Cardinality(sel.slice),
                        !.errors = sel.errors \cup failed]
               ELSE [sel EXCEPT !.failed = failed, !.waiting = @ \ {i}]

\* Two relays of the race have the same URL and all have failed.
NeverResolved ==
    /\ sel.waiting = {}
    /\ Cardinality(sel.failed) < Cardinality(sel.slice)

SelectionInit ==
    /\ log \in Log
    /\ \E f \in Failures :
          known = [parts |-> LookupWindowParts, preferred |-> << >>, all |-> << >>,
                   failures |-> f]
    /\ sel = NewSelection(<<<< >>, << >>>>)
=============================================================================
