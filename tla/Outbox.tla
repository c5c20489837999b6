-------------------------------- MODULE Outbox --------------------------------
(***************************************************************************)
(* What the transaction manager promises to those who hand it calls.  Each *)
(* signer has a row of slots, numbered by nonce.  A call gets at most one  *)
(* slot, always the first free one, and keeps it; the slots are executed   *)
(* in their order.  The network may undo executed calls from the end, but  *)
(* never one that is final.                                                *)
(***************************************************************************)
EXTENDS Integers, Sequences

CONSTANTS Signer, Nonce, Call, CallSigner, NoCall

VARIABLES
    assigned,  \* assigned[s][n]: the call in slot n of signer s
    executed,  \* executed[s]: the calls of s on the chain, in their order
    final      \* final[s]: the slots of s whose execution cannot be undone

vars == <<assigned, executed, final>>

Init ==
    /\ assigned = [s \in Signer |-> [n \in Nonce |-> NoCall]]
    /\ executed = [s \in Signer |-> << >>]
    /\ final = [s \in Signer |-> {}]

IsAssigned(c) == \E s \in Signer, n \in Nonce : assigned[s][n] = c

FirstFree(s, n) ==
    /\ assigned[s][n] = NoCall
    /\ \A k \in Nonce : k < n => assigned[s][k] # NoCall

Enqueue(c, n) ==
    /\ ~IsAssigned(c)
    /\ FirstFree(CallSigner[c], n)
    /\ assigned' = [assigned EXCEPT ![CallSigner[c]][n] = c]
    /\ UNCHANGED <<executed, final>>

\* The slot of s that is executed next.
NextSlot(s) == Len(executed[s])

\* The block executes one call of each signer in S; older ones may become final.
NewBlock(S) ==
    /\ \A s \in S : NextSlot(s) \in Nonce /\ assigned[s][NextSlot(s)] # NoCall
    /\ executed' = [s \in Signer |->
            IF s \in S THEN Append(executed[s], assigned[s][NextSlot(s)]) ELSE executed[s]]
    /\ final' \in [Signer -> SUBSET Nonce]
    /\ \A s \in Signer : final[s] \subseteq final'[s] /\ \A n \in final'[s] : n < NextSlot(s)
    /\ UNCHANGED assigned

\* The calls of s from slot n on are undone; they keep their slots.
Undo(s, n) ==
    /\ n < NextSlot(s)
    /\ \A k \in final[s] : k < n
    /\ executed' = [executed EXCEPT ![s] = SubSeq(@, 1, n)]
    /\ UNCHANGED <<assigned, final>>

Next ==
    \/ \E S \in SUBSET Signer : NewBlock(S)
    \/ \E s \in Signer, n \in Nonce : Undo(s, n)
    \/ \E c \in Call, n \in Nonce : Enqueue(c, n)

Spec == Init /\ [][Next]_vars
=============================================================================
