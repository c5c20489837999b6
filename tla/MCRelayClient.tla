---------------------------- MODULE MCRelayClient ----------------------------
(* RelayClient for TLC: three servers; one of them is preferred, has moved or    *)
(* has left, and two may have registered the same URL.                           *)
EXTENDS RelayClient

CONSTANTS m1, m2, m3, u1, u2, u3

MCEvent(name, m, u, b) == [name |-> name, manager |-> m, url |-> u, block |-> b]
MCJoin(m, u, b) == MCEvent("RelayServerRegistered", m, u, b)
MCExit(m, b)    == MCEvent("StakeUnlocked", m, u1, b)

MCLog ==
    {<<MCJoin(m1, u1, 1), MCJoin(m2, u2, 2), MCJoin(m3, u3, 3)>>,
     <<MCJoin(m1, u1, 0), MCJoin(m2, u3, 1), MCExit(m2, 2), MCJoin(m2, u2, 3),
       MCJoin(m3, u3, 3), MCExit(m3, 4),
       MCEvent("TransactionRelayed", m1, u1, 5)>>,
     <<MCJoin(m1, u2, 2), MCJoin(m2, u2, 4)>>,
     <<MCJoin(m1, u1, 3), MCJoin(m2, u2, 3), MCJoin(m3, u3, 3)>>}

MCFailures        == {[u \in Url |-> IF u = u2 THEN 1 ELSE 0]}
MCPreferredRelays == <<u1>>
MCTwoPreferred    == <<u1, u2>>
=============================================================================
