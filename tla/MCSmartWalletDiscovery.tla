------------------------ MODULE MCSmartWalletDiscovery ------------------------
(* SmartWalletDiscovery for TLC: any of a few places may show activity, with     *)
(* gaps around the limits between them; later another one does.                  *)
EXTENDS SmartWalletDiscovery, FiniteSets

MCTokens == <<"t1", "t2">>

MCPlaces == {<<0, 0, 1>>, <<0, 0, 3>>, <<0, 2, EOA>>, <<1, 1, 0>>}

\* Wallets are known by the second token, the addresses of keys by their nonce.
MCEvidence(x) == IF x[3] = EOA THEN "nonce" ELSE IF x[3] = 1 THEN "balance" ELSE "t2"

MCActivities ==
    {{<<x, MCEvidence(x)>> : x \in places} : places \in SUBSET MCPlaces}

MCGrowth == {<<<<0, 1, 1>>, "t1">>}
=============================================================================
