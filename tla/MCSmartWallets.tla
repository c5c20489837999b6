--------------------------- MODULE MCSmartWallets ---------------------------
(* SmartWallets for TLC: an owner with a wallet of each factory and a contract  *)
(* that is not the template; two relays compete for one nonce, and one request   *)
(* was signed by somebody else.                                                  *)
EXTENDS SmartWallets, TLC

CONSTANTS o1, o2, k1, k2, t1, l1

MCWalletOf(f, l) ==
    [factory |-> f, owner |-> o1, recoverer |-> o2, logic |-> l, index |-> 0]

MCPlain   == MCWalletOf("plain", NoLogic)
MCCustom  == MCWalletOf("custom", l1)
MCForeign == MCWalletOf("foreign", NoLogic)

MCWallet == {MCPlain, MCCustom, MCForeign}

MCRequest(w, v, n, k) ==
    [signer |-> o1, from |-> o1, wallet |-> w, domain |-> w, token |-> t1,
     amount |-> 1, nonce |-> n, worker |-> k, verifier |-> v]

MCCall(w, n, k) == MCRequest(w, w.factory, n, k)

MCDeploy(w, n, k, a) ==
    [signer |-> o1, from |-> o1, wallet |-> w, token |-> t1, amount |-> a,
     nonce |-> n, worker |-> k, verifier |-> w.factory]

MCRelayRequest ==
    {MCCall(MCPlain, 0, k1), MCCall(MCPlain, 0, k2), MCCall(MCCustom, 0, k1),
     [MCCall(MCCustom, 0, k2) EXCEPT !.signer = o2],
     [MCRequest(MCForeign, "plain", 0, k1) EXCEPT !.amount = 0]}

MCDeployRequest == {MCDeploy(MCPlain, 0, k1, 1), MCDeploy(MCCustom, 0, k2, 0)}
=============================================================================
