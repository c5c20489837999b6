------------------------ MODULE MCTransactionManager ------------------------
(* TransactionManager for TLC: which accounts and which calls there are.     *)
EXTENDS TransactionManager, TLC

CONSTANTS m, w,          \* the manager's and the worker's account
          c1, c2

OneSigner  == <<w>>
TwoSigners == <<m, w>>

AllByWorker == [c \in Call |-> w]
FirstByManager == [c \in Call |-> IF c = c1 THEN m ELSE w]

NoValue == [c \in Call |-> 0]
FirstTransfers == [c \in Call |-> IF c = c1 THEN 1 ELSE 0]

LowPrice == [c \in Call |-> 1]

\* For invariants and action properties, where all calls have the same signer,
\* value and price.
CallSymmetry == Permutations(Call)
=============================================================================
