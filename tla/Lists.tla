--------------------------------- MODULE Lists ---------------------------------
(***************************************************************************)
(* Filtering and folding of lists.  FoldLeft and SelectSeq of the library  *)
(* do the same, by definitions that cannot be reasoned about.              *)
(***************************************************************************)
EXTENDS Integers, Sequences

\* What Op makes of start and the elements of s, from the first to the last.
FoldOver(Op(_, _), start, s) ==
    LET F[i \in 0..Len(s)] == IF i = 0 THEN start ELSE Op(F[i - 1], s[i])
    IN  F[Len(s)]

\* The elements of s that are in V, in their order.
Keep(s, V) ==
    LET Add(t, e) == IF e \in V THEN Append(t, e) ELSE t
    IN  FoldOver(Add, << >>, s)
=============================================================================
