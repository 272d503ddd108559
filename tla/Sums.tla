-------------------------------- MODULE Sums --------------------------------
(***************************************************************************)
(* Running sums: the loops of the code that add up sizes, lengths or       *)
(* weights.                                                                *)
(***************************************************************************)
EXTENDS Integers

\* The sizes of the first i of n parts together, for each i.
Sums(size, n) ==
  LET sums[i \in 0 .. n] == IF i = 0 THEN 0 ELSE sums[i - 1] + size[i] IN sums
=============================================================================
