--------------------------------- MODULE Sums ---------------------------------
(* Totals that the code adds up in a loop.  A function and not a fold: what   *)
(* it computes can be proved.                                                 *)
EXTENDS Integers

\* The sum of L[0] .. L[n - 1].
SumOf(L, n) ==
  LET sum[k \in Nat] == IF k = 0 THEN 0 ELSE sum[k - 1] + L[k - 1]
  IN  sum[n]
===============================================================================
