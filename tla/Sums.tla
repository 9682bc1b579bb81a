-------------------------------- MODULE Sums --------------------------------
(***************************************************************************)
(* The total that a loop over a list adds up, one element after the other. *)
(***************************************************************************)
EXTENDS Integers

\* f[1] + ... + f[n], as the loops over reviews and over tolls add them up
SumTo(f, n) ==
    LET total[k \in 0 .. n] == IF k = 0 THEN 0 ELSE total[k - 1] + f[k]
    IN  total[n]
=============================================================================
