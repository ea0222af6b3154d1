-------------------------------- MODULE Sums --------------------------------
(***************************************************************************)
(* Sums over sequences, by a recursive function and not a RECURSIVE        *)
(* operator, so that modules with theorems can use them.                   *)
(***************************************************************************)
EXTENDS Integers, Sequences

\* The sums of the first k elements of f, for every k.
partialSums(f) ==
    LET sum[k \in 0..Len(f)] == IF k = 0 THEN 0 ELSE f[k] + sum[k - 1]
    IN  sum

\* The sum of a sequence: foldl (+) 0.
SumOver(f) == partialSums(f)[Len(f)]
=============================================================================
