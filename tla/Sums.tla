-------------------------------- MODULE Sums --------------------------------
(* Sums along a sequence of numbers, by recursion on the indices: the      *)
(* offset a serializer has come to, and the count of what is on its way.   *)
EXTENDS Integers, Sequences

PrefixSums(w) ==
  LET s[n \in 0..Len(w)] == IF n = 0 THEN 0 ELSE s[n - 1] + w[n] IN s
Total(w) == PrefixSums(w)[Len(w)]

=============================================================================
