------------------------------- MODULE Lists -------------------------------
(* Operators on linked lists, represented as sequences, that several modules *)
(* share.                                                                    *)
EXTENDS Integers, Sequences, Functions

NoDuplicates(s) == \A i, j \in DOMAIN s : s[i] = s[j] => i = j

\* The list without its k-th element.
Without(s, k) == [j \in 1..(Len(s) - 1) |-> IF j < k THEN s[j] ELSE s[j + 1]]

\* The list with t behind its k-th element.
InsertAfter(s, k, t) ==
  [j \in 1..(Len(s) + 1) |-> CASE j <= k     -> s[j]
                               [] j = k + 1  -> t
                               [] j > k + 1  -> s[j - 1]]

\* Subtraction that stops at zero.
Monus(a, b) == IF a > b THEN a - b ELSE 0
=============================================================================
