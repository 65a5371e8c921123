-------------------------------- MODULE Fifo --------------------------------
(* What the users of a CQueue rely on: a bounded queue of items, filled at   *)
(* its tail or its front and emptied at its front, where a call that does    *)
(* not fit fails and changes nothing.                                        *)
EXTENDS Integers, Sequences

CONSTANTS
  Size,    \* items the queue holds
  Chunks,  \* the runs of items that callers put in, sequences
  Wanted   \* the numbers of items that callers take out

VARIABLES
  items,   \* what the queue holds, its front first
  ret,     \* what the last call returned: "ok" or "err"
  taken    \* what the last call gave to its caller

fifo == <<items, ret, taken>>

Refuse == ret' = "err" /\ taken' = <<>> /\ UNCHANGED items

Put(chunk) ==
  IF Len(items) + Len(chunk) <= Size
  THEN items' = items \o chunk /\ ret' = "ok" /\ taken' = <<>>
  ELSE Refuse

PutFront(chunk) ==
  IF Len(items) + Len(chunk) <= Size
  THEN items' = chunk \o items /\ ret' = "ok" /\ taken' = <<>>
  ELSE Refuse

\* Without a buffer to copy to (keep = FALSE) the items are dropped.
Take(n, keep) ==
  IF n <= Len(items)
  THEN /\ items' = SubSeq(items, n + 1, Len(items)) /\ ret' = "ok"
       /\ taken' = IF keep THEN SubSeq(items, 1, n) ELSE <<>>
  ELSE Refuse

Clear == items' = <<>> /\ ret' = "ok" /\ taken' = <<>>

Init == items = <<>> /\ ret = "ok" /\ taken = <<>>

Next ==
  \/ \E chunk \in Chunks : Put(chunk) \/ PutFront(chunk)
  \/ \E n \in Wanted, keep \in BOOLEAN : Take(n, keep)
  \/ Clear

Spec == Init /\ [][Next]_fifo
=============================================================================
