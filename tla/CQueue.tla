------------------------------- MODULE CQueue -------------------------------
(* utils/cqueue/cqueue.c: a queue in a circular buffer.  The loops over the  *)
(* items of a call are given by what they leave in the buffer; their places  *)
(* wrap as the code's do, by comparison with the size.  Calls on one queue   *)
(* do not overlap (its users hold a lock around them).                       *)
EXTENDS Integers, Sequences

CONSTANTS
  Size,     \* of the buffer, in items
  Items,    \* what an item may be
  Chunks,   \* the runs of items that callers put in
  Wanted    \* the numbers of items that callers ask for

ASSUME SizeAssumption == Size \in Nat \ {0}
ASSUME ChunkAssumption == Chunks \subseteq Seq(Items) /\ Wanted \subseteq Nat

VARIABLES
  read, write, len,  \* of CQueue
  base,              \* the buffer
  ret, taken         \* what the last call returned and gave to its caller

vars == <<read, write, len, base, ret, taken>>

Cells == 0..(Size - 1)

\* The place n items after and before a place, for n up to the size.
Forth(place, n) == IF place + n >= Size THEN place + n - Size ELSE place + n
Back(place, n)  == IF place - n < 0 THEN place - n + Size ELSE place - n
\* How far a cell is from a place, going forth.
Ahead(place, cell) == IF cell >= place THEN cell - place ELSE cell - place + Size

\* The buffer with a run of items put from a place on.
Filled(place, chunk) ==
  [c \in Cells |-> IF Ahead(place, c) < Len(chunk) THEN chunk[Ahead(place, c) + 1] ELSE base[c]]

AvailableOfCQueue == Size - len
----------------------------------------------------------------------------
Refuse == ret' = "err" /\ taken' = <<>> /\ UNCHANGED <<read, write, len, base>>

\* Mutant: one item too many is taken in.
EnCQueue_OneMore(chunk) ==
  IF AvailableOfCQueue + 1 < Len(chunk) THEN Refuse
  ELSE /\ len' = len + Len(chunk)
       /\ base' = Filled(write, chunk) /\ write' = Forth(write, Len(chunk))
       /\ ret' = "ok" /\ taken' = <<>> /\ UNCHANGED read

EnCQueue(chunk) ==
  IF AvailableOfCQueue < Len(chunk) THEN Refuse
  ELSE /\ len' = len + Len(chunk)
       /\ base' = Filled(write, chunk) /\ write' = Forth(write, Len(chunk))
       /\ ret' = "ok" /\ taken' = <<>> /\ UNCHANGED read

EnCQueueFront(chunk) ==
  IF AvailableOfCQueue < Len(chunk) THEN Refuse
  ELSE /\ len' = len + Len(chunk)
       /\ read' = Back(read, Len(chunk)) /\ base' = Filled(read', chunk)
       /\ ret' = "ok" /\ taken' = <<>> /\ UNCHANGED write

\* Mutant: the front does not wrap.
DeCQueue_NoWrap(n, keep) ==
  IF len < n THEN Refuse
  ELSE /\ len' = len - n /\ read' = read + n
       /\ taken' = IF keep THEN [i \in 1..n |-> base[Forth(read, i - 1)]] ELSE <<>>
       /\ ret' = "ok" /\ UNCHANGED <<write, base>>

\* With a buffer to copy to (e != NULL) or without.
DeCQueue(n, keep) ==
  IF len < n THEN Refuse
  ELSE /\ len' = len - n /\ read' = Forth(read, n)
       /\ taken' = IF keep THEN [i \in 1..n |-> base[Forth(read, i - 1)]] ELSE <<>>
       /\ ret' = "ok" /\ UNCHANGED <<write, base>>

\* Mutant: equal places are taken for an empty queue.
PeekCQueue_Places(want) ==
  IF write >= read \/ Size - read > want
  THEN [at1 |-> read, len1 |-> want, len2 |-> 0]
  ELSE [at1 |-> read, len1 |-> Size - read, len2 |-> want - (Size - read)]

\* The two runs of cells that hold the first items; the second starts at cell 0.
PeekCQueue(want) ==
  IF write > read \/ Size - read > want
  THEN [at1 |-> read, len1 |-> want, len2 |-> 0]
  ELSE [at1 |-> read, len1 |-> Size - read, len2 |-> want - (Size - read)]
----------------------------------------------------------------------------
\* Called anew to empty the queue, on a buffer that may hold anything.  Its callers
\* give it an array or memory of the pool (app_audio_mempool_get_buff asserts that
\* there is enough), so that CQ_ERR for a null base does not occur.
InitCQueue == read' = 0 /\ write' = 0 /\ len' = 0 /\ ret' = "ok" /\ taken' = <<>>

Init ==
  /\ read = 0 /\ write = 0 /\ len = 0 /\ base \in [Cells -> Items]
  /\ ret = "ok" /\ taken = <<>>

Next ==
  \/ \E chunk \in Chunks : EnCQueue(chunk) \/ EnCQueueFront(chunk)
  \/ \E n \in Wanted, keep \in BOOLEAN : DeCQueue(n, keep)
  \/ InitCQueue /\ base' \in [Cells -> Items]

Spec == Init /\ [][Next]_vars
----------------------------------------------------------------------------
TypeOK ==
  /\ read \in Cells /\ write \in Cells /\ len \in 0..Size
  /\ base \in [Cells -> Items] /\ ret \in {"ok", "err"} /\ taken \in Seq(Items)

\* What the queue holds, its front first.
Contents == [i \in 1..len |-> base[Forth(read, i - 1)]]

F == INSTANCE Fifo WITH items <- Contents

\* The buffer with its wrapping places is a first-in-first-out queue: no call
\* loses, repeats or reorders an item, and one fails exactly when it does not fit.
IsFifo == F!Spec

\* Peeking gives pointers to two runs of cells; together they are the front of
\* the queue, for any number of items it holds (PeekCQueue).
PeekIsFront ==
  \A want \in 0..len : LET p == PeekCQueue(want) IN
    /\ p.len1 + p.len2 = want /\ p.at1 + p.len1 <= Size /\ {p.len1, p.len2} \subseteq 0..Size
    /\ \A i \in 1..want : Contents[i] = base[IF i <= p.len1 THEN p.at1 + i - 1 ELSE i - p.len1 - 1]
=============================================================================
