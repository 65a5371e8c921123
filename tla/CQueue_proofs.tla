---------------------------- MODULE CQueue_proofs ----------------------------
(* The circular buffer implements the first-in-first-out queue, for every    *)
(* size, every set of items and every sequence of calls.                     *)
EXTENDS CQueue, TLAPS

\* The places and the length agree.
PlacesAgree == write = Forth(read, len)
IInv == TypeOK /\ PlacesAgree

\* Going forth stays in the buffer, and from a place all cells are reached once.
LEMMA ForthLemma ==
  ASSUME NEW p \in Cells, NEW n \in 0..Size
  PROVE  /\ Forth(p, n) \in Cells /\ Back(p, n) \in Cells
         /\ Forth(Back(p, n), n) = p
         /\ \A k \in 0..Size : n + k <= Size => Forth(Forth(p, n), k) = Forth(p, n + k)
         /\ \A c \in Cells : Ahead(p, c) \in 0..(Size - 1) /\ Forth(p, Ahead(p, c)) = c
         /\ \A k \in 0..(Size - 1) : Ahead(p, Forth(p, k)) = k
<1>1. Forth(p, n) \in Cells /\ Back(p, n) \in Cells /\ Forth(Back(p, n), n) = p
  BY SizeAssumption DEF Cells, Forth, Back
<1>2. \A k \in 0..Size : n + k <= Size => Forth(Forth(p, n), k) = Forth(p, n + k)
  BY SizeAssumption DEF Cells, Forth
<1>3. \A c \in Cells : Ahead(p, c) \in 0..(Size - 1) /\ Forth(p, Ahead(p, c)) = c
  BY SizeAssumption DEF Cells, Forth, Ahead
<1>4. \A k \in 0..(Size - 1) : Ahead(p, Forth(p, k)) = k
  BY SizeAssumption DEF Cells, Forth, Ahead
<1>5. QED
  BY <1>1, <1>2, <1>3, <1>4

\* What a run of items leaves in the buffer, at each distance from its place.
LEMMA FilledLemma ==
  ASSUME TypeOK, NEW p \in Cells, NEW chunk \in Seq(Items), Len(chunk) <= Size
  PROVE  /\ Filled(p, chunk) \in [Cells -> Items]
         /\ \A k \in 0..(Size - 1) :
              Filled(p, chunk)[Forth(p, k)] = IF k < Len(chunk) THEN chunk[k + 1] ELSE base[Forth(p, k)]
<1>1. base \in [Cells -> Items] /\ Len(chunk) \in Nat
  BY DEF TypeOK
<1>2. \A k \in 0..(Size - 1) : Forth(p, k) \in Cells /\ Ahead(p, Forth(p, k)) = k
  BY SizeAssumption DEF Cells, Forth, Ahead
<1>3. \A c \in Cells : Ahead(p, c) \in 0..(Size - 1)
  BY ForthLemma, SizeAssumption
<1>4. \A i \in 1..Len(chunk) : chunk[i] \in Items
  OBVIOUS
<1>5. \A c \in Cells : Filled(p, chunk)[c] = IF Ahead(p, c) < Len(chunk) THEN chunk[Ahead(p, c) + 1] ELSE base[c]
  BY DEF Filled
<1>6. \A c \in Cells : Ahead(p, c) < Len(chunk) => Ahead(p, c) + 1 \in 1..Len(chunk)
  BY <1>1, <1>3, SizeAssumption
<1>7. Filled(p, chunk) \in [Cells -> Items]
  BY <1>1, <1>4, <1>6 DEF Filled
<1>8. QED
  BY <1>2, <1>5, <1>7

\* Sequences of the same items in the same places are equal.
LEMMA SameItemsLemma ==
  ASSUME NEW s \in Seq(Items), NEW t \in Seq(Items), Len(s) = Len(t),
         \A i \in 1..Len(s) : s[i] = t[i]
  PROVE  s = t
OBVIOUS

LEMMA ConcatLemma ==
  ASSUME NEW s \in Seq(Items), NEW t \in Seq(Items)
  PROVE  /\ s \o t \in Seq(Items) /\ Len(s \o t) = Len(s) + Len(t)
         /\ \A i \in 1..(Len(s) + Len(t)) : (s \o t)[i] = IF i <= Len(s) THEN s[i] ELSE t[i - Len(s)]
OBVIOUS

\* The items of a sequence from a place on.
LEMMA RestLemma ==
  ASSUME NEW s \in Seq(Items), NEW n \in 0..Len(s)
  PROVE  /\ SubSeq(s, n + 1, Len(s)) \in Seq(Items) /\ Len(SubSeq(s, n + 1, Len(s))) = Len(s) - n
         /\ \A i \in 1..(Len(s) - n) : SubSeq(s, n + 1, Len(s))[i] = s[n + i]
         /\ SubSeq(s, 1, n) \in Seq(Items) /\ Len(SubSeq(s, 1, n)) = n
         /\ \A i \in 1..n : SubSeq(s, 1, n)[i] = s[i]
OBVIOUS

\* What a queue with front r and n items in the buffer b holds.
ContentsOf(r, n, b) == [i \in 1..n |-> b[Forth(r, i - 1)]]

LEMMA ContentsLemma ==
  ASSUME NEW r \in Cells, NEW n \in 0..Size, NEW b \in [Cells -> Items]
  PROVE  /\ ContentsOf(r, n, b) \in Seq(Items) /\ Len(ContentsOf(r, n, b)) = n
         /\ \A i \in 1..n : ContentsOf(r, n, b)[i] = b[Forth(r, i - 1)]
<1>1. \A i \in 1..n : Forth(r, i - 1) \in Cells
  BY SizeAssumption DEF Cells, Forth
<1>2. ContentsOf(r, n, b) \in [1..n -> Items] /\ n \in Nat
  BY <1>1, SizeAssumption DEF ContentsOf
<1>3. ContentsOf(r, n, b) \in Seq(Items) /\ Len(ContentsOf(r, n, b)) = n
  BY <1>2
<1>4. QED
  BY <1>3 DEF ContentsOf

LEMMA ContentsStateLemma ==
  /\ Contents = ContentsOf(read, len, base)
  /\ Contents' = ContentsOf(read', len', base')
BY DEF Contents, ContentsOf

\* What the queue holds after a step that keeps its places and buffer sound.
LEMMA NewContentsLemma ==
  ASSUME read' \in Cells, len' \in 0..Size, base' \in [Cells -> Items]
  PROVE  /\ Contents' \in Seq(Items) /\ Len(Contents') = len'
         /\ \A i \in 1..len' : Contents'[i] = base'[Forth(read', i - 1)]
<1>1. \A r \in Cells, n \in 0..Size, b \in [Cells -> Items] :
        /\ ContentsOf(r, n, b) \in Seq(Items) /\ Len(ContentsOf(r, n, b)) = n
        /\ \A i \in 1..n : ContentsOf(r, n, b)[i] = b[Forth(r, i - 1)]
  BY ContentsLemma
<1>2. QED
  BY <1>1, ContentsStateLemma
----------------------------------------------------------------------------
LEMMA InitLemma == Init => IInv /\ F!Init
<1>1. SUFFICES ASSUME Init PROVE IInv /\ F!Init
  OBVIOUS
<1>2. IInv
  BY <1>1, SizeAssumption DEF Init, IInv, TypeOK, PlacesAgree, Cells, Forth
<1>3. Contents = <<>>
  BY <1>1 DEF Init, Contents
<1>4. QED
  BY <1>1, <1>2, <1>3 DEF Init, F!Init

LEMMA EnCQueueLemma ==
  ASSUME IInv, NEW chunk \in Chunks, EnCQueue(chunk)
  PROVE  IInv' /\ F!Put(chunk)
<1>1. TypeOK /\ chunk \in Seq(Items) /\ Len(chunk) \in Nat /\ len \in 0..Size /\ Size \in Nat \ {0}
      /\ read \in Cells /\ write \in Cells /\ write = Forth(read, len)
  BY ChunkAssumption, SizeAssumption DEF IInv, TypeOK, PlacesAgree
<1>2. /\ Contents \in Seq(Items) /\ Len(Contents) = len
      /\ \A i \in 1..len : Contents[i] = base[Forth(read, i - 1)]
  BY <1>1, ContentsLemma, ContentsStateLemma DEF TypeOK
<1>3. CASE AvailableOfCQueue < Len(chunk)
  <2>1. ret' = "err" /\ taken' = <<>> /\ UNCHANGED <<read, write, len, base>>
    BY <1>3 DEF EnCQueue, Refuse
  <2>2. IInv'
    BY <1>1, <2>1 DEF IInv, TypeOK, PlacesAgree
  <2>3. Contents' = Contents
    BY <2>1 DEF Contents
  <2>4. ~(Len(Contents) + Len(chunk) <= Size)
    BY <1>1, <1>2, <1>3 DEF AvailableOfCQueue
  <2>5. QED
    BY <2>1, <2>2, <2>3, <2>4 DEF F!Put, F!Refuse
<1>4. CASE ~(AvailableOfCQueue < Len(chunk))
  <2>1. len' = len + Len(chunk) /\ base' = Filled(write, chunk) /\ write' = Forth(write, Len(chunk))
        /\ ret' = "ok" /\ taken' = <<>> /\ read' = read
    BY <1>4 DEF EnCQueue
  <2>2. len + Len(chunk) <= Size /\ Len(chunk) \in 0..Size
    BY <1>1, <1>4 DEF AvailableOfCQueue
  <2>3. write' \in Cells /\ write' = Forth(read, len + Len(chunk))
    BY <1>1, <2>1, <2>2, ForthLemma
  <2>4. base' \in [Cells -> Items]
    BY <1>1, <2>1, <2>2, FilledLemma
  <2>5. TypeOK'
    BY <1>1, <2>1, <2>2, <2>3, <2>4 DEF TypeOK
  <2>6. IInv'
    BY <2>1, <2>3, <2>5 DEF IInv, PlacesAgree
  <2>7. /\ Contents' \in Seq(Items) /\ Len(Contents') = len + Len(chunk)
        /\ \A i \in 1..(len + Len(chunk)) : Contents'[i] = base'[Forth(read, i - 1)]
    <3>1. len' \in 0..Size /\ read' \in Cells
      BY <1>1, <2>1, <2>2
    <3>2. QED
      BY <2>1, <2>4, <3>1, NewContentsLemma
  <2>8. \A i \in 1..(len + Len(chunk)) : Contents'[i] = (Contents \o chunk)[i]
    <3>1. SUFFICES ASSUME NEW i \in 1..(len + Len(chunk)) PROVE Contents'[i] = (Contents \o chunk)[i]
      OBVIOUS
    <3> DEFINE k == Ahead(write, Forth(read, i - 1))
    <3>2. Forth(read, i - 1) \in Cells /\ Contents'[i] = base'[Forth(read, i - 1)]
      <4>1. i - 1 \in 0..Size
        BY <1>1, <2>2, <3>1
      <4>2. Forth(read, i - 1) \in Cells
        BY <1>1, <4>1, ForthLemma
      <4>3. QED
        BY <2>7, <3>1, <4>2
    <3>3. k \in 0..(Size - 1) /\ Forth(write, k) = Forth(read, i - 1)
      BY <1>1, <3>2, ForthLemma, SizeAssumption
    <3>4. k = IF i <= len THEN Size - len + i - 1 ELSE i - 1 - len
      BY <1>1, <2>2, <3>1 DEF Ahead, Forth, Cells
    <3> HIDE DEF k
    <3>5. base'[Forth(read, i - 1)] = IF k < Len(chunk) THEN chunk[k + 1] ELSE base[Forth(read, i - 1)]
      BY <1>1, <2>1, <2>2, <3>3, FilledLemma
    <3>6. CASE i <= len
      <4>1. ~(k < Len(chunk)) /\ i \in 1..len
        BY <1>1, <2>2, <3>1, <3>4, <3>6
      <4>2. (Contents \o chunk)[i] = Contents[i]
        BY <1>1, <1>2, <4>1
      <4>3. Contents[i] = base[Forth(read, i - 1)]
        BY <1>2, <4>1
      <4>4. QED
        BY <3>2, <3>5, <4>1, <4>2, <4>3
    <3>7. CASE ~(i <= len)
      <4>1. k < Len(chunk) /\ k + 1 = i - len
        BY <1>1, <2>2, <3>1, <3>4, <3>7
      <4>2. (Contents \o chunk)[i] = chunk[i - len]
        BY <1>1, <1>2, <3>1, <3>7
      <4>3. QED
        BY <3>2, <3>5, <4>1, <4>2
    <3>8. QED
      BY <3>6, <3>7
  <2>9. Contents' = Contents \o chunk
    <3>1. Contents \o chunk \in Seq(Items) /\ Len(Contents \o chunk) = len + Len(chunk)
      BY <1>1, <1>2, ConcatLemma
    <3>2. QED
      BY <2>7, <2>8, <3>1, SameItemsLemma
  <2>10. QED
    BY <1>1, <1>2, <2>1, <2>2, <2>6, <2>9 DEF F!Put
<1>5. QED
  BY <1>3, <1>4

LEMMA EnCQueueFrontLemma ==
  ASSUME IInv, NEW chunk \in Chunks, EnCQueueFront(chunk)
  PROVE  IInv' /\ F!PutFront(chunk)
<1>1. TypeOK /\ chunk \in Seq(Items) /\ Len(chunk) \in Nat /\ len \in 0..Size /\ Size \in Nat \ {0}
      /\ read \in Cells /\ write \in Cells /\ write = Forth(read, len)
  BY ChunkAssumption, SizeAssumption DEF IInv, TypeOK, PlacesAgree
<1>2. /\ Contents \in Seq(Items) /\ Len(Contents) = len
      /\ \A i \in 1..len : Contents[i] = base[Forth(read, i - 1)]
  BY <1>1, ContentsLemma, ContentsStateLemma DEF TypeOK
<1>3. CASE AvailableOfCQueue < Len(chunk)
  <2>1. ret' = "err" /\ taken' = <<>> /\ UNCHANGED <<read, write, len, base>>
    BY <1>3 DEF EnCQueueFront, Refuse
  <2>2. IInv'
    BY <1>1, <2>1 DEF IInv, TypeOK, PlacesAgree
  <2>3. Contents' = Contents
    BY <2>1 DEF Contents
  <2>4. ~(Len(Contents) + Len(chunk) <= Size)
    BY <1>1, <1>2, <1>3 DEF AvailableOfCQueue
  <2>5. QED
    BY <2>1, <2>2, <2>3, <2>4 DEF F!PutFront, F!Refuse
<1>4. CASE ~(AvailableOfCQueue < Len(chunk))
  <2>1. len' = len + Len(chunk) /\ read' = Back(read, Len(chunk)) /\ base' = Filled(read', chunk)
        /\ ret' = "ok" /\ taken' = <<>> /\ write' = write
    BY <1>4 DEF EnCQueueFront
  <2>2. len + Len(chunk) \in 0..Size /\ Len(chunk) \in 0..Size
    BY <1>1, <1>4 DEF AvailableOfCQueue
  <2>3. read' \in Cells /\ Forth(read', Len(chunk)) = read
    BY <1>1, <2>1, <2>2, ForthLemma
  <2>4. base' \in [Cells -> Items]
    BY <1>1, <2>1, <2>2, <2>3, FilledLemma
  <2>5. TypeOK'
    BY <1>1, <2>1, <2>2, <2>3, <2>4 DEF TypeOK
  <2>6. \A k \in 0..Size : Len(chunk) + k <= Size => Forth(read, k) = Forth(read', Len(chunk) + k)
    BY <2>2, <2>3, ForthLemma
  <2>7. write' = Forth(read', len')
    <3>1. Len(chunk) + len = len' /\ len' <= Size /\ len \in 0..Size
      BY <1>1, <2>1, <2>2
    <3>2. QED
      BY <1>1, <2>1, <2>6, <3>1
  <2>8. IInv'
    BY <2>5, <2>7 DEF IInv, PlacesAgree
  <2>9. /\ Contents' \in Seq(Items) /\ Len(Contents') = len + Len(chunk)
        /\ \A i \in 1..(len + Len(chunk)) : Contents'[i] = base'[Forth(read', i - 1)]
    BY <2>1, <2>2, <2>3, <2>4, NewContentsLemma
  <2>10. \A i \in 1..(len + Len(chunk)) : Contents'[i] = (chunk \o Contents)[i]
    <3>1. SUFFICES ASSUME NEW i \in 1..(len + Len(chunk)) PROVE Contents'[i] = (chunk \o Contents)[i]
      OBVIOUS
    <3>2. i - 1 \in 0..(Size - 1) /\ i \in Nat
      BY <1>1, <2>2, <3>1
    <3>3. base'[Forth(read', i - 1)] = IF i - 1 < Len(chunk) THEN chunk[i] ELSE base[Forth(read', i - 1)]
      BY <1>1, <2>1, <2>2, <2>3, <3>2, FilledLemma
    <3>4. (chunk \o Contents)[i] = IF i <= Len(chunk) THEN chunk[i] ELSE Contents[i - Len(chunk)]
      BY <1>1, <1>2, <3>1, ConcatLemma
    <3>5. CASE i <= Len(chunk)
      BY <1>1, <2>9, <3>1, <3>2, <3>3, <3>4, <3>5
    <3>6. CASE ~(i <= Len(chunk))
      <4> DEFINE k == i - 1 - Len(chunk)
      <4>1. k \in 0..(Size - 1) /\ k + 1 \in 1..len /\ Len(chunk) + k = i - 1 /\ k + 1 = i - Len(chunk)
        BY <1>1, <2>2, <3>1, <3>6
      <4>2. Forth(read, k) = Forth(read', i - 1)
        BY <1>1, <2>2, <2>6, <4>1
      <4>3. Contents[k + 1] = base[Forth(read, k)]
        BY <1>1, <1>2, <4>1
      <4>4. QED
        BY <1>1, <2>9, <3>1, <3>2, <3>3, <3>4, <3>6, <4>1, <4>2, <4>3
    <3>7. QED
      BY <3>5, <3>6
  <2>11. Contents' = chunk \o Contents
    <3>1. chunk \o Contents \in Seq(Items) /\ Len(chunk \o Contents) = len + Len(chunk)
      <4>1. chunk \o Contents \in Seq(Items) /\ Len(chunk \o Contents) = Len(chunk) + Len(Contents)
        BY <1>1, <1>2, ConcatLemma
      <4>2. Len(chunk) + Len(Contents) = len + Len(chunk)
        BY <1>1, <1>2
      <4>3. QED
        BY <4>1, <4>2
    <3>2. QED
      BY <2>9, <2>10, <3>1, SameItemsLemma
  <2>12. Len(Contents) + Len(chunk) <= Size
    BY <1>1, <1>2, <2>2
  <2>13. QED
    BY <2>1, <2>8, <2>11, <2>12 DEF F!PutFront
<1>5. QED
  BY <1>3, <1>4

LEMMA DeCQueueLemma ==
  ASSUME IInv, NEW n \in Wanted, NEW keep \in BOOLEAN, DeCQueue(n, keep)
  PROVE  IInv' /\ F!Take(n, keep)
<1>1. TypeOK /\ n \in Nat /\ len \in 0..Size /\ Size \in Nat \ {0} /\ base \in [Cells -> Items]
      /\ read \in Cells /\ write \in Cells /\ write = Forth(read, len)
  BY ChunkAssumption, SizeAssumption DEF IInv, TypeOK, PlacesAgree
<1>2. /\ Contents \in Seq(Items) /\ Len(Contents) = len
      /\ \A i \in 1..len : Contents[i] = base[Forth(read, i - 1)]
  BY <1>1, ContentsLemma, ContentsStateLemma
<1>3. CASE len < n
  <2>1. ret' = "err" /\ taken' = <<>> /\ UNCHANGED <<read, write, len, base>>
    BY <1>3 DEF DeCQueue, Refuse
  <2>2. IInv'
    BY <1>1, <2>1 DEF IInv, TypeOK, PlacesAgree
  <2>3. Contents' = Contents
    BY <2>1 DEF Contents
  <2>4. ~(n <= Len(Contents))
    BY <1>1, <1>2, <1>3
  <2>5. QED
    BY <2>1, <2>2, <2>3, <2>4 DEF F!Take, F!Refuse
<1>4. CASE ~(len < n)
  <2>1. len' = len - n /\ read' = Forth(read, n) /\ ret' = "ok" /\ write' = write /\ base' = base
        /\ taken' = IF keep THEN [i \in 1..n |-> base[Forth(read, i - 1)]] ELSE <<>>
    BY <1>4 DEF DeCQueue
  <2>2. n \in 0..Size /\ n \in 0..len /\ len - n \in 0..Size
    BY <1>1, <1>4
  <2>3. read' \in Cells /\ \A k \in 0..Size : n + k <= Size => Forth(read', k) = Forth(read, n + k)
    BY <1>1, <2>1, <2>2, ForthLemma
  <2>4. write' = Forth(read', len')
    <3>1. n + len' = len /\ len' \in 0..Size /\ len <= Size
      BY <1>1, <2>1, <2>2
    <3>2. QED
      BY <1>1, <2>1, <2>3, <3>1
  <2>5. (IF keep THEN ContentsOf(read, n, base) ELSE <<>>) = taken'
    BY <2>1 DEF ContentsOf
  <2>6. taken' \in Seq(Items) /\ (keep => taken' = SubSeq(Contents, 1, n))
    <3>1. CASE keep
      <4>1. /\ taken' \in Seq(Items) /\ Len(taken') = n
            /\ \A i \in 1..n : taken'[i] = base[Forth(read, i - 1)]
        BY <1>1, <2>2, <2>5, <3>1, ContentsLemma
      <4>2. /\ SubSeq(Contents, 1, n) \in Seq(Items) /\ Len(SubSeq(Contents, 1, n)) = n
            /\ \A i \in 1..n : SubSeq(Contents, 1, n)[i] = Contents[i]
        BY <1>2, <2>2, RestLemma
      <4>3. \A i \in 1..n : taken'[i] = SubSeq(Contents, 1, n)[i]
        BY <1>1, <1>2, <2>2, <4>1, <4>2
      <4>4. QED
        BY <4>1, <4>2, <4>3, SameItemsLemma
    <3>2. CASE ~keep
      BY <2>5, <3>2
    <3>3. QED
      BY <3>1, <3>2
  <2>7. IInv'
    BY <1>1, <2>1, <2>2, <2>3, <2>4, <2>6 DEF IInv, TypeOK, PlacesAgree
  <2>8. /\ Contents' \in Seq(Items) /\ Len(Contents') = len - n
        /\ \A i \in 1..(len - n) : Contents'[i] = base[Forth(read', i - 1)]
    <3>1. len' \in 0..Size /\ base' \in [Cells -> Items]
      BY <1>1, <2>1, <2>2 DEF TypeOK
    <3>2. QED
      BY <2>1, <2>3, <3>1, NewContentsLemma
  <2>9. Contents' = SubSeq(Contents, n + 1, Len(Contents))
    <3>1. /\ SubSeq(Contents, n + 1, len) \in Seq(Items) /\ Len(SubSeq(Contents, n + 1, len)) = len - n
          /\ \A i \in 1..(len - n) : SubSeq(Contents, n + 1, len)[i] = Contents[n + i]
      BY <1>2, <2>2, RestLemma
    <3>2. \A i \in 1..(len - n) : Contents'[i] = SubSeq(Contents, n + 1, len)[i]
      <4>1. SUFFICES ASSUME NEW i \in 1..(len - n) PROVE Contents'[i] = Contents[n + i]
        BY <3>1
      <4>2. n + i \in 1..len /\ i - 1 \in 0..Size /\ n + (i - 1) <= Size /\ n + (i - 1) = (n + i) - 1
        BY <1>1, <2>2, <4>1
      <4>3. Forth(read', i - 1) = Forth(read, (n + i) - 1)
        BY <2>3, <4>2
      <4>4. Contents[n + i] = base[Forth(read, (n + i) - 1)]
        BY <1>2, <4>2
      <4>5. QED
        BY <2>8, <4>1, <4>3, <4>4
    <3>3. QED
      BY <1>2, <2>8, <3>1, <3>2, SameItemsLemma
  <2>10. taken' = IF keep THEN SubSeq(Contents, 1, n) ELSE <<>>
    BY <2>1, <2>6
  <2>11. n <= Len(Contents)
    BY <1>2, <2>2
  <2>12. QED
    BY <2>1, <2>7, <2>9, <2>10, <2>11 DEF F!Take
<1>5. QED
  BY <1>3, <1>4

LEMMA InitCQueueLemma ==
  ASSUME InitCQueue, base' \in [Cells -> Items]
  PROVE  IInv' /\ F!Clear
<1>1. IInv'
  BY SizeAssumption DEF InitCQueue, IInv, TypeOK, PlacesAgree, Cells, Forth
<1>2. Contents' = <<>>
  BY DEF InitCQueue, Contents
<1>3. QED
  BY <1>1, <1>2 DEF InitCQueue, F!Clear

\* A step of another module that calls nothing of the queue keeps it.
LEMMA UnchangedLemma ==
  ASSUME IInv, UNCHANGED vars
  PROVE  IInv' /\ UNCHANGED F!fifo
<1>1. IInv'
  BY DEF IInv, TypeOK, PlacesAgree, vars
<1>2. UNCHANGED F!fifo
  BY DEF vars, F!fifo, Contents
<1>3. QED
  BY <1>1, <1>2

LEMMA NextLemma == IInv /\ [Next]_vars => IInv' /\ [F!Next]_(F!fifo)
<1>1. SUFFICES ASSUME IInv, [Next]_vars PROVE IInv' /\ [F!Next]_(F!fifo)
  OBVIOUS
<1>2. ASSUME NEW chunk \in Chunks, EnCQueue(chunk) PROVE IInv' /\ F!Next
  BY <1>1, <1>2, EnCQueueLemma DEF F!Next
<1>3. ASSUME NEW chunk \in Chunks, EnCQueueFront(chunk) PROVE IInv' /\ F!Next
  BY <1>1, <1>3, EnCQueueFrontLemma DEF F!Next
<1>4. ASSUME NEW n \in Wanted, NEW keep \in BOOLEAN, DeCQueue(n, keep) PROVE IInv' /\ F!Next
  BY <1>1, <1>4, DeCQueueLemma DEF F!Next
<1>5. ASSUME InitCQueue, base' \in [Cells -> Items] PROVE IInv' /\ F!Next
  BY <1>5, InitCQueueLemma DEF F!Next
<1>6. CASE UNCHANGED vars
  BY <1>1, <1>6, UnchangedLemma
<1>7. QED
  BY <1>1, <1>2, <1>3, <1>4, <1>5, <1>6 DEF Next
----------------------------------------------------------------------------
\* The places stay in the buffer and the length within its size (cqueue.c).
THEOREM TypeTheorem == Spec => []TypeOK
<1>1. IInv => TypeOK
  BY DEF IInv
<1>2. QED
  BY <1>1, InitLemma, NextLemma, PTL DEF Spec

\* The circular buffer of cqueue.c is a first-in-first-out queue that refuses
\* exactly the calls that do not fit.
THEOREM FifoTheorem == Spec => IsFifo
<1>1. QED
  BY InitLemma, NextLemma, PTL DEF Spec, IsFifo, F!Spec

\* PeekCQueue points to the front of the queue, whether it wraps or not.
THEOREM PeekTheorem == Spec => []PeekIsFront
<1>1. IInv => PeekIsFront
  <2>1. SUFFICES ASSUME IInv, NEW want \in 0..len,
                        NEW p, p = PeekCQueue(want)
                 PROVE  /\ p.len1 + p.len2 = want /\ p.at1 + p.len1 <= Size
                        /\ p.len1 \in 0..Size /\ p.len2 \in 0..Size
                        /\ \A i \in 1..want : Contents[i] =
                             base[IF i <= p.len1 THEN p.at1 + i - 1 ELSE i - p.len1 - 1]
    BY DEF PeekIsFront
  <2>2. len \in 0..Size /\ Size \in Nat \ {0} /\ read \in Cells /\ write = Forth(read, len)
        /\ base \in [Cells -> Items]
    BY <2>1, SizeAssumption DEF IInv, TypeOK, PlacesAgree
  <2>3. \A i \in 1..want : Contents[i] = base[Forth(read, i - 1)]
    BY <2>1, <2>2 DEF Contents
  <2>4. CASE write > read \/ Size - read > want
    <3>1. p.at1 = read /\ p.len1 = want /\ p.len2 = 0
      BY <2>1, <2>4 DEF PeekCQueue
    <3>2. read + want <= Size /\ \A i \in 1..want : Forth(read, i - 1) = read + i - 1
      BY <2>1, <2>2, <2>4 DEF Forth, Cells
    <3>3. QED
      BY <2>1, <2>2, <2>3, <3>1, <3>2
  <2>5. CASE ~(write > read \/ Size - read > want)
    <3>1. p.at1 = read /\ p.len1 = Size - read /\ p.len2 = want - (Size - read)
      BY <2>1, <2>5 DEF PeekCQueue
    <3>2. \A i \in 1..want : Forth(read, i - 1) =
            IF i <= Size - read THEN read + i - 1 ELSE i - (Size - read) - 1
      BY <2>1, <2>2, <2>5 DEF Forth, Cells
    <3>3. /\ read + (Size - read) <= Size /\ (Size - read) + (want - (Size - read)) = want
          /\ Size - read \in 0..Size /\ want - (Size - read) \in 0..Size
      BY <2>1, <2>2, <2>5 DEF Cells
    <3>4. QED
      BY <2>3, <3>1, <3>2, <3>3
  <2>6. QED
    BY <2>4, <2>5
<1>2. QED
  BY <1>1, InitLemma, NextLemma, PTL DEF Spec
=============================================================================
