----------------------------- MODULE Hci_proofs -----------------------------
(* Theorems about intersyshci.c, for any packets of the peer, cut into       *)
(* messages anywhere, any sizes of the queue and the mail queue, and any     *)
(* number of packets sent: what is stored keeps its type, and the packets    *)
(* arrive whole and in order in both directions.                             *)
EXTENDS Hci, CQueue_proofs, WellFoundedInduction, FiniteSetTheorems

\* The bytes in the queue are the last that arrived, in order.
HeldAgrees == len <= arrived /\ \A i \in 1..len : Contents[i] = arrived - len + i

\* The run of cells intersys_rx_thread is in: it begins at the queue's front,
\* does not go beyond the buffer, and with the second run ends in the queue.
Rest == IF at = "first" THEN len2 ELSE 0
InRun == used + left + Rest
RunAgrees ==
  /\ IF at = "get" THEN used = 0 /\ left = 0
     ELSE cell = read + used /\ cell + left <= Size /\ InRun <= len
  /\ at = "first" /\ len2 > 0 => cell + left = Size

\* The queue holds the bytes of all the lengths in the mail queue: sums[i] is
\* enough for the bytes from the i-th length on.
SumsOf(sums, list) == \A i \in 1..Len(list) : sums[i] >= list[i] + sums[i + 1]
HasSum(list, total) ==
  \E sums \in [1..(Len(list) + 1) -> Nat] : SumsOf(sums, list) /\ sums[1] = total
MailsFit ==
  /\ lost <= arrived
  /\ \E total \in Nat : HasSum(mails, total) /\ total + (IF at = "get" THEN 0 ELSE InRun) <= len

\* Where the parser is in the packets.
Pre(p) == Preamble[Packets[p].type]
AtType(p) == Parsed + 1 = Begin[p]
InPreamble(p) ==
  /\ rcv_msg_type = Packets[p].type /\ rcv_len \in 1..Pre(p)
  /\ Parsed = Begin[p] + Pre(p) - rcv_len
  /\ preload_buffer = Run(Begin[p] + 1, Pre(p) - rcv_len)
InData(p) ==
  /\ rcv_len \in 1..Packets[p].len /\ Parsed + 1 = Begin[p + 1] - rcv_len
  /\ p_buf = Run(Begin[p] + 1, Begin[p + 1] - Begin[p] - 1 - rcv_len)
InIgnored(p) ==
  /\ Packets[p].type = "sco" /\ rcv_len \in 1..Packets[p].len
  /\ Parsed + 1 = Begin[p + 1] - rcv_len
ParserAgrees ==
  CASE rcv_state = "MSGTYPE" -> \E p \in 1..(Len(Packets) + 1) : AtType(p)
    [] rcv_state = "LEN" -> \E p \in Indices : InPreamble(p)
    [] rcv_state = "DATA" -> \E p \in Indices : InData(p)
    [] rcv_state = "IGNORE" -> \E p \in Indices : InIgnored(p)

\* The packets kept are those the stack was given, up to the last byte read.
Kept(kept, list, upto) ==
  /\ \A p \in kept : Begin[p + 1] - 1 <= upto
  /\ \A p \in Indices : Packets[p].type # "sco" /\ Begin[p + 1] - 1 <= upto => p \in kept
  /\ Len(list) = Cardinality(kept)
  /\ \A p \in kept : list[Cardinality({q \in kept : q <= p})] = Packet(p)
KeptAgrees == \E kept \in SUBSET Indices : Kept(kept, indicated, Parsed)

\* One packet of the stack is on its way at a time.
SendAgrees ==
  /\ out \in {0, 1} /\ senddata = Len(told) + out /\ told = Run(1, Len(told))
  /\ out = 1 => ~done
  /\ out = 1 \/ done => ~tx_signal
  /\ ~sending => out = 0 /\ ~done /\ ~tx_signal

\* What holds while the firmware runs, and what holds always.
ReceiveAgrees == HeldAgrees /\ RunAgrees /\ MailsFit /\ ParserAgrees /\ KeptAgrees
Halts == {"no", "intersys_rx_queue overflow", "NO BUFF"}
HciInv ==
  IInv /\ HciTypeOK /\ SendAgrees /\ halted \in Halts /\ (halted = "no" => ReceiveAgrees)
----------------------------------------------------------------------------
(* Where the packets begin.                                                  *)

\* A set of natural numbers has a first one.
LEMMA LeastLemma ==
  ASSUME NEW S, S \subseteq Nat, S # {}
  PROVE  \E x \in S : \A y \in S : x <= y
<1> DEFINE Less == OpToRel(<, Nat)
<1>1. IsWellFoundedOn(Less, Nat)
  BY NatLessThanWellFounded
<1>2. \A x, y \in Nat : x < y => <<x, y>> \in Less
  BY DEF OpToRel
<1>3. \E x \in S : \A y \in S : ~(<<y, x>> \in Less)
  <2> HIDE DEF Less
  <2>1. QED
    BY <1>1, WFMin
<1>4. PICK x \in S : \A y \in S : ~(<<y, x>> \in Less)
  BY <1>3
<1> HIDE DEF Less
<1>5. ASSUME NEW y \in S PROVE x <= y
  <2>1. x \in Nat /\ y \in Nat /\ ~(y < x)
    BY <1>2, <1>4
  <2>2. QED
    BY <2>1
<1>6. QED
  BY <1>5

Long(p) == 1 + Preamble[Packets[p].type] + Packets[p].len
\* f says where the first packets begin, up to the n-th.
Begins(n, f) ==
  /\ f \in [1..n -> Nat] /\ f[1] = 1
  /\ \A p \in 2..n : f[p] = f[p - 1] + Long(p - 1)

LEMMA ElementsLemma ==
  ASSUME NEW S, NEW s \in Seq(S)
  PROVE  Len(s) \in Nat /\ \A i \in 1..Len(s) : s[i] \in S
OBVIOUS

LEMMA PacketsLemma ==
  /\ Len(Packets) \in Nat
  /\ \A p \in Indices : /\ Packets[p].type \in Types /\ Packets[p].len \in Nat
                        /\ Preamble[Packets[p].type] \in Nat \ {0}
                        /\ Long(p) \in Nat /\ Long(p) >= 2
<1>1. Packets \in Seq([type : Types, len : Nat]) /\ Preamble \in [Types -> Nat \ {0}]
  BY HciAssumption
<1>2. Len(Packets) \in Nat /\ \A p \in Indices : Packets[p] \in [type : Types, len : Nat]
  BY <1>1, ElementsLemma DEF Indices
<1>3. ASSUME NEW p \in Indices
      PROVE  /\ Packets[p].type \in Types /\ Packets[p].len \in Nat
             /\ Preamble[Packets[p].type] \in Nat \ {0}
  BY <1>1, <1>2
<1>4. QED
  BY <1>2, <1>3 DEF Long

LEMMA BeginsExist == \A n \in 1..(Len(Packets) + 1) : \E f : Begins(n, f)
<1> DEFINE Bad == {n \in 1..(Len(Packets) + 1) : ~\E f : Begins(n, f)}
<1>1. SUFFICES ASSUME Bad # {} PROVE FALSE
  OBVIOUS
<1>2. PICK n \in Bad : \A m \in Bad : n <= m
  <2>1. Bad \subseteq Nat
    BY PacketsLemma
  <2> HIDE DEF Bad
  <2>2. QED
    BY <1>1, <2>1, LeastLemma
<1>3. n \in 1..(Len(Packets) + 1) /\ ~\E f : Begins(n, f)
  OBVIOUS
<1>4. n # 1
  <2>1. [p \in 1..1 |-> 1] \in [1..1 -> Nat] /\ [p \in 1..1 |-> 1][1] = 1
    OBVIOUS
  <2>2. Begins(1, [p \in 1..1 |-> 1])
    BY <2>1 DEF Begins
  <2>3. QED
    BY <1>3, <2>2
<1>5. n - 1 \in 1..(Len(Packets) + 1) /\ n - 1 \in Indices /\ ~(n <= n - 1) /\ n \in Nat /\ n > 1
  BY <1>3, <1>4, PacketsLemma DEF Indices
<1>6. PICK f : Begins(n - 1, f)
  <2>1. n - 1 \notin Bad
    BY <1>2, <1>5
  <2>2. QED
    BY <1>5, <2>1
<1>7. PICK b \in Nat : b = f[n - 1] + Long(n - 1)
  <2>1. f[n - 1] \in Nat
    BY <1>5, <1>6 DEF Begins
  <2>2. QED
    BY <1>5, <2>1, PacketsLemma
<1>8. PICK g : g = [p \in 1..n |-> IF p < n THEN f[p] ELSE b]
  OBVIOUS
<1>9. /\ \A p \in 1..n : p < n => p \in 1..(n - 1) /\ g[p] = f[p]
      /\ g[n] = b
  BY <1>5, <1>8
<1>10. g \in [1..n -> Nat]
  <2>1. \A p \in 1..(n - 1) : f[p] \in Nat
    BY <1>6 DEF Begins
  <2>2. \A p \in 1..n : p < n \/ p = n
    BY <1>5
  <2>3. \A p \in 1..n : g[p] \in Nat
    BY <1>7, <1>9, <2>1, <2>2
  <2>4. QED
    BY <1>8, <2>3
<1>11. g[1] = 1
  BY <1>5, <1>6, <1>9 DEF Begins
<1>12. ASSUME NEW p \in 2..n PROVE g[p] = g[p - 1] + Long(p - 1)
  <2>1. p - 1 \in 1..n /\ p - 1 < n /\ p \in 1..n
    BY <1>5
  <2>2. CASE p = n
    BY <1>7, <1>9, <2>1, <2>2
  <2>3. CASE p < n
    <3>1. p \in 2..(n - 1)
      BY <1>5, <2>3
    <3>2. QED
      BY <1>6, <1>9, <2>1, <2>3, <3>1 DEF Begins
  <2>4. QED
    BY <1>5, <2>2, <2>3
<1>13. QED
  BY <1>3, <1>10, <1>11, <1>12 DEF Begins

\* Begin follows its definition.
LEMMA BeginLemma ==
  /\ Begin \in [1..(Len(Packets) + 1) -> Nat] /\ Begin[1] = 1
  /\ \A p \in Indices : /\ p + 1 \in 1..(Len(Packets) + 1) /\ p \in 1..(Len(Packets) + 1)
                        /\ Begin[p + 1] = Begin[p] + Long(p)
<1> DEFINE top == Len(Packets) + 1
           Is(f) == f = [p \in 1..top |->
                          IF p = 1 THEN 1 ELSE f[p - 1] + 1 + Preamble[Packets[p - 1].type] + Packets[p - 1].len]
<1>1. PICK f : Begins(top, f)
  <2>1. top \in 1..top
    BY PacketsLemma
  <2>2. QED
    BY <2>1, BeginsExist
<1>2. Is(f)
  <2>1. ASSUME NEW p \in 1..top
        PROVE  f[p] = IF p = 1 THEN 1 ELSE f[p - 1] + 1 + Preamble[Packets[p - 1].type] + Packets[p - 1].len
    <3>1. CASE p = 1
      BY <1>1, <3>1 DEF Begins
    <3>2. CASE p # 1
      <4>1. p \in 2..top /\ p - 1 \in 1..top /\ p - 1 \in Indices
        BY <3>2, PacketsLemma DEF Indices
      <4>2. f[p] = f[p - 1] + Long(p - 1) /\ f[p - 1] \in Nat
        BY <1>1, <4>1 DEF Begins
      <4>3. /\ Preamble[Packets[p - 1].type] \in Nat /\ Packets[p - 1].len \in Nat
            /\ Long(p - 1) = 1 + Preamble[Packets[p - 1].type] + Packets[p - 1].len
        BY <4>1, PacketsLemma DEF Long
      <4>4. QED
        BY <3>2, <4>2, <4>3
    <3>3. QED
      BY <3>1, <3>2
  <2>2. f = [p \in 1..top |-> f[p]]
    BY <1>1 DEF Begins
  <2>3. QED
    BY <2>1, <2>2
<1>3. Begin = CHOOSE g : Is(g)
  BY DEF Begin
<1>4. Is(Begin)
  <2> HIDE DEF Is
  <2>1. QED
    BY <1>2, <1>3
<1>5. ASSUME NEW p \in 1..top
      PROVE  Begin[p] = IF p = 1 THEN 1 ELSE Begin[p - 1] + 1 + Preamble[Packets[p - 1].type] + Packets[p - 1].len
  <2>1. PICK g : g = Begin
    OBVIOUS
  <2>2. g = [q \in 1..top |->
              IF q = 1 THEN 1 ELSE g[q - 1] + 1 + Preamble[Packets[q - 1].type] + Packets[q - 1].len]
    BY <1>4, <2>1
  <2>3. QED
    BY <2>1, <2>2
<1>6. \A p \in 1..top : Begin[p] \in Nat
  <2> DEFINE Bad == {p \in 1..top : Begin[p] \notin Nat}
  <2>1. SUFFICES ASSUME Bad # {} PROVE FALSE
    OBVIOUS
  <2>2. PICK p \in Bad : \A q \in Bad : p <= q
    <3>1. Bad \subseteq Nat
      BY PacketsLemma
    <3> HIDE DEF Bad
    <3>2. QED
      BY <2>1, <3>1, LeastLemma
  <2>3. p \in 1..top /\ Begin[p] \notin Nat /\ p # 1
    BY <1>5
  <2>4. p - 1 \in 1..top /\ p - 1 \in Indices /\ ~(p <= p - 1)
    BY <2>3, PacketsLemma DEF Indices
  <2>5. Begin[p - 1] \in Nat
    BY <2>2, <2>4
  <2>6. /\ Preamble[Packets[p - 1].type] \in Nat /\ Packets[p - 1].len \in Nat
        /\ Begin[p] = Begin[p - 1] + 1 + Preamble[Packets[p - 1].type] + Packets[p - 1].len
    BY <1>5, <2>3, <2>4, PacketsLemma
  <2>7. QED
    BY <2>3, <2>5, <2>6
<1>7. Begin \in [1..top -> Nat] /\ Begin[1] = 1
  <2>1. PICK g : g = Begin
    OBVIOUS
  <2>2. g = [q \in 1..top |->
              IF q = 1 THEN 1 ELSE g[q - 1] + 1 + Preamble[Packets[q - 1].type] + Packets[q - 1].len]
    BY <1>4, <2>1
  <2>3. g \in [1..top -> Nat]
    BY <1>6, <2>1, <2>2
  <2>4. 1 \in 1..top
    BY PacketsLemma
  <2>5. QED
    BY <1>5, <2>1, <2>3, <2>4
<1>8. ASSUME NEW p \in Indices
      PROVE  p + 1 \in 1..top /\ p \in 1..top /\ Begin[p + 1] = Begin[p] + Long(p)
  <2>1. p + 1 \in 1..top /\ p \in 1..top /\ p + 1 # 1 /\ (p + 1) - 1 = p
    BY PacketsLemma DEF Indices
  <2>2. Begin[p + 1] = Begin[p] + 1 + Preamble[Packets[p].type] + Packets[p].len
    BY <1>5, <2>1
  <2>3. Begin[p] \in Nat /\ Preamble[Packets[p].type] \in Nat /\ Packets[p].len \in Nat
    BY <1>6, <2>1, PacketsLemma
  <2>4. PICK b, pre, n \in Nat : b = Begin[p] /\ pre = Preamble[Packets[p].type] /\ n = Packets[p].len
    BY <2>3
  <2>5. Begin[p + 1] = b + 1 + pre + n /\ Long(p) = 1 + pre + n
    BY <2>2, <2>4 DEF Long
  <2>6. b + 1 + pre + n = b + (1 + pre + n)
    BY <2>4
  <2>7. QED
    BY <2>1, <2>4, <2>5, <2>6
<1>9. QED
  BY <1>7, <1>8

\* The packets follow one another.
LEMMA OrderLemma ==
  ASSUME NEW p \in Indices, NEW q \in 1..(Len(Packets) + 1), p < q
  PROVE  Begin[p + 1] <= Begin[q]
<1> DEFINE top == Len(Packets) + 1
           Bad == {n \in 1..top : p < n /\ ~(Begin[p + 1] <= Begin[n])}
<1>1. SUFFICES ASSUME Bad # {} PROVE FALSE
  OBVIOUS
<1>2. PICK n \in Bad : \A m \in Bad : n <= m
  <2>1. Bad \subseteq Nat
    BY PacketsLemma
  <2> HIDE DEF Bad
  <2>2. QED
    BY <1>1, <2>1, LeastLemma
<1>3. n \in 1..top /\ p < n /\ ~(Begin[p + 1] <= Begin[n]) /\ p \in Nat /\ p + 1 \in 1..top
  BY PacketsLemma DEF Indices
<1>4. \A m \in 1..top : Begin[m] \in Nat
  BY BeginLemma
<1>5. n # p + 1
  BY <1>3, <1>4
<1>6. p < n - 1 /\ n - 1 \in Indices /\ n - 1 \in 1..top /\ ~(n <= n - 1) /\ (n - 1) + 1 = n
  BY <1>3, <1>5, PacketsLemma DEF Indices
<1>7. Begin[p + 1] <= Begin[n - 1]
  BY <1>2, <1>6
<1>8. Begin[n] = Begin[n - 1] + Long(n - 1) /\ Long(n - 1) \in Nat
  BY <1>6, BeginLemma, PacketsLemma
<1>9. QED
  BY <1>3, <1>4, <1>6, <1>7, <1>8

\* A packet in numbers: its first byte, its preamble and its data, and where
\* the others end.
PlaceIs(p, b, pre, n) ==
  /\ b = Begin[p] /\ pre = Pre(p) /\ n = Packets[p].len /\ b >= 1 /\ pre >= 1
  /\ Begin[p + 1] = b + 1 + pre + n /\ b + pre + n <= Last /\ Last \in Nat
  /\ Packets[p].type \in Types
  /\ \A byte \in b..(b + pre + n) : PacketOf(byte) = p
  /\ \A q \in Indices : q < p => Begin[q + 1] <= b
  /\ \A q \in Indices : p < q => Begin[q + 1] >= b + 3 + pre + n

LEMMA PlaceLemma ==
  ASSUME NEW p \in Indices
  PROVE  \E b, pre, n \in Nat : PlaceIs(p, b, pre, n)
<1> DEFINE top == Len(Packets) + 1
<1>1. /\ p \in 1..top /\ p + 1 \in 1..top /\ top \in 1..top /\ 1 \in Nat /\ p \in Nat
      /\ Begin[p] \in Nat /\ Begin[p + 1] \in Nat /\ Begin[top] \in Nat
  <2>1. p \in 1..top /\ p + 1 \in 1..top
    BY BeginLemma
  <2>2. top \in 1..top /\ p \in Nat
    BY PacketsLemma DEF Indices
  <2>3. \A q \in 1..top : Begin[q] \in Nat
    BY BeginLemma
  <2>4. Begin[p] \in Nat /\ Begin[p + 1] \in Nat /\ Begin[top] \in Nat
    BY <2>1, <2>2, <2>3
  <2>5. QED
    BY <2>1, <2>2, <2>4
<1>2. PICK b \in Nat : b = Begin[p]
  BY <1>1
<1>3. PICK pre \in Nat : pre = Pre(p) /\ pre >= 1 /\ pre = Preamble[Packets[p].type]
  BY PacketsLemma DEF Pre
<1>4. PICK n \in Nat : n = Packets[p].len
  BY PacketsLemma
<1>5. Begin[p + 1] = b + 1 + pre + n
  <2>1. Begin[p + 1] = Begin[p] + Long(p)
    BY BeginLemma
  <2>2. QED
    BY <1>2, <1>3, <1>4, <2>1 DEF Long
<1>6. b >= 1
  <2>1. 1 \in Indices /\ 1 \in 1..top
    BY <1>1, PacketsLemma DEF Indices
  <2>2. CASE p = 1
    BY <1>2, <2>2, BeginLemma
  <2>3. CASE p # 1
    <3>1. Begin[1 + 1] <= Begin[p] /\ Begin[1 + 1] = Begin[1] + Long(1)
      <4>1. 1 < p
        BY <1>1, <2>3
      <4>2. QED
        BY <1>1, <2>1, <4>1, OrderLemma, BeginLemma
    <3>2. Begin[1] = 1 /\ Long(1) \in Nat
      BY <2>1, BeginLemma, PacketsLemma
    <3>3. QED
      BY <1>2, <3>1, <3>2
  <2>4. QED
    BY <2>2, <2>3
<1>7. b + pre + n <= Last /\ Last \in Nat
  <2>1. p < top
    BY <1>1, PacketsLemma DEF Indices
  <2>2. Begin[p + 1] <= Begin[top]
    BY <1>1, <2>1, OrderLemma
  <2>3. PICK e \in Nat : e = Begin[top] /\ Last = e - 1
    BY <1>1 DEF Last
  <2>4. QED
    BY <1>5, <1>6, <2>2, <2>3
<1>8. \A q \in Indices : q < p => Begin[q + 1] <= b
  BY <1>1, <1>2, OrderLemma
<1>9. ASSUME NEW q \in Indices, p < q PROVE Begin[q] >= b + 1 + pre + n /\ Begin[q + 1] >= b + 3 + pre + n
  <2>1. /\ q \in 1..top /\ q + 1 \in 1..top /\ Begin[q] \in Nat /\ Begin[q + 1] = Begin[q] + Long(q)
        /\ Long(q) \in Nat /\ Long(q) >= 2
    BY BeginLemma, PacketsLemma
  <2>2. Begin[p + 1] <= Begin[q]
    BY <1>9, <2>1, OrderLemma
  <2>3. QED
    BY <1>5, <2>1, <2>2
<1>10. ASSUME NEW byte \in b..(b + pre + n) PROVE PacketOf(byte) = p
  <2>1. Begin[p] <= byte /\ byte < Begin[p + 1]
    BY <1>2, <1>5
  <2>2. ASSUME NEW q \in Indices, Begin[q] <= byte, byte < Begin[q + 1] PROVE q = p
    <3>0. PICK c, e \in Nat : c = Begin[q] /\ e = Begin[q + 1] /\ c <= byte /\ byte < e
      BY <2>2, BeginLemma
    <3>1. ~(q < p)
      BY <1>8, <3>0
    <3>2. ~(p < q)
      BY <1>9, <3>0
    <3>3. q \in Nat
      BY PacketsLemma DEF Indices
    <3>4. QED
      BY <1>1, <3>1, <3>2, <3>3
  <2>3. QED
    BY <2>1, <2>2 DEF PacketOf
<1>11. PlaceIs(p, b, pre, n)
  BY <1>2, <1>3, <1>4, <1>5, <1>6, <1>7, <1>8, <1>9, <1>10, PacketsLemma DEF PlaceIs
<1>12. QED
  BY <1>11

LEMMA BorderLemma ==
  /\ \A q \in Indices : Begin[q] \in Nat /\ Begin[q + 1] \in Nat /\ q \in Nat
  /\ \A q \in 1..(Len(Packets) + 1) : Begin[q] \in Nat
<1>1. \A q \in 1..(Len(Packets) + 1) : Begin[q] \in Nat
  BY BeginLemma
<1>2. \A q \in Indices : q + 1 \in 1..(Len(Packets) + 1) /\ q \in 1..(Len(Packets) + 1)
  BY BeginLemma
<1>3. QED
  BY <1>1, <1>2, PacketsLemma DEF Indices
----------------------------------------------------------------------------
(* Runs of bytes, and the packets given to the stack.                        *)

LEMMA RunLemma ==
  ASSUME NEW first \in Nat, NEW n \in Nat
  PROVE  /\ Run(first, n) \in Seq(Nat) /\ Len(Run(first, n)) = n
         /\ \A i \in 1..n : Run(first, n)[i] = first + i - 1
BY DEF Run

\* Sequences of numbers with the same elements are equal.
LEMMA SameBytesLemma ==
  ASSUME NEW s \in Seq(Nat), NEW t \in Seq(Nat), Len(s) = Len(t),
         \A i \in 1..Len(s) : s[i] = t[i]
  PROVE  s = t
OBVIOUS

LEMMA ByteSequencesLemma ==
  ASSUME NEW s \in Seq(Nat), NEW t \in Seq(Nat), NEW byte \in Nat
  PROVE  /\ Len(s) \in Nat
         /\ s \o t \in Seq(Nat) /\ Len(s \o t) = Len(s) + Len(t)
         /\ \A i \in 1..(Len(s) + Len(t)) : (s \o t)[i] = IF i <= Len(s) THEN s[i] ELSE t[i - Len(s)]
         /\ Append(s, byte) \in Seq(Nat) /\ Len(Append(s, byte)) = Len(s) + 1
         /\ \A i \in 1..(Len(s) + 1) : Append(s, byte)[i] = IF i <= Len(s) THEN s[i] ELSE byte
OBVIOUS

LEMMA RunTypeLemma ==
  ASSUME NEW first \in Nat \ {0}, NEW n \in Nat, NEW top \in Nat, first + n <= top + 1
  PROVE  Run(first, n) \in Seq(1..top)
<1>1. \A i \in 1..n : first + i - 1 \in 1..top
  OBVIOUS
<1>2. QED
  BY <1>1 DEF Run

LEMMA RunAppendLemma ==
  ASSUME NEW first \in Nat, NEW n \in Nat, NEW byte, byte = first + n
  PROVE  Append(Run(first, n), byte) = Run(first, n + 1)
<1>1. PICK k \in Nat : k = n + 1
  OBVIOUS
<1>2. PICK s \in Seq(Nat) : s = Run(first, n) /\ Len(s) = n /\ \A i \in 1..n : s[i] = first + i - 1
  BY RunLemma
<1>3. PICK t \in Seq(Nat) : t = Run(first, k) /\ Len(t) = k /\ \A i \in 1..k : t[i] = first + i - 1
  BY RunLemma
<1>4. byte \in Nat
  OBVIOUS
<1>5. PICK u \in Seq(Nat) : /\ u = Append(s, byte) /\ Len(u) = k
                            /\ \A i \in 1..k : u[i] = IF i <= n THEN s[i] ELSE byte
  <2>1. /\ Append(s, byte) \in Seq(Nat) /\ Len(Append(s, byte)) = Len(s) + 1
        /\ \A i \in 1..(Len(s) + 1) : Append(s, byte)[i] = IF i <= Len(s) THEN s[i] ELSE byte
    BY <1>4, ByteSequencesLemma
  <2>2. QED
    BY <1>1, <1>2, <2>1
<1>6. \A i \in 1..k : u[i] = t[i]
  BY <1>1, <1>2, <1>3, <1>5
<1>7. u = t
  BY <1>3, <1>5, <1>6, SameBytesLemma
<1>8. QED
  BY <1>1, <1>2, <1>3, <1>5, <1>7

Joined(first, n, next, m) == Run(first, n) \o Run(next, m) = Run(first, n + m)

LEMMA RunConcatLemma ==
  ASSUME NEW first \in Nat, NEW n \in Nat, NEW m \in Nat, NEW next, next = first + n
  PROVE  Joined(first, n, next, m)
<1>1. PICK k \in Nat : k = n + m
  OBVIOUS
<1>2. next \in Nat
  OBVIOUS
<1>3. PICK s \in Seq(Nat) : s = Run(first, n) /\ Len(s) = n /\ \A i \in 1..n : s[i] = first + i - 1
  BY RunLemma
<1>4. PICK r \in Seq(Nat) : r = Run(next, m) /\ Len(r) = m /\ \A i \in 1..m : r[i] = next + i - 1
  BY <1>2, RunLemma
<1>5. PICK t \in Seq(Nat) : t = Run(first, k) /\ Len(t) = k /\ \A i \in 1..k : t[i] = first + i - 1
  BY RunLemma
<1>6. PICK u \in Seq(Nat) : /\ u = s \o r /\ Len(u) = k
                            /\ \A i \in 1..k : u[i] = IF i <= n THEN s[i] ELSE r[i - n]
  <2>1. /\ s \o r \in Seq(Nat) /\ Len(s \o r) = Len(s) + Len(r)
        /\ \A i \in 1..(Len(s) + Len(r)) : (s \o r)[i] = IF i <= Len(s) THEN s[i] ELSE r[i - Len(s)]
    BY ByteSequencesLemma
  <2>2. Len(s) + Len(r) = k
    BY <1>1, <1>3, <1>4
  <2>3. s \o r \in Seq(Nat) /\ Len(s \o r) = k /\ Len(s) = n
    BY <1>3, <2>1, <2>2
  <2>4. \A i \in 1..k : (s \o r)[i] = IF i <= n THEN s[i] ELSE r[i - n]
    BY <2>1, <2>2, <2>3
  <2>5. QED
    BY <2>3, <2>4
<1>7. ASSUME NEW i \in 1..k PROVE u[i] = t[i]
  <2>1. CASE i <= n
    BY <1>3, <1>5, <1>6, <2>1
  <2>2. CASE i > n
    <3>1. i - n \in 1..m /\ next + (i - n) - 1 = first + i - 1 /\ ~(i <= n)
      BY <1>1, <2>2
    <3>2. QED
      BY <1>4, <1>5, <1>6, <3>1
  <2>3. QED
    BY <2>1, <2>2
<1>8. u = t
  BY <1>5, <1>6, <1>7, SameBytesLemma
<1>9. QED
  BY <1>1, <1>3, <1>4, <1>5, <1>6, <1>8 DEF Joined

\* Bytes that end no packet to be kept change nothing of what was kept.
LEMMA KeptStaysLemma ==
  ASSUME NEW p \in Indices, NEW upto \in Nat, NEW new \in Nat, NEW list, NEW kept \in SUBSET Indices,
         Kept(kept, list, upto), Begin[p] <= upto + 1, upto <= new, new < Begin[p + 1],
         new + 1 < Begin[p + 1] \/ Packets[p].type = "sco"
  PROVE  Kept(kept, list, new)
<1>0. PICK b, pre, n \in Nat : PlaceIs(p, b, pre, n)
  BY PlaceLemma
<1>1. /\ b = Begin[p] /\ Begin[p + 1] = b + 1 + pre + n
      /\ \A q \in Indices : q < p => Begin[q + 1] <= b
      /\ \A q \in Indices : p < q => Begin[q + 1] >= b + 3 + pre + n
  BY <1>0 DEF PlaceIs
<1>2. \A q \in Indices : Begin[q + 1] \in Nat /\ q \in Nat
  BY BorderLemma
<1>3. \A q \in kept : Begin[q + 1] - 1 <= new
  <2>1. ASSUME NEW q \in kept PROVE Begin[q + 1] - 1 <= new
    <3>1. PICK e \in Nat : e = Begin[q + 1] /\ e - 1 <= upto
      BY <1>2 DEF Kept
    <3>2. QED
      BY <3>1
  <2>2. QED
    BY <2>1
<1>4. ASSUME NEW q \in Indices, Packets[q].type # "sco", Begin[q + 1] - 1 <= new
      PROVE  q \in kept
  <2>1. PICK e \in Nat : e = Begin[q + 1] /\ e - 1 <= new
    BY <1>2, <1>4
  <2>2. ~(p < q)
    BY <1>1, <2>1
  <2>3. q # p
    BY <1>1, <1>4, <2>1
  <2>4. q < p
    BY <1>2, <2>2, <2>3
  <2>5. e - 1 <= upto
    BY <1>1, <2>1, <2>4
  <2>6. QED
    BY <1>4, <2>1, <2>5 DEF Kept
<1>5. QED
  BY <1>3, <1>4 DEF Kept

LEMMA AppendLemma ==
  ASSUME NEW S, NEW s \in Seq(S), NEW x \in S
  PROVE  /\ Append(s, x) \in Seq(S) /\ Len(s) \in Nat /\ Len(Append(s, x)) = Len(s) + 1
         /\ Append(s, x)[Len(s) + 1] = x /\ \A i \in 1..Len(s) : Append(s, x)[i] = s[i]
OBVIOUS

\* A packet that ends and is given to the stack is kept after all others.
LEMMA KeptGrowsLemma ==
  ASSUME NEW p \in Indices, NEW upto \in Nat, NEW new, NEW S, NEW list \in Seq(S), NEW x \in S,
         NEW kept \in SUBSET Indices, Kept(kept, list, upto), Begin[p] <= upto,
         upto + 1 < Begin[p + 1], new = Begin[p + 1] - 1, x = Packet(p)
  PROVE  Kept(kept \cup {p}, Append(list, x), new)
<1>0. PICK b, pre, n \in Nat : PlaceIs(p, b, pre, n)
  BY PlaceLemma
<1>1. /\ b = Begin[p] /\ Begin[p + 1] = b + 1 + pre + n
      /\ \A q \in Indices : q < p => Begin[q + 1] <= b
      /\ \A q \in Indices : p < q => Begin[q + 1] >= b + 3 + pre + n
  BY <1>0 DEF PlaceIs
<1>2. /\ \A q \in Indices : Begin[q + 1] \in Nat /\ q \in Nat
      /\ new = b + pre + n /\ upto < b + pre + n
  <2>1. PICK e \in Nat : e = Begin[p + 1] /\ e = b + 1 + pre + n
    BY <1>1
  <2>2. upto + 1 < e /\ new = e - 1
    BY <2>1
  <2>3. new = b + pre + n /\ upto < b + pre + n
    BY <2>1, <2>2
  <2>4. QED
    BY <2>3, BorderLemma
<1>3. ASSUME NEW q \in kept PROVE q < p /\ Begin[q + 1] - 1 <= new
  <2>0. q \in Indices
    OBVIOUS
  <2>1. PICK e \in Nat : e = Begin[q + 1] /\ e - 1 <= upto
    BY <1>2 DEF Kept
  <2>2. ~(p < q)
    <3>1. p < q => e >= b + 3 + pre + n
      BY <1>1, <2>0, <2>1
    <3>2. QED
      BY <1>2, <2>1, <3>1
  <2>3. q # p
    BY <1>1, <1>2, <2>1
  <2>4. q < p
    BY <1>2, <2>0, <2>2, <2>3
  <2>5. QED
    BY <1>2, <2>1, <2>4
<1>4. ASSUME NEW q \in Indices, Packets[q].type # "sco", Begin[q + 1] - 1 <= new
      PROVE  q \in kept \cup {p}
  <2>1. PICK e \in Nat : e = Begin[q + 1] /\ e - 1 <= new
    BY <1>2, <1>4
  <2>2. ~(p < q)
    <3>1. p < q => e >= b + 3 + pre + n
      BY <1>1, <2>1
    <3>2. QED
      BY <1>2, <2>1, <3>1
  <2>3. CASE q = p
    BY <2>3
  <2>4. CASE q < p
    <3>1. e - 1 <= upto
      BY <1>1, <2>1, <2>4
    <3>2. QED
      BY <1>4, <2>1, <3>1 DEF Kept
  <2>5. QED
    BY <1>2, <2>2, <2>3, <2>4
<1>5. IsFiniteSet(kept) /\ Cardinality(kept) \in Nat /\ Cardinality(kept) = Len(list)
  <2>1. IsFiniteSet(Indices)
    BY PacketsLemma, FS_Interval DEF Indices
  <2>2. IsFiniteSet(kept)
    BY <2>1, FS_Subset
  <2>3. QED
    BY <2>2, FS_CardinalityType DEF Kept
<1>6. Cardinality(kept \cup {p}) = Len(list) + 1
  <2>1. p \notin kept
    BY <1>2, <1>3
  <2>2. QED
    BY <1>5, <2>1, FS_AddElement
<1>7. Len(Append(list, x)) = Cardinality(kept \cup {p})
  BY <1>6, AppendLemma
<1>8. ASSUME NEW q \in kept
      PROVE  Append(list, x)[Cardinality({r \in kept \cup {p} : r <= q})] = Packet(q)
  <2>1. {r \in kept \cup {p} : r <= q} = {r \in kept : r <= q}
    BY <1>2, <1>3
  <2>2. PICK k : k = Cardinality({r \in kept : r <= q})
    OBVIOUS
  <2>3. IsFiniteSet({r \in kept : r <= q}) /\ k <= Cardinality(kept) /\ k \in Nat
    <3>1. {r \in kept : r <= q} \in SUBSET kept
      OBVIOUS
    <3>2. QED
      BY <1>5, <2>2, <3>1, FS_Subset, FS_CardinalityType
  <2>4. k # 0
    <3>1. q \in {r \in kept : r <= q}
      BY <1>2
    <3>2. QED
      BY <2>2, <2>3, <3>1, FS_EmptySet
  <2>5. k \in 1..Len(list)
    BY <1>5, <2>3, <2>4
  <2>6. list[k] = Packet(q)
    BY <2>2 DEF Kept
  <2>7. Append(list, x)[k] = list[k]
    BY <2>5, AppendLemma
  <2>8. QED
    BY <2>1, <2>2, <2>6, <2>7
<1>9. Append(list, x)[Cardinality({r \in kept \cup {p} : r <= p})] = Packet(p)
  <2>1. {r \in kept \cup {p} : r <= p} = kept \cup {p}
    BY <1>2, <1>3
  <2>2. Append(list, x)[Len(list) + 1] = x
    BY AppendLemma
  <2>3. QED
    BY <1>6, <2>1, <2>2
<1>10. \A q \in kept \cup {p} : Begin[q + 1] - 1 <= new
  <2>1. PICK e \in Nat : e = Begin[p + 1] /\ e - 1 <= new
    BY <1>2
  <2>2. QED
    BY <1>3, <2>1
<1>11. QED
  BY <1>4, <1>7, <1>8, <1>9, <1>10 DEF Kept
----------------------------------------------------------------------------
(* The queue of received bytes.                                              *)

LEMMA QueueLemma ==
  ASSUME IInv
  PROVE  /\ len \in 0..Size /\ read \in Cells /\ Size \in Nat \ {0} /\ TypeOK
         /\ base \in [Cells -> Items] /\ write = Forth(read, len)
         /\ Contents \in Seq(Items) /\ Len(Contents) = len
         /\ \A i \in 1..len : Contents[i] = base[Forth(read, i - 1)]
<1>1. /\ len \in 0..Size /\ read \in Cells /\ Size \in Nat \ {0} /\ TypeOK
      /\ base \in [Cells -> Items] /\ write = Forth(read, len)
  BY SizeAssumption DEF IInv, TypeOK, PlacesAgree
<1>2. QED
  BY <1>1, ContentsLemma, ContentsStateLemma

LEMMA NewQueueLemma ==
  ASSUME IInv'
  PROVE  len' \in 0..Size /\ Contents' \in Seq(Items) /\ Len(Contents') = len'
<1>1. read' \in Cells /\ len' \in 0..Size /\ base' \in [Cells -> Items]
  BY DEF IInv, TypeOK
<1>2. QED
  BY <1>1, NewContentsLemma

LEMMA ItemsLemma == Items \subseteq Nat /\ Last \in Nat /\ Items = 0..Last
<1>1. Len(Packets) + 1 \in 1..(Len(Packets) + 1)
  BY PacketsLemma
<1>2. Begin[Len(Packets) + 1] \in Nat /\ Begin[Len(Packets) + 1] >= 1
  <2>1. CASE Len(Packets) = 0
    BY <2>1, BeginLemma
  <2>2. CASE Len(Packets) # 0
    <3>1. 1 \in Indices /\ 1 < Len(Packets) + 1
      BY <2>2, PacketsLemma DEF Indices
    <3>2. PICK b, pre, n \in Nat : PlaceIs(1, b, pre, n)
      BY <3>1, PlaceLemma
    <3>3. Begin[1 + 1] <= Begin[Len(Packets) + 1] /\ Begin[1 + 1] = b + 1 + pre + n
      BY <1>1, <3>1, <3>2, OrderLemma DEF PlaceIs
    <3>4. QED
      BY <1>1, <3>3, BorderLemma
  <2>3. QED
    BY <2>1, <2>2
<1>3. QED
  BY <1>2, HciAssumption DEF Last

\* A message that fits is put behind the bytes that are held.
LEMMA PutLemma ==
  ASSUME IInv, HeldAgrees, arrived \in Nat, NEW n \in Nat, n >= 1, arrived + n <= Last,
         AvailableOfCQueue >= n, EnCQueue(Run(arrived + 1, n)), arrived' = arrived + n
  PROVE  IInv' /\ HeldAgrees' /\ len' = len + n /\ read' = read /\ len + n <= Size
<1>1. PICK first \in Nat : first = arrived + 1
  OBVIOUS
<1>2. PICK chunk \in Seq(Nat) : /\ chunk = Run(first, n) /\ Len(chunk) = n
                                /\ \A i \in 1..n : chunk[i] = first + i - 1
  BY RunLemma
<1>3. chunk \in Chunks
  <2>1. first \in 1..Last /\ n \in 1..(Last + 1 - first)
    BY <1>1, ItemsLemma
  <2>2. QED
    BY <1>2, <2>1, HciAssumption
<1>4. EnCQueue(chunk)
  BY <1>1, <1>2
<1>5. IInv' /\ F!Put(chunk)
  BY <1>3, <1>4, EnCQueueLemma
<1>6. len \in 0..Size /\ Size \in Nat /\ Contents \in Seq(Items) /\ Len(Contents) = len
  BY QueueLemma
<1>7. ~(AvailableOfCQueue < n) /\ len + n <= Size
  BY <1>6 DEF AvailableOfCQueue
<1>8. len' = len + n /\ read' = read
  BY <1>2, <1>4, <1>7 DEF EnCQueue
<1>9. Contents' = Contents \o chunk
  BY <1>2, <1>5, <1>6, <1>7 DEF F!Put
<1>10. PICK held \in Seq(Nat) : held = Contents /\ Len(held) = len
  BY <1>6, ItemsLemma
<1>11. \A i \in 1..(len + n) : (held \o chunk)[i] = IF i <= len THEN held[i] ELSE chunk[i - len]
  <2>1. \A i \in 1..(Len(held) + Len(chunk)) :
          (held \o chunk)[i] = IF i <= Len(held) THEN held[i] ELSE chunk[i - Len(held)]
    BY ByteSequencesLemma
  <2>2. Len(held) = len /\ Len(chunk) = n
    BY <1>2, <1>10
  <2>3. QED
    BY <2>1, <2>2
<1>12. ASSUME NEW i \in 1..(len + n) PROVE Contents'[i] = arrived' - len' + i
  <2>1. Contents'[i] = IF i <= len THEN held[i] ELSE chunk[i - len]
    BY <1>9, <1>10, <1>11
  <2>2. CASE i <= len
    <3>1. held[i] = arrived - len + i
      BY <1>6, <1>10, <2>2 DEF HeldAgrees
    <3>2. QED
      BY <1>6, <1>8, <2>1, <2>2, <3>1
  <2>3. CASE i > len
    <3>1. i - len \in 1..n /\ ~(i <= len)
      BY <1>6, <2>3
    <3>2. chunk[i - len] = first + (i - len) - 1
      BY <1>2, <3>1
    <3>3. QED
      BY <1>1, <1>6, <1>8, <2>1, <3>1, <3>2
  <2>4. QED
    BY <1>6, <2>2, <2>3
<1>13. HeldAgrees'
  BY <1>6, <1>8, <1>12 DEF HeldAgrees
<1>14. QED
  BY <1>5, <1>7, <1>8, <1>13

\* The bytes given back are those at the front.
LEMMA GiveLemma ==
  ASSUME IInv, HeldAgrees, arrived \in Nat, NEW n \in 0..Size, n <= len, DeCQueue(n, FALSE), arrived' = arrived
  PROVE  IInv' /\ HeldAgrees' /\ len' = len - n /\ read' = Forth(read, n)
<1>1. IInv' /\ F!Take(n, FALSE)
  <2>1. n \in Wanted
    BY HciAssumption
  <2>2. QED
    BY <2>1, DeCQueueLemma
<1>2. len \in 0..Size /\ Size \in Nat /\ Contents \in Seq(Items) /\ Len(Contents) = len
  BY QueueLemma
<1>3. len' = len - n /\ read' = Forth(read, n)
  BY <1>2 DEF DeCQueue
<1>4. Contents' = SubSeq(Contents, n + 1, Len(Contents))
  BY <1>1, <1>2 DEF F!Take
<1>5. \A i \in 1..(len - n) : SubSeq(Contents, n + 1, Len(Contents))[i] = Contents[n + i]
  BY <1>2, RestLemma
<1>6. ASSUME NEW i \in 1..(len - n) PROVE Contents'[i] = arrived' - len' + i
  <2>1. n + i \in 1..len
    BY <1>2
  <2>2. Contents'[i] = Contents[n + i] /\ Contents[n + i] = arrived - len + (n + i)
    BY <1>4, <1>5, <2>1 DEF HeldAgrees
  <2>3. QED
    BY <1>2, <1>3, <2>2
<1>7. HeldAgrees'
  BY <1>2, <1>3, <1>6 DEF HeldAgrees
<1>8. QED
  BY <1>1, <1>3, <1>7

\* The run's cells hold the bytes that follow those read.
LEMMA CellsLemma ==
  ASSUME IInv, HeldAgrees, RunAgrees, at # "get", arrived \in Nat, left \in Nat, used \in Nat, len2 \in Nat
  PROVE  /\ Parsed \in Nat /\ Parsed + left <= arrived
         /\ \A k \in 1..left : base[cell + k - 1] = Parsed + k
<1>1. len \in 0..Size /\ read \in Cells /\ Size \in Nat /\ \A i \in 1..len : Contents[i] = base[Forth(read, i - 1)]
  BY QueueLemma
<1>2. /\ cell = read + used /\ cell + left <= Size /\ used + left <= len /\ len <= arrived
      /\ read \in Nat
  <2>1. Rest \in Nat
    BY DEF Rest
  <2>2. QED
    BY <1>1, <2>1 DEF RunAgrees, InRun, HeldAgrees, Cells
<1>3. Parsed \in Nat /\ Parsed + left <= arrived /\ Parsed = arrived - len + used
  BY <1>1, <1>2 DEF Parsed
<1>4. ASSUME NEW k \in 1..left PROVE base[cell + k - 1] = Parsed + k
  <2>1. used + k \in 1..len /\ read + (used + k - 1) < Size /\ read + (used + k - 1) = cell + k - 1
    BY <1>1, <1>2
  <2>2. Forth(read, (used + k) - 1) = cell + k - 1
    BY <1>1, <1>2, <2>1 DEF Forth
  <2>3. Contents[used + k] = base[cell + k - 1] /\ Contents[used + k] = arrived - len + (used + k)
    BY <1>1, <2>1, <2>2 DEF HeldAgrees
  <2>4. QED
    BY <1>1, <1>2, <1>3, <2>3
<1>5. QED
  BY <1>3, <1>4
----------------------------------------------------------------------------
(* What is stored keeps its type.                                            *)

MailTypes == arrived \in 0..Last /\ mails \in Seq(1..Last) /\ lost \in 0..Last
RunTypes ==
  /\ at \in {"get", "first", "second"}
  /\ cell \in 0..Size /\ left \in 0..Size /\ used \in 0..Size /\ len2 \in 0..Size
ParserTypes ==
  /\ rcv_state \in {"MSGTYPE", "LEN", "DATA", "IGNORE"} /\ rcv_msg_type \in Types /\ rcv_len \in Nat
  /\ preload_buffer \in Seq(1..Last) /\ p_buf \in Seq(1..Last) /\ indicated \in Seq(Seq(1..Last))
SendTypes ==
  /\ told \in Seq(1..MaxSend) /\ senddata \in 0..MaxSend /\ out \in Nat
  /\ sending \in BOOLEAN /\ tx_signal \in BOOLEAN /\ done \in BOOLEAN

LEMMA TypePartsLemma == HciTypeOK <=> TypeOK /\ MailTypes /\ RunTypes /\ ParserTypes /\ SendTypes
BY DEF HciTypeOK, MailTypes, RunTypes, ParserTypes, SendTypes

LEMMA TypePartsNextLemma ==
  ASSUME TypeOK', MailTypes', RunTypes', ParserTypes', SendTypes'
  PROVE  HciTypeOK'
BY DEF HciTypeOK, MailTypes, RunTypes, ParserTypes, SendTypes

LEMMA HciInitLemma == HciInit => HciInv
<1>1. SUFFICES ASSUME HciInit PROVE HciInv
  OBVIOUS
<1>2. /\ read = 0 /\ write = 0 /\ len = 0 /\ base = [c \in Cells |-> 0] /\ ret = "ok" /\ taken = <<>>
      /\ arrived = 0 /\ mails = <<>> /\ lost = 0
      /\ at = "get" /\ cell = 0 /\ left = 0 /\ used = 0 /\ len2 = 0
      /\ rcv_state = "MSGTYPE" /\ rcv_msg_type = "event" /\ rcv_len = 0 /\ preload_buffer = <<>>
      /\ p_buf = <<>> /\ indicated = <<>> /\ halted = "no"
      /\ sending = FALSE /\ senddata = 0 /\ tx_signal = FALSE /\ out = 0 /\ done = FALSE /\ told = <<>>
  BY <1>1 DEF HciInit
<1>3. IInv
  <2>1. 0 \in Items
    BY ItemsLemma
  <2>2. QED
    BY <1>2, <2>1, SizeAssumption DEF IInv, TypeOK, PlacesAgree, Cells, Forth
<1>4. MailTypes /\ RunTypes /\ ParserTypes /\ SendTypes
  <2>1. MaxSend \in Nat
    BY HciAssumption
  <2>2. MailTypes /\ RunTypes
    BY <1>2, ItemsLemma, SizeAssumption DEF MailTypes, RunTypes
  <2>3. ParserTypes
    BY <1>2 DEF ParserTypes, Types
  <2>4. SendTypes
    <3>1. told \in Seq(1..MaxSend) /\ senddata \in 0..MaxSend /\ out \in Nat
      BY <1>2, <2>1
    <3>2. sending \in BOOLEAN /\ tx_signal \in BOOLEAN /\ done \in BOOLEAN
      BY <1>2, Zenon
    <3>3. QED
      BY <3>1, <3>2, Zenon DEF SendTypes
  <2>5. QED
    BY <2>2, <2>3, <2>4
<1>5. SendAgrees
  <2>1. told = Run(1, Len(told))
    BY <1>2 DEF Run
  <2>2. QED
    BY <1>2, <2>1 DEF SendAgrees
<1>6. HeldAgrees /\ RunAgrees
  BY <1>2 DEF HeldAgrees, RunAgrees
<1>7. MailsFit
  <2>1. PICK sums : sums = [i \in 1..1 |-> 0]
    OBVIOUS
  <2>2. Len(mails) = 0 /\ sums \in [1..(Len(mails) + 1) -> Nat] /\ sums[1] = 0
    BY <1>2, <2>1, SizeAssumption
  <2>3. SumsOf(sums, mails)
    BY <2>2 DEF SumsOf
  <2>4. HasSum(mails, 0)
    BY <2>2, <2>3 DEF HasSum
  <2>5. QED
    BY <1>2, <2>4 DEF MailsFit
<1>8. ParserAgrees
  <2>1. Parsed = 0
    BY <1>2 DEF Parsed
  <2>2. 1 \in 1..(Len(Packets) + 1) /\ AtType(1)
    BY <2>1, PacketsLemma, BeginLemma DEF AtType
  <2>3. QED
    BY <1>2, <2>2 DEF ParserAgrees
<1>9. KeptAgrees
  <2>1. Parsed = 0
    BY <1>2 DEF Parsed
  <2>2. ASSUME NEW p \in Indices PROVE ~(Begin[p + 1] - 1 <= 0)
    <3>1. PICK b, pre, n \in Nat : PlaceIs(p, b, pre, n)
      BY PlaceLemma
    <3>2. QED
      BY <3>1 DEF PlaceIs
  <2>3. Len(indicated) = Cardinality({})
    BY <1>2, FS_EmptySet
  <2>4. Kept({}, indicated, Parsed)
    BY <2>1, <2>2, <2>3 DEF Kept
  <2>5. QED
    BY <2>4 DEF KeptAgrees
<1>10. QED
  BY <1>2, <1>3, <1>4, <1>5, <1>6, <1>7, <1>8, <1>9, TypePartsLemma DEF HciInv, IInv, Halts, ReceiveAgrees

\* A step that changes nothing of the receiving side.
LEMMA ReceiveKeptLemma ==
  ASSUME HciInv, UNCHANGED rxVars
  PROVE  /\ IInv' /\ TypeOK' /\ MailTypes' /\ RunTypes' /\ ParserTypes' /\ halted' = halted
         /\ halted \in Halts /\ (halted = "no" => ReceiveAgrees')
<1>1. /\ arrived' = arrived /\ mails' = mails /\ lost' = lost /\ halted' = halted
      /\ at' = at /\ cell' = cell /\ left' = left /\ used' = used /\ len2' = len2
      /\ rcv_state' = rcv_state /\ rcv_msg_type' = rcv_msg_type /\ rcv_len' = rcv_len
      /\ preload_buffer' = preload_buffer /\ p_buf' = p_buf /\ indicated' = indicated
      /\ UNCHANGED vars
  BY DEF rxVars, run, parser
<1>2. len' = len /\ read' = read /\ base' = base /\ Contents' = Contents
  BY <1>1 DEF vars, Contents
<1>3. IInv' /\ TypeOK'
  BY <1>1, UnchangedLemma DEF HciInv, IInv
<1>4. MailTypes' /\ RunTypes' /\ ParserTypes'
  BY <1>1, TypePartsLemma DEF HciInv, MailTypes, RunTypes, ParserTypes
<1>5. ASSUME halted = "no" PROVE ReceiveAgrees'
  <2>1. ReceiveAgrees
    BY <1>5 DEF HciInv
  <2>2. HeldAgrees' /\ RunAgrees'
    BY <1>1, <1>2, <2>1 DEF ReceiveAgrees, HeldAgrees, RunAgrees, InRun, Rest
  <2>3. MailsFit'
    BY <1>1, <1>2, <2>1 DEF ReceiveAgrees, MailsFit, InRun, Rest
  <2>4. Parsed' = Parsed
    BY <1>1, <1>2 DEF Parsed
  <2>5. ParserAgrees'
    BY <1>1, <2>1, <2>4 DEF ReceiveAgrees, ParserAgrees, AtType, InPreamble, InData, InIgnored
  <2>6. KeptAgrees'
    BY <1>1, <2>1, <2>4 DEF ReceiveAgrees, KeptAgrees
  <2>7. QED
    BY <2>2, <2>3, <2>5, <2>6 DEF ReceiveAgrees
<1>6. QED
  BY <1>1, <1>3, <1>4, <1>5 DEF HciInv
----------------------------------------------------------------------------
(* Sending.                                                                  *)

LEMMA ToldLemma ==
  ASSUME NEW s \in Seq(1..MaxSend), NEW n \in 1..MaxSend, s = Run(1, Len(s)), n = Len(s) + 1
  PROVE  /\ Append(s, n) \in Seq(1..MaxSend) /\ Len(Append(s, n)) = n
         /\ Append(s, n) = Run(1, Len(Append(s, n)))
<1>1. Append(s, n) \in Seq(1..MaxSend) /\ Len(Append(s, n)) = n /\ Len(s) \in Nat
  OBVIOUS
<1>2. Append(Run(1, Len(s)), n) = Run(1, Len(s) + 1)
  <2>1. PICK k \in Nat : k = Len(s)
    BY <1>1
  <2>2. 1 \in Nat /\ n = 1 + k
    BY <2>1
  <2>3. Append(Run(1, k), n) = Run(1, k + 1)
    BY <2>2, RunAppendLemma
  <2>4. QED
    BY <2>1, <2>3
<1>3. QED
  BY <1>1, <1>2

LEMMA SendStepsLemma ==
  HciInv /\ (IAHCI_SendData \/ PeerReads \/ bt_tx \/ SendEnds) => HciInv'
<1>1. SUFFICES ASSUME HciInv, IAHCI_SendData \/ PeerReads \/ bt_tx \/ SendEnds PROVE HciInv'
  OBVIOUS
<1>2. /\ IInv' /\ TypeOK' /\ MailTypes' /\ RunTypes' /\ ParserTypes' /\ halted' = halted
      /\ halted \in Halts /\ (halted = "no" => ReceiveAgrees')
  <2>1. UNCHANGED rxVars
    BY <1>1 DEF IAHCI_SendData, PeerReads, bt_tx, SendEnds
  <2>2. QED
    BY <1>1, <2>1, ReceiveKeptLemma
<1>3. SendTypes /\ SendAgrees /\ MaxSend \in Nat /\ Len(told) \in Nat
  BY <1>1, TypePartsLemma, HciAssumption DEF HciInv, SendTypes
<1>4. ASSUME IAHCI_SendData PROVE SendTypes' /\ SendAgrees'
  <2>1. /\ ~sending /\ senddata < MaxSend /\ sending' = TRUE /\ senddata' = senddata + 1
        /\ tx_signal' = FALSE /\ out' = out + 1 /\ done' = done /\ told' = told
    BY <1>4 DEF IAHCI_SendData
  <2>2. out = 0 /\ ~done
    BY <1>3, <2>1 DEF SendAgrees
  <2>3. SendTypes'
    <3>1. told' \in Seq(1..MaxSend) /\ senddata' \in 0..MaxSend /\ out' \in Nat
      BY <1>3, <2>1, <2>2 DEF SendTypes
    <3>2. sending' \in BOOLEAN /\ tx_signal' \in BOOLEAN /\ done' \in BOOLEAN
      BY <1>3, <2>1, Zenon DEF SendTypes
    <3>3. QED
      BY <3>1, <3>2, Zenon DEF SendTypes
  <2>4. SendAgrees'
    BY <1>3, <2>1, <2>2 DEF SendAgrees, SendTypes
  <2>5. QED
    BY <2>3, <2>4
<1>5. ASSUME PeerReads PROVE SendTypes' /\ SendAgrees'
  <2>1. /\ out > 0 /\ out' = out - 1 /\ told' = Append(told, senddata) /\ done' = TRUE
        /\ sending' = sending /\ senddata' = senddata /\ tx_signal' = tx_signal
    BY <1>5 DEF PeerReads
  <2>2. out = 1 /\ senddata = Len(told) + 1 /\ senddata \in 1..MaxSend /\ told \in Seq(1..MaxSend)
    BY <1>3, <2>1 DEF SendAgrees, SendTypes
  <2>3. /\ told' \in Seq(1..MaxSend) /\ Len(told') = senddata /\ told' = Run(1, Len(told'))
    BY <1>3, <2>1, <2>2, ToldLemma DEF SendAgrees
  <2>4. ~tx_signal /\ sending
    BY <1>3, <2>2 DEF SendAgrees
  <2>5. SendTypes'
    BY <1>3, <2>1, <2>2, <2>3 DEF SendTypes
  <2>6. SendAgrees'
    BY <2>1, <2>2, <2>3, <2>4 DEF SendAgrees
  <2>7. QED
    BY <2>5, <2>6
<1>6. ASSUME bt_tx \/ SendEnds PROVE SendTypes' /\ SendAgrees'
  <2>1. /\ out' = out /\ told' = told /\ senddata' = senddata
        /\ \/ done /\ ~done' /\ tx_signal' /\ tx_signal' = TRUE /\ done' = FALSE /\ sending' = sending
           \/ sending /\ tx_signal /\ tx_signal' = FALSE /\ sending' = FALSE /\ done' = done
    BY <1>6 DEF bt_tx, SendEnds
  <2>2. out = 0
    BY <1>3, <2>1 DEF SendAgrees
  <2>3. SendTypes'
    BY <1>3, <2>1 DEF SendTypes
  <2>4. SendAgrees'
    BY <1>3, <2>1, <2>2 DEF SendAgrees
  <2>5. QED
    BY <2>3, <2>4
<1>7. SendTypes' /\ SendAgrees'
  BY <1>1, <1>4, <1>5, <1>6
<1>8. QED
  BY <1>2, <1>7, TypePartsNextLemma DEF HciInv
----------------------------------------------------------------------------
(* The receive interrupt and the runs of cells.                              *)

LEMMA ParserKeptLemma ==
  ASSUME ParserAgrees, KeptAgrees, Parsed' = Parsed, UNCHANGED parser
  PROVE  ParserAgrees' /\ KeptAgrees'
<1>1. /\ rcv_state' = rcv_state /\ rcv_msg_type' = rcv_msg_type /\ rcv_len' = rcv_len
      /\ preload_buffer' = preload_buffer /\ p_buf' = p_buf /\ indicated' = indicated
  BY DEF parser
<1>2. ParserAgrees'
  BY <1>1 DEF ParserAgrees, AtType, InPreamble, InData, InIgnored
<1>3. KeptAgrees'
  BY <1>1 DEF KeptAgrees
<1>4. QED
  BY <1>2, <1>3

\* The lengths of the messages, with one more, and without the first.
LEMMA MoreMailsLemma ==
  ASSUME NEW S, NEW list \in Seq(S), S \subseteq Nat, NEW n \in S, NEW total, HasSum(list, total)
  PROVE  HasSum(Append(list, n), total + n)
<1>0. PICK sums \in [1..(Len(list) + 1) -> Nat] : SumsOf(sums, list) /\ sums[1] = total
  BY DEF HasSum
<1>1. PICK more \in Seq(S) : /\ more = Append(list, n) /\ Len(more) = Len(list) + 1
                            /\ \A i \in 1..Len(list) : more[i] = list[i]
                            /\ more[Len(list) + 1] = n
  BY AppendLemma
<1>2. PICK k \in Nat : k = Len(list) /\ Len(more) = k + 1 /\ n \in Nat
  BY <1>1
<1>3. PICK new : new = [i \in 1..(k + 2) |-> IF i <= k + 1 THEN sums[i] + n ELSE 0]
  OBVIOUS
<1>4. ASSUME NEW i \in 1..(k + 1)
      PROVE  i \in 1..(k + 2) /\ sums[i] \in Nat /\ new[i] = sums[i] + n
  <2>1. i \in 1..(k + 2) /\ i <= k + 1
    BY <1>2
  <2>2. sums \in [1..(k + 1) -> Nat]
    BY <1>2
  <2>3. new[i] = sums[i] + n
    BY <1>3, <2>1
  <2>4. QED
    BY <2>1, <2>2, <2>3
<1>5. new[k + 2] = 0
  BY <1>2, <1>3
<1>6. new \in [1..(k + 2) -> Nat]
  <2>1. \A i \in 1..(k + 2) : i \in 1..(k + 1) \/ i = k + 2
    BY <1>2
  <2>2. \A i \in 1..(k + 2) : new[i] \in Nat
    BY <1>2, <1>4, <1>5, <2>1
  <2>3. QED
    BY <1>3, <2>2
<1>7. ASSUME NEW i \in 1..(k + 1) PROVE new[i] >= more[i] + new[i + 1]
  <2>1. CASE i = k + 1
    BY <1>1, <1>2, <1>4, <1>5, <2>1
  <2>2. CASE i # k + 1
    <3>1. i \in 1..k /\ i + 1 \in 1..(k + 1)
      BY <1>2, <2>2
    <3>2. new[i] = sums[i] + n /\ new[i + 1] = sums[i + 1] + n /\ sums[i] \in Nat /\ sums[i + 1] \in Nat
      BY <1>4, <3>1
    <3>3. more[i] = list[i] /\ list[i] \in Nat /\ sums[i] >= list[i] + sums[i + 1]
      <4>1. i \in 1..Len(list)
        BY <1>2, <3>1
      <4>2. list[i] \in S
        BY <4>1, ElementsLemma
      <4>3. QED
        BY <1>0, <1>1, <4>1, <4>2 DEF SumsOf
    <3>4. QED
      BY <1>2, <3>2, <3>3
  <2>3. QED
    BY <2>1, <2>2
<1>8. SumsOf(new, more) /\ new[1] = sums[1] + n
  BY <1>2, <1>4, <1>7 DEF SumsOf
<1>9. QED
  BY <1>0, <1>1, <1>2, <1>6, <1>8 DEF HasSum

LEMMA FirstLemma ==
  ASSUME NEW S, NEW s \in Seq(S), s # <<>>
  PROVE  /\ Head(s) = s[1] /\ s[1] \in S /\ Tail(s) \in Seq(S) /\ Len(Tail(s)) = Len(s) - 1
         /\ \A i \in 1..(Len(s) - 1) : Tail(s)[i] = s[i + 1]
OBVIOUS

LEMMA FewerMailsLemma ==
  ASSUME NEW S, NEW list \in Seq(S), S \subseteq Nat, list # <<>>, NEW total, HasSum(list, total)
  PROVE  /\ Head(list) \in S /\ Tail(list) \in Seq(S) /\ total \in Nat
         /\ \E rest \in Nat : HasSum(Tail(list), rest) /\ total >= Head(list) + rest
<1>0. PICK sums \in [1..(Len(list) + 1) -> Nat] : SumsOf(sums, list) /\ sums[1] = total
  BY DEF HasSum
<1>1. PICK k \in Nat : k = Len(list) /\ k >= 1
  OBVIOUS
<1>2. PICK rest \in Seq(S) : rest = Tail(list) /\ Len(rest) = k - 1 /\ \A i \in 1..(k - 1) : rest[i] = list[i + 1]
  <2>1. /\ Tail(list) \in Seq(S) /\ Len(Tail(list)) = Len(list) - 1
        /\ \A i \in 1..(Len(list) - 1) : Tail(list)[i] = list[i + 1]
    BY FirstLemma
  <2>2. QED
    BY <1>1, <2>1
<1>3. Head(list) = list[1] /\ list[1] \in S
  BY FirstLemma
<1>4. PICK new : new = [i \in 1..k |-> sums[i + 1]]
  OBVIOUS
<1>5. new \in [1..k -> Nat] /\ \A i \in 1..k : new[i] = sums[i + 1]
  BY <1>1, <1>4
<1>6. ASSUME NEW i \in 1..(k - 1) PROVE new[i] >= rest[i] + new[i + 1]
  <2>1. i \in 1..k /\ i + 1 \in 1..k
    BY <1>1
  <2>2. sums[i + 1] >= list[i + 1] + sums[i + 1 + 1]
    BY <1>0, <1>1, <2>1 DEF SumsOf
  <2>3. QED
    BY <1>2, <1>5, <2>1, <2>2
<1>7. sums[1] >= list[1] + new[1] /\ sums[1] \in Nat
  <2>1. 1 \in 1..Len(list) /\ 1 \in 1..k /\ 1 \in 1..(Len(list) + 1)
    BY <1>1
  <2>2. sums[1] >= list[1] + sums[1 + 1] /\ new[1] = sums[1 + 1]
    BY <1>0, <1>5, <2>1 DEF SumsOf
  <2>3. QED
    BY <2>1, <2>2
<1>8. SumsOf(new, rest)
  BY <1>2, <1>6 DEF SumsOf
<1>9. (k - 1) + 1 = k
  BY <1>1
<1>10. new[1] \in Nat /\ HasSum(rest, new[1])
  <2>1. Len(rest) + 1 = k /\ 1 \in 1..k
    BY <1>1, <1>2
  <2>2. QED
    BY <1>5, <1>8, <2>1 DEF HasSum
<1>11. QED
  BY <1>0, <1>2, <1>3, <1>7, <1>10

LEMMA BtRxLemma == HciInv /\ Receive => HciInv'
<1>1. SUFFICES ASSUME HciInv, NEW n \in 1..Last, bt_rx(n) PROVE HciInv'
  BY DEF Receive
<1>2. /\ halted = "no" /\ arrived + n <= Last /\ arrived' = arrived + n
      /\ \/ Len(mails) < MaxMail /\ mails' = Append(mails, n) /\ lost' = lost
         \/ lost' = lost + n /\ mails' = mails
      /\ at' = at /\ cell' = cell /\ left' = left /\ used' = used /\ len2' = len2
      /\ UNCHANGED parser /\ UNCHANGED tx
  BY <1>1 DEF bt_rx, run
<1>3. /\ IInv /\ TypeOK /\ MailTypes /\ RunTypes /\ ParserTypes /\ SendTypes /\ SendAgrees /\ ReceiveAgrees
      /\ Last \in Nat
  BY <1>1, <1>2, TypePartsLemma, ItemsLemma DEF HciInv
<1>4. RunTypes' /\ ParserTypes' /\ SendTypes' /\ SendAgrees'
  BY <1>2, <1>3 DEF RunTypes, ParserTypes, SendTypes, SendAgrees, parser, tx
<1>5. MailTypes'
  <2>1. lost \in Nat /\ lost <= arrived /\ arrived \in Nat /\ mails \in Seq(1..Last)
    BY <1>3 DEF MailTypes, ReceiveAgrees, MailsFit
  <2>2. mails' \in Seq(1..Last)
    BY <1>2, <2>1, AppendLemma
  <2>3. arrived' \in 0..Last /\ lost' \in 0..Last
    BY <1>2, <1>3, <2>1
  <2>4. QED
    BY <2>2, <2>3 DEF MailTypes
<1>6. CASE AvailableOfCQueue < n
  <2>1. halted' = "intersys_rx_queue overflow" /\ UNCHANGED vars
    BY <1>1, <1>6 DEF bt_rx, Queued
  <2>2. IInv' /\ TypeOK'
    BY <1>3, <2>1, UnchangedLemma DEF IInv
  <2>3. QED
    BY <1>4, <1>5, <2>1, <2>2, TypePartsNextLemma DEF HciInv, Halts
<1>7. CASE ~(AvailableOfCQueue < n)
  <2>1. EnCQueue(Run(arrived + 1, n)) /\ halted' = "no"
    BY <1>1, <1>2, <1>7 DEF bt_rx, Queued
  <2>2. IInv' /\ HeldAgrees' /\ len' = len + n /\ read' = read /\ len \in 0..Size
    <3>1. n \in Nat /\ n >= 1 /\ arrived \in Nat /\ HeldAgrees /\ len \in 0..Size /\ Size \in Nat
      BY <1>3, QueueLemma DEF MailTypes, ReceiveAgrees
    <3>2. AvailableOfCQueue >= n
      BY <1>7, <3>1 DEF AvailableOfCQueue
    <3>3. QED
      BY <1>2, <1>3, <2>1, <3>1, <3>2, PutLemma
  <2>3. InRun' = InRun /\ InRun \in Nat
    BY <1>2, <1>3 DEF InRun, Rest, RunTypes
  <2>4. RunAgrees'
    BY <1>2, <1>3, <2>2, <2>3 DEF ReceiveAgrees, RunAgrees
  <2>5. MailsFit'
    <3>1. PICK total \in Nat :
            HasSum(mails, total) /\ total + (IF at = "get" THEN 0 ELSE InRun) <= len /\ lost <= arrived
      BY <1>3 DEF ReceiveAgrees, MailsFit
    <3>2. lost' <= arrived'
      BY <1>2, <1>3, <3>1 DEF MailTypes
    <3>3. PICK c \in Nat : c = (IF at = "get" THEN 0 ELSE InRun) /\ c = (IF at' = "get" THEN 0 ELSE InRun')
      BY <1>2, <2>3
    <3>4. total + c <= len
      BY <3>1, <3>3
    <3>5. CASE mails' = mails
      <4>1. total + c <= len'
        BY <2>2, <3>4
      <4>2. QED
        BY <3>1, <3>2, <3>3, <3>5, <4>1 DEF MailsFit
    <3>6. CASE mails' = Append(mails, n)
      <4>1. HasSum(mails', total + n)
        <5>1. mails \in Seq(1..Last) /\ 1..Last \subseteq Nat /\ n \in 1..Last /\ HasSum(mails, total)
          BY <1>3, <3>1 DEF MailTypes
        <5>2. HasSum(Append(mails, n), total + n)
          BY <5>1, MoreMailsLemma
        <5>3. QED
          BY <3>6, <5>2
      <4>2. (total + n) + c <= len' /\ total + n \in Nat
        BY <2>2, <3>4, <4>1
      <4>3. QED
        BY <3>2, <3>3, <3>6, <4>1, <4>2 DEF MailsFit
    <3>7. QED
      BY <1>2, <3>5, <3>6
  <2>6. Parsed' = Parsed
    BY <1>2, <1>3, <2>2 DEF Parsed, MailTypes, RunTypes
  <2>7. ParserAgrees' /\ KeptAgrees'
    BY <1>2, <1>3, <2>6, ParserKeptLemma DEF ReceiveAgrees
  <2>8. QED
    BY <1>4, <1>5, <2>1, <2>2, <2>4, <2>5, <2>7, TypePartsNextLemma DEF HciInv, Halts, ReceiveAgrees, IInv
<1>8. QED
  BY <1>6, <1>7

\* The runs of cells that hold the first bytes of the queue.
LEMMA PeekLemma ==
  ASSUME IInv, NEW want \in Nat, want <= len, NEW p, p = PeekCQueue(want)
  PROVE  /\ p.at1 = read /\ read \in 0..Size /\ p.len1 \in 0..Size /\ p.len2 \in 0..Size
         /\ p.len1 + p.len2 = want /\ read + p.len1 <= Size
         /\ (p.len2 > 0 => read + p.len1 = Size)
<1>1. len \in 0..Size /\ Size \in Nat \ {0} /\ read \in Cells /\ write = Forth(read, len)
  BY QueueLemma
<1>2. read \in 0..Size /\ read < Size /\ read \in Nat
  BY <1>1 DEF Cells
<1>3. CASE write > read \/ Size - read > want
  <2>1. p.at1 = read /\ p.len1 = want /\ p.len2 = 0
    BY <1>3 DEF PeekCQueue
  <2>2. read + want <= Size
    BY <1>1, <1>2, <1>3 DEF Forth
  <2>3. QED
    BY <1>1, <1>2, <2>1, <2>2
<1>4. CASE ~(write > read \/ Size - read > want)
  <2>1. p.at1 = read /\ p.len1 = Size - read /\ p.len2 = want - (Size - read)
    BY <1>4 DEF PeekCQueue
  <2>2. QED
    BY <1>1, <1>2, <1>4, <2>1
<1>5. QED
  BY <1>3, <1>4

LEMMA GetLemma == HciInv /\ Get => HciInv'
<1>1. SUFFICES ASSUME HciInv, Get PROVE HciInv'
  OBVIOUS
<1>2. /\ halted = "no" /\ at = "get" /\ mails # <<>> /\ mails' = Tail(mails)
      /\ UNCHANGED vars /\ arrived' = arrived /\ lost' = lost /\ UNCHANGED parser /\ UNCHANGED tx
  BY <1>1 DEF Get
<1>3. /\ IInv /\ TypeOK /\ MailTypes /\ RunTypes /\ ParserTypes /\ SendTypes /\ SendAgrees /\ ReceiveAgrees
      /\ Last \in Nat /\ len \in 0..Size /\ Size \in Nat /\ mails \in Seq(1..Last) /\ 1..Last \subseteq Nat
  BY <1>1, <1>2, TypePartsLemma, ItemsLemma, QueueLemma DEF HciInv, MailTypes
<1>4. /\ len' = len /\ read' = read /\ Contents' = Contents /\ IInv' /\ TypeOK'
  <2>1. IInv'
    BY <1>2, <1>3, UnchangedLemma
  <2>2. QED
    BY <1>2, <2>1 DEF vars, Contents, IInv
<1>5. PICK total \in Nat : HasSum(mails, total) /\ total <= len /\ lost <= arrived
  <2>1. PICK total \in Nat :
          HasSum(mails, total) /\ total + (IF at = "get" THEN 0 ELSE InRun) <= len /\ lost <= arrived
    BY <1>3 DEF ReceiveAgrees, MailsFit
  <2>2. total <= len
    BY <1>2, <2>1
  <2>3. QED
    BY <2>1, <2>2
<1>6. Head(mails) \in 1..Last /\ mails' \in Seq(1..Last)
  BY <1>2, <1>3, FirstLemma
<1>7. PICK rest \in Nat : HasSum(mails', rest) /\ total >= Head(mails) + rest
  <2>1. \E rest \in Nat : HasSum(Tail(mails), rest) /\ total >= Head(mails) + rest
    BY <1>2, <1>3, <1>5, FewerMailsLemma
  <2>2. QED
    BY <1>2, <2>1
<1>8. PICK want \in Nat : want = Head(mails) /\ want + rest <= len /\ want <= len
  BY <1>3, <1>5, <1>6, <1>7
<1>9. PICK p : p = PeekCQueue(want)
  OBVIOUS
<1>10. /\ halted' = halted /\ at' = "first" /\ cell' = p.at1 /\ left' = p.len1 /\ used' = 0 /\ len2' = p.len2
  <2>1. ~(Head(mails) > len)
    BY <1>3, <1>8
  <2>2. QED
    BY <1>1, <1>8, <1>9, <2>1 DEF Get
<1>11. /\ p.at1 = read /\ read \in 0..Size /\ p.len1 \in 0..Size /\ p.len2 \in 0..Size
       /\ p.len1 + p.len2 = want /\ read + p.len1 <= Size
       /\ (p.len2 > 0 => read + p.len1 = Size)
  BY <1>3, <1>8, <1>9, PeekLemma
<1>12. MailTypes' /\ RunTypes'
  BY <1>2, <1>3, <1>6, <1>10, <1>11 DEF MailTypes, RunTypes
<1>13. ParserTypes' /\ SendTypes' /\ SendAgrees'
  BY <1>2, <1>3 DEF ParserTypes, SendTypes, SendAgrees, parser, tx
<1>14. HeldAgrees'
  BY <1>2, <1>3, <1>4 DEF ReceiveAgrees, HeldAgrees
<1>15. InRun' = want
  <2>1. InRun' = 0 + p.len1 + p.len2
    BY <1>10 DEF InRun, Rest
  <2>2. QED
    BY <1>11, <2>1
<1>16. RunAgrees'
  <2>1. cell' = read' + used' /\ cell' + left' <= Size /\ InRun' <= len'
    BY <1>4, <1>8, <1>10, <1>11, <1>15
  <2>2. QED
    BY <1>10, <1>11, <2>1 DEF RunAgrees
<1>17. MailsFit'
  <2>1. rest + InRun' <= len' /\ lost' <= arrived'
    BY <1>2, <1>4, <1>5, <1>8, <1>15
  <2>2. QED
    BY <1>7, <1>10, <2>1 DEF MailsFit
<1>18. Parsed' = Parsed
  <2>1. used = 0
    BY <1>2, <1>3 DEF ReceiveAgrees, RunAgrees
  <2>2. QED
    BY <1>2, <1>4, <1>10, <2>1 DEF Parsed
<1>19. ParserAgrees' /\ KeptAgrees'
  BY <1>2, <1>3, <1>18, ParserKeptLemma DEF ReceiveAgrees
<1>20. QED
  BY <1>2, <1>4, <1>10, <1>12, <1>13, <1>14, <1>16, <1>17, <1>19, TypePartsNextLemma DEF HciInv, Halts, ReceiveAgrees

LEMMA RunEndsLemma == HciInv /\ RunEnds => HciInv'
<1>1. SUFFICES ASSUME HciInv, RunEnds PROVE HciInv'
  OBVIOUS
<1>2. /\ halted = "no" /\ halted' = halted /\ at # "get" /\ left = 0 /\ DeCQueue(used, FALSE) /\ used' = 0
      /\ len2' = len2 /\ arrived' = arrived /\ mails' = mails /\ lost' = lost /\ UNCHANGED parser /\ UNCHANGED tx
      /\ \/ len2 > 0 /\ at = "first" /\ at' = "second" /\ cell' = 0 /\ left' = len2
         \/ at' = "get" /\ cell' = cell /\ left' = left
  BY <1>1 DEF RunEnds
<1>3. /\ IInv /\ TypeOK /\ MailTypes /\ RunTypes /\ ParserTypes /\ SendTypes /\ SendAgrees /\ ReceiveAgrees
      /\ Last \in Nat /\ len \in 0..Size /\ Size \in Nat /\ arrived \in Nat
      /\ used \in 0..Size /\ len2 \in 0..Size /\ cell \in 0..Size
  BY <1>1, <1>2, TypePartsLemma, ItemsLemma, QueueLemma DEF HciInv, MailTypes, RunTypes
<1>4. /\ Rest \in Nat /\ InRun = used + Rest /\ InRun <= len /\ used <= len /\ cell = read + used
      /\ read \in Nat /\ read < Size
  <2>1. Rest \in Nat
    BY <1>3 DEF Rest
  <2>2. InRun = used + Rest
    BY <1>2, <1>3, <2>1 DEF InRun
  <2>3. InRun <= len /\ cell = read + used
    BY <1>2, <1>3 DEF ReceiveAgrees, RunAgrees
  <2>4. read \in Nat /\ read < Size
    BY <1>3, QueueLemma DEF Cells
  <2>5. QED
    BY <1>3, <2>1, <2>2, <2>3, <2>4
<1>5. IInv' /\ HeldAgrees' /\ len' = len - used /\ read' = Forth(read, used)
  BY <1>2, <1>3, <1>4, GiveLemma DEF ReceiveAgrees
<1>6. TypeOK' /\ MailTypes' /\ RunTypes'
  <2>1. TypeOK'
    BY <1>5 DEF IInv
  <2>2. MailTypes'
    BY <1>2, <1>3 DEF MailTypes
  <2>3. RunTypes'
    BY <1>2, <1>3 DEF RunTypes
  <2>4. QED
    BY <2>1, <2>2, <2>3
<1>7. ParserTypes' /\ SendTypes' /\ SendAgrees'
  BY <1>2, <1>3 DEF ParserTypes, SendTypes, SendAgrees, parser, tx
<1>8. PICK total \in Nat : HasSum(mails, total) /\ total + InRun <= len /\ lost <= arrived
  <2>1. PICK total \in Nat :
          HasSum(mails, total) /\ total + (IF at = "get" THEN 0 ELSE InRun) <= len /\ lost <= arrived
    BY <1>3 DEF ReceiveAgrees, MailsFit
  <2>2. total + InRun <= len
    BY <1>2, <2>1
  <2>3. QED
    BY <2>1, <2>2
<1>9. RunAgrees' /\ MailsFit'
  <2>1. CASE len2 > 0 /\ at = "first" /\ at' = "second" /\ cell' = 0 /\ left' = len2
    <3>1. cell + left = Size
      BY <1>3, <2>1 DEF ReceiveAgrees, RunAgrees
    <3>2. read' = 0
      <4>1. read + used = Size
        BY <1>2, <1>3, <1>4, <3>1
      <4>2. QED
        BY <1>3, <1>4, <1>5, <4>1 DEF Forth
    <3>3. InRun' = len2 /\ InRun = used + len2
      BY <1>2, <1>3, <1>4, <2>1 DEF InRun, Rest
    <3>4. cell' = read' + used' /\ cell' + left' <= Size /\ InRun' <= len'
      BY <1>2, <1>3, <1>4, <1>5, <2>1, <3>2, <3>3
    <3>5. RunAgrees'
      BY <2>1, <3>4 DEF RunAgrees
    <3>6. total + InRun' <= len'
      BY <1>3, <1>5, <1>8, <3>3
    <3>7. QED
      BY <1>2, <1>8, <2>1, <3>5, <3>6 DEF MailsFit
  <2>2. CASE at' = "get" /\ cell' = cell /\ left' = left
    <3>1. RunAgrees'
      BY <1>2, <2>2 DEF RunAgrees
    <3>2. total + 0 <= len'
      BY <1>3, <1>4, <1>5, <1>8
    <3>3. QED
      BY <1>2, <1>8, <2>2, <3>1, <3>2 DEF MailsFit
  <2>3. QED
    BY <1>2, <2>1, <2>2
<1>10. Parsed' = Parsed
  BY <1>2, <1>3, <1>5 DEF Parsed
<1>11. ParserAgrees' /\ KeptAgrees'
  BY <1>2, <1>3, <1>10, ParserKeptLemma DEF ReceiveAgrees
<1>12. QED
  BY <1>2, <1>5, <1>6, <1>7, <1>9, <1>11, TypePartsNextLemma DEF HciInv, Halts, ReceiveAgrees
----------------------------------------------------------------------------
(* The parser: the bytes it reads, and where it is in the packets after.     *)

LEMMA ReadsLemma ==
  ASSUME HciInv, NEW state, NEW n \in Nat, n >= 1, n <= left, Reads(state, n)
  PROVE  /\ IInv' /\ TypeOK' /\ MailTypes' /\ RunTypes' /\ SendTypes' /\ SendAgrees'
         /\ HeldAgrees' /\ RunAgrees' /\ MailsFit' /\ ParserTypes /\ ParserAgrees /\ KeptAgrees
         /\ Parsed \in Nat /\ Parsed' = Parsed + n /\ Parsed + n <= Last /\ Last \in Nat
         /\ \A k \in 1..n : base[cell + k - 1] = Parsed + k
<1>1. /\ halted = "no" /\ at # "get" /\ left > 0 /\ rcv_state = state
      /\ cell' = cell + n /\ left' = left - n /\ used' = used + n
      /\ UNCHANGED vars /\ arrived' = arrived /\ mails' = mails /\ lost' = lost /\ at' = at /\ len2' = len2
      /\ UNCHANGED tx
  BY DEF Reads
<1>2. /\ IInv /\ MailTypes /\ RunTypes /\ ParserTypes /\ SendTypes /\ SendAgrees /\ ReceiveAgrees
      /\ Last \in Nat /\ len \in 0..Size /\ Size \in Nat /\ arrived \in 0..Last
      /\ left \in 0..Size /\ used \in 0..Size /\ len2 \in 0..Size /\ cell \in 0..Size
  BY <1>1, TypePartsLemma, ItemsLemma, QueueLemma DEF HciInv, MailTypes, RunTypes
<1>3. len' = len /\ read' = read /\ Contents' = Contents /\ IInv' /\ TypeOK'
  <2>1. IInv'
    BY <1>1, <1>2, UnchangedLemma
  <2>2. QED
    BY <1>1, <2>1 DEF vars, Contents, IInv
<1>4. Parsed \in Nat /\ Parsed + left <= arrived /\ \A k \in 1..left : base[cell + k - 1] = Parsed + k
  BY <1>1, <1>2, CellsLemma DEF ReceiveAgrees
<1>5. Parsed' = Parsed + n /\ Parsed + n <= Last /\ \A k \in 1..n : base[cell + k - 1] = Parsed + k
  <2>1. Parsed' = Parsed + n
    BY <1>1, <1>2, <1>3 DEF Parsed
  <2>2. 1..n \subseteq 1..left
    BY <1>2
  <2>3. QED
    BY <1>2, <1>4, <2>1, <2>2
<1>6. /\ Rest' = Rest /\ Rest \in Nat /\ InRun' = InRun /\ InRun \in Nat /\ InRun <= len
      /\ InRun = used + left + Rest /\ cell = read + used /\ cell + left <= Size /\ read \in Nat
      /\ (at = "first" /\ len2 > 0 => cell + left = Size)
  <2>1. Rest' = Rest /\ Rest \in Nat
    BY <1>1, <1>2 DEF Rest
  <2>2. InRun' = InRun /\ InRun \in Nat /\ InRun = used + left + Rest
    BY <1>1, <1>2, <2>1 DEF InRun
  <2>3. read \in Nat
    BY <1>2, QueueLemma DEF Cells
  <2>4. QED
    BY <1>1, <1>2, <2>1, <2>2, <2>3 DEF ReceiveAgrees, RunAgrees
<1>7. MailTypes' /\ RunTypes' /\ SendTypes' /\ SendAgrees'
  <2>1. cell + n \in 0..Size /\ left - n \in 0..Size /\ used + n \in 0..Size
    BY <1>2, <1>6
  <2>2. MailTypes' /\ RunTypes'
    BY <1>1, <1>2, <2>1 DEF MailTypes, RunTypes
  <2>3. SendTypes' /\ SendAgrees'
    BY <1>1, <1>2 DEF SendTypes, SendAgrees, tx
  <2>4. QED
    BY <2>2, <2>3
<1>8. HeldAgrees'
  BY <1>1, <1>2, <1>3 DEF ReceiveAgrees, HeldAgrees
<1>9. RunAgrees'
  <2>1. /\ cell' = read' + used' /\ cell' + left' <= Size /\ InRun' <= len'
        /\ (at' = "first" /\ len2' > 0 => cell' + left' = Size)
    BY <1>1, <1>2, <1>3, <1>6
  <2>2. QED
    BY <1>1, <2>1 DEF RunAgrees
<1>10. MailsFit'
  BY <1>1, <1>2, <1>3, <1>6 DEF ReceiveAgrees, MailsFit
<1>11. QED
  BY <1>2, <1>3, <1>4, <1>5, <1>7, <1>8, <1>9, <1>10 DEF ReceiveAgrees

\* A step of the parser keeps the invariant if it keeps the parser's part.
LEMMA ParserStepLemma ==
  ASSUME HciInv, NEW state, NEW n \in Nat, n >= 1, n <= left, Reads(state, n),
         ParserTypes', halted' \in Halts, halted' = "no" => ParserAgrees' /\ KeptAgrees'
  PROVE  HciInv'
<1>1. /\ IInv' /\ TypeOK' /\ MailTypes' /\ RunTypes' /\ SendTypes' /\ SendAgrees'
      /\ HeldAgrees' /\ RunAgrees' /\ MailsFit'
  BY ReadsLemma
<1>2. HciTypeOK'
  BY <1>1, TypePartsNextLemma
<1>3. QED
  BY <1>1, <1>2 DEF HciInv, ReceiveAgrees

\* Within a packet the packets kept stay the same.
LEMMA KeptStepLemma ==
  ASSUME KeptAgrees, Parsed \in Nat, Parsed' \in Nat, indicated' = indicated,
         NEW p \in Indices, NEW b \in Nat, NEW pre \in Nat, NEW n \in Nat, PlaceIs(p, b, pre, n),
         b <= Parsed + 1, Parsed <= Parsed', Parsed' <= b + pre + n,
         Parsed' < b + pre + n \/ Packets[p].type = "sco"
  PROVE  KeptAgrees'
<1>1. PICK kept \in SUBSET Indices : Kept(kept, indicated, Parsed)
  BY DEF KeptAgrees
<1>2. PICK upto, new \in Nat : upto = Parsed /\ new = Parsed'
  OBVIOUS
<1>3. /\ Begin[p] <= upto + 1 /\ upto <= new /\ new < Begin[p + 1]
      /\ (new + 1 < Begin[p + 1] \/ Packets[p].type = "sco")
  <2>1. PICK e \in Nat : e = Begin[p + 1] /\ e = b + 1 + pre + n /\ b = Begin[p]
    BY DEF PlaceIs
  <2>2. QED
    BY <1>2, <2>1
<1>4. Kept(kept, indicated, upto)
  BY <1>1, <1>2
<1>5. Kept(kept, indicated, new)
  BY <1>3, <1>4, KeptStaysLemma
<1>6. QED
  BY <1>2, <1>5 DEF KeptAgrees

LEMMA WholePacketLemma ==
  ASSUME NEW p \in Indices, NEW b \in Nat, NEW pre \in Nat, NEW n \in Nat, PlaceIs(p, b, pre, n),
         NEW upto \in Nat, b <= upto, upto < b + pre + n, NEW new, new = b + pre + n
  PROVE  /\ Begin[p] <= upto /\ upto + 1 < Begin[p + 1] /\ new = Begin[p + 1] - 1
         /\ Packet(p) = Run(b + 1, pre + n)
<1>1. PICK e \in Nat : e = Begin[p + 1] /\ e = b + 1 + pre + n /\ b = Begin[p]
  BY DEF PlaceIs
<1>2. b <= upto /\ upto + 1 < e /\ new = e - 1 /\ e - b - 1 = pre + n
  BY <1>1
<1>3. Packet(p) = Run(b + 1, e - b - 1)
  BY <1>1 DEF Packet
<1>4. QED
  BY <1>1, <1>2, <1>3

\* At the end of a packet that is given to the stack it is kept.
LEMMA KeptEndsLemma ==
  ASSUME KeptAgrees, Parsed \in Nat, indicated \in Seq(Seq(1..Last)), NEW x \in Seq(1..Last),
         indicated' = Append(indicated, x),
         NEW p \in Indices, NEW b \in Nat, NEW pre \in Nat, NEW n \in Nat, PlaceIs(p, b, pre, n),
         b <= Parsed, Parsed < b + pre + n, Parsed' = b + pre + n, x = Run(b + 1, pre + n)
  PROVE  KeptAgrees'
<1>1. PICK kept \in SUBSET Indices : Kept(kept, indicated, Parsed)
  BY DEF KeptAgrees
<1>2. PICK upto, new \in Nat : upto = Parsed /\ new = Parsed'
  OBVIOUS
<1>3. b <= upto /\ upto < b + pre + n /\ new = b + pre + n
  BY <1>2, Zenon
<1>4. /\ Begin[p] <= upto /\ upto + 1 < Begin[p + 1] /\ new = Begin[p + 1] - 1
      /\ Packet(p) = Run(b + 1, pre + n)
  BY <1>3, WholePacketLemma
<1>5. x = Packet(p)
  BY <1>4, Zenon
<1>6. Kept(kept, indicated, upto)
  BY <1>1, <1>2
<1>7. Kept(kept \cup {p}, Append(indicated, x), new)
  BY <1>4, <1>5, <1>6, KeptGrowsLemma
<1>8. kept \cup {p} \in SUBSET Indices
  OBVIOUS
<1>9. QED
  BY <1>2, <1>7, <1>8 DEF KeptAgrees

\* Where the parser is after a step, in numbers.
LEMMA PacketEndsLemma ==
  ASSUME NEW p \in Indices, NEW b \in Nat, NEW pre \in Nat, NEW n \in Nat, PlaceIs(p, b, pre, n),
         rcv_state' = "MSGTYPE", Parsed' = b + pre + n
  PROVE  ParserAgrees'
<1>1. Begin[p + 1] = b + 1 + pre + n
  BY DEF PlaceIs
<1>2. PICK q \in 1..(Len(Packets) + 1) : q = p + 1
  BY BeginLemma
<1>3. AtType(q)'
  BY <1>1, <1>2 DEF AtType
<1>4. QED
  BY <1>3 DEF ParserAgrees

LEMMA DataFollowLemma ==
  ASSUME NEW p \in Indices, NEW b \in Nat, NEW pre \in Nat, NEW n \in Nat, PlaceIs(p, b, pre, n),
         rcv_state' = "DATA", NEW r \in 1..n, rcv_len' = r, Parsed' = b + pre + n - r,
         p_buf' = Run(b + 1, pre + n - r)
  PROVE  ParserAgrees'
<1>1. PICK e \in Nat : e = Begin[p + 1] /\ e = b + 1 + pre + n /\ b = Begin[p] /\ n = Packets[p].len
  BY DEF PlaceIs
<1>2. Begin[p + 1] - Begin[p] - 1 - r = pre + n - r /\ Parsed' + 1 = Begin[p + 1] - r
  BY <1>1
<1>3. InData(p)'
  BY <1>1, <1>2 DEF InData
<1>4. QED
  BY <1>3 DEF ParserAgrees

LEMMA IgnoredFollowLemma ==
  ASSUME NEW p \in Indices, NEW b \in Nat, NEW pre \in Nat, NEW n \in Nat, PlaceIs(p, b, pre, n),
         rcv_state' = "IGNORE", NEW r \in 1..n, rcv_len' = r, Parsed' = b + pre + n - r,
         Packets[p].type = "sco"
  PROVE  ParserAgrees'
<1>1. PICK e \in Nat : e = Begin[p + 1] /\ e = b + 1 + pre + n /\ n = Packets[p].len
  BY DEF PlaceIs
<1>2. Parsed' + 1 = Begin[p + 1] - r
  BY <1>1
<1>3. InIgnored(p)'
  BY <1>1, <1>2 DEF InIgnored
<1>4. QED
  BY <1>3 DEF ParserAgrees

LEMMA PreambleFollowsLemma ==
  ASSUME NEW p \in Indices, NEW b \in Nat, NEW pre \in Nat, NEW n \in Nat, PlaceIs(p, b, pre, n),
         rcv_state' = "LEN", rcv_msg_type' = Packets[p].type, NEW r \in 1..pre, rcv_len' = r,
         Parsed' = b + pre - r, preload_buffer' = Run(b + 1, pre - r)
  PROVE  ParserAgrees'
<1>1. b = Begin[p] /\ pre = Pre(p)
  BY DEF PlaceIs
<1>2. InPreamble(p)'
  BY <1>1 DEF InPreamble, Pre
<1>3. QED
  BY <1>2 DEF ParserAgrees

\* Where the parser is before a step, in numbers.
LEMMA PreambleLemma ==
  ASSUME ParserAgrees, rcv_state = "LEN"
  PROVE  \E p \in Indices, b, pre, n, r \in Nat :
           /\ PlaceIs(p, b, pre, n) /\ rcv_msg_type = Packets[p].type /\ r \in 1..pre /\ rcv_len = r
           /\ Parsed = b + pre - r /\ preload_buffer = Run(b + 1, pre - r)
<1>1. PICK p \in Indices : InPreamble(p)
  BY DEF ParserAgrees
<1>2. PICK b, pre, n \in Nat : PlaceIs(p, b, pre, n)
  BY PlaceLemma
<1>3. b = Begin[p] /\ pre = Pre(p)
  BY <1>2 DEF PlaceIs
<1>4. PICK r \in Nat : r = rcv_len /\ r \in 1..pre
  BY <1>1, <1>3 DEF InPreamble
<1>5. /\ rcv_msg_type = Packets[p].type /\ Parsed = b + pre - r
      /\ preload_buffer = Run(b + 1, pre - r)
  BY <1>1, <1>3, <1>4 DEF InPreamble
<1>6. QED
  BY <1>2, <1>4, <1>5

LEMMA DataLemma ==
  ASSUME ParserAgrees, rcv_state = "DATA", Parsed \in Nat
  PROVE  \E p \in Indices, b, pre, n, r \in Nat :
           /\ PlaceIs(p, b, pre, n) /\ r \in 1..n /\ rcv_len = r
           /\ Parsed = b + pre + n - r /\ p_buf = Run(b + 1, pre + n - r)
<1>1. PICK p \in Indices : InData(p)
  BY DEF ParserAgrees
<1>2. PICK b, pre, n \in Nat : PlaceIs(p, b, pre, n)
  BY PlaceLemma
<1>3. PICK e \in Nat : e = Begin[p + 1] /\ e = b + 1 + pre + n /\ b = Begin[p] /\ n = Packets[p].len
  BY <1>2 DEF PlaceIs
<1>4. PICK r \in Nat : r = rcv_len /\ r \in 1..n
  BY <1>1, <1>3 DEF InData
<1>5. Parsed = b + pre + n - r
  <2>1. Parsed + 1 = e - r
    BY <1>1, <1>3, <1>4 DEF InData
  <2>2. QED
    BY <1>3, <2>1
<1>6. p_buf = Run(b + 1, pre + n - r)
  <2>1. p_buf = Run(b + 1, e - b - 1 - r)
    BY <1>1, <1>3, <1>4 DEF InData
  <2>2. e - b - 1 - r = pre + n - r
    BY <1>3
  <2>3. QED
    BY <2>1, <2>2
<1>7. QED
  BY <1>2, <1>4, <1>5, <1>6

LEMMA IgnoredLemma ==
  ASSUME ParserAgrees, rcv_state = "IGNORE", Parsed \in Nat
  PROVE  \E p \in Indices, b, pre, n, r \in Nat :
           /\ PlaceIs(p, b, pre, n) /\ r \in 1..n /\ rcv_len = r
           /\ Parsed = b + pre + n - r /\ Packets[p].type = "sco"
<1>1. PICK p \in Indices : InIgnored(p)
  BY DEF ParserAgrees
<1>2. PICK b, pre, n \in Nat : PlaceIs(p, b, pre, n)
  BY PlaceLemma
<1>3. PICK e \in Nat : e = Begin[p + 1] /\ e = b + 1 + pre + n /\ n = Packets[p].len
  BY <1>2 DEF PlaceIs
<1>4. PICK r \in Nat : r = rcv_len /\ r \in 1..n
  BY <1>1, <1>3 DEF InIgnored
<1>5. Parsed = b + pre + n - r
  <2>1. Parsed + 1 = e - r
    BY <1>1, <1>3, <1>4 DEF InIgnored
  <2>2. e \in Nat /\ r \in Nat /\ e = b + 1 + pre + n
    BY <1>3, <1>4
  <2>3. Parsed = e - r - 1
    BY <2>1, <2>2
  <2>4. e - r - 1 = b + pre + n - r
    BY <2>2
  <2>5. QED
    BY <2>3, <2>4
<1>6. QED
  BY <1>1, <1>2, <1>4, <1>5 DEF InIgnored
----------------------------------------------------------------------------
(* The steps of the parser.                                                  *)

LEMMA OneByteLemma ==
  ASSUME HciInv, NEW state, Reads(state, 1)
  PROVE  /\ halted = "no" /\ rcv_state = state /\ 1 <= left
         /\ ParserTypes /\ ParserAgrees /\ KeptAgrees /\ Parsed \in Nat /\ Parsed' \in Nat
         /\ Parsed' = Parsed + 1 /\ Parsed + 1 <= Last /\ Last \in Nat /\ Byte = Parsed + 1
<1>1. halted = "no" /\ rcv_state = state /\ left > 0
  BY DEF Reads
<1>2. left \in Nat /\ cell \in Nat /\ 1 <= left
  <2>1. left \in 0..Size /\ cell \in 0..Size /\ Size \in Nat
    BY TypePartsLemma, SizeAssumption DEF HciInv, RunTypes
  <2>2. QED
    BY <1>1, <2>1
<1>3. /\ ParserTypes /\ ParserAgrees /\ KeptAgrees
      /\ Parsed \in Nat /\ Parsed' = Parsed + 1 /\ Parsed + 1 <= Last /\ Last \in Nat
      /\ \A k \in 1..1 : base[cell + k - 1] = Parsed + k
  BY <1>2, ReadsLemma
<1>4. Byte = Parsed + 1
  <2>1. base[cell + 1 - 1] = Parsed + 1 /\ cell + 1 - 1 = cell
    BY <1>2, <1>3
  <2>2. QED
    BY <2>1 DEF Byte
<1>5. QED
  BY <1>1, <1>2, <1>3, <1>4

LEMMA MsgTypeLemma == HciInv /\ MsgType => HciInv'
<1>1. SUFFICES ASSUME HciInv, MsgType PROVE HciInv'
  OBVIOUS
<1>2. Reads("MSGTYPE", 1)
  BY <1>1 DEF MsgType
<1>3. /\ halted = "no" /\ rcv_state = "MSGTYPE" /\ 1 <= left
      /\ ParserTypes /\ ParserAgrees /\ KeptAgrees /\ Parsed \in Nat /\ Parsed' \in Nat
      /\ Parsed' = Parsed + 1 /\ Parsed + 1 <= Last /\ Last \in Nat /\ Byte = Parsed + 1
  BY <1>1, <1>2, OneByteLemma
<1>4. PICK p \in Indices : Parsed + 1 = Begin[p]
  <2>1. PICK p \in 1..(Len(Packets) + 1) : AtType(p)
    BY <1>3 DEF ParserAgrees
  <2>2. Begin[Len(Packets) + 1] \in Nat /\ Last = Begin[Len(Packets) + 1] - 1
    <3>1. Len(Packets) + 1 \in 1..(Len(Packets) + 1)
      BY PacketsLemma
    <3>2. QED
      BY <3>1, BorderLemma DEF Last
  <2>3. p # Len(Packets) + 1
    BY <1>3, <2>1, <2>2 DEF AtType
  <2>4. p \in Indices
    BY <2>3, PacketsLemma DEF Indices
  <2>5. QED
    BY <2>1, <2>4 DEF AtType
<1>5. PICK b, pre, n \in Nat : PlaceIs(p, b, pre, n)
  BY PlaceLemma
<1>6. /\ b = Begin[p] /\ pre = Pre(p) /\ pre >= 1 /\ b + pre + n <= Last
      /\ Packets[p].type \in Types /\ pre = Preamble[Packets[p].type]
      /\ \A byte \in b..(b + pre + n) : PacketOf(byte) = p
  BY <1>5 DEF PlaceIs, Pre
<1>7. Byte = b /\ PacketOf(Byte) = p /\ Parsed' = b /\ b = Parsed + 1
  BY <1>3, <1>4, <1>6
<1>8. /\ rcv_msg_type' = Packets[p].type /\ rcv_len' = Preamble[rcv_msg_type'] /\ preload_buffer' = <<>>
      /\ rcv_state' = "LEN" /\ p_buf' = p_buf /\ indicated' = indicated /\ halted' = halted
  BY <1>1, <1>6, <1>7 DEF MsgType
<1>9. rcv_len' = pre
  BY <1>6, <1>8
<1>10. ParserTypes'
  BY <1>3, <1>6, <1>8, <1>9 DEF ParserTypes
<1>11. ParserAgrees'
  <2>1. preload_buffer' = Run(b + 1, pre - pre)
    <3>1. Run(b + 1, 0) = <<>>
      BY DEF Run
    <3>2. QED
      BY <1>8, <3>1
  <2>2. Parsed' = b + pre - pre /\ pre \in 1..pre
    BY <1>6, <1>7
  <2>3. QED
    BY <1>5, <1>8, <1>9, <2>1, <2>2, PreambleFollowsLemma
<1>12. KeptAgrees'
  <2>1. b <= Parsed + 1 /\ Parsed <= Parsed' /\ Parsed' <= b + pre + n /\ Parsed' < b + pre + n
    BY <1>3, <1>6, <1>7
  <2>2. QED
    BY <1>3, <1>5, <1>8, <2>1, KeptStepLemma
<1>13. halted' \in Halts
  BY <1>3, <1>8 DEF Halts
<1>14. QED
  BY <1>1, <1>2, <1>3, <1>10, <1>11, <1>12, <1>13, ParserStepLemma

\* A byte of the preamble.
LEMMA PreambleByteLemma ==
  ASSUME HciInv, Reads("LEN", 1), preload_buffer' = Append(preload_buffer, Byte)
  PROVE  \E p \in Indices, b, pre, n, r \in Nat :
           /\ PlaceIs(p, b, pre, n) /\ rcv_msg_type = Packets[p].type /\ r \in 1..pre /\ rcv_len = r
           /\ Parsed = b + pre - r /\ Byte = b + pre - r + 1 /\ Parsed' = b + pre - r + 1
           /\ preload_buffer' = Run(b + 1, pre - r + 1) /\ preload_buffer' \in Seq(1..Last)
<1>1. /\ rcv_state = "LEN" /\ ParserAgrees /\ Parsed \in Nat
      /\ Parsed' = Parsed + 1 /\ Parsed + 1 <= Last /\ Last \in Nat /\ Byte = Parsed + 1
  BY OneByteLemma
<1>2. PICK p \in Indices, b, pre, n, r \in Nat :
        /\ PlaceIs(p, b, pre, n) /\ rcv_msg_type = Packets[p].type /\ r \in 1..pre /\ rcv_len = r
        /\ Parsed = b + pre - r /\ preload_buffer = Run(b + 1, pre - r)
  BY <1>1, PreambleLemma
<1>3. PICK first \in Nat : first = b + 1
  OBVIOUS
<1>4. PICK d \in Nat : d = pre - r
  BY <1>2
<1>5. PICK byte : byte = Byte
  OBVIOUS
<1>6. byte = first + d /\ Parsed' = b + pre - r + 1 /\ Byte = b + pre - r + 1
  BY <1>1, <1>2, <1>3, <1>4, <1>5
<1>7. Append(Run(first, d), byte) = Run(first, d + 1)
  BY <1>6, RunAppendLemma
<1>8. preload_buffer' = Run(b + 1, pre - r + 1)
  BY <1>2, <1>3, <1>4, <1>5, <1>7
<1>9. Run(b + 1, pre - r + 1) \in Seq(1..Last)
  <2>1. PICK k \in Nat : k = pre - r + 1
    BY <1>4
  <2>2. first + k <= Last + 1 /\ first \in Nat \ {0}
    <3>1. b + pre + n <= Last
      BY <1>2 DEF PlaceIs
    <3>2. QED
      BY <1>1, <1>2, <1>3, <2>1, <3>1
  <2>3. Run(first, k) \in Seq(1..Last)
    BY <1>1, <2>2, RunTypeLemma
  <2>4. QED
    BY <1>3, <2>1, <2>3
<1>10. QED
  BY <1>2, <1>6, <1>8, <1>9

LEMMA PreloadLemma == HciInv /\ Preload => HciInv'
<1>1. SUFFICES ASSUME HciInv, Preload PROVE HciInv'
  OBVIOUS
<1>2. /\ Reads("LEN", 1) /\ rcv_len > 1 /\ preload_buffer' = Append(preload_buffer, Byte)
      /\ rcv_len' = rcv_len - 1 /\ rcv_state' = rcv_state /\ rcv_msg_type' = rcv_msg_type
      /\ p_buf' = p_buf /\ indicated' = indicated /\ halted' = halted
  BY <1>1 DEF Preload
<1>3. /\ halted = "no" /\ rcv_state = "LEN" /\ 1 <= left
      /\ ParserTypes /\ ParserAgrees /\ KeptAgrees /\ Parsed \in Nat /\ Parsed' \in Nat
      /\ Parsed' = Parsed + 1 /\ Last \in Nat
  BY <1>1, <1>2, OneByteLemma
<1>4. PICK p \in Indices, b, pre, n, r \in Nat :
        /\ PlaceIs(p, b, pre, n) /\ rcv_msg_type = Packets[p].type /\ r \in 1..pre /\ rcv_len = r
        /\ Parsed = b + pre - r /\ Byte = b + pre - r + 1 /\ Parsed' = b + pre - r + 1
        /\ preload_buffer' = Run(b + 1, pre - r + 1) /\ preload_buffer' \in Seq(1..Last)
  BY <1>1, <1>2, PreambleByteLemma
<1>5. PICK q \in 1..pre : q = r - 1 /\ pre - q = pre - r + 1 /\ b + pre - q = b + pre - r + 1
  <2>1. r - 1 \in 1..pre /\ pre - (r - 1) = pre - r + 1 /\ b + pre - (r - 1) = b + pre - r + 1
    BY <1>2, <1>4
  <2>2. QED
    BY <2>1
<1>6. ParserTypes'
  <2>1. rcv_len' \in Nat
    BY <1>2, <1>4
  <2>2. QED
    BY <1>2, <1>3, <1>4, <2>1 DEF ParserTypes
<1>7. ParserAgrees'
  <2>1. rcv_state' = "LEN" /\ rcv_msg_type' = Packets[p].type /\ rcv_len' = q
    BY <1>2, <1>3, <1>4, <1>5
  <2>2. Parsed' = b + pre - q /\ preload_buffer' = Run(b + 1, pre - q)
    BY <1>4, <1>5
  <2>3. QED
    BY <1>4, <2>1, <2>2, PreambleFollowsLemma
<1>8. KeptAgrees'
  <2>1. b <= Parsed + 1 /\ Parsed <= Parsed' /\ Parsed' <= b + pre + n /\ Parsed' < b + pre + n
    BY <1>2, <1>4
  <2>2. QED
    BY <1>2, <1>3, <1>4, <2>1, KeptStepLemma
<1>9. halted' \in Halts
  BY <1>2, <1>3 DEF Halts
<1>10. QED
  BY <1>1, <1>2, <1>3, <1>6, <1>7, <1>8, <1>9, ParserStepLemma

\* The last byte of the preamble.
LEMMA LastPreambleByteLemma ==
  ASSUME HciInv, Reads("LEN", 1), rcv_len = 1, preload_buffer' = Append(preload_buffer, Byte)
  PROVE  \E p \in Indices, b, pre, n \in Nat :
           /\ PlaceIs(p, b, pre, n) /\ rcv_msg_type = Packets[p].type /\ pre >= 1
           /\ Parsed = b + pre - 1 /\ Parsed' = b + pre
           /\ PacketOf(Byte) = p /\ Packets[PacketOf(Byte)].len = n /\ b + pre + n <= Last
           /\ preload_buffer' = Run(b + 1, pre) /\ preload_buffer' \in Seq(1..Last)
<1>1. PICK p \in Indices, b, pre, n, r \in Nat :
        /\ PlaceIs(p, b, pre, n) /\ rcv_msg_type = Packets[p].type /\ r \in 1..pre /\ rcv_len = r
        /\ Parsed = b + pre - r /\ Byte = b + pre - r + 1 /\ Parsed' = b + pre - r + 1
        /\ preload_buffer' = Run(b + 1, pre - r + 1) /\ preload_buffer' \in Seq(1..Last)
  BY PreambleByteLemma
<1>2. r = 1 /\ pre >= 1 /\ b + pre - r + 1 = b + pre /\ pre - r + 1 = pre
  <2>1. r = 1
    BY <1>1
  <2>2. QED
    BY <1>1, <2>1
<1>3. n = Packets[p].len /\ b + pre + n <= Last /\ \A byte \in b..(b + pre + n) : PacketOf(byte) = p
  BY <1>1 DEF PlaceIs
<1>4. Byte = b + pre /\ b + pre \in b..(b + pre + n)
  BY <1>1, <1>2
<1>5. PacketOf(Byte) = p
  BY <1>3, <1>4
<1>6. QED
  BY <1>1, <1>2, <1>3, <1>5

LEMMA BufferLemma == HciInv /\ Buffer => HciInv'
<1>1. SUFFICES ASSUME HciInv, Buffer PROVE HciInv'
  OBVIOUS
<1>2. /\ Reads("LEN", 1) /\ rcv_len = 1 /\ preload_buffer' = Append(preload_buffer, Byte)
      /\ p_buf' = preload_buffer' /\ rcv_msg_type' = rcv_msg_type /\ halted' = halted
  BY <1>1 DEF Buffer
<1>3. /\ halted = "no" /\ 1 <= left
      /\ ParserTypes /\ ParserAgrees /\ KeptAgrees /\ Parsed \in Nat /\ Parsed' \in Nat /\ Last \in Nat
  BY <1>1, <1>2, OneByteLemma
<1>4. PICK p \in Indices, b, pre, n \in Nat :
        /\ PlaceIs(p, b, pre, n) /\ rcv_msg_type = Packets[p].type /\ pre >= 1
        /\ Parsed = b + pre - 1 /\ Parsed' = b + pre
        /\ PacketOf(Byte) = p /\ Packets[PacketOf(Byte)].len = n /\ b + pre + n <= Last
        /\ preload_buffer' = Run(b + 1, pre) /\ preload_buffer' \in Seq(1..Last)
  BY <1>1, <1>2, LastPreambleByteLemma
<1>5. /\ rcv_len' = n /\ rcv_state' = (IF n > 0 THEN "DATA" ELSE "MSGTYPE")
      /\ indicated' = IF n = 0 THEN Append(indicated, p_buf') ELSE indicated
  BY <1>1, <1>4 DEF Buffer, Until
<1>6. PICK x \in Seq(1..Last) : x = p_buf' /\ x = Run(b + 1, pre)
  BY <1>2, <1>4
<1>7. indicated \in Seq(Seq(1..Last))
  BY <1>3 DEF ParserTypes
<1>8. ParserTypes'
  <2>1. indicated' \in Seq(Seq(1..Last))
    <3>1. Append(indicated, x) \in Seq(Seq(1..Last))
      BY <1>7, AppendLemma
    <3>2. QED
      BY <1>5, <1>6, <1>7, <3>1
  <2>2. rcv_state' \in {"MSGTYPE", "LEN", "DATA", "IGNORE"} /\ rcv_len' \in Nat
    BY <1>5
  <2>3. p_buf' \in Seq(1..Last) /\ preload_buffer' \in Seq(1..Last) /\ rcv_msg_type' \in Types
    BY <1>2, <1>3, <1>4 DEF ParserTypes
  <2>4. QED
    BY <2>1, <2>2, <2>3 DEF ParserTypes
<1>9. ASSUME n = 0 PROVE ParserAgrees' /\ KeptAgrees'
  <2>1. rcv_state' = "MSGTYPE" /\ indicated' = Append(indicated, x)
    BY <1>5, <1>6, <1>9
  <2>2. /\ Parsed' = b + pre + n /\ b <= Parsed /\ Parsed < b + pre + n /\ pre + n = pre
    BY <1>4, <1>9
  <2>3. x = Run(b + 1, pre + n)
    BY <1>6, <2>2
  <2>4. ParserAgrees'
    BY <1>4, <2>1, <2>2, PacketEndsLemma
  <2>5. KeptAgrees'
    BY <1>3, <1>4, <1>7, <2>1, <2>2, <2>3, KeptEndsLemma
  <2>6. QED
    BY <2>4, <2>5
<1>10. ASSUME n # 0 PROVE ParserAgrees' /\ KeptAgrees'
  <2>1. rcv_state' = "DATA" /\ indicated' = indicated /\ n \in 1..n /\ rcv_len' = n
    BY <1>5, <1>10
  <2>2. Parsed' = b + pre + n - n /\ pre + n - n = pre
    BY <1>4
  <2>3. p_buf' = Run(b + 1, pre + n - n)
    BY <1>6, <2>2
  <2>4. ParserAgrees'
    BY <1>4, <2>1, <2>2, <2>3, DataFollowLemma
  <2>5. b <= Parsed + 1 /\ Parsed <= Parsed' /\ Parsed' <= b + pre + n /\ Parsed' < b + pre + n
    BY <1>4, <1>10
  <2>6. KeptAgrees'
    BY <1>3, <1>4, <2>1, <2>5, KeptStepLemma
  <2>7. QED
    BY <2>4, <2>6
<1>11. halted' \in Halts
  BY <1>2, <1>3 DEF Halts
<1>12. ParserAgrees' /\ KeptAgrees'
  BY <1>9, <1>10
<1>13. QED
  BY <1>1, <1>2, <1>3, <1>8, <1>11, <1>12, ParserStepLemma

LEMMA NoBufferLemma == HciInv /\ NoBuffer => HciInv'
<1>1. SUFFICES ASSUME HciInv, NoBuffer PROVE HciInv'
  OBVIOUS
<1>2. /\ Reads("LEN", 1) /\ rcv_len = 1 /\ preload_buffer' = Append(preload_buffer, Byte)
      /\ halted' = (IF rcv_msg_type = "sco" THEN "no" ELSE "NO BUFF")
      /\ rcv_msg_type' = rcv_msg_type /\ p_buf' = p_buf /\ indicated' = indicated
  BY <1>1 DEF NoBuffer
<1>3. /\ halted = "no" /\ 1 <= left
      /\ ParserTypes /\ ParserAgrees /\ KeptAgrees /\ Parsed \in Nat /\ Parsed' \in Nat /\ Last \in Nat
  BY <1>1, <1>2, OneByteLemma
<1>4. PICK p \in Indices, b, pre, n \in Nat :
        /\ PlaceIs(p, b, pre, n) /\ rcv_msg_type = Packets[p].type /\ pre >= 1
        /\ Parsed = b + pre - 1 /\ Parsed' = b + pre
        /\ PacketOf(Byte) = p /\ Packets[PacketOf(Byte)].len = n /\ b + pre + n <= Last
        /\ preload_buffer' = Run(b + 1, pre) /\ preload_buffer' \in Seq(1..Last)
  BY <1>1, <1>2, LastPreambleByteLemma
<1>5. rcv_len' = n /\ rcv_state' = (IF n > 0 THEN "IGNORE" ELSE "MSGTYPE")
  BY <1>1, <1>4 DEF NoBuffer, Until
<1>6. ParserTypes'
  <2>1. rcv_state' \in {"MSGTYPE", "LEN", "DATA", "IGNORE"} /\ rcv_len' \in Nat
    BY <1>5
  <2>2. QED
    BY <1>2, <1>3, <1>4, <2>1 DEF ParserTypes
<1>7. halted' \in Halts
  BY <1>2 DEF Halts
<1>8. ASSUME halted' = "no" PROVE ParserAgrees' /\ KeptAgrees'
  <2>1. Packets[p].type = "sco"
    BY <1>2, <1>4, <1>8
  <2>2. b <= Parsed + 1 /\ Parsed <= Parsed' /\ Parsed' <= b + pre + n
    BY <1>4
  <2>3. KeptAgrees'
    BY <1>2, <1>3, <1>4, <2>1, <2>2, KeptStepLemma
  <2>4. CASE n = 0
    <3>1. rcv_state' = "MSGTYPE" /\ Parsed' = b + pre + n
      BY <1>4, <1>5, <2>4
    <3>2. QED
      BY <1>4, <2>3, <3>1, PacketEndsLemma
  <2>5. CASE n # 0
    <3>1. rcv_state' = "IGNORE" /\ n \in 1..n /\ rcv_len' = n /\ Parsed' = b + pre + n - n
      BY <1>4, <1>5, <2>5
    <3>2. QED
      BY <1>4, <2>1, <2>3, <3>1, IgnoredFollowLemma
  <2>6. QED
    BY <2>4, <2>5
<1>9. halted' = "no" => ParserAgrees' /\ KeptAgrees'
  BY <1>8
<1>10. 1 \in Nat /\ 1 >= 1
  OBVIOUS
<1>11. QED
  BY <1>1, <1>2, <1>3, <1>6, <1>7, <1>9, <1>10, ParserStepLemma, Zenon

LEMMA IgnoreLemma == HciInv /\ Ignore => HciInv'
<1>1. SUFFICES ASSUME HciInv, Ignore PROVE HciInv'
  OBVIOUS
<1>2. /\ Reads("IGNORE", 1) /\ rcv_msg_type' = rcv_msg_type /\ preload_buffer' = preload_buffer
      /\ p_buf' = p_buf /\ indicated' = indicated /\ halted' = halted
      /\ rcv_len' = rcv_len - 1 /\ rcv_state' = (IF rcv_len - 1 > 0 THEN "IGNORE" ELSE "MSGTYPE")
  BY <1>1 DEF Ignore, Until
<1>3. /\ halted = "no" /\ rcv_state = "IGNORE" /\ 1 <= left
      /\ ParserTypes /\ ParserAgrees /\ KeptAgrees /\ Parsed \in Nat /\ Parsed' \in Nat
      /\ Parsed' = Parsed + 1 /\ Last \in Nat
  BY <1>1, <1>2, OneByteLemma
<1>4. PICK p \in Indices, b, pre, n, r \in Nat :
        /\ PlaceIs(p, b, pre, n) /\ r \in 1..n /\ rcv_len = r
        /\ Parsed = b + pre + n - r /\ Packets[p].type = "sco"
  BY <1>3, IgnoredLemma
<1>5. ParserTypes'
  <2>1. rcv_state' \in {"MSGTYPE", "LEN", "DATA", "IGNORE"} /\ rcv_len' \in Nat
    BY <1>2, <1>4
  <2>2. QED
    BY <1>2, <1>3, <2>1 DEF ParserTypes
<1>6. halted' \in Halts
  BY <1>2, <1>3 DEF Halts
<1>7. KeptAgrees'
  <2>1. b <= Parsed + 1 /\ Parsed <= Parsed' /\ Parsed' <= b + pre + n
    BY <1>3, <1>4
  <2>2. QED
    BY <1>2, <1>3, <1>4, <2>1, KeptStepLemma
<1>8. CASE r = 1
  <2>1. rcv_state' = "MSGTYPE" /\ Parsed' = b + pre + n
    BY <1>2, <1>3, <1>4, <1>8
  <2>2. ParserAgrees'
    BY <1>4, <2>1, PacketEndsLemma
  <2>3. QED
    BY <1>1, <1>2, <1>3, <1>5, <1>6, <1>7, <2>2, ParserStepLemma
<1>9. CASE r # 1
  <2>1. PICK q \in 1..n : q = r - 1 /\ q > 0
    BY <1>4, <1>9
  <2>2. rcv_state' = "IGNORE" /\ rcv_len' = q /\ Parsed' = b + pre + n - q
    BY <1>2, <1>3, <1>4, <2>1
  <2>3. ParserAgrees'
    BY <1>4, <2>2, IgnoredFollowLemma
  <2>4. QED
    BY <1>1, <1>2, <1>3, <1>5, <1>6, <1>7, <2>3, ParserStepLemma
<1>10. QED
  BY <1>8, <1>9

CellsRead(m) == [i \in 1..m |-> base[cell + i - 1]]

\* The data that a step reads, behind those read before.
LEMMA DataReadLemma ==
  ASSUME NEW first \in Nat \ {0}, NEW d \in Nat, NEW m \in Nat, NEW upto \in Nat, upto + 1 = first + d,
         first + d + m <= Last + 1, \A i \in 1..m : base[cell + i - 1] = upto + i
  PROVE  Run(first, d) \o CellsRead(m) = Run(first, d + m) /\ Run(first, d + m) \in Seq(1..Last)
<1>1. PICK next \in Nat : next = first + d
  OBVIOUS
<1>2. CellsRead(m) = Run(next, m)
  <2>1. \A i \in 1..m : base[cell + i - 1] = next + i - 1
    BY <1>1
  <2>2. QED
    BY <2>1 DEF Run, CellsRead
<1>3. PICK k \in Nat : k = d + m
  OBVIOUS
<1>4. first + k <= Last + 1
  BY <1>3
<1>5. Run(first, k) \in Seq(1..Last)
  BY <1>4, ItemsLemma, RunTypeLemma
<1>6. Run(first, d) \o Run(next, m) = Run(first, d + m)
  <2>1. first \in Nat /\ d \in Nat /\ m \in Nat /\ next = first + d
    BY <1>1
  <2>2. Joined(first, d, next, m)
    BY <2>1, RunConcatLemma
  <2>3. QED
    BY <2>2 DEF Joined
<1>7. QED
  BY <1>2, <1>3, <1>5, <1>6

LEMMA DataStepLemma == HciInv /\ Data => HciInv'
<1>1. SUFFICES ASSUME HciInv, Data PROVE HciInv'
  OBVIOUS
<1>2. PICK m : m = IF left < rcv_len THEN left ELSE rcv_len
  OBVIOUS
<1>4. /\ Reads("DATA", m) /\ p_buf' = p_buf \o CellsRead(m)
      /\ rcv_len' = rcv_len - m /\ rcv_state' = (IF rcv_len - m > 0 THEN "DATA" ELSE "MSGTYPE")
      /\ indicated' = (IF m = rcv_len THEN Append(indicated, p_buf') ELSE indicated)
      /\ rcv_msg_type' = rcv_msg_type /\ preload_buffer' = preload_buffer /\ halted' = halted
  BY <1>1, <1>2 DEF Data, Until, CellsRead
<1>5. /\ halted = "no" /\ rcv_state = "DATA" /\ left > 0 /\ left \in Nat /\ ParserTypes /\ rcv_len \in Nat
      /\ at # "get" /\ ParserAgrees
  <2>1. halted = "no" /\ rcv_state = "DATA" /\ left > 0 /\ at # "get"
    BY <1>4 DEF Reads
  <2>2. left \in 0..Size /\ Size \in Nat /\ ParserTypes /\ rcv_len \in Nat
    BY <1>1, TypePartsLemma, SizeAssumption DEF HciInv, RunTypes, ParserTypes
  <2>3. ParserAgrees
    BY <1>1, <2>1 DEF HciInv, ReceiveAgrees
  <2>4. QED
    BY <2>1, <2>2, <2>3
<1>6. rcv_len # 0
  BY <1>5 DEF ParserAgrees, InData
<1>7. m \in Nat /\ m >= 1 /\ m <= left /\ m <= rcv_len
  BY <1>2, <1>5, <1>6
<1>8. /\ KeptAgrees /\ Parsed \in Nat /\ Parsed' \in Nat /\ Parsed' = Parsed + m /\ Last \in Nat
      /\ \A k \in 1..m : base[cell + k - 1] = Parsed + k
  <2>1. /\ KeptAgrees /\ Parsed \in Nat /\ Parsed' = Parsed + m /\ Last \in Nat
        /\ \A k \in 1..m : base[cell + k - 1] = Parsed + k
    BY <1>1, <1>4, <1>7, ReadsLemma
  <2>2. QED
    BY <1>7, <2>1
<1>9. PICK p \in Indices, b, pre, n, r \in Nat :
        /\ PlaceIs(p, b, pre, n) /\ r \in 1..n /\ rcv_len = r
        /\ Parsed = b + pre + n - r /\ p_buf = Run(b + 1, pre + n - r)
  BY <1>5, <1>8, DataLemma
<1>10. b >= 1 /\ pre >= 1 /\ b + pre + n <= Last
  BY <1>9 DEF PlaceIs
<1>11. PICK first \in Nat \ {0}, d, upto \in Nat :
         first = b + 1 /\ d = pre + n - r /\ upto = Parsed /\ upto + 1 = first + d /\ first + d + m <= Last + 1
  <2>1. pre + n - r \in Nat /\ Parsed + 1 = (b + 1) + (pre + n - r) /\ (b + 1) + (pre + n - r) + m <= Last + 1
    BY <1>7, <1>8, <1>9, <1>10
  <2>2. b + 1 \in Nat \ {0}
    OBVIOUS
  <2>3. QED
    BY <1>8, <2>1, <2>2
<1>12. PICK x \in Seq(1..Last) : x = p_buf' /\ x = Run(first, d + m)
  <2>1. \A i \in 1..m : base[cell + i - 1] = upto + i
    BY <1>8, <1>11
  <2>2. first \in Nat \ {0} /\ d \in Nat /\ m \in Nat /\ upto \in Nat /\ upto + 1 = first + d
        /\ first + d + m <= Last + 1
    BY <1>7, <1>11
  <2>3. Run(first, d) \o CellsRead(m) = Run(first, d + m) /\ Run(first, d + m) \in Seq(1..Last)
    BY <2>1, <2>2, DataReadLemma
  <2>4. QED
    BY <1>4, <1>9, <1>11, <2>3
<1>13. indicated \in Seq(Seq(1..Last))
  BY <1>5 DEF ParserTypes
<1>14. ParserTypes'
  <2>1. indicated' \in Seq(Seq(1..Last))
    <3>1. Append(indicated, x) \in Seq(Seq(1..Last))
      BY <1>13, AppendLemma
    <3>2. QED
      BY <1>4, <1>12, <1>13, <3>1
  <2>2. rcv_state' \in {"MSGTYPE", "LEN", "DATA", "IGNORE"} /\ rcv_len' \in Nat
    BY <1>4, <1>5, <1>7
  <2>3. p_buf' \in Seq(1..Last) /\ preload_buffer' \in Seq(1..Last) /\ rcv_msg_type' \in Types
    BY <1>4, <1>5, <1>12 DEF ParserTypes
  <2>4. QED
    BY <2>1, <2>2, <2>3 DEF ParserTypes
<1>15. ASSUME m = r PROVE ParserAgrees' /\ KeptAgrees'
  <2>1. rcv_state' = "MSGTYPE" /\ indicated' = Append(indicated, x)
    <3>1. m = rcv_len /\ ~(rcv_len - m > 0)
      BY <1>7, <1>9, <1>15
    <3>2. QED
      BY <1>4, <1>12, <3>1
  <2>2. Parsed' = b + pre + n /\ b <= Parsed /\ Parsed < b + pre + n /\ d + m = pre + n
    BY <1>8, <1>9, <1>10, <1>11, <1>15
  <2>3. x = Run(b + 1, pre + n)
    BY <1>11, <1>12, <2>2
  <2>4. ParserAgrees'
    BY <1>9, <2>1, <2>2, PacketEndsLemma
  <2>5. KeptAgrees'
    BY <1>8, <1>9, <1>13, <2>1, <2>2, <2>3, KeptEndsLemma
  <2>6. QED
    BY <2>4, <2>5
<1>16. ASSUME m # r PROVE ParserAgrees' /\ KeptAgrees'
  <2>1. PICK q \in 1..n : q = r - m
    BY <1>7, <1>9, <1>16
  <2>2. rcv_state' = "DATA" /\ rcv_len' = q /\ indicated' = indicated
    BY <1>4, <1>9, <1>16, <2>1
  <2>3. Parsed' = b + pre + n - q /\ d + m = pre + n - q
    BY <1>7, <1>8, <1>9, <1>11, <2>1
  <2>4. p_buf' = Run(b + 1, pre + n - q)
    BY <1>11, <1>12, <2>3
  <2>5. ParserAgrees'
    BY <1>9, <2>2, <2>3, <2>4, DataFollowLemma
  <2>6. b <= Parsed + 1 /\ Parsed <= Parsed' /\ Parsed' <= b + pre + n /\ Parsed' < b + pre + n
    <3>1. b + pre + n - r <= b + pre + n - q /\ b <= b + pre + n - r + 1 /\ b + pre + n - q < b + pre + n
      BY <1>7, <1>9, <2>1
    <3>2. b + pre + n - q <= b + pre + n
      BY <2>1
    <3>3. QED
      BY <1>9, <2>3, <3>1, <3>2
  <2>7. KeptAgrees'
    BY <1>8, <1>9, <2>2, <2>6, KeptStepLemma
  <2>8. QED
    BY <2>5, <2>7
<1>17. halted' \in Halts
  BY <1>4, <1>5 DEF Halts
<1>18. ParserAgrees' /\ KeptAgrees'
  BY <1>15, <1>16
<1>19. QED
  BY <1>1, <1>4, <1>7, <1>14, <1>17, <1>18, ParserStepLemma
----------------------------------------------------------------------------
LEMMA HciStepLemma == HciInv /\ [HciNext]_hciVars => HciInv'
<1>1. SUFFICES ASSUME HciInv, [HciNext]_hciVars PROVE HciInv'
  OBVIOUS
<1>2. CASE HciNext
  BY <1>1, <1>2, BtRxLemma, GetLemma, RunEndsLemma, MsgTypeLemma, PreloadLemma, BufferLemma, NoBufferLemma,
     DataStepLemma, IgnoreLemma, SendStepsLemma
     DEF HciNext, intersys_rx_thread, hci_h4_receive_msg
<1>3. CASE UNCHANGED hciVars
  <2>1. UNCHANGED rxVars /\ UNCHANGED tx
    BY <1>3 DEF hciVars, rxVars
  <2>2. /\ IInv' /\ TypeOK' /\ MailTypes' /\ RunTypes' /\ ParserTypes' /\ halted' = halted
        /\ halted \in Halts /\ (halted = "no" => ReceiveAgrees')
    BY <1>1, <2>1, ReceiveKeptLemma
  <2>3. SendTypes' /\ SendAgrees'
    BY <1>1, <2>1, TypePartsLemma DEF HciInv, SendTypes, SendAgrees, tx
  <2>4. QED
    BY <2>2, <2>3, TypePartsNextLemma DEF HciInv
<1>4. QED
  BY <1>1, <1>2, <1>3

\* Every variable of intersyshci.c keeps its type, whatever the peer sends and
\* however it cuts it: in particular no number of bytes read, left or wanted
\* leaves the buffer of the queue.
THEOREM HciTypeTheorem == HciSpec => []HciTypeOK
<1>1. HciInv => HciTypeOK
  BY DEF HciInv
<1>2. QED
  BY <1>1, HciInitLemma, HciStepLemma, PTL DEF HciSpec

\* The stack is given the peer's packets, each whole and in order, but for
\* packets of voice without a buffer (hci_h4_receive_msg), unless the firmware
\* stopped for want of room in the queue or of a buffer; and the peer reads
\* each packet of the stack once and in order (IAHCI_SendData).
THEOREM PacketsTheorem == HciSpec => []PacketsWhole
<1>1. HciInv => PacketsWhole
  <2>1. SUFFICES ASSUME HciInv PROVE PacketsWhole
    OBVIOUS
  <2>2. halted \in {"no", "intersys_rx_queue overflow", "NO BUFF"} /\ told = Run(1, Len(told))
    BY <2>1 DEF HciInv, Halts, SendAgrees
  <2>3. ASSUME halted = "no"
        PROVE  \E kept \in SUBSET Indices : Kept(kept, indicated, Parsed)
    BY <2>1, <2>3 DEF HciInv, ReceiveAgrees, KeptAgrees
  <2>4. QED
    BY <2>2, <2>3 DEF PacketsWhole, Kept
<1>2. QED
  BY <1>1, HciInitLemma, HciStepLemma, PTL DEF HciSpec
=============================================================================
