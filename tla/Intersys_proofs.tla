-------------------------- MODULE Intersys_proofs --------------------------
(* The channel's lists, flags and records agree, and each direction is a     *)
(* reliable link, for any number of records, messages and lists.             *)
EXTENDS Intersys, TLAPS

Messages(d, list) == [i \in 1..Len(list) |-> d[list[i]]]

\* The list that is out is with the peer or answered, in one of three ways, and
\* nothing waits behind an empty list.
ListsAgree ==
  /\ send_msg_list = <<>> => send_pending_list = <<>> /\ ~peer_ind /\ peer_at = 0 /\ ~tx_done
  /\ send_msg_list # <<>> => \/ peer_ind /\ peer_at = 0 /\ ~tx_done
                             \/ ~peer_ind /\ peer_at > 0 /\ ~tx_done
                             \/ ~peer_ind /\ peer_at = 0 /\ tx_done
  /\ ~chan_opened => send_msg_list = <<>>
  /\ chan_busy <=> send_msg_list # <<>>

\* A record in a list is taken, is in one list only, and holds a message.
RecordsInUse ==
  /\ \A i \in 1..Len(send_msg_list) : in_use[send_msg_list[i]] /\ data[send_msg_list[i]] # 0
  /\ \A i \in 1..Len(send_pending_list) : in_use[send_pending_list[i]] /\ data[send_pending_list[i]] # 0
  /\ \A i \in 1..Len(send_msg_list), j \in 1..Len(send_pending_list) :
       send_msg_list[i] # send_pending_list[j]

\* The messages of the list that the peer has read and not answered.
Read == IF tx_done THEN Len(send_msg_list) ELSE IF peer_at > 0 THEN peer_at - 1 ELSE 0

\* What the peer has read is what was confirmed and the part of the list read.
HeardAgrees ==
  /\ Len(heard) = Len(confirmed) + Read
  /\ \A i \in 1..Len(confirmed) : heard[i] = confirmed[i]
  /\ \A i \in 1..Read : heard[Len(confirmed) + i] = data[send_msg_list[i]]

\* A list of the peer is under way while it waits, and only then may the
\* interrupt be pending or a rest be kept.
RestAgrees ==
  /\ peer_waits => peer_sent \in 1..Len(Batches)
  /\ rx_ind => peer_waits /\ ~peer_done
  /\ recv_pending_head # None => peer_waits /\ ~peer_done /\ recv_pending_head <= Batches[peer_sent]
  /\ peer_done => peer_waits
  /\ ~chan_opened => recv_pending_head = None /\ ~peer_done /\ ~rx_irq_id /\ ~starting

IInv == TypeOK /\ ListsAgree /\ RecordsInUse /\ HeardAgrees /\ RestAgrees
----------------------------------------------------------------------------
(* Sequences.                                                                *)

LEMMA AppendLemma ==
  ASSUME NEW S, NEW s \in Seq(S), NEW e \in S
  PROVE  /\ Append(s, e) \in Seq(S) /\ Len(Append(s, e)) = Len(s) + 1
         /\ \A i \in 1..Len(s) : Append(s, e)[i] = s[i]
         /\ Append(s, e)[Len(s) + 1] = e /\ Append(s, e) # <<>>
OBVIOUS

LEMMA ConcatLemma ==
  ASSUME NEW S, NEW s \in Seq(S), NEW t \in Seq(S)
  PROVE  /\ s \o t \in Seq(S) /\ Len(s \o t) = Len(s) + Len(t)
         /\ \A i \in 1..Len(s) : (s \o t)[i] = s[i]
         /\ \A i \in 1..Len(t) : (s \o t)[Len(s) + i] = t[i]
OBVIOUS

LEMMA SubSeqLemma ==
  ASSUME NEW S, NEW s \in Seq(S), NEW m \in 1..(Len(s) + 1), NEW n \in (m - 1)..Len(s)
  PROVE  /\ SubSeq(s, m, n) \in Seq(S) /\ Len(SubSeq(s, m, n)) = n - m + 1
         /\ \A i \in 1..(n - m + 1) : SubSeq(s, m, n)[i] = s[m + i - 1]
OBVIOUS

LEMMA PrefixLemma ==
  ASSUME NEW S, NEW s \in Seq(S), NEW n \in 0..Len(s)
  PROVE  /\ SubSeq(s, 1, n) \in Seq(S) /\ Len(SubSeq(s, 1, n)) = n
         /\ \A i \in 1..n : SubSeq(s, 1, n)[i] = s[i]
OBVIOUS

LEMMA RestLemma ==
  ASSUME NEW S, NEW s \in Seq(S), Len(s) >= 1
  PROVE  /\ SubSeq(s, 2, Len(s)) \in Seq(S) /\ Len(SubSeq(s, 2, Len(s))) = Len(s) - 1
         /\ \A i \in 1..(Len(s) - 1) : SubSeq(s, 2, Len(s))[i] = s[i + 1]
<1>1. PICK n \in Nat : n = Len(s) /\ n >= 1
  OBVIOUS
<1>2. SubSeq(s, 2, n) \in Seq(S) /\ Len(SubSeq(s, 2, n)) = n - 1
  BY <1>1
<1>3. \A i \in 1..(n - 1) : SubSeq(s, 2, n)[i] = s[i + 1]
  BY <1>1
<1>4. QED
  BY <1>1, <1>2, <1>3

LEMMA SameLemma ==
  ASSUME NEW S, NEW s \in Seq(S), NEW t \in Seq(S), Len(s) = Len(t),
         \A i \in 1..Len(s) : s[i] = t[i]
  PROVE  s = t
OBVIOUS

LEMMA MessagesLemma ==
  ASSUME NEW d \in [Records -> 0..MaxSend], NEW list \in Seq(Records)
  PROVE  /\ Messages(d, list) \in Seq(0..MaxSend) /\ Len(Messages(d, list)) = Len(list)
         /\ \A i \in 1..Len(list) : Messages(d, list)[i] = d[list[i]]
<1>1. \A i \in 1..Len(list) : d[list[i]] \in 0..MaxSend
  OBVIOUS
<1>2. Messages(d, list) \in [1..Len(list) -> 0..MaxSend] /\ Len(list) \in Nat
  BY <1>1 DEF Messages
<1>3. QED
  BY <1>2 DEF Messages
----------------------------------------------------------------------------
(* The state keeps its types, and the lists, flags and records agree.        *)

LEMMA InitLemma == Init => IInv
<1>1. SUFFICES ASSUME Init PROVE IInv
  OBVIOUS
<1>2. /\ in_use \in [Records -> BOOLEAN] /\ data \in [Records -> 0..MaxSend]
      /\ send_msg_list \in Seq(Records) /\ send_pending_list \in Seq(Records)
      /\ sent \in 0..MaxSend /\ confirmed \in Seq(1..MaxSend) /\ heard \in Seq(1..MaxSend)
      /\ peer_at \in 0..Len(send_msg_list)
  BY <1>1, BatchAssumption DEF Init
<1>3. /\ recv_pending_head \in Nat \union {None}
      /\ peer_sent \in 0..Len(Batches) /\ delivered \in Seq((1..Len(Batches)) \X Nat)
  BY <1>1, BatchAssumption DEF Init
<1>4. TypeOK
  BY <1>1, <1>2, <1>3 DEF Init, TypeOK
<1>5. ListsAgree /\ RecordsInUse /\ HeardAgrees /\ RestAgrees
  BY <1>1 DEF Init, ListsAgree, RecordsInUse, HeardAgrees, RestAgrees, Read, None
<1>6. QED
  BY <1>4, <1>5 DEF IInv

LEMMA SendLemma == IInv /\ hal_intersys_send => IInv'
<1>1. SUFFICES ASSUME IInv, hal_intersys_send PROVE IInv'
  OBVIOUS
<1>t. TypeOK /\ ListsAgree /\ RecordsInUse /\ HeardAgrees /\ RestAgrees
  BY <1>1 DEF IInv
<1>2. CASE Free = {}
  BY <1>1, <1>2, <1>t DEF hal_intersys_send, IInv, TypeOK, ListsAgree, RecordsInUse, HeardAgrees, RestAgrees,
    Read, rx, peer_tx
<1>3. CASE Free # {}
  <2>1. PICK r \in Free :
          /\ in_use' = [in_use EXCEPT ![r] = TRUE] /\ data' = [data EXCEPT ![r] = sent + 1]
          /\ Enlist(r) /\ chan_busy' = TRUE /\ sent' = sent + 1
    BY <1>1, <1>3 DEF hal_intersys_send
  <2>2. /\ tx_irq_id' = TRUE /\ chan_opened /\ sent < MaxSend
        /\ UNCHANGED <<tx_done, confirmed, peer_at, heard, rx, peer_tx, chan_opened>>
    BY <1>1 DEF hal_intersys_send
  <2>3. r \in Records /\ ~in_use[r] /\ sent + 1 \in 1..MaxSend
    BY <1>t, <2>1, <2>2, BatchAssumption DEF Free, TypeOK
  <2>4. /\ in_use' \in [Records -> BOOLEAN] /\ data' \in [Records -> 0..MaxSend]
        /\ in_use'[r] /\ data'[r] = sent + 1
        /\ \A q \in Records : q # r => in_use'[q] = in_use[q] /\ data'[q] = data[q]
        /\ \A q \in Records : in_use[q] => q # r /\ in_use'[q]
    BY <1>t, <2>1, <2>3 DEF TypeOK
  <2>5. CASE send_msg_list = <<>>
    <3>1. send_msg_list' = <<r>> /\ peer_ind' = TRUE /\ send_pending_list' = send_pending_list
      BY <2>1, <2>5 DEF Enlist
    <3>2. send_pending_list = <<>> /\ peer_at = 0 /\ ~tx_done /\ ~peer_ind
      BY <1>t, <2>5 DEF ListsAgree
    <3>3. send_msg_list' \in Seq(Records) /\ Len(send_msg_list') = 1 /\ send_msg_list'[1] = r
          /\ send_msg_list' # <<>>
      BY <2>3, <3>1
    <3>4. TypeOK'
      BY <1>t, <2>1, <2>2, <2>3, <2>4, <3>1, <3>2, <3>3 DEF TypeOK, rx, peer_tx
    <3>5. ListsAgree'
      BY <1>t, <2>1, <2>2, <3>1, <3>2, <3>3 DEF ListsAgree
    <3>6. RecordsInUse'
      BY <2>3, <2>4, <3>1, <3>2, <3>3 DEF RecordsInUse
    <3>7. HeardAgrees'
      BY <1>t, <2>2, <3>2 DEF HeardAgrees, Read
    <3>8. RestAgrees'
      BY <1>t, <2>2 DEF RestAgrees, rx, peer_tx
    <3>9. QED
      BY <3>4, <3>5, <3>6, <3>7, <3>8 DEF IInv
  <2>6. CASE send_msg_list # <<>>
    <3>1. send_pending_list' = Append(send_pending_list, r)
          /\ send_msg_list' = send_msg_list /\ peer_ind' = peer_ind
      BY <2>1, <2>6 DEF Enlist
    <3>2. /\ send_pending_list' \in Seq(Records) /\ Len(send_pending_list') = Len(send_pending_list) + 1
          /\ \A i \in 1..Len(send_pending_list) : send_pending_list'[i] = send_pending_list[i]
          /\ send_pending_list'[Len(send_pending_list) + 1] = r
      BY <1>t, <2>3, <3>1, AppendLemma DEF TypeOK
    <3>3. /\ \A i \in 1..Len(send_msg_list) : send_msg_list[i] \in Records /\ send_msg_list[i] # r
          /\ \A i \in 1..Len(send_pending_list) : send_pending_list[i] \in Records
                                                  /\ send_pending_list[i] # r
      <4>1. send_msg_list \in Seq(Records) /\ send_pending_list \in Seq(Records)
        BY <1>t DEF TypeOK
      <4>2. \A i \in 1..Len(send_msg_list) : in_use[send_msg_list[i]]
        BY <1>t DEF RecordsInUse
      <4>3. \A i \in 1..Len(send_pending_list) : in_use[send_pending_list[i]]
        BY <1>t DEF RecordsInUse
      <4>4. QED
        BY <2>3, <4>1, <4>2, <4>3
    <3>4. TypeOK'
      BY <1>t, <2>1, <2>2, <2>3, <2>4, <3>1, <3>2 DEF TypeOK, rx, peer_tx
    <3>5. ListsAgree'
      BY <1>t, <2>1, <2>2, <2>6, <3>1 DEF ListsAgree
    <3>6. /\ Len(send_pending_list) \in Nat
          /\ \A i \in 1..Len(send_pending_list') :
               i \in 1..Len(send_pending_list) \/ i = Len(send_pending_list) + 1
      <4>1. Len(send_pending_list) \in Nat
        BY <1>t DEF TypeOK
      <4>2. QED
        BY <3>2, <4>1
    <3>7. RecordsInUse'
      <4>1. \A i \in 1..Len(send_msg_list') : in_use'[send_msg_list'[i]] /\ data'[send_msg_list'[i]] # 0
        BY <1>t, <2>4, <3>1, <3>3 DEF RecordsInUse
      <4>2. \A i \in 1..Len(send_pending_list') :
              in_use'[send_pending_list'[i]] /\ data'[send_pending_list'[i]] # 0
        BY <1>t, <2>3, <2>4, <3>2, <3>3, <3>6 DEF RecordsInUse
      <4>3. \A i \in 1..Len(send_msg_list'), j \in 1..Len(send_pending_list') :
              send_msg_list'[i] # send_pending_list'[j]
        BY <1>t, <3>1, <3>2, <3>3, <3>6 DEF RecordsInUse
      <4>4. QED
        BY <4>1, <4>2, <4>3 DEF RecordsInUse
    <3>8. HeardAgrees'
      <4>1. Read' = Read /\ Read \in 0..Len(send_msg_list)
        BY <1>t, <2>2, <3>1 DEF Read, TypeOK
      <4>2. \A i \in 1..Read : data'[send_msg_list[i]] = data[send_msg_list[i]]
        <5>1. \A i \in 1..Read : i \in 1..Len(send_msg_list)
          BY <1>t, <4>1 DEF TypeOK
        <5>2. QED
          BY <2>4, <3>3, <5>1
      <4>3. heard' = heard /\ confirmed' = confirmed /\ send_msg_list' = send_msg_list
        BY <2>2, <3>1
      <4>4. QED
        BY <1>t, <4>1, <4>2, <4>3 DEF HeardAgrees
    <3>9. RestAgrees'
      BY <1>t, <2>2 DEF RestAgrees, rx, peer_tx
    <3>10. QED
      BY <3>4, <3>5, <3>7, <3>8, <3>9 DEF IInv
  <2>7. QED
    BY <2>5, <2>6
<1>4. QED
  BY <1>2, <1>3

LEMMA StartsLemma == IInv /\ PeerStarts => IInv'
<1>1. SUFFICES ASSUME IInv, PeerStarts PROVE IInv'
  OBVIOUS
<1>2. /\ peer_ind /\ peer_at = 0 /\ peer_ind' = FALSE /\ peer_at' = 1 /\ heard' = heard
      /\ UNCHANGED <<tx, rx, peer_tx, chan_opened>>
  BY <1>1 DEF PeerStarts
<1>3. send_msg_list # <<>> /\ send_msg_list \in Seq(Records) /\ ~tx_done
  BY <1>1, <1>2 DEF IInv, TypeOK, ListsAgree
<1>4. 1 \in 0..Len(send_msg_list)
  BY <1>3
<1>5. TypeOK'
  BY <1>1, <1>2, <1>4 DEF IInv, TypeOK, tx, rx, peer_tx
<1>6. ListsAgree'
  BY <1>1, <1>2, <1>3 DEF IInv, ListsAgree, tx
<1>7. RecordsInUse' /\ RestAgrees'
  BY <1>1, <1>2 DEF IInv, RecordsInUse, RestAgrees, tx, rx, peer_tx
<1>8. Read = 0 /\ Read' = 0
  BY <1>2, <1>3 DEF Read, tx
<1>9. HeardAgrees'
  BY <1>1, <1>2, <1>8 DEF IInv, HeardAgrees, tx
<1>10. QED
  BY <1>5, <1>6, <1>7, <1>9 DEF IInv

LEMMA ReadsLemma == IInv /\ PeerReads => IInv'
<1>1. SUFFICES ASSUME IInv, PeerReads PROVE IInv'
  OBVIOUS
<1>t. TypeOK /\ ListsAgree /\ RecordsInUse /\ HeardAgrees /\ RestAgrees
  BY <1>1 DEF IInv
<1>2. /\ peer_at > 0 /\ heard' = Append(heard, data[send_msg_list[peer_at]])
      /\ UNCHANGED <<in_use, data, send_msg_list, send_pending_list, chan_busy, tx_irq_id, sent,
                     confirmed, peer_ind, rx, peer_tx, chan_opened>>
  BY <1>1 DEF PeerReads
<1>3. /\ send_msg_list \in Seq(Records) /\ data \in [Records -> 0..MaxSend] /\ heard \in Seq(1..MaxSend)
      /\ peer_at \in 1..Len(send_msg_list) /\ Len(send_msg_list) \in Nat /\ confirmed \in Seq(1..MaxSend)
  BY <1>t, <1>2 DEF TypeOK
<1>4. ~tx_done /\ ~peer_ind /\ send_msg_list # <<>>
  BY <1>t, <1>2, <1>3 DEF ListsAgree
<1>5. data[send_msg_list[peer_at]] \in 1..MaxSend
  <2>1. data[send_msg_list[peer_at]] \in 0..MaxSend
    BY <1>3
  <2>2. data[send_msg_list[peer_at]] # 0
    BY <1>t, <1>3 DEF RecordsInUse
  <2>3. QED
    BY <2>1, <2>2, BatchAssumption
<1>6. /\ heard' \in Seq(1..MaxSend) /\ Len(heard') = Len(heard) + 1
      /\ \A i \in 1..Len(heard) : heard'[i] = heard[i]
      /\ heard'[Len(heard) + 1] = data[send_msg_list[peer_at]]
  BY <1>2, <1>3, <1>5, AppendLemma
<1>7. /\ peer_at' \in 0..Len(send_msg_list) /\ tx_done' \in BOOLEAN
      /\ \/ ~tx_done' /\ peer_at' > 0 /\ Read' = peer_at
         \/ tx_done' /\ peer_at' = 0 /\ Read' = peer_at
  <2>1. CASE peer_at < Len(send_msg_list)
    <3>1. peer_at' = peer_at + 1 /\ tx_done' = tx_done
      BY <1>1, <2>1 DEF PeerReads
    <3>2. tx_done' = FALSE
      BY <1>t, <1>4, <3>1 DEF TypeOK
    <3>3. peer_at' \in 0..Len(send_msg_list) /\ peer_at' > 0 /\ peer_at' - 1 = peer_at
      BY <1>3, <2>1, <3>1
    <3>4. QED
      BY <3>2, <3>3 DEF Read
  <2>2. CASE ~(peer_at < Len(send_msg_list))
    <3>1. peer_at' = 0 /\ tx_done' = TRUE /\ send_msg_list' = send_msg_list
      BY <1>1, <2>2 DEF PeerReads
    <3>2. Len(send_msg_list) = peer_at
      BY <1>3, <2>2
    <3>3. QED
      BY <1>3, <3>1, <3>2 DEF Read
  <2>3. QED
    BY <2>1, <2>2
<1>8. TypeOK'
  BY <1>t, <1>2, <1>6, <1>7 DEF TypeOK, rx, peer_tx
<1>9. ListsAgree'
  BY <1>t, <1>2, <1>4, <1>7 DEF ListsAgree
<1>10. RecordsInUse' /\ RestAgrees'
  BY <1>t, <1>2 DEF RecordsInUse, RestAgrees, rx, peer_tx
<1>11. HeardAgrees'
  <2>1. /\ Len(heard) = Len(confirmed) + (peer_at - 1) /\ Read = peer_at - 1
        /\ \A i \in 1..Len(confirmed) : heard[i] = confirmed[i]
        /\ \A i \in 1..(peer_at - 1) : heard[Len(confirmed) + i] = data[send_msg_list[i]]
    BY <1>t, <1>2, <1>4 DEF HeardAgrees, Read
  <2>2. /\ Read' = peer_at /\ confirmed' = confirmed /\ data' = data /\ send_msg_list' = send_msg_list
        /\ Len(confirmed) \in Nat /\ Len(heard) \in Nat
    BY <1>2, <1>3, <1>7
  <2>3. \A i \in 1..Len(confirmed) : heard'[i] = confirmed[i]
    BY <1>3, <1>6, <2>1, <2>2
  <2>4. \A i \in 1..peer_at : heard'[Len(confirmed) + i] = data[send_msg_list[i]]
    <3>1. \A i \in 1..(peer_at - 1) : Len(confirmed) + i \in 1..Len(heard)
      BY <1>3, <2>1, <2>2
    <3>2. Len(confirmed) + peer_at = Len(heard) + 1
      BY <1>3, <2>1, <2>2
    <3>3. \A i \in 1..peer_at : i = peer_at \/ i \in 1..(peer_at - 1)
      BY <1>3
    <3>4. QED
      BY <1>6, <2>1, <3>1, <3>2, <3>3
  <2>5. Len(heard') = Len(confirmed) + peer_at
    BY <1>3, <1>6, <2>1, <2>2
  <2>6. QED
    BY <2>2, <2>3, <2>4, <2>5 DEF HeardAgrees
<1>12. QED
  BY <1>8, <1>9, <1>10, <1>11 DEF IInv

\* What the interrupt makes of the lists and the records.
LEMMA AnsweredLemma ==
  ASSUME IInv, hal_intersys_tx_irq
  PROVE  /\ tx_done /\ ~tx_done' /\ ~peer_ind /\ peer_at = 0 /\ send_msg_list # <<>>
         /\ send_msg_list' = send_pending_list /\ send_pending_list' = <<>>
         /\ peer_ind' = (send_pending_list # <<>>) /\ chan_busy' = (send_pending_list # <<>>)
         /\ confirmed' = confirmed \o Messages(data, send_msg_list)
         /\ in_use' = [r \in Records |-> in_use[r] /\ r \notin Elements(send_msg_list)]
         /\ UNCHANGED <<data, tx_irq_id, sent, peer_at, heard, rx, peer_tx, chan_opened>>
<1>1. /\ tx_done /\ ~tx_done' /\ NextList
      /\ confirmed' = confirmed \o Messages(data, send_msg_list)
      /\ in_use' = [r \in Records |-> in_use[r] /\ r \notin Elements(send_msg_list)]
      /\ UNCHANGED <<data, tx_irq_id, sent, peer_at, heard, rx, peer_tx, chan_opened>>
  BY DEF hal_intersys_tx_irq, Messages
<1>2. ~peer_ind /\ peer_at = 0 /\ send_msg_list # <<>> /\ chan_busy
  BY <1>1 DEF IInv, ListsAgree
<1>3. peer_ind \in BOOLEAN /\ chan_busy \in BOOLEAN
  BY DEF IInv, TypeOK
<1>4. CASE send_pending_list # <<>>
  BY <1>1, <1>2, <1>3, <1>4 DEF NextList
<1>5. CASE send_pending_list = <<>>
  BY <1>1, <1>2, <1>3, <1>5 DEF NextList
<1>6. QED
  BY <1>4, <1>5

LEMMA IrqLemma == IInv /\ hal_intersys_tx_irq => IInv'
<1>1. SUFFICES ASSUME IInv, hal_intersys_tx_irq PROVE IInv'
  OBVIOUS
<1>t. TypeOK /\ ListsAgree /\ RecordsInUse /\ HeardAgrees /\ RestAgrees
  BY <1>1 DEF IInv
<1>2. /\ tx_done /\ ~tx_done' /\ ~peer_ind /\ peer_at = 0 /\ send_msg_list # <<>>
      /\ send_msg_list' = send_pending_list /\ send_pending_list' = <<>>
      /\ peer_ind' = (send_pending_list # <<>>) /\ chan_busy' = (send_pending_list # <<>>)
      /\ confirmed' = confirmed \o Messages(data, send_msg_list)
      /\ in_use' = [r \in Records |-> in_use[r] /\ r \notin Elements(send_msg_list)]
      /\ UNCHANGED <<data, tx_irq_id, sent, peer_at, heard, rx, peer_tx, chan_opened>>
  BY <1>1, AnsweredLemma
<1>3. /\ send_msg_list \in Seq(Records) /\ send_pending_list \in Seq(Records)
      /\ data \in [Records -> 0..MaxSend] /\ in_use \in [Records -> BOOLEAN]
      /\ confirmed \in Seq(1..MaxSend) /\ heard \in Seq(1..MaxSend)
  BY <1>t DEF TypeOK
<1>4. /\ Messages(data, send_msg_list) \in Seq(1..MaxSend)
      /\ Len(Messages(data, send_msg_list)) = Len(send_msg_list)
      /\ \A i \in 1..Len(send_msg_list) : Messages(data, send_msg_list)[i] = data[send_msg_list[i]]
  <2>1. \A i \in 1..Len(send_msg_list) : data[send_msg_list[i]] \in 1..MaxSend
    <3>1. \A i \in 1..Len(send_msg_list) : data[send_msg_list[i]] \in 0..MaxSend
      BY <1>3
    <3>2. \A i \in 1..Len(send_msg_list) : data[send_msg_list[i]] # 0
      BY <1>t DEF RecordsInUse
    <3>3. QED
      BY <3>1, <3>2, BatchAssumption
  <2>2. Messages(data, send_msg_list) \in [1..Len(send_msg_list) -> 1..MaxSend] /\ Len(send_msg_list) \in Nat
    BY <1>3, <2>1 DEF Messages
  <2>3. QED
    BY <2>2 DEF Messages
<1>5. /\ confirmed' \in Seq(1..MaxSend) /\ Len(confirmed') = Len(confirmed) + Len(send_msg_list)
      /\ \A i \in 1..Len(confirmed) : confirmed'[i] = confirmed[i]
      /\ \A i \in 1..Len(send_msg_list) : confirmed'[Len(confirmed) + i] = data[send_msg_list[i]]
  <2>1. PICK m \in Seq(1..MaxSend) : m = Messages(data, send_msg_list)
    BY <1>4
  <2>2. /\ Len(m) = Len(send_msg_list) /\ confirmed' = confirmed \o m
        /\ \A i \in 1..Len(send_msg_list) : m[i] = data[send_msg_list[i]]
    BY <1>2, <1>4, <2>1
  <2>3. /\ confirmed \o m \in Seq(1..MaxSend) /\ Len(confirmed \o m) = Len(confirmed) + Len(m)
        /\ \A i \in 1..Len(confirmed) : (confirmed \o m)[i] = confirmed[i]
        /\ \A i \in 1..Len(m) : (confirmed \o m)[Len(confirmed) + i] = m[i]
    BY <1>3, ConcatLemma
  <2>4. QED
    BY <2>2, <2>3
<1>6. \A r \in Records : in_use'[r] <=> in_use[r] /\ \A i \in 1..Len(send_msg_list) : r # send_msg_list[i]
  BY <1>2 DEF Elements
<1>7. TypeOK'
  <2>1. in_use' \in [Records -> BOOLEAN]
    BY <1>2, <1>3
  <2>2. peer_ind' \in BOOLEAN /\ chan_busy' \in BOOLEAN /\ tx_done' \in BOOLEAN
    <3>1. (send_pending_list # <<>>) \in BOOLEAN
      OBVIOUS
    <3>2. peer_ind' \in BOOLEAN /\ chan_busy' \in BOOLEAN
      BY <1>2, <3>1
    <3>3. tx_done' = FALSE
      BY <1>1 DEF hal_intersys_tx_irq
    <3>4. QED
      BY <3>2, <3>3
  <2>3. peer_at' \in 0..Len(send_msg_list') /\ send_pending_list' \in Seq(Records)
    BY <1>2, <1>3
  <2>4. QED
    BY <1>t, <1>2, <1>3, <1>5, <2>1, <2>2, <2>3 DEF TypeOK, rx, peer_tx
<1>8. ListsAgree'
  BY <1>t, <1>2 DEF ListsAgree
<1>9. RecordsInUse'
  <2>1. \A i \in 1..Len(send_pending_list) : send_pending_list[i] \in Records
    BY <1>3
  <2>2. \A i \in 1..Len(send_pending_list) : in_use'[send_pending_list[i]] /\ data[send_pending_list[i]] # 0
    BY <1>t, <1>6, <2>1 DEF RecordsInUse
  <2>3. Len(send_pending_list') = 0
    BY <1>2
  <2>4. QED
    BY <1>2, <2>2, <2>3 DEF RecordsInUse
<1>10. HeardAgrees'
  <2>1. Read = Len(send_msg_list) /\ Read' = 0 /\ Len(send_msg_list) \in Nat /\ Len(confirmed) \in Nat
    BY <1>2, <1>3 DEF Read
  <2>2. Len(heard') = Len(confirmed')
    BY <1>t, <1>2, <1>5, <2>1 DEF HeardAgrees
  <2>3. \A i \in 1..Len(confirmed') :
          i \in 1..Len(confirmed) \/ (i - Len(confirmed) \in 1..Len(send_msg_list)
                                      /\ Len(confirmed) + (i - Len(confirmed)) = i)
    BY <1>5, <2>1
  <2>4. \A i \in 1..Len(confirmed') : heard'[i] = confirmed'[i]
    BY <1>t, <1>2, <1>5, <2>1, <2>3 DEF HeardAgrees
  <2>5. QED
    BY <2>1, <2>2, <2>4 DEF HeardAgrees
<1>11. RestAgrees'
  BY <1>t, <1>2 DEF RestAgrees, rx, peer_tx
<1>12. QED
  BY <1>7, <1>8, <1>9, <1>10, <1>11 DEF IInv

LEMMA CloseLemma == IInv /\ hal_intersys_close => IInv'
<1>1. SUFFICES ASSUME IInv, hal_intersys_close PROVE IInv'
  OBVIOUS
<1>t. TypeOK /\ ListsAgree /\ RecordsInUse /\ HeardAgrees /\ RestAgrees
  BY <1>1 DEF IInv
<1>2. /\ send_msg_list = <<>> /\ recv_pending_head = None /\ ~starting /\ ~peer_done
      /\ send_msg_list' = <<>> /\ send_pending_list' = <<>> /\ recv_pending_head' = None
      /\ chan_opened' = FALSE /\ tx_irq_id' = FALSE /\ rx_irq_id' = FALSE
      /\ UNCHANGED <<in_use, data, chan_busy, tx_done, sent, confirmed, peer_rx, rx_ind, starting,
                     delivered, peer_tx>>
  BY <1>1 DEF hal_intersys_close, Quiet, Forgotten
<1>3. send_pending_list = <<>>
  BY <1>t, <1>2 DEF ListsAgree
<1>4. TypeOK'
  BY <1>t, <1>2 DEF TypeOK, peer_rx, peer_tx
<1>5. ListsAgree'
  BY <1>t, <1>2 DEF ListsAgree, peer_rx
<1>6. RecordsInUse'
  BY <1>2 DEF RecordsInUse
<1>7. HeardAgrees'
  BY <1>t, <1>2 DEF HeardAgrees, Read, peer_rx
<1>8. RestAgrees'
  BY <1>t, <1>2 DEF RestAgrees, peer_tx
<1>9. QED
  BY <1>4, <1>5, <1>6, <1>7, <1>8 DEF IInv

LEMMA OpenLemma == IInv /\ hal_intersys_open => IInv'
<1>1. SUFFICES ASSUME IInv, hal_intersys_open PROVE IInv'
  OBVIOUS
<1>t. TypeOK /\ ListsAgree /\ RecordsInUse /\ HeardAgrees /\ RestAgrees
  BY <1>1 DEF IInv
<1>2. /\ ~chan_opened /\ chan_opened' = TRUE
      /\ send_msg_list' = <<>> /\ send_pending_list' = <<>> /\ recv_pending_head' = None
      /\ tx_irq_id' = FALSE /\ rx_irq_id' = FALSE
      /\ peer_ind' = FALSE /\ peer_done' = FALSE /\ in_use' = [r \in Records |-> FALSE]
      /\ UNCHANGED <<data, chan_busy, tx_done, sent, confirmed, peer_at, heard, rx_ind, starting,
                     delivered, peer_sent, peer_waits>>
  BY <1>1 DEF hal_intersys_open, Forgotten
<1>3. send_msg_list = <<>> /\ send_pending_list = <<>> /\ peer_at = 0 /\ ~tx_done
  BY <1>t, <1>2 DEF ListsAgree
<1>4. TypeOK'
  BY <1>t, <1>2, <1>3 DEF TypeOK
<1>5. ListsAgree'
  BY <1>t, <1>2, <1>3 DEF ListsAgree
<1>6. RecordsInUse'
  BY <1>2 DEF RecordsInUse
<1>7. HeardAgrees'
  BY <1>t, <1>2, <1>3 DEF HeardAgrees, Read
<1>8. RestAgrees'
  BY <1>t, <1>2 DEF RestAgrees
<1>9. QED
  BY <1>4, <1>5, <1>6, <1>7, <1>8 DEF IInv

\* What the peer sends, its answer and the receiver's switch touch no list of
\* this side.
LEMMA ReceiverLemma ==
  ASSUME IInv, UNCHANGED <<tx, peer_rx, chan_opened>>, RestAgrees',
         rx_irq_id' \in BOOLEAN, rx_ind' \in BOOLEAN, starting' \in BOOLEAN,
         peer_done' \in BOOLEAN, peer_waits' \in BOOLEAN,
         recv_pending_head' \in Nat \union {None}, peer_sent' \in 0..Len(Batches),
         delivered' \in Seq((1..Len(Batches)) \X Nat)
  PROVE  IInv'
<1>t. TypeOK /\ ListsAgree /\ RecordsInUse /\ HeardAgrees
  BY DEF IInv
<1>1. TypeOK'
  BY <1>t DEF TypeOK, tx, peer_rx
<1>2. ListsAgree'
  BY <1>t DEF ListsAgree, tx, peer_rx
<1>3. RecordsInUse'
  BY <1>t DEF RecordsInUse, tx
<1>4. HeardAgrees'
  BY <1>t DEF HeardAgrees, Read, tx, peer_rx
<1>5. QED
  BY <1>1, <1>2, <1>3, <1>4 DEF IInv

LEMMA PeerSendsLemma == IInv /\ PeerSends => IInv'
<1>1. SUFFICES ASSUME IInv, PeerSends PROVE IInv'
  OBVIOUS
<1>t. TypeOK /\ RestAgrees
  BY <1>1 DEF IInv
<1>2. /\ ~peer_waits /\ peer_sent < Len(Batches) /\ peer_sent' = peer_sent + 1
      /\ peer_waits' = TRUE /\ rx_ind' = TRUE
      /\ UNCHANGED <<tx, peer_rx, rx_irq_id, recv_pending_head, starting, delivered, peer_done, chan_opened>>
  BY <1>1 DEF PeerSends
<1>3. Len(Batches) \in Nat /\ peer_sent \in 0..Len(Batches)
  BY <1>t, BatchAssumption DEF TypeOK
<1>4. peer_sent' \in 1..Len(Batches) /\ peer_sent' \in 0..Len(Batches)
  BY <1>2, <1>3
<1>5. recv_pending_head = None /\ ~peer_done
  BY <1>t, <1>2 DEF RestAgrees
<1>6. RestAgrees'
  BY <1>t, <1>2, <1>4, <1>5 DEF RestAgrees
<1>7. QED
  BY <1>1, <1>t, <1>2, <1>4, <1>6, ReceiverLemma DEF TypeOK

LEMMA SeesDoneLemma == IInv /\ PeerSeesDone => IInv'
<1>1. SUFFICES ASSUME IInv, PeerSeesDone PROVE IInv'
  OBVIOUS
<1>t. TypeOK /\ RestAgrees
  BY <1>1 DEF IInv
<1>2. /\ peer_done /\ peer_done' = FALSE /\ peer_waits' = FALSE
      /\ UNCHANGED <<tx, peer_rx, rx, peer_sent, chan_opened>>
  BY <1>1 DEF PeerSeesDone
<1>3. RestAgrees'
  BY <1>t, <1>2 DEF RestAgrees, rx
<1>4. QED
  BY <1>1, <1>t, <1>2, <1>3, ReceiverLemma DEF TypeOK, rx

LEMMA BytesLemma ==
  ASSUME NEW b \in 1..Len(Batches)
  PROVE  /\ Batches[b] \in Nat \ {0} /\ Bytes(b) \in Seq((1..Len(Batches)) \X Nat)
         /\ Len(Bytes(b)) = Batches[b]
<1>1. Batches[b] \in Nat \ {0}
  BY BatchAssumption
<1>2. Bytes(b) \in [1..Batches[b] -> (1..Len(Batches)) \X Nat]
  BY <1>1 DEF Bytes
<1>3. QED
  BY <1>1, <1>2 DEF Bytes

\* What the receive interrupt finds, and the part of the list that it takes.
LEMMA TakenLemma ==
  ASSUME IInv, NEW until, NEW stops \in BOOLEAN, hal_intersys_rx_irq(until, stops)
  PROVE  /\ peer_waits /\ ~peer_done /\ chan_opened /\ peer_sent \in 1..Len(Batches)
         /\ From \in 0..Batches[peer_sent] /\ until \in From..Batches[peer_sent]
         /\ SubSeq(Bytes(peer_sent), From + 1, until) \in Seq((1..Len(Batches)) \X Nat)
         /\ delivered' = delivered \o SubSeq(Bytes(peer_sent), From + 1, until)
         /\ recv_pending_head' = IF until < Batches[peer_sent] THEN until ELSE None
         /\ peer_done' = (until = Batches[peer_sent]) /\ rx_ind' = FALSE /\ rx_irq_id' = ~stops
         /\ UNCHANGED <<tx, peer_rx, starting, peer_sent, peer_waits, chan_opened>>
<1>t. TypeOK /\ RestAgrees
  BY DEF IInv
<1>1. /\ rx_irq_id /\ rx_ind /\ rx_ind' = FALSE /\ until \in From..Batches[peer_sent]
      /\ delivered' = delivered \o SubSeq(Bytes(peer_sent), From + 1, until)
      /\ recv_pending_head' = IF until < Batches[peer_sent] THEN until ELSE None
      /\ peer_done' = (peer_done \/ until = Batches[peer_sent]) /\ rx_irq_id' = ~stops
      /\ UNCHANGED <<tx, peer_rx, starting, peer_sent, peer_waits, chan_opened>>
  BY DEF hal_intersys_rx_irq, Remember
<1>2. peer_waits /\ peer_done = FALSE /\ chan_opened /\ peer_sent \in 1..Len(Batches)
  BY <1>t, <1>1 DEF RestAgrees, TypeOK
<1>3. /\ Batches[peer_sent] \in Nat \ {0} /\ Bytes(peer_sent) \in Seq((1..Len(Batches)) \X Nat)
      /\ Len(Bytes(peer_sent)) = Batches[peer_sent]
  BY <1>2, BytesLemma
<1>4. From \in 0..Batches[peer_sent]
  BY <1>t, <1>3 DEF From, TypeOK, RestAgrees, None
<1>5. /\ From + 1 \in 1..(Len(Bytes(peer_sent)) + 1)
      /\ until \in (From + 1 - 1)..Len(Bytes(peer_sent))
  BY <1>1, <1>3, <1>4
<1>6. SubSeq(Bytes(peer_sent), From + 1, until) \in Seq((1..Len(Batches)) \X Nat)
  BY <1>3, <1>5, SubSeqLemma
<1>7. peer_done' = (until = Batches[peer_sent])
  BY <1>1, <1>2
<1>8. QED
  BY <1>1, <1>2, <1>4, <1>6, <1>7

LEMMA RxIrqLemma == IInv /\ RxIrq => IInv'
<1>1. SUFFICES ASSUME IInv, NEW stops \in BOOLEAN, NEW until, hal_intersys_rx_irq(until, stops)
               PROVE  IInv'
  BY DEF RxIrq
<1>t. TypeOK /\ RestAgrees
  BY <1>1 DEF IInv
<1>2. /\ peer_waits /\ ~peer_done /\ chan_opened /\ peer_sent \in 1..Len(Batches)
      /\ From \in 0..Batches[peer_sent] /\ until \in From..Batches[peer_sent]
      /\ SubSeq(Bytes(peer_sent), From + 1, until) \in Seq((1..Len(Batches)) \X Nat)
      /\ delivered' = delivered \o SubSeq(Bytes(peer_sent), From + 1, until)
      /\ recv_pending_head' = IF until < Batches[peer_sent] THEN until ELSE None
      /\ peer_done' = (until = Batches[peer_sent]) /\ rx_ind' = FALSE /\ rx_irq_id' = ~stops
      /\ UNCHANGED <<tx, peer_rx, starting, peer_sent, peer_waits, chan_opened>>
  BY <1>1, TakenLemma
<1>3. Batches[peer_sent] \in Nat /\ until \in Nat
  BY <1>2, BytesLemma
<1>4. recv_pending_head' \in Nat \union {None}
  BY <1>2, <1>3
<1>5. RestAgrees'
  <2>1. peer_waits' /\ peer_sent' \in 1..Len(Batches) /\ ~rx_ind' /\ chan_opened'
    BY <1>2
  <2>2. recv_pending_head' # None =>
          ~peer_done' /\ recv_pending_head' <= Batches[peer_sent']
    <3>1. CASE until < Batches[peer_sent]
      <4>1. recv_pending_head' = until /\ until # Batches[peer_sent] /\ until <= Batches[peer_sent]
        BY <1>2, <1>3, <3>1
      <4>2. QED
        BY <1>2, <4>1
    <3>2. CASE ~(until < Batches[peer_sent])
      BY <1>2, <3>2
    <3>3. QED
      BY <3>1, <3>2
  <2>3. QED
    BY <2>1, <2>2 DEF RestAgrees
<1>6. delivered' \in Seq((1..Len(Batches)) \X Nat)
  BY <1>t, <1>2, ConcatLemma DEF TypeOK
<1>7. peer_done' \in BOOLEAN /\ rx_irq_id' \in BOOLEAN
  BY <1>2
<1>8. QED
  BY <1>1, <1>t, <1>2, <1>4, <1>5, <1>6, <1>7, ReceiverLemma DEF TypeOK

LEMMA SwitchLemma == IInv /\ (StartRecv \/ StartRecvEnds \/ hal_intersys_stop_recv) => IInv'
<1>1. ASSUME IInv, StartRecv PROVE IInv'
  <2>1. RestAgrees'
    BY <1>1 DEF IInv, RestAgrees, StartRecv, peer_tx
  <2>2. QED
    BY <1>1, <2>1, ReceiverLemma DEF IInv, TypeOK, StartRecv, peer_tx
<1>2. ASSUME IInv, StartRecvEnds PROVE IInv'
  <2>1. /\ rx_ind' = (rx_ind \/ recv_pending_head # None) /\ starting' = FALSE
        /\ UNCHANGED <<tx, peer_rx, rx_irq_id, recv_pending_head, delivered, peer_tx, chan_opened>>
    BY <1>2 DEF StartRecvEnds, Rerun
  <2>2. RestAgrees'
    BY <1>2, <2>1 DEF IInv, RestAgrees, peer_tx
  <2>3. rx_ind' \in BOOLEAN
    BY <2>1
  <2>4. QED
    BY <1>2, <2>1, <2>2, <2>3, ReceiverLemma DEF IInv, TypeOK, peer_tx
<1>3. ASSUME IInv, hal_intersys_stop_recv PROVE IInv'
  <2>1. RestAgrees'
    BY <1>3 DEF IInv, RestAgrees, hal_intersys_stop_recv, peer_tx
  <2>2. QED
    BY <1>3, <2>1, ReceiverLemma DEF IInv, TypeOK, hal_intersys_stop_recv, peer_tx
<1>4. QED
  BY <1>1, <1>2, <1>3

LEMMA StutterLemma == IInv /\ UNCHANGED vars => IInv'
<1>1. SUFFICES ASSUME IInv, UNCHANGED vars PROVE IInv'
  OBVIOUS
<1>2. RestAgrees'
  BY <1>1 DEF IInv, RestAgrees, vars, rx, peer_tx
<1>3. QED
  BY <1>1, <1>2, ReceiverLemma DEF IInv, TypeOK, vars, rx, peer_tx

LEMMA NextLemma == IInv /\ [Next]_vars => IInv'
BY SendLemma, StartsLemma, ReadsLemma, IrqLemma, CloseLemma, OpenLemma, PeerSendsLemma, SeesDoneLemma,
   RxIrqLemma, SwitchLemma, StutterLemma DEF Next, Peer

LEMMA InvLemma == Spec => []IInv
<1>1. QED
  BY InitLemma, NextLemma, PTL DEF Spec

\* Every variable of the channel keeps its type (hal_intersys.c).
THEOREM TypeTheorem == Spec => []TypeOK
<1>1. IInv => TypeOK
  BY DEF IInv
<1>2. QED
  BY <1>1, InvLemma, PTL

\* Sleep is prohibited exactly while a list is with the peer.
THEOREM BusyTheorem == Spec => []BusyWhileSending
<1>1. IInv => BusyWhileSending
  BY DEF IInv, ListsAgree, BusyWhileSending
<1>2. QED
  BY <1>1, InvLemma, PTL

\* A message is confirmed to its sender only after the peer has read it.
THEOREM ConfirmedTheorem == Spec => []ConfirmedIsHeard
<1>1. ASSUME IInv PROVE ConfirmedIsHeard
  <2>1. confirmed \in Seq(1..MaxSend) /\ heard \in Seq(1..MaxSend)
    BY <1>1 DEF IInv, TypeOK
  <2>2. Len(confirmed) \in Nat /\ Len(heard) \in Nat /\ Read \in Nat
    BY <1>1 DEF IInv, TypeOK, Read
  <2>3. Len(heard) = Len(confirmed) + Read /\ \A i \in 1..Len(confirmed) : heard[i] = confirmed[i]
    BY <1>1 DEF IInv, HeardAgrees
  <2>4. Len(confirmed) \in 0..Len(heard)
    BY <2>2, <2>3
  <2>5. /\ SubSeq(heard, 1, Len(confirmed)) \in Seq(1..MaxSend)
        /\ Len(SubSeq(heard, 1, Len(confirmed))) = Len(confirmed)
        /\ \A i \in 1..Len(confirmed) : SubSeq(heard, 1, Len(confirmed))[i] = heard[i]
    BY <2>1, <2>4, PrefixLemma
  <2>6. \A i \in 1..Len(confirmed) : confirmed[i] = SubSeq(heard, 1, Len(confirmed))[i]
    BY <2>2, <2>3, <2>5
  <2>7. confirmed = SubSeq(heard, 1, Len(confirmed))
    BY <2>1, <2>2, <2>5, <2>6, SameLemma
  <2>8. QED
    BY <2>2, <2>3, <2>7 DEF ConfirmedIsHeard
<1>2. QED
  BY <1>1, InvLemma, PTL
----------------------------------------------------------------------------
(* Each direction implements Link.                                           *)

\* The records whose messages the peer has not read.
Waiting == Unread \o send_pending_list

LEMMA OutboundLemma == Outbound = Messages(data, Waiting) /\ Outbound' = Messages(data', Waiting')
BY DEF Outbound, Messages, Waiting

LEMMA WaitingLemma ==
  ASSUME IInv
  PROVE  Unread \in Seq(Records) /\ send_pending_list \in Seq(Records) /\ Waiting \in Seq(Records)
<1>1. /\ send_msg_list \in Seq(Records) /\ send_pending_list \in Seq(Records)
      /\ peer_at \in 0..Len(send_msg_list)
  BY DEF IInv, TypeOK
<1>2. Unread \in Seq(Records)
  <2>1. CASE peer_ind
    BY <1>1, <2>1 DEF Unread
  <2>2. CASE ~peer_ind /\ peer_at > 0
    <3>1. /\ peer_at \in 1..(Len(send_msg_list) + 1)
          /\ Len(send_msg_list) \in (peer_at - 1)..Len(send_msg_list)
      BY <1>1, <2>2
    <3>2. SubSeq(send_msg_list, peer_at, Len(send_msg_list)) \in Seq(Records)
      BY <1>1, <3>1, SubSeqLemma
    <3>3. QED
      BY <2>2, <3>2 DEF Unread
  <2>3. CASE ~peer_ind /\ ~(peer_at > 0)
    BY <2>3 DEF Unread
  <2>4. QED
    BY <2>1, <2>2, <2>3
<1>3. QED
  BY <1>1, <1>2, ConcatLemma DEF Waiting

\* A record that is not in the list takes a message: only the end changes.
LEMMA SentLemma ==
  ASSUME NEW d \in [Records -> 0..MaxSend], NEW e \in [Records -> 0..MaxSend],
         NEW r \in Records, NEW list \in Seq(Records),
         \A q \in Records : q # r => e[q] = d[q], \A i \in 1..Len(list) : list[i] # r
  PROVE  LET after == Messages(e, Append(list, r))
         IN  1 \in 1..Len(after) /\ Messages(d, list) = SubSeq(after, 1, Len(after) - 1)
<1> DEFINE after == Messages(e, Append(list, r))
           before == Messages(d, list)
<1>1. /\ Append(list, r) \in Seq(Records) /\ Len(Append(list, r)) = Len(list) + 1
      /\ \A i \in 1..Len(list) : Append(list, r)[i] = list[i]
  BY AppendLemma
<1>2. /\ after \in Seq(0..MaxSend) /\ Len(after) = Len(Append(list, r))
      /\ \A i \in 1..Len(Append(list, r)) : after[i] = e[Append(list, r)[i]]
  BY <1>1, MessagesLemma
<1>3. /\ before \in Seq(0..MaxSend) /\ Len(before) = Len(list)
      /\ \A i \in 1..Len(list) : before[i] = d[list[i]]
  BY MessagesLemma
<1>4. Len(list) \in Nat /\ \A i \in 1..Len(list) : i \in 1..(Len(list) + 1) /\ list[i] \in Records
  OBVIOUS
<1>5. \A i \in 1..Len(list) : after[i] = before[i]
  BY <1>1, <1>2, <1>3, <1>4
<1>6. PICK a \in Seq(0..MaxSend) : a = after
  BY <1>2
<1>7. PICK b \in Seq(0..MaxSend) : b = before
  BY <1>3
<1>8. Len(a) = Len(b) + 1 /\ Len(b) \in Nat /\ \A i \in 1..Len(b) : a[i] = b[i]
  BY <1>1, <1>2, <1>3, <1>4, <1>5, <1>6, <1>7
<1>9. b = SubSeq(a, 1, Len(a) - 1)
  <2>1. /\ SubSeq(a, 1, Len(b)) \in Seq(0..MaxSend) /\ Len(SubSeq(a, 1, Len(b))) = Len(b)
        /\ \A i \in 1..Len(b) : SubSeq(a, 1, Len(b))[i] = a[i]
    <3>1. Len(b) \in 0..Len(a)
      BY <1>8
    <3>2. QED
      BY <3>1, PrefixLemma
  <2>2. Len(a) - 1 = Len(b)
    BY <1>8
  <2>3. b = SubSeq(a, 1, Len(b))
    BY <1>8, <2>1, SameLemma
  <2>4. QED
    BY <2>2, <2>3
<1>10. QED
  BY <1>6, <1>7, <1>8, <1>9

\* A message sent is the last of those on their way.
LEMMA OutSendLemma == IInv /\ IInv' /\ hal_intersys_send => Out!Send \/ UNCHANGED <<Outbound, heard>>
<1>1. SUFFICES ASSUME IInv, IInv', hal_intersys_send PROVE Out!Send \/ UNCHANGED <<Outbound, heard>>
  OBVIOUS
<1>t. TypeOK /\ ListsAgree /\ RecordsInUse
  BY <1>1 DEF IInv
<1>2. CASE Free = {}
  <2>1. /\ UNCHANGED <<data, send_msg_list, send_pending_list, peer_ind, peer_at, heard>>
    BY <1>1, <1>2 DEF hal_intersys_send
  <2>2. QED
    BY <2>1 DEF Outbound, Unread
<1>3. CASE Free # {}
  <2>1. PICK r \in Free :
          /\ data' = [data EXCEPT ![r] = sent + 1] /\ Enlist(r)
    BY <1>1, <1>3 DEF hal_intersys_send
  <2>2. heard' = heard /\ peer_at' = peer_at
    BY <1>1 DEF hal_intersys_send
  <2>3. /\ r \in Records /\ ~in_use[r]
        /\ \A q \in Records : q # r => data'[q] = data[q]
    BY <1>t, <2>1 DEF Free, TypeOK
  <2>4. data \in [Records -> 0..MaxSend] /\ data' \in [Records -> 0..MaxSend] /\ Waiting \in Seq(Records)
    BY <1>1, WaitingLemma DEF IInv, TypeOK
  <2>5. /\ Waiting' = Append(Waiting, r)
        /\ \A i \in 1..Len(Waiting) : Waiting[i] # r
    <3>1. CASE send_msg_list = <<>>
      <4>1. /\ send_msg_list' = <<r>> /\ peer_ind' = TRUE /\ send_pending_list' = <<>>
            /\ send_pending_list = <<>> /\ ~peer_ind /\ peer_at = 0
        BY <1>t, <2>1, <3>1 DEF Enlist, ListsAgree
      <4>2. Waiting = <<>> /\ Waiting' = <<r>>
        BY <4>1 DEF Waiting, Unread
      <4>3. QED
        BY <4>2
    <3>2. CASE send_msg_list # <<>>
      <4>1. /\ send_pending_list' = Append(send_pending_list, r)
            /\ send_msg_list' = send_msg_list /\ peer_ind' = peer_ind
        BY <2>1, <3>2 DEF Enlist
      <4>2. Unread' = Unread
        BY <2>2, <4>1 DEF Unread
      <4>3. Unread \in Seq(Records) /\ send_pending_list \in Seq(Records)
        BY <1>1, WaitingLemma
      <4>4. Waiting' = Append(Waiting, r)
        BY <2>3, <4>1, <4>2, <4>3 DEF Waiting
      <4>5. \A i \in 1..Len(Unread) : Unread[i] # r
        <5>1. \A i \in 1..Len(send_msg_list) : send_msg_list[i] # r
          BY <1>t, <2>3 DEF RecordsInUse
        <5>2. \A i \in 1..Len(Unread) : \E j \in 1..Len(send_msg_list) : Unread[i] = send_msg_list[j]
          <6>1. send_msg_list \in Seq(Records) /\ peer_at \in 0..Len(send_msg_list)
            BY <1>t DEF TypeOK
          <6>2. CASE peer_ind
            BY <6>1, <6>2 DEF Unread
          <6>3. CASE ~peer_ind /\ peer_at > 0
            <7>1. /\ peer_at \in 1..(Len(send_msg_list) + 1) /\ Len(send_msg_list) \in Nat
                  /\ Len(send_msg_list) \in (peer_at - 1)..Len(send_msg_list)
              BY <6>1, <6>3
            <7>2. Unread = SubSeq(send_msg_list, peer_at, Len(send_msg_list))
              BY <6>3 DEF Unread
            <7>3. /\ Len(Unread) = Len(send_msg_list) - peer_at + 1
                  /\ \A i \in 1..(Len(send_msg_list) - peer_at + 1) :
                       Unread[i] = send_msg_list[peer_at + i - 1]
              BY <6>1, <7>1, <7>2, SubSeqLemma
            <7>4. \A i \in 1..Len(Unread) : peer_at + i - 1 \in 1..Len(send_msg_list)
              BY <6>1, <7>1, <7>3
            <7>5. QED
              BY <7>3, <7>4
          <6>4. CASE ~peer_ind /\ ~(peer_at > 0)
            BY <6>4 DEF Unread
          <6>5. QED
            BY <6>2, <6>3, <6>4
        <5>3. QED
          BY <5>1, <5>2
      <4>6. \A i \in 1..Len(send_pending_list) : send_pending_list[i] # r
        BY <1>t, <2>3 DEF RecordsInUse
      <4>7. /\ Len(Unread) \in Nat /\ Len(send_pending_list) \in Nat
            /\ Len(Waiting) = Len(Unread) + Len(send_pending_list)
            /\ \A i \in 1..Len(Unread) : Waiting[i] = Unread[i]
            /\ \A i \in 1..Len(send_pending_list) : Waiting[Len(Unread) + i] = send_pending_list[i]
        BY <4>3, ConcatLemma DEF Waiting
      <4>8. \A i \in 1..Len(Waiting) :
              i \in 1..Len(Unread) \/ (i - Len(Unread) \in 1..Len(send_pending_list)
                                       /\ Len(Unread) + (i - Len(Unread)) = i)
        BY <4>7
      <4>9. \A i \in 1..Len(Waiting) : Waiting[i] # r
        BY <4>5, <4>6, <4>7, <4>8
      <4>10. QED
        BY <4>4, <4>9
    <3>3. QED
      BY <3>1, <3>2
  <2>6. /\ Messages(data, Waiting) = SubSeq(Messages(data', Append(Waiting, r)), 1,
                                            Len(Messages(data', Append(Waiting, r))) - 1)
        /\ 1 \in 1..Len(Messages(data', Append(Waiting, r)))
    BY <2>3, <2>4, <2>5, SentLemma
  <2>7. Outbound = SubSeq(Outbound', 1, Len(Outbound') - 1) /\ 1 \in 1..Len(Outbound')
    BY <2>5, <2>6, OutboundLemma
  <2>8. QED
    BY <2>2, <2>7 DEF Out!Send
<1>4. QED
  BY <1>2, <1>3

\* The message of the first record of a list is the first, and the rest follows.
LEMMA FirstLemma ==
  ASSUME NEW d \in [Records -> 0..MaxSend], NEW r \in Records, NEW list \in Seq(Records)
  PROVE  LET all == Messages(d, <<r>> \o list)
         IN  /\ 1 \in 1..Len(all) /\ SubSeq(all, 1, 1) = <<d[r]>>
             /\ Messages(d, list) = SubSeq(all, 1 + 1, Len(all))
<1> DEFINE all == Messages(d, <<r>> \o list)
           rest == Messages(d, list)
<1>1. /\ <<r>> \o list \in Seq(Records) /\ Len(<<r>> \o list) = Len(list) + 1 /\ Len(list) \in Nat
      /\ (<<r>> \o list)[1] = r /\ \A i \in 1..Len(list) : (<<r>> \o list)[i + 1] = list[i]
  OBVIOUS
<1>2. /\ all \in Seq(0..MaxSend) /\ Len(all) = Len(<<r>> \o list)
      /\ \A i \in 1..Len(<<r>> \o list) : all[i] = d[(<<r>> \o list)[i]]
  BY <1>1, MessagesLemma
<1>3. /\ rest \in Seq(0..MaxSend) /\ Len(rest) = Len(list)
      /\ \A i \in 1..Len(list) : rest[i] = d[list[i]]
  BY MessagesLemma
<1>4. \A i \in 1..Len(list) : i + 1 \in 1..(Len(list) + 1)
  BY <1>1
<1>5. all[1] = d[r] /\ \A i \in 1..Len(list) : all[i + 1] = rest[i]
  <2>1. PICK w \in Seq(Records) : w = <<r>> \o list
    BY <1>1
  <2>2. /\ Len(w) = Len(list) + 1 /\ w[1] = r /\ \A i \in 1..Len(list) : w[i + 1] = list[i]
        /\ \A i \in 1..Len(w) : all[i] = d[w[i]]
    BY <1>1, <1>2, <2>1
  <2>3. 1 \in 1..Len(w) /\ \A i \in 1..Len(list) : i + 1 \in 1..Len(w)
    BY <1>1, <1>4, <2>2
  <2>4. all[1] = d[r]
    BY <2>2, <2>3
  <2>5. \A i \in 1..Len(list) : all[i + 1] = d[list[i]]
    BY <2>2, <2>3
  <2>6. QED
    BY <1>3, <2>4, <2>5
<1>6. PICK a \in Seq(0..MaxSend) : a = all
  BY <1>2
<1>7. PICK b \in Seq(0..MaxSend) : b = rest
  BY <1>3
<1>8. Len(a) = Len(b) + 1 /\ Len(b) \in Nat /\ a[1] = d[r] /\ \A i \in 1..Len(b) : a[i + 1] = b[i]
  BY <1>1, <1>2, <1>3, <1>5, <1>6, <1>7
<1>9. b = SubSeq(a, 1 + 1, Len(a))
  <2>1. /\ SubSeq(a, 2, Len(a)) \in Seq(0..MaxSend) /\ Len(SubSeq(a, 2, Len(a))) = Len(b)
        /\ \A i \in 1..Len(b) : SubSeq(a, 2, Len(a))[i] = a[i + 1]
    <3>1. Len(a) >= 1 /\ Len(a) - 1 = Len(b)
      BY <1>8
    <3>2. QED
      BY <3>1, RestLemma
  <2>2. b = SubSeq(a, 2, Len(a))
    BY <1>8, <2>1, SameLemma
  <2>3. QED
    BY <2>2
<1>10. SubSeq(a, 1, 1) = <<d[r]>> /\ 1 \in 1..Len(a)
  <2>1. 1 \in 0..Len(a) /\ 1 \in 1..Len(a)
    BY <1>8
  <2>2. /\ SubSeq(a, 1, 1) \in Seq(0..MaxSend) /\ Len(SubSeq(a, 1, 1)) = 1
        /\ \A i \in 1..1 : SubSeq(a, 1, 1)[i] = a[i]
    BY <2>1, PrefixLemma
  <2>3. d[r] \in 0..MaxSend /\ <<d[r]>> \in Seq(0..MaxSend) /\ Len(<<d[r]>>) = 1 /\ <<d[r]>>[1] = d[r]
    OBVIOUS
  <2>4. \A i \in 1..1 : SubSeq(a, 1, 1)[i] = <<d[r]>>[i]
    BY <1>8, <2>2, <2>3
  <2>5. PICK c \in Seq(0..MaxSend) : c = SubSeq(a, 1, 1)
    BY <2>2
  <2>6. Len(c) = Len(<<d[r]>>) /\ \A i \in 1..Len(c) : c[i] = <<d[r]>>[i]
    BY <2>2, <2>3, <2>4, <2>5
  <2>7. c = <<d[r]>>
    BY <2>3, <2>6, SameLemma
  <2>8. QED
    BY <2>1, <2>5, <2>7
<1>11. QED
  BY <1>6, <1>7, <1>9, <1>10

\* A list from one place on is the entry there, and the list from the next on.
LEMMA FromPlaceLemma ==
  ASSUME NEW S, NEW list \in Seq(S), NEW at \in 1..Len(list)
  PROVE  /\ SubSeq(list, at + 1, Len(list)) \in Seq(S)
         /\ SubSeq(list, at, Len(list)) = <<list[at]>> \o SubSeq(list, at + 1, Len(list))
         /\ at = Len(list) => SubSeq(list, at + 1, Len(list)) = <<>>
<1> DEFINE rest == SubSeq(list, at + 1, Len(list))
           all == SubSeq(list, at, Len(list))
<1>1. Len(list) \in Nat /\ at \in Nat /\ list[at] \in S
  OBVIOUS
<1>2. /\ rest \in Seq(S) /\ Len(rest) = Len(list) - at
      /\ \A i \in 1..(Len(list) - at) : rest[i] = list[at + i]
  BY <1>1
<1>3. /\ all \in Seq(S) /\ Len(all) = Len(list) - at + 1
      /\ \A i \in 1..(Len(list) - at + 1) : all[i] = list[at + i - 1]
  BY <1>1
<1>4. PICK r \in Seq(S) : r = rest
  BY <1>2
<1>5. PICK a \in Seq(S) : a = all
  BY <1>3
<1>6. /\ <<list[at]>> \o r \in Seq(S) /\ Len(<<list[at]>> \o r) = Len(list) - at + 1
      /\ (<<list[at]>> \o r)[1] = list[at]
      /\ \A i \in 2..(Len(list) - at + 1) : (<<list[at]>> \o r)[i] = r[i - 1]
  BY <1>1, <1>2, <1>4
<1>7. \A i \in 2..(Len(list) - at + 1) : i - 1 \in 1..(Len(list) - at) /\ at + (i - 1) = at + i - 1
  BY <1>1
<1>8. \A i \in 1..(Len(list) - at + 1) : (<<list[at]>> \o r)[i] = list[at + i - 1]
  <2>1. \A i \in 2..(Len(list) - at + 1) : (<<list[at]>> \o r)[i] = list[at + i - 1]
    BY <1>2, <1>4, <1>6, <1>7
  <2>2. at + 1 - 1 = at
    BY <1>1
  <2>3. \A i \in 1..(Len(list) - at + 1) : i = 1 \/ i \in 2..(Len(list) - at + 1)
    BY <1>1
  <2>4. QED
    BY <1>6, <2>1, <2>2, <2>3
<1>9. a = <<list[at]>> \o r
  BY <1>1, <1>3, <1>5, <1>6, <1>8, SameLemma
<1>10. at = Len(list) => rest = <<>>
  BY <1>1, <1>2
<1>11. QED
  BY <1>2, <1>4, <1>5, <1>9, <1>10

\* What the peer reads is the first of the messages on their way.
LEMMA OutReadsLemma == IInv /\ PeerReads => Out!Arrive
<1>1. SUFFICES ASSUME IInv, PeerReads PROVE Out!Arrive
  OBVIOUS
<1>2. /\ peer_at > 0 /\ heard' = Append(heard, data[send_msg_list[peer_at]])
      /\ UNCHANGED <<data, send_msg_list, send_pending_list, peer_ind>>
      /\ peer_at' = IF peer_at < Len(send_msg_list) THEN peer_at + 1 ELSE 0
  BY <1>1 DEF PeerReads
<1>3. /\ send_msg_list \in Seq(Records) /\ data \in [Records -> 0..MaxSend] /\ heard \in Seq(1..MaxSend)
      /\ peer_at \in 1..Len(send_msg_list) /\ Len(send_msg_list) \in Nat
      /\ send_pending_list \in Seq(Records)
  BY <1>1, <1>2 DEF IInv, TypeOK
<1>4. ~peer_ind
  BY <1>1, <1>2 DEF IInv, TypeOK, ListsAgree
<1>5. PICK r \in Records : r = send_msg_list[peer_at]
  BY <1>3
<1>6. PICK rest \in Seq(Records) : rest = SubSeq(send_msg_list, peer_at + 1, Len(send_msg_list))
  BY <1>3, FromPlaceLemma
<1>7. /\ SubSeq(send_msg_list, peer_at, Len(send_msg_list)) = <<r>> \o rest
      /\ peer_at = Len(send_msg_list) => rest = <<>>
  BY <1>3, <1>5, <1>6, FromPlaceLemma
<1>8. Unread = <<r>> \o rest
  BY <1>2, <1>4, <1>7 DEF Unread
<1>9. Unread' = rest
  <2>1. CASE peer_at < Len(send_msg_list)
    <3>1. peer_at' = peer_at + 1 /\ peer_at' > 0
      BY <1>2, <1>3, <2>1
    <3>2. QED
      BY <1>2, <1>4, <1>6, <3>1 DEF Unread
  <2>2. CASE ~(peer_at < Len(send_msg_list))
    <3>1. peer_at = Len(send_msg_list) /\ peer_at' = 0
      BY <1>2, <1>3, <2>2
    <3>2. rest = <<>> /\ ~peer_ind' /\ ~(peer_at' > 0)
      BY <1>2, <1>4, <1>7, <3>1
    <3>3. QED
      BY <3>2 DEF Unread
  <2>3. QED
    BY <2>1, <2>2
<1>10. PICK list \in Seq(Records) : list = rest \o send_pending_list
  BY <1>3, ConcatLemma
<1>11. Waiting = <<r>> \o list /\ Waiting' = list
  <2>1. Waiting' = list
    BY <1>2, <1>9, <1>10 DEF Waiting
  <2>2. (<<r>> \o rest) \o send_pending_list = <<r>> \o (rest \o send_pending_list)
    BY <1>3
  <2>3. QED
    BY <1>8, <1>10, <2>1, <2>2 DEF Waiting
<1>12. /\ 1 \in 1..Len(Messages(data, <<r>> \o list))
       /\ SubSeq(Messages(data, <<r>> \o list), 1, 1) = <<data[r]>>
       /\ Messages(data, list)
            = SubSeq(Messages(data, <<r>> \o list), 1 + 1, Len(Messages(data, <<r>> \o list)))
  BY <1>3, FirstLemma
<1>13. /\ 1 \in 1..Len(Outbound) /\ SubSeq(Outbound, 1, 1) = <<data[r]>>
       /\ Outbound' = SubSeq(Outbound, 1 + 1, Len(Outbound))
  BY <1>2, <1>11, <1>12, OutboundLemma
<1>14. heard' = heard \o <<data[r]>>
  <2>1. data[r] \in 0..MaxSend /\ heard' = Append(heard, data[r])
    BY <1>2, <1>3, <1>5
  <2>2. QED
    BY <1>3, <2>1
<1>15. QED
  BY <1>13, <1>14 DEF Out!Arrive

\* No other step changes what is on its way.
LEMMA OutOtherLemma ==
  ASSUME IInv, IInv',
         \/ PeerStarts \/ hal_intersys_tx_irq \/ hal_intersys_close \/ hal_intersys_open
         \/ UNCHANGED <<tx, peer_rx>>
  PROVE  UNCHANGED <<Outbound, heard>>
<1>1. /\ send_msg_list \in Seq(Records) /\ send_pending_list \in Seq(Records)
  BY DEF IInv, TypeOK
<1>2. CASE PeerStarts
  <2>1. /\ peer_ind /\ peer_ind' = FALSE /\ peer_at' = 1
        /\ UNCHANGED <<data, send_msg_list, send_pending_list, heard>>
    BY <1>2 DEF PeerStarts, tx
  <2>2. SubSeq(send_msg_list, 1, Len(send_msg_list)) = send_msg_list
    BY <1>1
  <2>3. Unread' = Unread
    BY <2>1, <2>2 DEF Unread
  <2>4. QED
    BY <2>1, <2>3, OutboundLemma DEF Waiting
<1>3. CASE hal_intersys_tx_irq
  <2>1. /\ tx_done /\ ~peer_ind /\ peer_at = 0
        /\ send_msg_list' = send_pending_list /\ send_pending_list' = <<>>
        /\ peer_ind' = (send_pending_list # <<>>)
        /\ UNCHANGED <<data, peer_at, heard>>
    BY <1>3, AnsweredLemma
  <2>2. Unread = <<>>
    BY <2>1 DEF Unread
  <2>6. Unread' = send_pending_list
    <3>1. CASE send_pending_list # <<>>
      <4>1. peer_ind'
        BY <2>1, <3>1
      <4>2. QED
        BY <2>1, <4>1 DEF Unread
    <3>2. CASE send_pending_list = <<>>
      <4>1. peer_at' = 0
        BY <2>1
      <4>3. ~(peer_at' > 0)
        BY <4>1
      <4>4. ~peer_ind'
        BY <2>1, <3>2, Zenon
      <4>2. QED
        BY <3>2, <4>3, <4>4 DEF Unread
    <3>3. QED
      BY <3>1, <3>2
  <2>3. <<>> \o send_pending_list = send_pending_list /\ send_pending_list \o <<>> = send_pending_list
    BY <1>1
  <2>4. Waiting' = Waiting
    BY <2>1, <2>2, <2>3, <2>6 DEF Waiting
  <2>5. QED
    BY <2>1, <2>4, OutboundLemma
<1>4. CASE hal_intersys_close
  <2>1. /\ send_msg_list = <<>> /\ send_msg_list' = <<>> /\ send_pending_list' = <<>>
        /\ UNCHANGED <<data, peer_ind, peer_at, heard>>
    BY <1>4 DEF hal_intersys_close, Quiet, Forgotten, peer_rx
  <2>2. send_pending_list = <<>>
    BY <2>1 DEF IInv, ListsAgree
  <2>3. QED
    BY <2>1, <2>2, OutboundLemma DEF Waiting, Unread
<1>5. CASE hal_intersys_open
  <2>1. /\ ~chan_opened /\ send_msg_list' = <<>> /\ send_pending_list' = <<>> /\ peer_ind' = FALSE
        /\ UNCHANGED <<data, peer_at, heard>>
    BY <1>5 DEF hal_intersys_open, Forgotten
  <2>2. send_msg_list = <<>> /\ send_pending_list = <<>> /\ ~peer_ind /\ peer_at = 0
    BY <2>1 DEF IInv, ListsAgree
  <2>3. QED
    BY <2>1, <2>2, OutboundLemma DEF Waiting, Unread
<1>6. CASE UNCHANGED <<tx, peer_rx>>
  BY <1>6, OutboundLemma DEF Waiting, Unread, tx, peer_rx
<1>7. QED
  BY <1>2, <1>3, <1>4, <1>5, <1>6

\* What is sent reaches the peer as Link says.
LEMMA OutStepLemma ==
  IInv /\ IInv' /\ [Next]_vars => Out!Send \/ Out!Arrive \/ UNCHANGED <<Outbound, heard>>
<1>1. SUFFICES ASSUME IInv, IInv', [Next]_vars
               PROVE  Out!Send \/ Out!Arrive \/ UNCHANGED <<Outbound, heard>>
  OBVIOUS
<1>2. CASE hal_intersys_send
  BY <1>1, <1>2, OutSendLemma
<1>3. CASE PeerReads
  BY <1>1, <1>3, OutReadsLemma
<1>4. CASE PeerStarts \/ hal_intersys_tx_irq \/ hal_intersys_close \/ hal_intersys_open
  BY <1>1, <1>4, OutOtherLemma
<1>5. CASE PeerSends \/ PeerSeesDone \/ RxIrq \/ StartRecv \/ StartRecvEnds \/ hal_intersys_stop_recv
           \/ UNCHANGED vars
  <2>1. UNCHANGED <<tx, peer_rx>>
    BY <1>5 DEF PeerSends, PeerSeesDone, RxIrq, hal_intersys_rx_irq, StartRecv, StartRecvEnds,
      hal_intersys_stop_recv, vars
  <2>2. QED
    BY <1>1, <2>1, OutOtherLemma
<1>6. QED
  BY <1>1, <1>2, <1>3, <1>4, <1>5 DEF Next, Peer

\* What a receiver leaves behind of a list that it takes in part.
LEMMA PartLemma ==
  ASSUME NEW S, NEW s \in Seq(S), NEW from \in 0..Len(s), NEW until \in from..Len(s)
  PROVE  LET all == SubSeq(s, from + 1, Len(s))
         IN  /\ Len(all) = Len(s) - from
             /\ SubSeq(s, from + 1, until) = SubSeq(all, 1, until - from)
             /\ SubSeq(s, until + 1, Len(s)) = SubSeq(all, until - from + 1, Len(all))
<1>1. Len(s) \in Nat /\ from \in Nat /\ until \in Nat /\ until - from \in Nat
  OBVIOUS
<1>2. PICK all \in Seq(S) : all = SubSeq(s, from + 1, Len(s))
  <2>1. from + 1 \in 1..(Len(s) + 1) /\ Len(s) \in (from + 1 - 1)..Len(s)
    BY <1>1
  <2>2. SubSeq(s, from + 1, Len(s)) \in Seq(S)
    BY <2>1, SubSeqLemma
  <2>3. QED
    BY <2>2
<1>3. Len(all) = Len(s) - from /\ \A i \in 1..(Len(s) - from) : all[i] = s[from + i]
  <2>1. from + 1 \in 1..(Len(s) + 1) /\ Len(s) \in (from + 1 - 1)..Len(s)
    BY <1>1
  <2>2. /\ Len(all) = Len(s) - (from + 1) + 1
        /\ \A i \in 1..(Len(s) - (from + 1) + 1) : all[i] = s[(from + 1) + i - 1]
    BY <1>2, <2>1, SubSeqLemma
  <2>3. /\ Len(s) - (from + 1) + 1 = Len(s) - from
        /\ \A i \in 1..(Len(s) - from) : (from + 1) + i - 1 = from + i
    BY <1>1
  <2>4. QED
    BY <2>2, <2>3
<1>4. SubSeq(s, from + 1, until) = SubSeq(all, 1, until - from)
  <2>1. /\ from + 1 \in 1..(Len(s) + 1) /\ until \in (from + 1 - 1)..Len(s)
        /\ 1 \in 1..(Len(all) + 1) /\ until - from \in (1 - 1)..Len(all)
    BY <1>1, <1>3
  <2>2. /\ SubSeq(s, from + 1, until) \in Seq(S)
        /\ Len(SubSeq(s, from + 1, until)) = until - (from + 1) + 1
        /\ \A i \in 1..(until - (from + 1) + 1) : SubSeq(s, from + 1, until)[i] = s[(from + 1) + i - 1]
    BY <2>1, SubSeqLemma
  <2>3. /\ SubSeq(all, 1, until - from) \in Seq(S)
        /\ Len(SubSeq(all, 1, until - from)) = (until - from) - 1 + 1
        /\ \A i \in 1..((until - from) - 1 + 1) : SubSeq(all, 1, until - from)[i] = all[1 + i - 1]
    BY <2>1, SubSeqLemma
  <2>4. /\ until - (from + 1) + 1 = until - from /\ (until - from) - 1 + 1 = until - from
        /\ \A i \in 1..(until - from) : /\ (from + 1) + i - 1 = from + i /\ 1 + i - 1 = i
                                        /\ i \in 1..(Len(s) - from)
    BY <1>1
  <2>5. \A i \in 1..(until - from) : SubSeq(s, from + 1, until)[i] = SubSeq(all, 1, until - from)[i]
    BY <1>3, <2>2, <2>3, <2>4
  <2>6. PICK c \in Seq(S), e \in Seq(S) :
          c = SubSeq(s, from + 1, until) /\ e = SubSeq(all, 1, until - from)
    BY <2>2, <2>3
  <2>7. Len(c) = Len(e) /\ \A i \in 1..Len(c) : c[i] = e[i]
    BY <2>2, <2>3, <2>4, <2>5, <2>6
  <2>8. c = e
    BY <2>7, SameLemma
  <2>9. QED
    BY <2>6, <2>8
<1>5. SubSeq(s, until + 1, Len(s)) = SubSeq(all, until - from + 1, Len(all))
  <2>1. /\ until + 1 \in 1..(Len(s) + 1) /\ Len(s) \in (until + 1 - 1)..Len(s)
        /\ until - from + 1 \in 1..(Len(all) + 1) /\ Len(all) \in (until - from + 1 - 1)..Len(all)
    BY <1>1, <1>3
  <2>2. /\ SubSeq(s, until + 1, Len(s)) \in Seq(S)
        /\ Len(SubSeq(s, until + 1, Len(s))) = Len(s) - (until + 1) + 1
        /\ \A i \in 1..(Len(s) - (until + 1) + 1) :
             SubSeq(s, until + 1, Len(s))[i] = s[(until + 1) + i - 1]
    BY <2>1, SubSeqLemma
  <2>3. /\ SubSeq(all, until - from + 1, Len(all)) \in Seq(S)
        /\ Len(SubSeq(all, until - from + 1, Len(all))) = Len(all) - (until - from + 1) + 1
        /\ \A i \in 1..(Len(all) - (until - from + 1) + 1) :
             SubSeq(all, until - from + 1, Len(all))[i] = all[(until - from + 1) + i - 1]
    BY <2>1, SubSeqLemma
  <2>4. /\ Len(s) - (until + 1) + 1 = Len(s) - until
        /\ Len(all) - (until - from + 1) + 1 = Len(s) - until
        /\ \A i \in 1..(Len(s) - until) :
             /\ (until + 1) + i - 1 = until + i
             /\ (until - from + 1) + i - 1 = until - from + i
             /\ until - from + i \in 1..(Len(s) - from) /\ from + (until - from + i) = until + i
    BY <1>1, <1>3
  <2>5. \A i \in 1..(Len(s) - until) :
          SubSeq(s, until + 1, Len(s))[i] = SubSeq(all, until - from + 1, Len(all))[i]
    BY <1>3, <2>2, <2>3, <2>4
  <2>6. PICK c \in Seq(S), e \in Seq(S) :
          c = SubSeq(s, until + 1, Len(s)) /\ e = SubSeq(all, until - from + 1, Len(all))
    BY <2>2, <2>3
  <2>7. Len(c) = Len(s) - until /\ Len(e) = Len(s) - until
    BY <2>2, <2>3, <2>4, <2>6
  <2>8. \A i \in 1..(Len(s) - until) : c[i] = e[i]
    BY <2>5, <2>6
  <2>9. c = e
    BY <2>7, <2>8, SameLemma
  <2>10. QED
    BY <2>6, <2>9
<1>6. QED
  BY <1>2, <1>3, <1>4, <1>5

\* A list that the peer sends is all on its way.
LEMMA InSendLemma == IInv /\ PeerSends => In!Send
<1>1. SUFFICES ASSUME IInv, PeerSends PROVE In!Send
  OBVIOUS
<1>t. TypeOK /\ RestAgrees
  BY <1>1 DEF IInv
<1>2. /\ ~peer_waits /\ peer_sent < Len(Batches) /\ peer_sent' = peer_sent + 1 /\ peer_waits' = TRUE
      /\ UNCHANGED <<recv_pending_head, delivered, peer_done>>
  BY <1>1 DEF PeerSends
<1>3. recv_pending_head' = None /\ ~peer_done'
  BY <1>t, <1>2 DEF RestAgrees
<1>4. peer_sent' \in 1..Len(Batches)
  BY <1>t, <1>2, BatchAssumption DEF TypeOK
<1>5. PICK b \in 1..Len(Batches) : b = peer_sent'
  BY <1>4
<1>6. /\ Batches[b] \in Nat \ {0} /\ Bytes(b) \in Seq((1..Len(Batches)) \X Nat)
      /\ Len(Bytes(b)) = Batches[b]
  BY BytesLemma
<1>7. Inbound = <<>>
  BY <1>2 DEF Inbound
<1>8. Inbound' = SubSeq(Bytes(b), 0 + 1, Len(Bytes(b)))
  <2>1. From' = 0
    BY <1>3 DEF From
  <2>2. Bytes(b) = Bytes(peer_sent)' /\ Batches[peer_sent'] = Len(Bytes(b))
    BY <1>5, <1>6 DEF Bytes
  <2>3. QED
    BY <1>2, <1>3, <2>1, <2>2 DEF Inbound
<1>9. Len(Inbound') \in Nat /\ Len(Inbound') \in 1..Len(Inbound')
  <2>1. 0 \in 0..Len(Bytes(b)) /\ Len(Bytes(b)) \in 0..Len(Bytes(b))
    BY <1>6
  <2>2. Len(Inbound') = Len(Bytes(b)) - 0
    BY <1>6, <1>8, <2>1, PartLemma
  <2>3. QED
    BY <1>6, <2>2
<1>10. Inbound = SubSeq(Inbound', 1, Len(Inbound') - Len(Inbound'))
  <2>1. Len(Inbound') - Len(Inbound') = 0
    BY <1>9
  <2>2. SubSeq(Inbound', 1, 0) = <<>>
    OBVIOUS
  <2>3. QED
    BY <1>7, <2>1, <2>2
<1>11. QED
  BY <1>2, <1>9, <1>10 DEF In!Send

\* What the handlers take is the first part of what is on its way.
LEMMA InTakenLemma == IInv /\ RxIrq => In!Arrive \/ UNCHANGED <<Inbound, delivered>>
<1>1. SUFFICES ASSUME IInv, NEW stops \in BOOLEAN, NEW until, hal_intersys_rx_irq(until, stops)
               PROVE  In!Arrive \/ UNCHANGED <<Inbound, delivered>>
  BY DEF RxIrq
<1>2. /\ peer_waits /\ ~peer_done /\ peer_sent \in 1..Len(Batches)
      /\ From \in 0..Batches[peer_sent] /\ until \in From..Batches[peer_sent]
      /\ delivered' = delivered \o SubSeq(Bytes(peer_sent), From + 1, until)
      /\ recv_pending_head' = IF until < Batches[peer_sent] THEN until ELSE None
      /\ peer_done' = (until = Batches[peer_sent])
      /\ UNCHANGED <<peer_sent, peer_waits>>
  BY <1>1, TakenLemma
<1>3. PICK s \in Seq((1..Len(Batches)) \X Nat) : s = Bytes(peer_sent)
  BY <1>2, BytesLemma
<1>4. Len(s) = Batches[peer_sent] /\ Len(s) \in Nat /\ until \in Nat
  BY <1>2, <1>3, BytesLemma
<1>5. PICK from \in 0..Len(s) : from = From
  BY <1>2, <1>4
<1>6. until \in from..Len(s)
  BY <1>2, <1>4, <1>5
<1>7. Inbound = SubSeq(s, from + 1, Len(s))
  BY <1>2, <1>3, <1>4, <1>5 DEF Inbound
<1>8. /\ Len(Inbound) = Len(s) - from
      /\ SubSeq(s, from + 1, until) = SubSeq(Inbound, 1, until - from)
      /\ SubSeq(s, until + 1, Len(s)) = SubSeq(Inbound, until - from + 1, Len(Inbound))
  BY <1>6, <1>7, PartLemma
<1>9. Inbound' = SubSeq(s, until + 1, Len(s))
  <2>1. CASE until < Len(s)
    <3>1. recv_pending_head' = until /\ until # None /\ ~peer_done'
      <4>1. until < Batches[peer_sent] /\ until # Batches[peer_sent] /\ until # None
        BY <1>4, <2>1 DEF None
      <4>2. recv_pending_head' = until
        BY <1>2, <4>1
      <4>3. ~peer_done'
        BY <1>2, <4>1, Zenon
      <4>4. QED
        BY <4>1, <4>2, <4>3
    <3>2. From' = until
      BY <3>1 DEF From
    <3>3. Bytes(peer_sent)' = s
      BY <1>2, <1>3 DEF Bytes
    <3>4. QED
      BY <1>2, <1>4, <3>1, <3>2, <3>3 DEF Inbound
  <2>2. CASE ~(until < Len(s))
    <3>1. until = Len(s) /\ until = Batches[peer_sent]
      BY <1>4, <1>6, <2>2
    <3>2. peer_done'
      BY <1>2, <3>1
    <3>3. Inbound' = <<>>
      BY <3>2 DEF Inbound
    <3>4. SubSeq(s, until + 1, Len(s)) = <<>>
      BY <1>4, <3>1
    <3>5. QED
      BY <3>3, <3>4
  <2>3. QED
    BY <2>1, <2>2
<1>10. delivered' = delivered \o SubSeq(Inbound, 1, until - from)
  BY <1>2, <1>3, <1>5, <1>8
<1>11. CASE until = from
  <2>1. Inbound' = Inbound
    BY <1>7, <1>9, <1>11
  <2>2. until - from = 0 /\ SubSeq(Inbound, 1, 0) = <<>>
    BY <1>11
  <2>3. delivered \in Seq((1..Len(Batches)) \X Nat)
    BY <1>1 DEF IInv, TypeOK
  <2>4. delivered' = delivered
    BY <1>10, <2>2, <2>3
  <2>5. QED
    BY <2>1, <2>4
<1>12. CASE until # from
  <2>1. until - from \in 1..Len(Inbound)
    BY <1>4, <1>6, <1>8, <1>12
  <2>2. Inbound' = SubSeq(Inbound, until - from + 1, Len(Inbound))
    BY <1>8, <1>9
  <2>3. QED
    BY <1>10, <2>1, <2>2 DEF In!Arrive
<1>13. QED
  BY <1>11, <1>12

\* What the peer sends reaches the handlers as Link says.
LEMMA InStepLemma ==
  IInv /\ [Next]_vars => In!Send \/ In!Arrive \/ UNCHANGED <<Inbound, delivered>>
<1>1. SUFFICES ASSUME IInv, [Next]_vars
               PROVE  In!Send \/ In!Arrive \/ UNCHANGED <<Inbound, delivered>>
  OBVIOUS
<1>2. CASE PeerSends
  BY <1>1, <1>2, InSendLemma
<1>3. CASE RxIrq
  BY <1>1, <1>3, InTakenLemma
<1>4. CASE PeerSeesDone
  <2>1. peer_done /\ peer_waits' = FALSE /\ delivered' = delivered
    BY <1>4 DEF PeerSeesDone, rx
  <2>2. QED
    BY <2>1 DEF Inbound
<1>5. CASE hal_intersys_close
  <2>1. recv_pending_head = None /\ recv_pending_head' = None
        /\ UNCHANGED <<delivered, peer_sent, peer_done, peer_waits>>
    BY <1>5 DEF hal_intersys_close, Quiet, Forgotten, peer_tx
  <2>2. QED
    BY <2>1 DEF Inbound, From, Bytes
<1>6. CASE hal_intersys_open
  <2>1. /\ ~chan_opened /\ peer_done' = FALSE /\ recv_pending_head' = None
        /\ UNCHANGED <<delivered, peer_sent, peer_waits>>
    BY <1>6 DEF hal_intersys_open, Forgotten
  <2>2. recv_pending_head = None /\ ~peer_done
    BY <1>1, <2>1 DEF IInv, RestAgrees
  <2>3. QED
    BY <2>1, <2>2 DEF Inbound, From, Bytes
<1>7. CASE \/ hal_intersys_send \/ PeerReads \/ PeerStarts \/ hal_intersys_tx_irq \/ StartRecv
           \/ StartRecvEnds \/ hal_intersys_stop_recv \/ UNCHANGED vars
  <2>1. UNCHANGED <<recv_pending_head, delivered, peer_sent, peer_done, peer_waits>>
    BY <1>7 DEF hal_intersys_send, PeerReads, PeerStarts, hal_intersys_tx_irq, StartRecv, StartRecvEnds,
      hal_intersys_stop_recv, vars, rx, peer_tx
  <2>2. QED
    BY <2>1 DEF Inbound, From, Bytes
<1>8. QED
  BY <1>1, <1>2, <1>3, <1>4, <1>5, <1>6, <1>7 DEF Next, Peer

\* Both directions of the channel are reliable links (hal_intersys_send and
\* hal_intersys_tx_irq; hal_intersys_rx_irq and hal_intersys_start_recv).
THEOREM ArrivesTheorem == Spec => Arrives
<1>1. Init => Out!Init /\ In!Init
  <2>1. SUFFICES ASSUME Init PROVE Out!Init /\ In!Init
    OBVIOUS
  <2>2. /\ send_msg_list = <<>> /\ send_pending_list = <<>> /\ peer_ind = FALSE /\ peer_at = 0
        /\ heard = <<>> /\ delivered = <<>> /\ peer_waits = FALSE
    BY <2>1 DEF Init
  <2>3. Waiting = <<>>
    BY <2>2 DEF Waiting, Unread
  <2>4. Outbound = <<>>
    BY <2>3, OutboundLemma DEF Messages
  <2>5. Inbound = <<>>
    BY <2>2 DEF Inbound
  <2>6. QED
    BY <2>2, <2>4, <2>5 DEF Out!Init, In!Init
<1>2. IInv /\ IInv' /\ [Next]_vars =>
        /\ [Out!Send \/ Out!Arrive]_<<Outbound, heard>>
        /\ [In!Send \/ In!Arrive]_<<Inbound, delivered>>
  BY OutStepLemma, InStepLemma
<1>3. QED
  BY <1>1, <1>2, InvLemma, PTL DEF Spec, Arrives, Out!Spec, In!Spec
=============================================================================
