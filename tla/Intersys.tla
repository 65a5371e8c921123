------------------------------ MODULE Intersys ------------------------------
(* platform/hal/hal_intersys.c: one channel between this processor and the   *)
(* Bluetooth processor (the peer, which is not in the repository: it answers *)
(* as the code expects).  Each side keeps a list of messages in shared       *)
(* memory, interrupts the other with "sent", and may change the list only    *)
(* after the other's "done".  A received message may be taken in part; the   *)
(* rest waits in recv_pending_head for start_recv.                           *)
EXTENDS Integers, Sequences, FiniteSets

CONSTANTS
  Records,   \* the send records, numbered (MAX_SEND_RECORD_COUNT of them)
  MaxSend,   \* bound: messages this side sends
  Batches    \* bound: the lists the peer sends, one after the other, as numbers of bytes

ASSUME RecordAssumption == Records \subseteq Nat /\ IsFiniteSet(Records) /\ Records # {}
ASSUME BatchAssumption == MaxSend \in Nat /\ Batches \in Seq(Nat \ {0})

VARIABLES
  in_use, data,        \* of every record: taken, and the message in it
  send_msg_list,       \* the records the peer may be reading
  send_pending_list,   \* the records that wait for its "done"
  chan_busy,           \* sleep is prohibited
  tx_irq_id, tx_done,  \* the transmit interrupt: enabled, pending
  sent,                \* messages taken by hal_intersys_send so far
  confirmed,           \* messages whose transmit handler was called
  peer_ind, peer_at, heard,  \* the peer: "sent" pending, its place in the list (0: none), what it read
  rx_irq_id, rx_ind,   \* the receive interrupt: enabled, pending
  recv_pending_head,   \* the byte of the peer's list to go on with, or None
  starting,            \* hal_intersys_start_recv is between its two steps
  peer_sent, peer_done, peer_waits, \* the peer: its lists so far, "done" pending, it waits for one
  delivered,           \* the bytes the receive handler took
  chan_opened

tx == <<in_use, data, send_msg_list, send_pending_list, chan_busy, tx_irq_id, tx_done, sent, confirmed>>
peer_rx == <<peer_ind, peer_at, heard>>
rx == <<rx_irq_id, rx_ind, recv_pending_head, starting, delivered>>
peer_tx == <<peer_sent, peer_done, peer_waits>>
vars == <<tx, peer_rx, rx, peer_tx, chan_opened>>

None == -1
Elements(list) == {list[i] : i \in 1..Len(list)}
----------------------------------------------------------------------------
(* Sending.                                                                  *)

Free == {r \in Records : ~in_use[r]}

\* Mutant: a message that must wait goes before those that wait already.
Enlist_First(r) ==
  IF send_msg_list = <<>>
  THEN send_msg_list' = <<r>> /\ peer_ind' = TRUE /\ UNCHANGED send_pending_list
  ELSE send_pending_list' = <<r>> \o send_pending_list /\ UNCHANGED <<send_msg_list, peer_ind>>

Enlist(r) ==
  IF send_msg_list = <<>>
  THEN send_msg_list' = <<r>> /\ peer_ind' = TRUE /\ UNCHANGED send_pending_list
  ELSE send_pending_list' = Append(send_pending_list, r) /\ UNCHANGED <<send_msg_list, peer_ind>>

\* The first free record takes the message; with none the call fails.
hal_intersys_send ==
  /\ chan_opened /\ sent < MaxSend /\ tx_irq_id' = TRUE
  /\ IF Free = {}
     THEN UNCHANGED <<in_use, data, send_msg_list, send_pending_list, chan_busy, sent, peer_ind>>
     ELSE \E r \in Free :
          /\ \A q \in Free : r <= q
          /\ in_use' = [in_use EXCEPT ![r] = TRUE] /\ data' = [data EXCEPT ![r] = sent + 1]
          /\ Enlist(r) /\ chan_busy' = TRUE /\ sent' = sent + 1
  /\ UNCHANGED <<tx_done, confirmed, peer_at, heard, rx, peer_tx, chan_opened>>

\* The peer goes through the list once, and answers "done" at its end.
PeerStarts ==
  /\ peer_ind /\ peer_at = 0 /\ peer_ind' = FALSE /\ peer_at' = 1
  /\ UNCHANGED <<tx, heard, rx, peer_tx, chan_opened>>

PeerReads ==
  /\ peer_at > 0 /\ heard' = Append(heard, data[send_msg_list[peer_at]])
  /\ IF peer_at < Len(send_msg_list)
     THEN peer_at' = peer_at + 1 /\ UNCHANGED tx_done
     ELSE peer_at' = 0 /\ tx_done' = TRUE
  /\ UNCHANGED <<in_use, data, send_msg_list, send_pending_list, chan_busy, tx_irq_id, sent,
                 confirmed, peer_ind, rx, peer_tx, chan_opened>>

\* Mutant: sleep is allowed with the pending messages sent on.
NextList_Sleep ==
  /\ send_msg_list' = send_pending_list /\ send_pending_list' = <<>> /\ chan_busy' = FALSE
  /\ peer_ind' = (send_pending_list # <<>>)
\* Mutant: the peer is not told of the pending messages.
NextList_Quiet ==
  /\ send_msg_list' = send_pending_list /\ send_pending_list' = <<>>
  /\ chan_busy' = (send_pending_list # <<>>) /\ UNCHANGED peer_ind

\* The pending list is sent on; without one the channel falls idle.
NextList ==
  IF send_pending_list # <<>>
  THEN send_msg_list' = send_pending_list /\ send_pending_list' = <<>> /\ peer_ind' = TRUE
       /\ UNCHANGED chan_busy
  ELSE send_msg_list' = <<>> /\ chan_busy' = FALSE /\ UNCHANGED <<send_pending_list, peer_ind>>

\* Mutant: the handler is called after the lists have changed.
hal_intersys_tx_irq_Next ==
  /\ tx_irq_id /\ tx_done /\ tx_done' = FALSE
  /\ confirmed' = confirmed \o [i \in 1..Len(send_pending_list) |-> data[send_pending_list[i]]]
  /\ in_use' = [r \in Records |-> in_use[r] /\ r \notin Elements(send_pending_list)]
  /\ NextList
  /\ UNCHANGED <<data, tx_irq_id, sent, peer_at, heard, rx, peer_tx, chan_opened>>

\* The handler is called for every message of the list and its record released.
hal_intersys_tx_irq ==
  /\ tx_irq_id /\ tx_done /\ tx_done' = FALSE
  /\ confirmed' = confirmed \o [i \in 1..Len(send_msg_list) |-> data[send_msg_list[i]]]
  /\ in_use' = [r \in Records |-> in_use[r] /\ r \notin Elements(send_msg_list)]
  /\ NextList
  /\ UNCHANGED <<data, tx_irq_id, sent, peer_at, heard, rx, peer_tx, chan_opened>>
----------------------------------------------------------------------------
(* Receiving.                                                                *)

Bytes(batch) == [i \in 1..Batches[batch] |-> <<batch, i>>]

PeerSends ==
  /\ ~peer_waits /\ peer_sent < Len(Batches)
  /\ peer_sent' = peer_sent + 1 /\ peer_waits' = TRUE /\ rx_ind' = TRUE
  /\ UNCHANGED <<tx, peer_rx, rx_irq_id, recv_pending_head, starting, delivered, peer_done, chan_opened>>

PeerSeesDone ==
  /\ peer_done /\ peer_done' = FALSE /\ peer_waits' = FALSE
  /\ UNCHANGED <<tx, peer_rx, rx, peer_sent, chan_opened>>

From == IF recv_pending_head # None THEN recv_pending_head ELSE 0

\* Mutant: the rest is taken to begin at the message's first byte.
Remember_First(until) == recv_pending_head' = IF until < Batches[peer_sent] THEN From ELSE None

\* Mutant: the pointer to the rest is moved back by the bytes taken.
Remember_Back(until) ==
  recv_pending_head' = IF until < Batches[peer_sent] THEN From - (until - From) ELSE None

\* Where to go on: after the bytes taken, unless the list is at its end.
Remember(until) == recv_pending_head' = IF until < Batches[peer_sent] THEN until ELSE None

\* The handlers take the bytes of the list up to a place, which may be all or
\* none, and may call stop_recv.
hal_intersys_rx_irq(until, stops) ==
  /\ rx_irq_id /\ rx_ind /\ rx_ind' = FALSE
  /\ until \in From..Batches[peer_sent]
  /\ delivered' = delivered \o SubSeq(Bytes(peer_sent), From + 1, until)
  /\ Remember(until) /\ peer_done' = (peer_done \/ until = Batches[peer_sent])
  /\ rx_irq_id' = ~stops
  /\ UNCHANGED <<tx, peer_rx, starting, peer_sent, peer_waits, chan_opened>>

\* hal_intersys_start_recv by a thread: the interrupt is enabled, and raised
\* again if there is a rest; the interrupt may come between the two.
StartRecv ==
  /\ chan_opened /\ ~starting /\ rx_irq_id' = TRUE /\ starting' = TRUE
  /\ UNCHANGED <<tx, peer_rx, rx_ind, recv_pending_head, delivered, peer_tx, chan_opened>>

Rerun == rx_ind' = (rx_ind \/ recv_pending_head # None)

StartRecvEnds ==
  /\ starting /\ Rerun /\ starting' = FALSE
  /\ UNCHANGED <<tx, peer_rx, rx_irq_id, recv_pending_head, delivered, peer_tx, chan_opened>>

hal_intersys_stop_recv ==
  /\ rx_irq_id /\ ~starting /\ rx_irq_id' = FALSE
  /\ UNCHANGED <<tx, peer_rx, rx_ind, recv_pending_head, starting, delivered, peer_tx, chan_opened>>
----------------------------------------------------------------------------
(* Opening and closing.  The callers let the channel fall quiet before they  *)
(* close it (bt_drv waits after what it sends), and open it only while it is *)
(* closed: btdrv_start_bt calls btdrv_hcioff before IAHCI_Open opens it.     *)

Quiet ==
  /\ send_msg_list = <<>> /\ recv_pending_head = None /\ ~starting /\ ~peer_done

Forgotten ==
  /\ send_msg_list' = <<>> /\ send_pending_list' = <<>> /\ recv_pending_head' = None
  /\ tx_irq_id' = FALSE /\ rx_irq_id' = FALSE

hal_intersys_close ==
  /\ chan_opened /\ Quiet /\ chan_opened' = FALSE /\ Forgotten
  /\ UNCHANGED <<in_use, data, chan_busy, tx_done, sent, confirmed, peer_rx, rx_ind, starting,
                 delivered, peer_tx>>

hal_intersys_open ==
  /\ ~chan_opened /\ chan_opened' = TRUE /\ Forgotten
  /\ peer_ind' = FALSE /\ peer_done' = FALSE /\ in_use' = [r \in Records |-> FALSE]
  /\ UNCHANGED <<data, chan_busy, tx_done, sent, confirmed, peer_at, heard, rx_ind, starting,
                 delivered, peer_sent, peer_waits>>
----------------------------------------------------------------------------
Init ==
  /\ in_use = [r \in Records |-> FALSE] /\ data = [r \in Records |-> 0]
  /\ send_msg_list = <<>> /\ send_pending_list = <<>> /\ chan_busy = FALSE
  /\ tx_irq_id = FALSE /\ tx_done = FALSE /\ sent = 0 /\ confirmed = <<>>
  /\ peer_ind = FALSE /\ peer_at = 0 /\ heard = <<>>
  /\ rx_irq_id = FALSE /\ rx_ind = FALSE /\ recv_pending_head = None /\ starting = FALSE
  /\ delivered = <<>> /\ peer_sent = 0 /\ peer_done = FALSE /\ peer_waits = FALSE
  /\ chan_opened = FALSE

Peer == PeerStarts \/ PeerReads \/ PeerSends \/ PeerSeesDone
RxIrq == \E batch \in 1..Len(Batches), stops \in BOOLEAN :
           \E until \in 0..Batches[batch] : hal_intersys_rx_irq(until, stops)

Next ==
  \/ hal_intersys_open \/ hal_intersys_close
  \/ hal_intersys_send \/ hal_intersys_tx_irq
  \/ RxIrq \/ StartRecv \/ StartRecvEnds \/ hal_intersys_stop_recv
  \/ Peer

Spec == Init /\ [][Next]_vars
----------------------------------------------------------------------------
TypeOK ==
  /\ in_use \in [Records -> BOOLEAN] /\ data \in [Records -> 0..MaxSend]
  /\ send_msg_list \in Seq(Records) /\ send_pending_list \in Seq(Records)
  /\ chan_busy \in BOOLEAN /\ tx_irq_id \in BOOLEAN /\ tx_done \in BOOLEAN /\ peer_ind \in BOOLEAN
  /\ rx_irq_id \in BOOLEAN /\ rx_ind \in BOOLEAN /\ starting \in BOOLEAN
  /\ peer_done \in BOOLEAN /\ peer_waits \in BOOLEAN /\ chan_opened \in BOOLEAN
  /\ sent \in 0..MaxSend /\ confirmed \in Seq(1..MaxSend) /\ heard \in Seq(1..MaxSend)
  /\ peer_at \in 0..Len(send_msg_list) /\ recv_pending_head \in Nat \union {None}
  /\ peer_sent \in 0..Len(Batches) /\ delivered \in Seq((1..Len(Batches)) \X Nat)

\* The messages sent that the peer has not read.
Unread ==
  IF peer_ind THEN send_msg_list
  ELSE IF peer_at > 0 THEN SubSeq(send_msg_list, peer_at, Len(send_msg_list)) ELSE <<>>
Outbound ==
  LET records == Unread \o send_pending_list IN [i \in 1..Len(records) |-> data[records[i]]]

\* The bytes the peer has sent that no handler has taken.
Inbound ==
  IF peer_waits /\ ~peer_done THEN SubSeq(Bytes(peer_sent), From + 1, Batches[peer_sent]) ELSE <<>>

Out == INSTANCE Link WITH way <- Outbound, arrived <- heard, Items <- 1..MaxSend
In  == INSTANCE Link WITH way <- Inbound, arrived <- delivered, Items <- (1..Len(Batches)) \X Nat

\* Every message sent reaches the peer once and in order (hal_intersys_send,
\* hal_intersys_tx_irq), though the records are reused and two lists are kept;
\* every byte the peer sends is taken once and in order (hal_intersys_rx_irq,
\* hal_intersys_start_recv), though the receiver may stop anywhere.
Arrives == Out!Spec /\ In!Spec

\* A transmit handler is called only for messages that the peer has read, so
\* that the sender may then use the message's buffer again.
ConfirmedIsHeard == Len(confirmed) <= Len(heard) /\ confirmed = SubSeq(heard, 1, Len(confirmed))

\* Sleep is prohibited exactly while the peer has something to read or answer.
BusyWhileSending == chan_busy <=> send_msg_list # <<>>

\* Interrupts are taken when enabled, the peer answers, and the receiver starts
\* again; only the callers of send, open and close are free.
Fairness ==
  /\ WF_vars(hal_intersys_tx_irq) /\ WF_vars(PeerStarts) /\ WF_vars(PeerReads)
Live == Spec /\ Fairness

\* A message that is sent is confirmed in the end.
SendIsConfirmed == \A m \in 1..MaxSend : sent >= m ~> Len(confirmed) >= m
=============================================================================
