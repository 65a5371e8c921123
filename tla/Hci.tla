-------------------------------- MODULE Hci --------------------------------
(* utils/intersyshci/intersyshci.cpp: the HCI packets between the Bluetooth  *)
(* processor (the peer) and the stack.  hal_intersys is taken for what       *)
(* Intersys shows it to be: in each direction a link.  The peer cuts its     *)
(* packets into messages anywhere; the receive interrupt puts a message's    *)
(* bytes into a queue and its length into a mail queue; intersys_rx_thread   *)
(* puts the packets together again, an iteration of its loop per step.  The  *)
(* bytes of the peer's packets are numbered from 1 on.                       *)
EXTENDS CQueue, FiniteSets

CONSTANTS
  Packets,   \* bound: the packets the peer sends, by type and length
  Preamble,  \* hci_preamble_table: by type, the bytes up to those of the data
  MaxMail,   \* entries of intersys_rx_queue_msg
  MaxSend    \* bound: packets the stack sends

Types == {"event", "acl", "sco"}
Indices == 1..Len(Packets)

\* The type byte of packet p; that of the packet after the last ends them all.
Begin[p \in 1..(Len(Packets) + 1)] ==
  IF p = 1 THEN 1 ELSE Begin[p - 1] + 1 + Preamble[Packets[p - 1].type] + Packets[p - 1].len
Last == Begin[Len(Packets) + 1] - 1
Run(first, n) == [i \in 1..n |-> first + i - 1]
\* A packet as the stack gets it, without the type byte.
Packet(p) == Run(Begin[p] + 1, Begin[p + 1] - Begin[p] - 1)
PacketOf(byte) == CHOOSE p \in Indices : Begin[p] <= byte /\ byte < Begin[p + 1]

ASSUME HciAssumption ==
  /\ Packets \in Seq([type : Types, len : Nat]) /\ Preamble \in [Types -> Nat \ {0}]
  /\ {MaxMail, MaxSend} \subseteq Nat /\ Items = 0..Last /\ 0..Size \subseteq Wanted
  /\ \A first \in 1..Last : \A n \in 1..(Last + 1 - first) : Run(first, n) \in Chunks

VARIABLES
  arrived,    \* bytes the interrupt has put into the queue
  mails,      \* intersys_rx_queue_msg
  lost,       \* bytes whose length found the mail queue full
  at,         \* where intersys_rx_thread is: "get", or in the "first" or "second" run of cells
  cell, left, used, len2, \* in that run: the next byte's, bytes left, bytes read; the second's length
  rcv_state, rcv_msg_type, rcv_len, preload_buffer, p_buf,  \* h4_pcb and the stack's buffer
  indicated,  \* the packets given to the stack
  halted,     \* the assertion that stopped the firmware, or "no"
  sending, senddata, tx_signal, \* IAHCI_SendData: it waits, the packet in the buffer, signal 0x1
  out, done, told  \* messages out, their "done" pending, the packets the peer has read

\* vars are those of the queue.
run     == <<at, cell, left, used, len2>>
parser  == <<rcv_state, rcv_msg_type, rcv_len, preload_buffer, p_buf, indicated>>
tx      == <<sending, senddata, tx_signal, out, done, told>>
hciVars == <<vars, arrived, mails, lost, run, parser, halted, tx>>
----------------------------------------------------------------------------
(* The receive interrupt: a message of n bytes.                              *)

\* Mutant: a message that does not fit is cut short.
Queued_Short(n) ==
  LET fits == IF AvailableOfCQueue < n THEN AvailableOfCQueue ELSE n IN
  EnCQueue(Run(arrived + 1, fits)) /\ UNCHANGED halted

Queued(n) ==
  IF AvailableOfCQueue < n THEN halted' = "intersys_rx_queue overflow" /\ UNCHANGED vars
  ELSE EnCQueue(Run(arrived + 1, n)) /\ UNCHANGED halted

\* osMessagePut fails when the mail queue is full, and nobody looks.
bt_rx(n) ==
  /\ halted = "no" /\ arrived + n <= Last /\ Queued(n) /\ arrived' = arrived + n
  /\ IF Len(mails) < MaxMail THEN mails' = Append(mails, n) /\ UNCHANGED lost
                             ELSE lost' = lost + n /\ UNCHANGED mails
  /\ UNCHANGED <<run, parser, tx>>
----------------------------------------------------------------------------
(* intersys_rx_thread.                                                       *)

Get ==
  /\ halted = "no" /\ at = "get" /\ mails # <<>>
  /\ mails' = Tail(mails)
  /\ IF Head(mails) > len THEN halted' = "PeekCQueue" /\ UNCHANGED run
     ELSE LET peek == PeekCQueue(Head(mails)) IN
          /\ at' = "first" /\ cell' = peek.at1 /\ left' = peek.len1 /\ used' = 0 /\ len2' = peek.len2
          /\ UNCHANGED halted
  /\ UNCHANGED <<vars, arrived, lost, parser, tx>>

\* Mutant: the bytes of both runs are given back after the first.
RunEnds_Both ==
  /\ halted = "no" /\ at # "get" /\ left = 0
  /\ IF at = "first" THEN DeCQueue(used + len2, FALSE) ELSE DeCQueue(0, FALSE)
  /\ IF len2 > 0 /\ at = "first" THEN at' = "second" /\ cell' = 0 /\ left' = len2
                                 ELSE at' = "get" /\ UNCHANGED <<cell, left>>
  /\ used' = 0 /\ UNCHANGED <<len2, arrived, mails, lost, parser, halted, tx>>

\* The bytes of a run are given back to the queue when all are read.
RunEnds ==
  /\ halted = "no" /\ at # "get" /\ left = 0 /\ DeCQueue(used, FALSE)
  /\ IF len2 > 0 /\ at = "first" THEN at' = "second" /\ cell' = 0 /\ left' = len2
                                 ELSE at' = "get" /\ UNCHANGED <<cell, left>>
  /\ used' = 0 /\ UNCHANGED <<len2, arrived, mails, lost, parser, halted, tx>>

Byte == base[cell]
\* hci_h4_receive_msg reads n bytes in a state of its parser.
Reads(state, n) ==
  /\ halted = "no" /\ at # "get" /\ left > 0 /\ rcv_state = state
  /\ cell' = cell + n /\ left' = left - n /\ used' = used + n
  /\ UNCHANGED <<vars, arrived, mails, lost, at, len2, tx>>

\* A byte that is no type makes the function return 0 and its caller assert.
MsgType ==
  /\ Reads("MSGTYPE", 1)
  /\ IF \E p \in Indices : Begin[p] = Byte
     THEN /\ rcv_msg_type' = Packets[PacketOf(Byte)].type
          /\ rcv_len' = Preamble[rcv_msg_type'] /\ preload_buffer' = <<>> /\ rcv_state' = "LEN"
          /\ UNCHANGED <<p_buf, indicated, halted>>
     ELSE halted' = "DeCQueue" /\ UNCHANGED parser

Preload ==
  /\ Reads("LEN", 1) /\ rcv_len > 1
  /\ preload_buffer' = Append(preload_buffer, Byte) /\ rcv_len' = rcv_len - 1
  /\ UNCHANGED <<rcv_state, rcv_msg_type, p_buf, indicated, halted>>

\* The last byte of the preamble ends the packet's length; its data follow.
Until(length, wait) == rcv_len' = length /\ rcv_state' = IF length > 0 THEN wait ELSE "MSGTYPE"

\* The stack has a buffer, at once or within five tries.
Buffer ==
  /\ Reads("LEN", 1) /\ rcv_len = 1
  /\ preload_buffer' = Append(preload_buffer, Byte) /\ p_buf' = preload_buffer'
  /\ LET length == Packets[PacketOf(Byte)].len IN
     /\ Until(length, "DATA")
     /\ indicated' = IF length = 0 THEN Append(indicated, p_buf') ELSE indicated
  /\ UNCHANGED <<rcv_msg_type, halted>>

\* Mutant: the data of a packet without a buffer are not passed over.
NoBuffer_Data ==
  /\ Reads("LEN", 1) /\ rcv_len = 1
  /\ preload_buffer' = Append(preload_buffer, Byte)
  /\ halted' = IF rcv_msg_type = "sco" THEN "no" ELSE "NO BUFF"
  /\ rcv_len' = 0 /\ rcv_state' = "MSGTYPE"
  /\ UNCHANGED <<rcv_msg_type, p_buf, indicated>>

\* It has none: packets of voice are dropped, others stop the firmware.
NoBuffer ==
  /\ Reads("LEN", 1) /\ rcv_len = 1
  /\ preload_buffer' = Append(preload_buffer, Byte)
  /\ halted' = IF rcv_msg_type = "sco" THEN "no" ELSE "NO BUFF"
  /\ Until(Packets[PacketOf(Byte)].len, "IGNORE")
  /\ UNCHANGED <<rcv_msg_type, p_buf, indicated>>

Data ==
  LET n == IF left < rcv_len THEN left ELSE rcv_len IN
  /\ Reads("DATA", n)
  /\ p_buf' = p_buf \o [i \in 1..n |-> base[cell + i - 1]] /\ Until(rcv_len - n, "DATA")
  /\ indicated' = IF n = rcv_len THEN Append(indicated, p_buf') ELSE indicated
  /\ UNCHANGED <<rcv_msg_type, preload_buffer, halted>>

Ignore ==
  /\ Reads("IGNORE", 1) /\ Until(rcv_len - 1, "IGNORE")
  /\ UNCHANGED <<rcv_msg_type, preload_buffer, p_buf, indicated, halted>>

hci_h4_receive_msg == MsgType \/ Preload \/ Buffer \/ NoBuffer \/ Data \/ Ignore
intersys_rx_thread == Get \/ hci_h4_receive_msg \/ RunEnds
----------------------------------------------------------------------------
(* Sending: one buffer, used again when the peer has read it.                *)

rxVars == <<vars, arrived, mails, lost, run, parser, halted>>

IAHCI_SendData ==
  /\ halted = "no" /\ ~sending /\ senddata < MaxSend
  /\ sending' = TRUE /\ senddata' = senddata + 1 /\ tx_signal' = FALSE /\ out' = out + 1
  /\ UNCHANGED <<done, told, rxVars>>

PeerReads ==
  /\ halted = "no" /\ out > 0 /\ out' = out - 1 /\ told' = Append(told, senddata) /\ done' = TRUE
  /\ UNCHANGED <<sending, senddata, tx_signal, rxVars>>

\* Mutant: the flag of IAHCI_SendBuffer is set, so that the other signal is.
bt_tx_Other ==
  /\ halted = "no" /\ done /\ done' = FALSE
  /\ UNCHANGED <<sending, senddata, tx_signal, out, told, rxVars>>

bt_tx ==
  /\ halted = "no" /\ done /\ done' = FALSE /\ tx_signal' = TRUE
  /\ UNCHANGED <<sending, senddata, out, told, rxVars>>

SendEnds ==
  /\ halted = "no" /\ sending /\ tx_signal /\ tx_signal' = FALSE /\ sending' = FALSE
  /\ UNCHANGED <<senddata, out, done, told, rxVars>>
----------------------------------------------------------------------------
HciInit ==
  /\ read = 0 /\ write = 0 /\ len = 0 /\ base = [c \in Cells |-> 0] /\ ret = "ok" /\ taken = <<>>
  /\ arrived = 0 /\ mails = <<>> /\ lost = 0
  /\ at = "get" /\ cell = 0 /\ left = 0 /\ used = 0 /\ len2 = 0
  /\ rcv_state = "MSGTYPE" /\ rcv_msg_type = "event" /\ rcv_len = 0 /\ preload_buffer = <<>>
  /\ p_buf = <<>> /\ indicated = <<>> /\ halted = "no"
  /\ sending = FALSE /\ senddata = 0 /\ tx_signal = FALSE /\ out = 0 /\ done = FALSE /\ told = <<>>

Receive == \E n \in 1..Last : bt_rx(n)

HciNext == Receive \/ intersys_rx_thread \/ IAHCI_SendData \/ PeerReads \/ bt_tx \/ SendEnds

\* The peer sends and reads, interrupts are taken, and the threads run.
HciFairness ==
  /\ WF_hciVars(Receive) /\ WF_hciVars(intersys_rx_thread)
  /\ WF_hciVars(PeerReads) /\ WF_hciVars(bt_tx) /\ WF_hciVars(SendEnds)

HciSpec == HciInit /\ [][HciNext]_hciVars /\ HciFairness
----------------------------------------------------------------------------
HciTypeOK ==
  /\ TypeOK /\ arrived \in 0..Last /\ mails \in Seq(1..Last) /\ lost \in 0..Last
  /\ at \in {"get", "first", "second"} /\ cell \in 0..Size /\ {left, used, len2} \subseteq 0..Size
  /\ rcv_state \in {"MSGTYPE", "LEN", "DATA", "IGNORE"} /\ rcv_msg_type \in Types /\ rcv_len \in Nat
  /\ preload_buffer \in Seq(1..Last) /\ p_buf \in Seq(1..Last)
  /\ indicated \in Seq(Seq(1..Last)) /\ told \in Seq(1..MaxSend)
  /\ {sending, tx_signal, done} \subseteq BOOLEAN /\ senddata \in 0..MaxSend /\ out \in Nat

\* The bytes that hci_h4_receive_msg has read.
Parsed == arrived - len + used

\* The stack is given the peer's packets, each whole and in order, and every
\* one that has been read but packets of voice; the peer reads each packet of
\* the stack once and in order, though there is one buffer for all.
PacketsWhole ==
  /\ halted \in {"no", "intersys_rx_queue overflow", "NO BUFF"}
  /\ halted = "no" =>
       \E kept \in SUBSET Indices :
         /\ \A p \in Indices : Packets[p].type # "sco" /\ Begin[p + 1] - 1 <= Parsed => p \in kept
         /\ Len(indicated) = Cardinality(kept)
         /\ \A p \in kept : indicated[Cardinality({q \in kept : q <= p})] = Packet(p)
  /\ told = Run(1, Len(told))

\* Whatever the peer sends is read, but for as many bytes as were in messages
\* whose length found the mail queue full; and every send ends.
AllIsRead ==
  /\ <>[](halted # "no" \/ Parsed = Last - lost)
  /\ sending ~> (halted # "no" \/ ~sending)
=============================================================================
