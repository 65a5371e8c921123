----------------------------- MODULE AppThread -----------------------------
(* apps/common/app_thread.c: one thread takes messages from one mailbox, in  *)
(* order, and calls the handler of the module each is for.  Any thread puts  *)
(* messages; a handler runs to its end before the next message is taken.     *)
EXTENDS Lists, TLC

VARIABLES
  mailbox,  \* the messages not yet handled
  halted    \* the name of the ASSERT that failed, "no" while the firmware runs

Devices == {0, 1}          \* BT_DEVICE_ID_1, BT_DEVICE_ID_2
BT_DEVICE_NUM == 2

\* A message for the media manager and one for the audio module.
Manager(op, stream_type, device_id, aud_id) ==
  [mod |-> "AUDIO_MANAGE", op |-> op, what |-> stream_type, dev |-> device_id, aud |-> aud_id]
Audio(status, id, device, aud_id) ==
  [mod |-> "AUDIO", op |-> status, what |-> id, dev |-> device, aud |-> aud_id]

\* app_mailbox_put from another thread.
app_mailbox_put(msg) == mailbox' = Append(mailbox, msg)

\* app_thread takes the head of the mailbox, and its handler puts new messages.
Next_is(mod, op, what) ==
  /\ halted = "no" /\ mailbox # <<>>
  /\ Head(mailbox).mod = mod /\ Head(mailbox).op = op /\ Head(mailbox).what = what
Handled(puts) == mailbox' = Tail(mailbox) \o puts /\ halted' = halted

\* ASSERT: the firmware stops.
Assert_fails(name) == halted' = name /\ mailbox' = mailbox
=============================================================================
