------------------------------- MODULE MCHci -------------------------------
(* Three packets of ten bytes in a queue of six and two mails.               *)
EXTENDS Hci

Lengths == [event |-> 1, acl |-> 2, sco |-> 1]
Three == <<[type |-> "sco", len |-> 2], [type |-> "event", len |-> 1], [type |-> "acl", len |-> 0]>>
Runs == UNION {{Run(first, n) : n \in 1..(11 - first)} : first \in 1..10}
=============================================================================
