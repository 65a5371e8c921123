-------------------------------- MODULE Link --------------------------------
(* What the two processors rely on in one direction: what one sends arrives  *)
(* at the other, once and in the order it was sent.                          *)
EXTENDS Naturals, Sequences

CONSTANT Items

VARIABLES
  way,      \* sent, and not yet arrived
  arrived   \* everything that has arrived

Init == way = <<>> /\ arrived = <<>>

Send == \E n \in 1..Len(way') : way = SubSeq(way', 1, Len(way') - n) /\ UNCHANGED arrived

Arrive == \E n \in 1..Len(way) :
  /\ way' = SubSeq(way, n + 1, Len(way))
  /\ arrived' = arrived \o SubSeq(way, 1, n)

Spec == Init /\ [][Send \/ Arrive]_<<way, arrived>>
=============================================================================
