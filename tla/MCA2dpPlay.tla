----------------------------- MODULE MCA2dpPlay -----------------------------
(* A queue of six frames, packets of two and three, half buffers of two.     *)
EXTENDS A2dpPlay

Packets == {Frames(n, age) : n \in Lengths, age \in {"fresh", "stray"}}
=============================================================================
