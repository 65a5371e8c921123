----------------------------- MODULE MCIntersys -----------------------------
(* A channel with the three records of the code.                             *)
EXTENDS Intersys

TwoLists == <<3, 2>>
=============================================================================
