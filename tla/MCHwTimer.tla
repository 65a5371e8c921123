----------------------------- MODULE MCHwTimer -----------------------------
(* HwTimer with few timers and short times.                                  *)
EXTENDS HwTimer

MCTicks == {0, 3}
=============================================================================
