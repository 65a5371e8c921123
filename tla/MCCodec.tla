------------------------------ MODULE MCCodec ------------------------------
(* The codec's driver with the requests of app_thread, of the timer thread,  *)
(* of intersys_rx_thread (intersyshci.cpp) and of an interrupt; the users    *)
(* are 4 the intersystem channel, 5 the codec, 8 APP_0 and 10 APP_2.         *)
EXTENDS Codec

CONSTANT rx

Ask(u, freqs) == {u} \X freqs
MCRequests ==
  [t \in Threads |-> CASE t = app -> Ask(5, {0, 2}) \union Ask(8, {0, 5})
                       [] t = tmr -> Ask(5, {0, 2})
                       [] t = rx  -> Ask(10, {0, 3})]
MCIrqs == Ask(4, {0, 2})

ASSUME AskersAssumption == AsksApart
=============================================================================
