------------------------------ MODULE MCSysFreq ------------------------------
(* SysFreq with the audio manager in app_thread, which asks as user 8        *)
(* (APP_0), and the stack's event thread, which asks as user 9 (APP_1).      *)
EXTENDS SysFreq

CONSTANTS app, bt

Ask(u, freqs) == {u} \X freqs
Headset == [t \in {app, bt} |-> IF t = app THEN Ask(8, {0, 5}) ELSE Ask(9, {0, 3})]
=============================================================================
