--------------------------- MODULE MCAudioFlinger ---------------------------
(* Music and prompts on the output alone, and a call, with the speaker and   *)
(* one stream of the Bluetooth voice channel; the microphone and the other   *)
(* voice stream are opened, run and closed like the one kept.                *)
EXTENDS AudioFlinger

CONSTANTS music, prompt, call

Do(op, s) == [op |-> op, s |-> s]
Alone == <<Do("open", 0), Do("start", 0), Do("stop", 0), Do("close", 0)>>

\* bt_sco_player with the streams 0 (speaker) and 3 (voice in).
Call ==
  <<Do("open", 0), Do("open", 3), Do("start", 3), Do("start", 0),
    Do("stop", 0), Do("stop", 3), Do("close", 3), Do("close", 0)>>
MCScript == [s \in {music, prompt, call} |-> IF s = call THEN Call ELSE Alone]

\* The buffers of bt_sbc_player, app_play_audio and bt_sco_player, in fades of
\* 512 samples.
MCFade == [s \in {music, prompt, call} |-> CASE s = music -> 1 [] s = prompt -> 2 [] s = call -> 5]

\* What the theorem on StopIsQuiet asks of the streams.
ASSUME FewAssumption == FewStreams
=============================================================================
