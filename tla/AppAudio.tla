------------------------------ MODULE AppAudio ------------------------------
(* apps/audioplayers/app_audio.cpp, services/bt_app/app_bt_stream.cpp and    *)
(* the playback side of app_media_player.cpp: the list of streams and        *)
(* prompts, the one player that owns the audio stream, and the end of a      *)
(* prompt, which the audio thread reports with a message.  In this build     *)
(* every prompt that is played has data, CLOSEALL is never requested, and    *)
(* the clock frequency carried by the requests is not modelled.              *)
EXTENDS AppThread, FiniteSetsExt

CONSTANTS MAX_AUDIO_BUF_LIST,  \* length at which the list is full
          MAX_WARNINGS,        \* queued warnings, or language switches, after which more are dropped
          Prompts              \* the prompts that may be played

ASSUME ListAssumption ==
  /\ MAX_AUDIO_BUF_LIST \in Nat \ {0} /\ MAX_WARNINGS \in Nat
  /\ Prompts \subseteq STRING

VARIABLES
  audio_list,     \* app_audio_conifg.audio_list
  gStreamplayer,  \* the player that owns the stream, "NUM" when there is none
  isRun,          \* the players whose static isRun is set
  stop_proc,      \* app_play_sbc_stop_proc_cnt: the prompt's end was reported
  sample_rate     \* the device whose sample rate the A2DP player is set to

audio == <<audio_list, gStreamplayer, isRun, stop_proc, sample_rate>>

Players  == {"HFP_PCM", "A2DP_SBC", "PLAY_BACK"}
Entry(id, aud) == [id |-> id, aud |-> aud]

Playbacks         == {k \in DOMAIN audio_list : audio_list[k].id = "PLAY_BACK"}
app_audio_list_stream_exist == \E k \in DOMAIN audio_list : audio_list[k].id # "PLAY_BACK"
Queued(aud)       == {k \in Playbacks : audio_list[k].aud = aud}

\* app_audio_list_filter_exist: the prompt is dropped.
Filtered(aud) ==
  \/ aud = "INCOMING_CALL" /\ Queued(aud) # {}
  \/ aud \in {"WARNING", "LANGUAGE_SWITCH"} /\ Cardinality(Queued(aud)) > MAX_WARNINGS

audio_list_clear == audio_list' = <<>>
----------------------------------------------------------------------------
(* The player.                                                               *)

\* Mutant: the stream is opened while another player still has it.
app_bt_stream_open_Another(id) ==
  /\ gStreamplayer' = id
  /\ isRun' = isRun \cup {id}
  /\ stop_proc' = (stop_proc /\ id # "PLAY_BACK")

\* app_bt_stream_open closes the previous player first; media_audio_init
\* clears the end mark of a prompt.
app_bt_stream_open(id) ==
  /\ gStreamplayer' = id
  /\ isRun' = (isRun \ {gStreamplayer}) \cup {id}
  /\ stop_proc' = (stop_proc /\ id # "PLAY_BACK")

\* app_bt_stream_close does nothing unless id is the player.
app_bt_stream_close(id) ==
  /\ gStreamplayer' = IF gStreamplayer = id THEN "NUM" ELSE gStreamplayer
  /\ isRun' = IF gStreamplayer = id THEN isRun \ {id} ELSE isRun
  /\ UNCHANGED stop_proc
----------------------------------------------------------------------------
(* app_audio_handle_process.                                                 *)

\* OPEN of a Bluetooth stream: it replaces whatever the list holds.
OpenStream(id) ==
  /\ Next_is("AUDIO", "OPEN", id) /\ id # "PLAY_BACK"
  /\ audio_list' = <<Entry(id, "none")>>
  /\ app_bt_stream_open(id)
  /\ Handled(<<>>)
  /\ UNCHANGED sample_rate

OpenPrompt == Next_is("AUDIO", "OPEN", "PLAY_BACK")
NewPrompt  == Head(mailbox).aud

PromptFiltered ==
  /\ OpenPrompt /\ Filtered(NewPrompt)
  /\ Handled(<<>>)
  /\ UNCHANGED audio

\* The list is full: ASSERT(0, "#####app_audio_list_append error!!! FIXME!!!!").
PromptOverflow ==
  /\ OpenPrompt /\ ~Filtered(NewPrompt) /\ Playbacks # {}
  /\ Len(audio_list) >= MAX_AUDIO_BUF_LIST
  /\ Assert_fails("app_audio_list_append")
  /\ UNCHANGED audio

\* Mutant: a prompt interrupts the one that plays.
PromptQueued_Interrupt ==
  /\ OpenPrompt /\ ~Filtered(NewPrompt) /\ Playbacks # {}
  /\ Len(audio_list) < MAX_AUDIO_BUF_LIST
  /\ audio_list' = Append(audio_list, Entry("PLAY_BACK", NewPrompt))
  /\ app_bt_stream_close("PLAY_BACK")
  /\ Handled(<<>>)
  /\ UNCHANGED sample_rate

\* A prompt behind another one waits.
PromptQueued ==
  /\ OpenPrompt /\ ~Filtered(NewPrompt) /\ Playbacks # {}
  /\ Len(audio_list) < MAX_AUDIO_BUF_LIST
  /\ audio_list' = Append(audio_list, Entry("PLAY_BACK", NewPrompt))
  /\ Handled(<<>>)
  /\ UNCHANGED <<gStreamplayer, isRun, stop_proc, sample_rate>>

PromptPlayed ==
  /\ OpenPrompt /\ ~Filtered(NewPrompt) /\ Playbacks = {}
  /\ audio_list' = Append(audio_list, Entry("PLAY_BACK", NewPrompt))
  /\ app_bt_stream_open("PLAY_BACK")
  /\ Handled(<<>>)
  /\ UNCHANGED sample_rate

\* CLOSE of a Bluetooth stream: the front of the list goes when it holds one.
CloseStream(id) ==
  /\ Next_is("AUDIO", "CLOSE", id) /\ id # "PLAY_BACK"
  /\ app_bt_stream_close(id)
  /\ audio_list' = IF app_audio_list_stream_exist THEN Tail(audio_list) ELSE audio_list
  /\ Handled(<<>>)
  /\ UNCHANGED sample_rate

ClosePrompt == Next_is("AUDIO", "CLOSE", "PLAY_BACK")

\* Mutant: the count is taken after the prompt was removed.
Told_Late == IF Cardinality(Playbacks) = 2
             THEN <<Manager("STOP", "MEDIA", 0, "none")>> ELSE <<>>

\* The last prompt of the list ends, or is closed: the manager is told.
Told == IF Cardinality(Playbacks) = 1
        THEN <<Manager("STOP", "MEDIA", 0, "none")>> ELSE <<>>

\* No prompt is listed: only the player, if it is a prompt, is closed.
CloseUnlisted ==
  /\ ClosePrompt /\ Playbacks = {}
  /\ app_bt_stream_close("PLAY_BACK")
  /\ Handled(<<>>)
  /\ UNCHANGED <<audio_list, sample_rate>>

\* Another entry follows the first prompt: it is opened.
CloseNext ==
  /\ ClosePrompt /\ Playbacks # {}
  /\ LET k == Min(Playbacks) IN
     /\ k < Len(audio_list)
     /\ IF audio_list[k + 1].id = "PLAY_BACK"
        THEN /\ audio_list' = Without(audio_list, k)
             /\ app_bt_stream_open("PLAY_BACK")
             /\ Handled(Told)
        ELSE Assert_fails("111ERROR") /\ UNCHANGED <<audio_list, gStreamplayer, isRun, stop_proc>>
  /\ UNCHANGED sample_rate

\* Nothing follows it: a stream at the front of the list is opened again.
CloseLast ==
  /\ ClosePrompt /\ Playbacks # {}
  /\ Min(Playbacks) = Len(audio_list)
  /\ IF app_audio_list_stream_exist
     THEN app_bt_stream_open(Head(audio_list).id)
     ELSE app_bt_stream_close("PLAY_BACK")
  /\ audio_list' = Without(audio_list, Len(audio_list))
  /\ Handled(Told)
  /\ UNCHANGED sample_rate

\* SETUP of the sample rate of a device.
Setup ==
  /\ Next_is("AUDIO", "SETUP", "A2DP_SBC")
  /\ sample_rate' = Head(mailbox).dev
  /\ Handled(<<>>)
  /\ UNCHANGED <<audio_list, gStreamplayer, isRun, stop_proc>>

\* RESTART stops, closes, opens and starts the stream of the A2DP player.
Restart ==
  /\ Next_is("AUDIO", "RESTART", "A2DP_SBC")
  /\ isRun' = IF gStreamplayer = "A2DP_SBC" THEN isRun \cup {"A2DP_SBC"} ELSE isRun
  /\ Handled(<<>>)
  /\ UNCHANGED <<audio_list, gStreamplayer, stop_proc, sample_rate>>

app_audio_handle_process ==
  \/ \E id \in Players : OpenStream(id) \/ CloseStream(id)
  \/ PromptFiltered \/ PromptOverflow \/ PromptQueued \/ PromptPlayed
  \/ CloseUnlisted \/ CloseNext \/ CloseLast \/ Setup \/ Restart
----------------------------------------------------------------------------
\* Mutant: the end of a prompt is not reported.
PromptEnds_Silent ==
  /\ halted = "no" /\ "PLAY_BACK" \in isRun /\ ~stop_proc
  /\ stop_proc' = TRUE
  /\ UNCHANGED <<mailbox, audio_list, gStreamplayer, isRun, sample_rate, halted>>

\* app_play_sbc_more_data, called by the audio thread while the stream of the
\* prompt is started: the decoder has no more data.
PromptEnds ==
  /\ halted = "no" /\ "PLAY_BACK" \in isRun /\ ~stop_proc
  /\ stop_proc' = TRUE
  /\ app_mailbox_put(Audio("CLOSE", "PLAY_BACK", BT_DEVICE_NUM, "none"))
  /\ UNCHANGED <<audio_list, gStreamplayer, isRun, sample_rate, halted>>

AudioInit ==
  /\ audio_list = <<>> /\ gStreamplayer = "NUM" /\ isRun = {}
  /\ stop_proc = FALSE /\ sample_rate = BT_DEVICE_NUM
=============================================================================
