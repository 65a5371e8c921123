---------------------------- MODULE MediaManager ----------------------------
(* services/bt_app/app_bt_media_manager.cpp: which of music (SBC), prompts   *)
(* (MEDIA) and calls (VOICE) of two connected phones is heard.  The manager  *)
(* runs in app_thread and gives its orders to the audio module as messages,  *)
(* but clears the audio list directly.  The clock frequency it asks for and  *)
(* the tone it mixes into a running stream (app_ring_merge) are left out.    *)
EXTENDS AppAudio

VARIABLES
  media_active,       \* for each device, the stream types that are active
  media_curr_sbc,     \* the device whose music is played
  curr_active_media,  \* the stream type that is heard, "0" when there is none
  hfchan_call         \* the devices with an active call, written by the BT thread

manager == <<media_active, media_curr_sbc, curr_active_media>>

StreamTypes == {"SBC", "MEDIA", "VOICE"}

On(active, type)           == \E d \in Devices : type \in active[d]
Activated(type, d)         == [media_active EXCEPT ![d] = @ \cup {type}]
Deactivated(type, d)       == [media_active EXCEPT ![d] = @ \ {type}]
bt_media_clear_all_media_type == [d \in Devices |-> media_active[d] \ {"MEDIA"}]
btapp_hfp_get_call_state   == hfchan_call # {}

\* bt_media_get_active_device_by_type: the first one, BT_DEVICE_NUM for none.
FirstDevice(active, type) == Min({d \in Devices : type \in active[d]} \cup {BT_DEVICE_NUM})
\* Mutant: the device that was found is not returned.
ActiveSbcDevice_None(active, curr) == BT_DEVICE_NUM

\* bt_media_get_active_sbc_device
ActiveSbcDevice(active, curr) ==
  Min({d \in Devices : "SBC" \in active[d] /\ d = curr} \cup {BT_DEVICE_NUM})

Open(id)      == Audio("OPEN", id, BT_DEVICE_NUM, "none")
Close(id)     == Audio("CLOSE", id, BT_DEVICE_NUM, "none")
PlayMusic(d)  == <<Audio("SETUP", "A2DP_SBC", d, "none"), Open("A2DP_SBC")>>
PlayPrompt(p) == <<Audio("OPEN", "PLAY_BACK", BT_DEVICE_NUM, p)>>

\* The handler sends the requests and makes type the current media.
Switch(type, requests) ==
  /\ curr_active_media' = type
  /\ Handled(requests)
Stay(requests) == Switch(curr_active_media, requests)

Request(op, type, d) == Next_is("AUDIO_MANAGE", op, type) /\ Head(mailbox).dev = d
----------------------------------------------------------------------------
(* bt_media_start                                                            *)

StartSbc(d) ==
  LET active == Activated("SBC", d)
      curr   == IF media_curr_sbc = BT_DEVICE_NUM THEN d ELSE media_curr_sbc IN
  /\ Request("START", "SBC", d)
  /\ media_active' = active
  /\ media_curr_sbc' = curr
  /\ UNCHANGED <<audio, hfchan_call>>
  /\ IF On(active, "MEDIA") \/ On(active, "VOICE")
     THEN Stay(<<>>)
     ELSE IF \E other \in Devices \ {d} : "SBC" \in active[other]
     THEN IF curr # d
          THEN Stay(<<Audio("RESTART", "A2DP_SBC", BT_DEVICE_NUM, "none")>>)
          ELSE IF curr_active_media = "SBC"
               THEN Stay(<<Close("A2DP_SBC")>>)
               ELSE Assert_fails("curr_active_media is wrong!") /\ UNCHANGED curr_active_media
     ELSE Switch("SBC", PlayMusic(d))

\* Mutant: a merged tone stays active.
StartMedia_KeepMerged(d) ==
  LET active == Activated("MEDIA", d)
      p      == Head(mailbox).aud
      merged == /\ media_active' = active
                /\ Stay(<<>>)
      played(before) == /\ media_active' = active
                        /\ Switch("MEDIA", before \o PlayPrompt(p)) IN
  /\ Request("START", "MEDIA", d)
  /\ UNCHANGED <<audio, media_curr_sbc, hfchan_call>>
  /\ \/ /\ On(active, "VOICE")
        /\ CASE curr_active_media = "VOICE" ->
                  IF btapp_hfp_get_call_state THEN merged
                  ELSE played(<<Close("HFP_PCM")>>)
             [] curr_active_media = "MEDIA" -> played(<<>>)
             [] OTHER -> media_active' = active /\ Stay(<<>>)
     \/ /\ ~On(active, "VOICE") /\ On(active, "SBC")
        /\ CASE curr_active_media = "SBC" ->
                  IF p = "WARNING" THEN merged
                  ELSE played(<<Close("A2DP_SBC")>>)
             [] curr_active_media = "MEDIA" -> played(<<>>)
             [] OTHER -> /\ Assert_fails("media in sbc  current wrong")
                         /\ media_active' = active /\ UNCHANGED curr_active_media
     \/ /\ ~On(active, "VOICE") /\ ~On(active, "SBC")
        /\ played(<<>>)

StartMedia(d) ==
  LET active == Activated("MEDIA", d)
      p      == Head(mailbox).aud
      merged == /\ media_active' = bt_media_clear_all_media_type
                /\ Stay(<<>>)
      played(before) == /\ media_active' = active
                        /\ Switch("MEDIA", before \o PlayPrompt(p)) IN
  /\ Request("START", "MEDIA", d)
  /\ UNCHANGED <<audio, media_curr_sbc, hfchan_call>>
  /\ \/ /\ On(active, "VOICE")
        /\ CASE curr_active_media = "VOICE" ->
                  IF btapp_hfp_get_call_state THEN merged
                  ELSE played(<<Close("HFP_PCM")>>)
             [] curr_active_media = "MEDIA" -> played(<<>>)
             [] OTHER -> media_active' = active /\ Stay(<<>>)
     \/ /\ ~On(active, "VOICE") /\ On(active, "SBC")
        /\ CASE curr_active_media = "SBC" ->
                  IF p = "WARNING" THEN merged
                  ELSE played(<<Close("A2DP_SBC")>>)
             [] curr_active_media = "MEDIA" -> played(<<>>)
             [] OTHER -> /\ Assert_fails("media in sbc  current wrong")
                         /\ media_active' = active /\ UNCHANGED curr_active_media
     \/ /\ ~On(active, "VOICE") /\ ~On(active, "SBC")
        /\ played(<<>>)

StartVoice(d) ==
  LET active == Activated("VOICE", d) IN
  /\ Request("START", "VOICE", d)
  /\ UNCHANGED <<gStreamplayer, isRun, stop_proc, sample_rate, media_curr_sbc, hfchan_call>>
  /\ IF On(active, "MEDIA")
     THEN IF btapp_hfp_get_call_state
          THEN /\ media_active' = [e \in Devices |-> active[e] \ {"MEDIA"}]
               /\ IF curr_active_media = "MEDIA"
                  THEN /\ audio_list_clear
                       /\ Switch("VOICE", <<Close("PLAY_BACK"), Open("HFP_PCM")>>)
                  ELSE /\ UNCHANGED audio_list
                       /\ Switch("VOICE", <<Open("HFP_PCM")>>)
          ELSE media_active' = active /\ Stay(<<>>) /\ UNCHANGED audio_list
     ELSE /\ media_active' = active
          /\ UNCHANGED audio_list
          /\ IF On(active, "SBC")
             THEN Switch("VOICE", (IF curr_active_media = "SBC"
                                   THEN <<Close("A2DP_SBC")>> ELSE <<>>) \o <<Open("HFP_PCM")>>)
             ELSE IF curr_active_media = "VOICE" THEN Stay(<<>>)
                  ELSE Switch("VOICE", <<Open("HFP_PCM")>>)
----------------------------------------------------------------------------
(* bt_media_stop                                                             *)

\* Mutant: the device stays current when its music stops.
StopSbc_KeepDevice(d) ==
  LET active == Deactivated("SBC", d)
      first  == FirstDevice(active, "SBC")
      closed == curr_active_media = "SBC" /\ media_curr_sbc = d
      close  == IF closed THEN <<Close("A2DP_SBC")>> ELSE <<>> IN
  /\ Request("STOP", "SBC", d)
  /\ media_active' = active
  /\ UNCHANGED media_curr_sbc
  /\ UNCHANGED <<audio, hfchan_call>>
  /\ IF ~On(active, "VOICE") /\ ~On(active, "MEDIA") /\ On(active, "SBC")
     THEN Switch("SBC", close \o PlayMusic(first))
     ELSE Switch(IF closed THEN "0" ELSE curr_active_media, close)

\* Mutant: the music of the other device is not started.
StopSbc_NoOther(d) ==
  LET active == Deactivated("SBC", d)
      closed == curr_active_media = "SBC" /\ media_curr_sbc = d
      close  == IF closed THEN <<Close("A2DP_SBC")>> ELSE <<>> IN
  /\ Request("STOP", "SBC", d)
  /\ media_active' = active
  /\ media_curr_sbc' = FirstDevice(active, "SBC")
  /\ UNCHANGED <<audio, hfchan_call>>
  /\ Switch(IF closed THEN "0" ELSE curr_active_media, close)

StopSbc(d) ==
  LET active == Deactivated("SBC", d)
      first  == FirstDevice(active, "SBC")
      closed == curr_active_media = "SBC" /\ media_curr_sbc = d
      close  == IF closed THEN <<Close("A2DP_SBC")>> ELSE <<>> IN
  /\ Request("STOP", "SBC", d)
  /\ media_active' = active
  /\ media_curr_sbc' = first
  /\ UNCHANGED <<audio, hfchan_call>>
  /\ IF ~On(active, "VOICE") /\ ~On(active, "MEDIA") /\ On(active, "SBC")
     THEN Switch("SBC", close \o PlayMusic(first))
     ELSE Switch(IF closed THEN "0" ELSE curr_active_media, close)

\* Mutant: the current media is not set back to the call.
StopMedia_KeepVoice(d) ==
  LET active == bt_media_clear_all_media_type IN
  /\ Request("STOP", "MEDIA", d)
  /\ media_active' = active
  /\ UNCHANGED <<audio, media_curr_sbc, hfchan_call>>
  /\ IF On(active, "VOICE")
     THEN IF curr_active_media = "MEDIA"
          THEN Stay(<<Open("HFP_PCM")>>)
          ELSE Stay(<<>>)
     ELSE IF On(active, "SBC")
          THEN Switch("SBC", PlayMusic(ActiveSbcDevice(active, media_curr_sbc)))
          ELSE Switch("0", <<>>)

StopMedia(d) ==
  LET active == bt_media_clear_all_media_type IN
  /\ Request("STOP", "MEDIA", d)
  /\ media_active' = active
  /\ UNCHANGED <<audio, media_curr_sbc, hfchan_call>>
  /\ IF On(active, "VOICE")
     THEN IF curr_active_media = "MEDIA"
          THEN Switch("VOICE", <<Open("HFP_PCM")>>)
          ELSE Stay(<<>>)
     ELSE IF On(active, "SBC")
          THEN Switch("SBC", PlayMusic(ActiveSbcDevice(active, media_curr_sbc)))
          ELSE Switch("0", <<>>)

\* Mutant: the sample rate is not set up again.
StopVoice_NoSetup(d) ==
  LET active == Deactivated("VOICE", d) IN
  /\ Request("STOP", "VOICE", d)
  /\ media_active' = active
  /\ UNCHANGED <<audio, media_curr_sbc, hfchan_call>>
  /\ IF On(active, "MEDIA")
     THEN IF curr_active_media = "MEDIA" THEN Stay(<<>>)
          ELSE Assert_fails("media should be the current media") /\ UNCHANGED curr_active_media
     ELSE IF On(active, "VOICE") THEN Switch("VOICE", <<>>)
     ELSE IF On(active, "SBC")
          THEN Switch("SBC", <<Close("HFP_PCM"), Open("A2DP_SBC")>>)
          ELSE Switch("0", <<Close("HFP_PCM")>>)

StopVoice(d) ==
  LET active == Deactivated("VOICE", d) IN
  /\ Request("STOP", "VOICE", d)
  /\ media_active' = active
  /\ UNCHANGED <<audio, media_curr_sbc, hfchan_call>>
  /\ IF On(active, "MEDIA")
     THEN IF curr_active_media = "MEDIA" THEN Stay(<<>>)
          ELSE Assert_fails("media should be the current media") /\ UNCHANGED curr_active_media
     ELSE IF On(active, "VOICE") THEN Switch("VOICE", <<>>)
     ELSE IF On(active, "SBC")
          THEN Switch("SBC", <<Close("HFP_PCM")>>
                               \o PlayMusic(ActiveSbcDevice(active, media_curr_sbc)))
          ELSE Switch("0", <<Close("HFP_PCM")>>)
----------------------------------------------------------------------------
\* app_media_stop_media, called when a media is active.
StopAllMedia ==
  LET active == bt_media_clear_all_media_type
      playing == curr_active_media = "MEDIA"
      close   == IF playing THEN <<Close("PLAY_BACK")>> ELSE <<>> IN
  /\ audio_list_clear
  /\ media_active' = active
  /\ UNCHANGED <<gStreamplayer, isRun, stop_proc, sample_rate, media_curr_sbc>>
  /\ IF On(active, "VOICE")
     THEN Switch("VOICE", close \o <<Open("HFP_PCM")>>)
     ELSE IF On(active, "SBC")
          THEN Switch("SBC", close \o PlayMusic(ActiveSbcDevice(active, media_curr_sbc)))
          ELSE Switch(IF playing THEN "0" ELSE curr_active_media, close)

\* app_media_stop_media, or, for a call that starts, bt_media_switch_to_voice.
StopPrompts(op) ==
  /\ op \in {"STOP_MEDIA", "SWITCHTO_SCO"} /\ Next_is("AUDIO_MANAGE", op, "VOICE")
  /\ UNCHANGED hfchan_call
  /\ IF On(media_active, "MEDIA") /\ (op = "SWITCHTO_SCO" => curr_active_media # "VOICE")
     THEN StopAllMedia
     ELSE Handled(<<>>) /\ UNCHANGED <<audio, manager>>

app_audio_manager_handle_process ==
  \/ \E d \in Devices : \/ StartSbc(d) \/ StartMedia(d) \/ StartVoice(d)
                        \/ StopSbc(d) \/ StopMedia(d) \/ StopVoice(d)
  \/ \E op \in {"STOP_MEDIA", "SWITCHTO_SCO"} : StopPrompts(op)

ManagerInit ==
  /\ media_active = [d \in Devices |-> {}]
  /\ media_curr_sbc = BT_DEVICE_NUM /\ curr_active_media = "0"
=============================================================================
