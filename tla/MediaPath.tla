----------------------------- MODULE MediaPath -----------------------------
(* The audio path: the media manager and the audio module in app_thread, the *)
(* audio thread that ends prompts, and what drives them: the A2DP and HFP    *)
(* callbacks of the Bluetooth thread (app_a2dp.cpp, app_hfp.cpp) and prompts *)
(* from any thread (media_PlayAudio).  A callback that does several things   *)
(* puts its messages one by one while app_thread runs.                       *)
EXTENDS MediaManager

CONSTANTS MaxMail,  \* bound: an event needs a mailbox shorter than this
          Music,    \* the devices with an A2DP link
          Voice     \* the devices with an HFP link

ASSUME MailAssumption == MaxMail \in Nat /\ Music \subseteq Devices /\ Voice \subseteq Devices

VARIABLES
  streaming,  \* devices whose A2DP stream is started
  sco,        \* devices whose voice channel is connected (hf_audio_state)
  callback    \* what the callback of the Bluetooth thread has still to do

phone == <<streaming, sco>>
vars  == <<mailbox, halted, audio, manager, hfchan_call, phone, callback>>

Put(msg)     == [do |-> "put", msg |-> msg]
Call(d, on)  == [do |-> IF on THEN "active" ELSE "none", msg |-> Manager("CALL", "VOICE", d, "none")]
Warning      == Manager("START", "MEDIA", 0, "WARNING")
StopPrompt(d) == Manager("STOP_MEDIA", "VOICE", d, "none")

Event == halted = "no" /\ Len(mailbox) < MaxMail
BtEvent == Event /\ callback = <<>>

Puts(msg) ==
  /\ app_mailbox_put(msg)
  /\ UNCHANGED <<halted, audio, manager, hfchan_call, callback>>
Does(steps) ==
  /\ callback' = steps
  /\ UNCHANGED <<mailbox, halted, audio, manager, hfchan_call>>
----------------------------------------------------------------------------
(* a2dp_callback                                                             *)

StreamStarted(d) ==
  /\ BtEvent /\ d \notin streaming
  /\ Puts(Manager("START", "SBC", d, "none"))
  /\ streaming' = streaming \cup {d} /\ UNCHANGED sco

StreamSuspended(d) ==
  /\ BtEvent /\ d \in streaming
  /\ Puts(Manager("STOP", "SBC", d, "none"))
  /\ streaming' = streaming \ {d} /\ UNCHANGED sco

\* The stop request is put twice.
StreamClosed(d) ==
  /\ BtEvent
  /\ LET stop == Put(Manager("STOP", "SBC", d, "none")) IN Does(<<stop, stop>>)
  /\ streaming' = streaming \ {d} /\ UNCHANGED sco

\* a2dp_suspend_music_force, called by app_deinit in another thread.
SuspendForced(d) ==
  /\ Event
  /\ Puts(Manager("STOP", "SBC", d, "none"))
  /\ UNCHANGED <<streaming, sco>>
----------------------------------------------------------------------------
(* hfp_callback                                                              *)

AudioConnected(d) ==
  /\ BtEvent /\ d \notin sco
  /\ Puts(Manager("START", "VOICE", d, "none"))
  /\ sco' = sco \cup {d} /\ UNCHANGED streaming

AudioDisconnected(d) ==
  /\ BtEvent /\ d \in sco
  /\ Puts(Manager("STOP", "VOICE", d, "none"))
  /\ sco' = sco \ {d} /\ UNCHANGED streaming

\* The link is lost with the call: hfchan_call keeps its value.
ServiceDisconnected(d) ==
  /\ BtEvent /\ d \notin sco
  /\ Puts(Manager("STOP", "VOICE", d, "none"))
  /\ UNCHANGED <<streaming, sco>>

\* A call becomes active: switch to the voice channel, play a warning tone,
\* and only then note the call.
CallActive(d) ==
  /\ BtEvent /\ d \notin hfchan_call
  /\ Does(<<Put(Manager("SWITCHTO_SCO", "VOICE", d, "none")), Put(Warning), Call(d, TRUE)>>)
  /\ UNCHANGED <<streaming, sco>>

\* A call ends: the prompts are stopped before the call is cleared.
CallNone(d) ==
  /\ BtEvent /\ d \in hfchan_call
  /\ Does(<<Put(StopPrompt(d)), Call(d, FALSE)>>)
  /\ UNCHANGED <<streaming, sco>>

\* An incoming call is refused or given up.
CallRefused(d) ==
  /\ BtEvent /\ d \notin hfchan_call
  /\ Puts(StopPrompt(d))
  /\ UNCHANGED <<streaming, sco>>

\* The next step of the callback.
CallbackStep ==
  /\ halted = "no" /\ callback # <<>>
  /\ callback' = Tail(callback)
  /\ LET step == Head(callback) IN
     /\ CASE step.do = "put"    -> app_mailbox_put(step.msg) /\ UNCHANGED hfchan_call
          [] step.do = "active" -> hfchan_call' = hfchan_call \cup {step.msg.dev} /\ UNCHANGED mailbox
          [] step.do = "none"   -> hfchan_call' = hfchan_call \ {step.msg.dev} /\ UNCHANGED mailbox
  /\ UNCHANGED <<halted, audio, manager, phone>>
----------------------------------------------------------------------------
\* media_PlayAudio, by the ring indication, the keys, the battery and others.
media_PlayAudio(p, d) ==
  /\ Event
  /\ Puts(Manager("START", "MEDIA", d, p))
  /\ UNCHANGED <<streaming, sco>>

HandleAudio   == app_audio_handle_process /\ UNCHANGED <<manager, hfchan_call, phone, callback>>
HandleManager == app_audio_manager_handle_process /\ UNCHANGED <<phone, callback>>
AudioThread   == PromptEnds /\ UNCHANGED <<manager, hfchan_call, phone, callback>>

Environment ==
  \/ \E d \in Music : \/ StreamStarted(d) \/ StreamSuspended(d)
                      \/ StreamClosed(d) \/ SuspendForced(d)
  \/ \E d \in Voice : \/ AudioConnected(d) \/ AudioDisconnected(d) \/ ServiceDisconnected(d)
                      \/ CallActive(d) \/ CallNone(d) \/ CallRefused(d)
  \/ \E d \in Music \cup Voice, p \in Prompts : media_PlayAudio(p, d)

Init ==
  /\ mailbox = <<>> /\ halted = "no" /\ AudioInit /\ ManagerInit
  /\ hfchan_call = {} /\ streaming = {} /\ sco = {} /\ callback = <<>>

Next == HandleAudio \/ HandleManager \/ AudioThread \/ CallbackStep \/ Environment

Spec == Init /\ [][Next]_vars

\* The threads run when they can; a prompt that plays comes to its end.
Fairness ==
  WF_vars(HandleAudio \/ HandleManager) /\ WF_vars(AudioThread) /\ WF_vars(CallbackStep)
FairSpec == Init /\ [][Next]_vars /\ Fairness
----------------------------------------------------------------------------
(* Properties.                                                               *)

Tones == Prompts \cup {"none", "WARNING"}

Requests ==
  [mod : {"AUDIO_MANAGE"}, op : {"START", "STOP"}, what : StreamTypes,
   dev : Devices, aud : Tones]
  \cup [mod : {"AUDIO_MANAGE"}, op : {"STOP_MEDIA", "SWITCHTO_SCO"}, what : {"VOICE"},
        dev : Devices, aud : {"none"}]
  \cup [mod : {"AUDIO"}, op : {"OPEN", "CLOSE", "RESTART"}, what : Players,
        dev : {BT_DEVICE_NUM}, aud : Tones]
  \cup [mod : {"AUDIO"}, op : {"SETUP"}, what : {"A2DP_SBC"}, dev : Devices, aud : {"none"}]

Steps == [do : {"put"}, msg : Requests]
         \cup {Call(d, on) : d \in Devices, on \in BOOLEAN}

\* Types.  A SETUP names a real device: app_bt_device.sample_rate is never
\* read with the index BT_DEVICE_NUM that bt_media_get_active_sbc_device
\* returns when it finds none.
TypeOK ==
  /\ mailbox \in Seq(Requests) /\ callback \in Seq(Steps)
  /\ audio_list \in Seq([id : Players, aud : Tones])
  /\ gStreamplayer \in Players \cup {"NUM"} /\ isRun \subseteq Players
  /\ stop_proc \in BOOLEAN
  /\ sample_rate \in Devices \cup {BT_DEVICE_NUM}
  /\ media_active \in [Devices -> SUBSET StreamTypes]
  /\ media_curr_sbc \in Devices \cup {BT_DEVICE_NUM}
  /\ curr_active_media \in StreamTypes \cup {"0"}
  /\ hfchan_call \subseteq Devices /\ streaming \subseteq Music /\ sco \subseteq Voice

Highest ==
  IF On(media_active, "MEDIA") THEN "MEDIA"
  ELSE IF On(media_active, "VOICE") THEN "VOICE"
  ELSE IF On(media_active, "SBC") THEN "SBC" ELSE "0"

\* After every message the manager's current media is the active type of the
\* highest priority: a prompt before a call before music (bt_media_start,
\* bt_media_stop, app_media_stop_media and bt_media_switch_to_voice agree).
CurrentIsHighest == curr_active_media = Highest

\* The device whose music is current is one whose music is active, and there
\* is none only when no music is (media_curr_sbc against media_active).
MusicDeviceActive ==
  IF On(media_active, "SBC")
  THEN media_curr_sbc \in Devices /\ "SBC" \in media_active[media_curr_sbc]
  ELSE media_curr_sbc = BT_DEVICE_NUM

\* None of the manager's assertions on its current media fails, and closing a
\* prompt never finds a Bluetooth stream behind it; only a full list stops
\* the firmware.
AssertsHold == halted \in {"no", "app_audio_list_append"}

\* The player that gStreamplayer names is the only one that runs: the stream
\* AUD_STREAM_ID_0 is never opened by two players.
OneOwner == isRun = {gStreamplayer} \ {"NUM"}

Running  == halted = "no" /\ mailbox = <<>>
Prompted == "PLAY_BACK" \in isRun /\ ~stop_proc

\* With no message left, the player is the one of the first list entry.
PlayerFollowsList ==
  Running => IF audio_list = <<>> THEN gStreamplayer = "NUM"
             ELSE gStreamplayer = Head(audio_list).id

\* With no message left, an active MEDIA means that a prompt is being played
\* whose end is still to be reported; otherwise the manager, which leaves
\* MEDIA only on that report, would keep music and calls silent for ever.
MediaWillEnd == Running /\ On(media_active, "MEDIA") => Prompted

Wanted == IF On(media_active, "VOICE") THEN "HFP_PCM"
          ELSE IF On(media_active, "SBC") THEN "A2DP_SBC" ELSE "NUM"

\* With no message left and no prompt to end, the voice of an active call is
\* heard, else the music of the current device, at its sample rate.
HeardWhenSettled ==
  Running /\ ~Prompted =>
    /\ gStreamplayer = Wanted
    /\ gStreamplayer = "A2DP_SBC" => sample_rate = media_curr_sbc

Machine == HandleAudio \/ HandleManager \/ AudioThread \/ CallbackStep

\* Once nothing happens outside, the prompts end and the voice or the music
\* that is active comes back, unless the full list stopped the firmware.
Settles ==
  <>[][Machine]_vars =>
    <>[](\/ halted # "no"
         \/ Running /\ ~On(media_active, "MEDIA") /\ gStreamplayer = Wanted)

\* app_bt_media_manager.cpp:229 and app_hfp.cpp:587: while a call is active
\* and its voice channel connected, tones are mixed into the voice and never
\* take its place.
CallIsHeard ==
  Running /\ callback = <<>> /\ hfchan_call # {} /\ On(media_active, "VOICE")
    => gStreamplayer = "HFP_PCM"

\* app_audio.cpp:447: the list has room for every prompt.
ListHasRoom == halted # "app_audio_list_append"
=============================================================================
