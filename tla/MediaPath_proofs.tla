-------------------------- MODULE MediaPath_proofs --------------------------
(* Theorems about MediaPath, for every number of prompts, every list length, *)
(* every mailbox and every interleaving of the threads.  The first half      *)
(* shows that the manager's state agrees with itself after every message and *)
(* that one player owns the stream (PathInv).  The second half is about what *)
(* holds once the mailbox is empty: the manager and the player agree only    *)
(* then, so the invariant AheadInv says of the messages on their way what    *)
(* they will make of the player and the list.                                *)
EXTENDS MediaPath, FiniteSetTheorems, TLAPS

\* A Bluetooth stream is only ever the first entry of the list.
PromptsBehind == \A k \in DOMAIN audio_list : k > 1 => audio_list[k].id = "PLAY_BACK"

PathInv ==
  /\ TypeOK /\ CurrentIsHighest /\ MusicDeviceActive
  /\ OneOwner /\ PromptsBehind /\ AssertsHold

----------------------------------------------------------------------------
(* The operators of the manager.                                             *)

LEMMA OnLemma ==
  ASSUME NEW active, NEW type
  PROVE  On(active, type) <=> (type \in active[0] \/ type \in active[1])
BY DEF On, Devices

LEMMA FirstLemma ==
  ASSUME NEW active, NEW type
  PROVE  /\ On(active, type) => /\ FirstDevice(active, type) \in Devices
                                /\ type \in active[FirstDevice(active, type)]
         /\ ~On(active, type) => FirstDevice(active, type) = BT_DEVICE_NUM
<1> DEFINE S == {d \in Devices : type \in active[d]} \cup {BT_DEVICE_NUM}
<1>1. S \subseteq {0, 1, 2} /\ 2 \in S
  BY DEF Devices, BT_DEVICE_NUM
<1>2. \E x \in S : \A y \in S : x =< y
  <2>1. CASE 0 \in S
    BY <1>1, <2>1
  <2>2. CASE 0 \notin S /\ 1 \in S
    BY <1>1, <2>2
  <2>3. CASE 0 \notin S /\ 1 \notin S
    BY <1>1, <2>3
  <2> QED BY <2>1, <2>2, <2>3
<1>3. Min(S) \in S /\ \A y \in S : Min(S) =< y
  BY <1>2, Zenon DEF Min
<1>4. FirstDevice(active, type) = Min(S)
  BY DEF FirstDevice
<1> HIDE DEF S
<1>5. CASE On(active, type)
  <2>1. \E y \in S : y \in {0, 1}
    BY <1>5 DEF S, On, Devices
  <2>2. Min(S) # 2
    BY <1>1, <1>3, <2>1
  <2> QED BY <1>3, <1>4, <1>5, <2>2 DEF S, BT_DEVICE_NUM, On
<1>6. CASE ~On(active, type)
  BY <1>3, <1>4, <1>6 DEF S, BT_DEVICE_NUM, On
<1> QED BY <1>5, <1>6

LEMMA ActiveSbcLemma ==
  ASSUME NEW active, NEW curr \in Devices, "SBC" \in active[curr]
  PROVE  ActiveSbcDevice(active, curr) = curr
<1> DEFINE S == {d \in Devices : "SBC" \in active[d] /\ d = curr} \cup {BT_DEVICE_NUM}
<1>1. S = {curr, 2} /\ curr \in {0, 1}
  BY DEF Devices, BT_DEVICE_NUM
<1>2. \E x \in S : \A y \in S : x =< y
  BY <1>1
<1>3. Min(S) \in S /\ \A y \in S : Min(S) =< y
  BY <1>2, Zenon DEF Min
<1>4. Min(S) = curr
  BY <1>1, <1>3
<1> QED BY <1>4 DEF ActiveSbcDevice
----------------------------------------------------------------------------
(* The messages.                                                             *)

LEMMA MessageLemma ==
  /\ \A d \in Devices : PlayMusic(d) \in Seq(Requests)
  /\ \A id \in Players : Open(id) \in Requests /\ Close(id) \in Requests
  /\ \A p \in Tones : PlayPrompt(p) \in Seq(Requests)
  /\ Audio("RESTART", "A2DP_SBC", BT_DEVICE_NUM, "none") \in Requests
  /\ \A op \in {"START", "STOP"}, type \in StreamTypes, d \in Devices, p \in Tones :
       Manager(op, type, d, p) \in Requests
  /\ \A op \in {"STOP_MEDIA", "SWITCHTO_SCO"}, d \in Devices :
       Manager(op, "VOICE", d, "none") \in Requests
  /\ <<>> \in Seq(Requests)
  /\ \A m \in Requests : <<m>> \in Seq(Requests)
  /\ \A m, n \in Requests : <<m, n>> \in Seq(Requests)
  /\ \A s, t \in Seq(Requests) : s \o t \in Seq(Requests)
<1> USE DEF Requests, Audio, Manager, Open, Close, Tones, Players, BT_DEVICE_NUM
<1>1. \A d \in Devices : Audio("SETUP", "A2DP_SBC", d, "none") \in Requests
  OBVIOUS
<1>2. \A id \in Players : Open(id) \in Requests /\ Close(id) \in Requests
  OBVIOUS
<1>3. \A p \in Tones : Audio("OPEN", "PLAY_BACK", BT_DEVICE_NUM, p) \in Requests
  OBVIOUS
<1>4. Audio("RESTART", "A2DP_SBC", BT_DEVICE_NUM, "none") \in Requests
  OBVIOUS
<1>5. \A op \in {"START", "STOP"}, type \in StreamTypes, d \in Devices, p \in Tones :
       Manager(op, type, d, p) \in Requests
  OBVIOUS
<1>6. \A op \in {"STOP_MEDIA", "SWITCHTO_SCO"}, d \in Devices :
       Manager(op, "VOICE", d, "none") \in Requests
  OBVIOUS
<1>7. \A d \in Devices : PlayMusic(d) \in Seq(Requests)
  <2> HIDE DEF Requests, Audio, Open
  <2> QED BY <1>1, <1>2 DEF PlayMusic
<1>8. \A p \in Tones : PlayPrompt(p) \in Seq(Requests)
  <2> HIDE DEF Requests, Audio
  <2> QED BY <1>3 DEF PlayPrompt
<1>9. /\ <<>> \in Seq(Requests)
      /\ \A m \in Requests : <<m>> \in Seq(Requests)
      /\ \A m, n \in Requests : <<m, n>> \in Seq(Requests)
      /\ \A s, t \in Seq(Requests) : s \o t \in Seq(Requests)
  <2> HIDE DEF Requests
  <2> QED OBVIOUS
<1> QED
  <2> HIDE DEF Requests, Audio, Manager, Open, Close, Tones, Players, BT_DEVICE_NUM
  <2> QED BY <1>2, <1>4, <1>5, <1>6, <1>7, <1>8, <1>9
----------------------------------------------------------------------------
(* The invariant by the parts that the handlers change.                      *)

ManagerOK(active, curr, current) ==
  /\ active \in [Devices -> SUBSET StreamTypes]
  /\ curr \in Devices \cup {BT_DEVICE_NUM} /\ current \in StreamTypes \cup {"0"}
  /\ current = IF On(active, "MEDIA") THEN "MEDIA"
               ELSE IF On(active, "VOICE") THEN "VOICE"
               ELSE IF On(active, "SBC") THEN "SBC" ELSE "0"
  /\ IF On(active, "SBC") THEN curr \in Devices /\ "SBC" \in active[curr]
     ELSE curr = BT_DEVICE_NUM

AudioInv ==
  /\ audio_list \in Seq([id : Players, aud : Tones]) /\ PromptsBehind
  /\ gStreamplayer \in Players \cup {"NUM"} /\ isRun \subseteq Players /\ OneOwner
  /\ stop_proc \in BOOLEAN /\ sample_rate \in Devices \cup {BT_DEVICE_NUM}

MailInv  == mailbox \in Seq(Requests) /\ AssertsHold
OuterInv == /\ callback \in Seq(Steps) /\ hfchan_call \subseteq Devices
            /\ streaming \subseteq Music /\ sco \subseteq Voice

ManagerInv == ManagerOK(media_active, media_curr_sbc, curr_active_media)

LEMMA PartsLemma ==
  PathInv <=> ManagerInv /\ AudioInv /\ MailInv /\ OuterInv
BY DEF PathInv, ManagerInv, ManagerOK, AudioInv, MailInv, OuterInv, TypeOK,
       CurrentIsHighest, Highest, MusicDeviceActive

LEMMA ManagerPrime ==
  ManagerOK(media_active', media_curr_sbc', curr_active_media') => ManagerInv'
BY DEF ManagerInv, ManagerOK, On

LEMMA ActivatedLemma ==
  ASSUME media_active \in [Devices -> SUBSET StreamTypes],
         NEW type \in StreamTypes, NEW d \in Devices
  PROVE  /\ Activated(type, d) \in [Devices -> SUBSET StreamTypes]
         /\ On(Activated(type, d), type)
         /\ type \in Activated(type, d)[d]
         /\ \A t \in StreamTypes \ {type} :
              /\ On(Activated(type, d), t) <=> On(media_active, t)
              /\ \A e \in Devices : t \in Activated(type, d)[e] <=> t \in media_active[e]
         /\ \A e \in Devices : type \in media_active[e] => type \in Activated(type, d)[e]
BY DEF Activated, On

LEMMA DeactivatedLemma ==
  ASSUME media_active \in [Devices -> SUBSET StreamTypes],
         NEW type \in StreamTypes, NEW d \in Devices
  PROVE  /\ Deactivated(type, d) \in [Devices -> SUBSET StreamTypes]
         /\ \A t \in StreamTypes \ {type} :
              /\ On(Deactivated(type, d), t) <=> On(media_active, t)
              /\ \A e \in Devices : t \in Deactivated(type, d)[e] <=> t \in media_active[e]
         /\ \A e \in Devices \ {d} :
              type \in Deactivated(type, d)[e] <=> type \in media_active[e]
         /\ type \notin Deactivated(type, d)[d]
BY DEF Deactivated, On

LEMMA ClearedLemma ==
  ASSUME NEW active \in [Devices -> SUBSET StreamTypes], NEW cleared,
         cleared = [d \in Devices |-> active[d] \ {"MEDIA"}]
  PROVE  /\ cleared \in [Devices -> SUBSET StreamTypes]
         /\ ~On(cleared, "MEDIA")
         /\ \A t \in {"SBC", "VOICE"} :
              /\ On(cleared, t) <=> On(active, t)
              /\ \A e \in Devices : t \in cleared[e] <=> t \in active[e]
BY DEF On, StreamTypes

LEMMA HeadLemma ==
  ASSUME MailInv, NEW mod, NEW op, NEW what, Next_is(mod, op, what)
  PROVE  /\ mailbox # <<>> /\ Head(mailbox) \in Requests /\ Tail(mailbox) \in Seq(Requests)
         /\ Head(mailbox).aud \in Tones /\ Head(mailbox).dev \in Devices \cup {BT_DEVICE_NUM}
         /\ op = "SETUP" => Head(mailbox).dev \in Devices
         /\ halted = "no"
<1>1. mailbox # <<>> /\ halted = "no" /\ Head(mailbox).op = op
  BY DEF Next_is
<1>2. Head(mailbox) \in Requests /\ Tail(mailbox) \in Seq(Requests)
  BY <1>1 DEF MailInv
<1> DEFINE m == Head(mailbox)
<1>3. m.aud \in Tones /\ m.dev \in Devices \cup {BT_DEVICE_NUM}
      /\ (m.op = "SETUP" => m.dev \in Devices)
  <2>1. m \in Requests
    BY <1>2
  <2> HIDE DEF m
  <2> QED BY <2>1 DEF Requests, Tones
<1> QED BY <1>1, <1>2, <1>3

LEMMA HandledLemma ==
  ASSUME MailInv, NEW mod, NEW op, NEW what, Next_is(mod, op, what),
         NEW puts \in Seq(Requests), Handled(puts)
  PROVE  MailInv'
<1>1. Tail(mailbox) \in Seq(Requests) /\ halted = "no"
  BY HeadLemma
<1> QED BY <1>1 DEF MailInv, Handled, AssertsHold
----------------------------------------------------------------------------
(* The handlers of the manager.                                              *)

Sends == \E puts \in Seq(Requests) : Handled(puts)

LEMMA SendsLemma ==
  ASSUME MailInv, NEW mod, NEW op, NEW what, Next_is(mod, op, what), Sends
  PROVE  MailInv'
BY HandledLemma DEF Sends

LEMMA AudioSame ==
  ASSUME AudioInv, UNCHANGED audio
  PROVE  AudioInv'
BY DEF AudioInv, audio, PromptsBehind, OneOwner

LEMMA AudioCleared ==
  ASSUME AudioInv, audio_list' = <<>>, UNCHANGED <<gStreamplayer, isRun, stop_proc, sample_rate>>
  PROVE  AudioInv'
<1>1. <<>> \in Seq([id : Players, aud : Tones]) /\ DOMAIN <<>> = {}
  OBVIOUS
<1> QED BY <1>1 DEF AudioInv, PromptsBehind, OneOwner

LEMMA StartSbcLemma ==
  ASSUME ManagerInv, MailInv, AudioInv, NEW d \in Devices, StartSbc(d)
  PROVE  ManagerInv' /\ MailInv' /\ AudioInv'
<1> DEFINE active == Activated("SBC", d)
           curr   == IF media_curr_sbc = BT_DEVICE_NUM THEN d ELSE media_curr_sbc
<1>1. /\ media_active \in [Devices -> SUBSET StreamTypes]
      /\ media_curr_sbc \in Devices \cup {BT_DEVICE_NUM}
      /\ "SBC" \in StreamTypes /\ "MEDIA" \in StreamTypes /\ "VOICE" \in StreamTypes
  BY DEF ManagerInv, ManagerOK, StreamTypes
<1>2. /\ active \in [Devices -> SUBSET StreamTypes]
      /\ On(active, "SBC") /\ "SBC" \in active[d]
      /\ On(active, "MEDIA") <=> On(media_active, "MEDIA")
      /\ On(active, "VOICE") <=> On(media_active, "VOICE")
      /\ \A e \in Devices : "SBC" \in media_active[e] => "SBC" \in active[e]
  BY <1>1, ActivatedLemma
<1>3. curr \in Devices /\ "SBC" \in active[curr]
  BY <1>1, <1>2 DEF ManagerInv, ManagerOK
<1>4. (\E other \in Devices \ {d} : "SBC" \in active[other]) => On(media_active, "SBC")
  BY <1>1 DEF On, Activated
<1>5. /\ Next_is("AUDIO_MANAGE", "START", "SBC") /\ UNCHANGED audio
      /\ media_active' = active /\ media_curr_sbc' = curr
  BY DEF StartSbc, Request
<1>6. /\ \/ /\ On(active, "MEDIA") \/ On(active, "VOICE") \/ On(media_active, "SBC")
            /\ curr_active_media' = curr_active_media
         \/ /\ ~On(active, "MEDIA") /\ ~On(active, "VOICE")
            /\ curr_active_media' = "SBC"
      /\ Sends
  <2>1. curr_active_media # "SBC"
          => \/ On(active, "MEDIA") \/ On(active, "VOICE") \/ ~On(media_active, "SBC")
    BY <1>2 DEF ManagerInv, ManagerOK
  <2>2. /\ Handled(<<>>) => Sends
        /\ Handled(<<Audio("RESTART", "A2DP_SBC", BT_DEVICE_NUM, "none")>>) => Sends
        /\ Handled(<<Close("A2DP_SBC")>>) => Sends
        /\ Handled(PlayMusic(d)) => Sends
    BY MessageLemma DEF Sends, Players
  <2> HIDE DEF active, curr
  <2> QED BY <1>4, <2>1, <2>2 DEF StartSbc, Stay, Switch, active, curr
<1>7. ManagerOK(active, curr, curr_active_media')
  BY <1>1, <1>2, <1>3, <1>6 DEF ManagerInv, ManagerOK
<1> QED BY <1>5, <1>6, <1>7, ManagerPrime, SendsLemma, AudioSame

LEMMA StartMediaLemma ==
  ASSUME ManagerInv, MailInv, AudioInv, NEW d \in Devices, StartMedia(d)
  PROVE  ManagerInv' /\ MailInv' /\ AudioInv'
<1> DEFINE active  == Activated("MEDIA", d)
           cleared == bt_media_clear_all_media_type
           p       == Head(mailbox).aud
<1>1. /\ media_active \in [Devices -> SUBSET StreamTypes]
      /\ "SBC" \in StreamTypes /\ "MEDIA" \in StreamTypes /\ "VOICE" \in StreamTypes
  BY DEF ManagerInv, ManagerOK, StreamTypes
<1>2. /\ active \in [Devices -> SUBSET StreamTypes] /\ On(active, "MEDIA")
      /\ \A t \in {"SBC", "VOICE"} :
           /\ On(active, t) <=> On(media_active, t)
           /\ \A e \in Devices : t \in active[e] <=> t \in media_active[e]
  BY <1>1, ActivatedLemma
<1>3. /\ cleared \in [Devices -> SUBSET StreamTypes] /\ ~On(cleared, "MEDIA")
      /\ \A t \in {"SBC", "VOICE"} :
           /\ On(cleared, t) <=> On(media_active, t)
           /\ \A e \in Devices : t \in cleared[e] <=> t \in media_active[e]
  BY <1>1, ClearedLemma DEF bt_media_clear_all_media_type
<1>4. /\ Next_is("AUDIO_MANAGE", "START", "MEDIA") /\ UNCHANGED audio
      /\ media_curr_sbc' = media_curr_sbc
  BY DEF StartMedia, Request
<1>5. p \in Tones
  BY <1>4, HeadLemma
<1>6. /\ \/ /\ curr_active_media = "VOICE" /\ On(media_active, "VOICE")
            /\ curr_active_media' = curr_active_media /\ media_active' = cleared
         \/ /\ curr_active_media = "SBC" /\ On(media_active, "SBC") /\ ~On(media_active, "VOICE")
            /\ curr_active_media' = curr_active_media /\ media_active' = cleared
         \/ curr_active_media' = "MEDIA" /\ media_active' = active
      /\ Sends
  <2>1. /\ On(media_active, "VOICE") => curr_active_media \in {"VOICE", "MEDIA"}
        /\ On(media_active, "SBC") /\ ~On(media_active, "VOICE")
             => curr_active_media \in {"SBC", "MEDIA"}
    BY DEF ManagerInv, ManagerOK
  <2>2. /\ Handled(<<>>) => Sends
        /\ Handled(<<>> \o PlayPrompt(p)) => Sends
        /\ Handled(<<Close("HFP_PCM")>> \o PlayPrompt(p)) => Sends
        /\ Handled(<<Close("A2DP_SBC")>> \o PlayPrompt(p)) => Sends
    <3> HIDE DEF p
    <3>1. /\ PlayPrompt(p) \in Seq(Requests) /\ <<>> \in Seq(Requests)
          /\ <<Close("HFP_PCM")>> \in Seq(Requests) /\ <<Close("A2DP_SBC")>> \in Seq(Requests)
      BY <1>5, MessageLemma DEF Players
    <3>2. \A s \in Seq(Requests) : Handled(s \o PlayPrompt(p)) => Sends
      BY <3>1, MessageLemma DEF Sends
    <3> QED BY <3>1, <3>2 DEF Sends
  <2>3. On(active, "VOICE") <=> On(media_active, "VOICE")
    BY <1>2
  <2>4. On(active, "SBC") <=> On(media_active, "SBC")
    BY <1>2
  <2> HIDE DEF active, cleared, p
  <2> QED BY <2>1, <2>2, <2>3, <2>4 DEF StartMedia, Stay, Switch, active, cleared, p
<1>7. ManagerOK(media_active', media_curr_sbc', curr_active_media')
  <2> HIDE DEF active, cleared
  <2>1. CASE media_active' = cleared
    BY <1>3, <1>4, <1>6, <2>1, <1>2 DEF ManagerInv, ManagerOK
  <2>2. CASE media_active' = active /\ curr_active_media' = "MEDIA"
    BY <1>1, <1>2, <1>4, <2>2 DEF ManagerInv, ManagerOK
  <2> QED BY <1>6, <2>1, <2>2
<1> QED BY <1>4, <1>6, <1>7, ManagerPrime, SendsLemma, AudioSame

LEMMA StartVoiceLemma ==
  ASSUME ManagerInv, MailInv, AudioInv, NEW d \in Devices, StartVoice(d)
  PROVE  ManagerInv' /\ MailInv' /\ AudioInv'
<1> DEFINE active  == Activated("VOICE", d)
           cleared == [e \in Devices |-> active[e] \ {"MEDIA"}]
<1>1. /\ media_active \in [Devices -> SUBSET StreamTypes]
      /\ "SBC" \in StreamTypes /\ "MEDIA" \in StreamTypes /\ "VOICE" \in StreamTypes
  BY DEF ManagerInv, ManagerOK, StreamTypes
<1>2. /\ active \in [Devices -> SUBSET StreamTypes] /\ On(active, "VOICE")
      /\ \A t \in {"SBC", "MEDIA"} :
           /\ On(active, t) <=> On(media_active, t)
           /\ \A e \in Devices : t \in active[e] <=> t \in media_active[e]
  BY <1>1, ActivatedLemma
<1>3. /\ cleared \in [Devices -> SUBSET StreamTypes] /\ ~On(cleared, "MEDIA")
      /\ \A t \in {"SBC", "VOICE"} :
           /\ On(cleared, t) <=> On(active, t)
           /\ \A e \in Devices : t \in cleared[e] <=> t \in active[e]
  BY <1>2, ClearedLemma
<1>4. /\ Next_is("AUDIO_MANAGE", "START", "VOICE")
      /\ media_curr_sbc' = media_curr_sbc
      /\ UNCHANGED <<gStreamplayer, isRun, stop_proc, sample_rate>>
  BY DEF StartVoice, Request
<1>5. /\ \/ curr_active_media' = "VOICE" /\ media_active' = cleared /\ On(media_active, "MEDIA")
         \/ /\ curr_active_media' = curr_active_media /\ media_active' = active
            /\ On(media_active, "MEDIA") \/ curr_active_media = "VOICE"
         \/ /\ ~On(media_active, "MEDIA")
            /\ curr_active_media' = "VOICE" /\ media_active' = active
      /\ Sends
      /\ audio_list' \in {<<>>, audio_list}
  <2>1. /\ Handled(<<>>) => Sends
        /\ Handled(<<Open("HFP_PCM")>>) => Sends
        /\ Handled(<<Close("PLAY_BACK"), Open("HFP_PCM")>>) => Sends
        /\ Handled(<<Close("A2DP_SBC")>> \o <<Open("HFP_PCM")>>) => Sends
        /\ Handled(<<>> \o <<Open("HFP_PCM")>>) => Sends
    <3>1. /\ Open("HFP_PCM") \in Requests /\ Close("PLAY_BACK") \in Requests
          /\ Close("A2DP_SBC") \in Requests
      BY MessageLemma DEF Players
    <3>2. /\ <<Open("HFP_PCM")>> \in Seq(Requests) /\ <<>> \in Seq(Requests)
          /\ <<Close("PLAY_BACK"), Open("HFP_PCM")>> \in Seq(Requests)
          /\ <<Close("A2DP_SBC")>> \in Seq(Requests)
      BY <3>1, MessageLemma
    <3>3. /\ <<Close("A2DP_SBC")>> \o <<Open("HFP_PCM")>> \in Seq(Requests)
          /\ <<>> \o <<Open("HFP_PCM")>> \in Seq(Requests)
      BY <3>2, MessageLemma
    <3> QED BY <3>2, <3>3 DEF Sends
  <2>2. /\ On(active, "MEDIA") <=> On(media_active, "MEDIA")
        /\ On(active, "SBC") <=> On(media_active, "SBC")
    BY <1>2
  <2> HIDE DEF active
  <2> QED BY <2>1, <2>2 DEF StartVoice, Stay, Switch, audio_list_clear, active
<1>6. ManagerOK(media_active', media_curr_sbc', curr_active_media')
  <2> HIDE DEF active, cleared
  <2>1. CASE media_active' = cleared
    BY <1>1, <1>2, <1>3, <1>4, <1>5, <2>1 DEF ManagerInv, ManagerOK
  <2>2. CASE media_active' = active
    BY <1>1, <1>2, <1>3, <1>4, <1>5, <2>2 DEF ManagerInv, ManagerOK
  <2> QED BY <1>5, <2>1, <2>2
<1>7. AudioInv'
  BY <1>4, <1>5, AudioCleared, AudioSame DEF audio
<1> QED BY <1>4, <1>5, <1>6, <1>7, ManagerPrime, SendsLemma

LEMMA StopSbcLemma ==
  ASSUME ManagerInv, MailInv, AudioInv, NEW d \in Devices, StopSbc(d)
  PROVE  ManagerInv' /\ MailInv' /\ AudioInv'
<1> DEFINE active == Deactivated("SBC", d)
           first  == FirstDevice(active, "SBC")
           closed == curr_active_media = "SBC" /\ media_curr_sbc = d
           close  == IF closed THEN <<Close("A2DP_SBC")>> ELSE <<>>
<1>1. /\ media_active \in [Devices -> SUBSET StreamTypes]
      /\ media_curr_sbc \in Devices \cup {BT_DEVICE_NUM}
      /\ "SBC" \in StreamTypes /\ "MEDIA" \in StreamTypes /\ "VOICE" \in StreamTypes
  BY DEF ManagerInv, ManagerOK, StreamTypes
<1>2. /\ active \in [Devices -> SUBSET StreamTypes]
      /\ On(active, "MEDIA") <=> On(media_active, "MEDIA")
      /\ On(active, "VOICE") <=> On(media_active, "VOICE")
      /\ \A e \in Devices \ {d} : "SBC" \in active[e] <=> "SBC" \in media_active[e]
  BY <1>1, DeactivatedLemma
<1>3. IF On(active, "SBC") THEN first \in Devices /\ "SBC" \in active[first]
      ELSE first = BT_DEVICE_NUM
  BY FirstLemma
<1>4. /\ Next_is("AUDIO_MANAGE", "STOP", "SBC") /\ UNCHANGED audio
      /\ media_active' = active /\ media_curr_sbc' = first
  BY DEF StopSbc, Request
<1>5. /\ IF ~On(active, "VOICE") /\ ~On(active, "MEDIA") /\ On(active, "SBC")
         THEN curr_active_media' = "SBC"
         ELSE curr_active_media' = IF closed THEN "0" ELSE curr_active_media
      /\ Sends
  <2>1. /\ Handled(close) => Sends
        /\ first \in Devices => (Handled(close \o PlayMusic(first)) => Sends)
    <3>1. close \in Seq(Requests)
      BY MessageLemma DEF Players
    <3>2. first \in Devices => close \o PlayMusic(first) \in Seq(Requests)
      <4> HIDE DEF close, first
      <4> QED BY <3>1, MessageLemma
    <3> HIDE DEF close, first
    <3> QED BY <3>1, <3>2 DEF Sends
  <2> HIDE DEF active, first, closed, close
  <2> QED BY <1>3, <2>1 DEF StopSbc, Stay, Switch, active, first, closed, close
<1>6. ~On(active, "SBC") /\ ~On(active, "MEDIA") /\ ~On(active, "VOICE")
        => curr_active_media' = "0"
  <2>1. SUFFICES ASSUME ~On(active, "SBC"), ~On(active, "MEDIA"), ~On(active, "VOICE")
                 PROVE  curr_active_media' = "0"
    OBVIOUS
  <2>2. \A e \in Devices \ {d} : "SBC" \notin media_active[e]
    BY <1>2, <2>1 DEF On
  <2>3. curr_active_media = "0" \/ closed
    BY <1>1, <1>2, <2>1, <2>2 DEF ManagerInv, ManagerOK
  <2> QED BY <1>5, <2>1, <2>3
<1>7. On(active, "MEDIA") \/ On(active, "VOICE") => curr_active_media' = curr_active_media
  BY <1>2, <1>5 DEF ManagerInv, ManagerOK
<1>8. ManagerOK(active, first, curr_active_media')
  <2> HIDE DEF active, first, closed
  <2> QED BY <1>1, <1>2, <1>3, <1>5, <1>6, <1>7 DEF ManagerInv, ManagerOK
<1> QED BY <1>4, <1>5, <1>8, ManagerPrime, SendsLemma, AudioSame

LEMMA MusicSends ==
  ASSUME ManagerInv, NEW active, On(active, "SBC"),
         On(active, "SBC") <=> On(media_active, "SBC"),
         \A e \in Devices : "SBC" \in active[e] <=> "SBC" \in media_active[e]
  PROVE  PlayMusic(ActiveSbcDevice(active, media_curr_sbc)) \in Seq(Requests)
<1>1. media_curr_sbc \in Devices /\ "SBC" \in active[media_curr_sbc]
  BY DEF ManagerInv, ManagerOK
<1> QED BY <1>1, ActiveSbcLemma, MessageLemma

LEMMA StopMediaLemma ==
  ASSUME ManagerInv, MailInv, AudioInv, NEW d \in Devices, StopMedia(d)
  PROVE  ManagerInv' /\ MailInv' /\ AudioInv'
<1> DEFINE active == bt_media_clear_all_media_type
           music  == PlayMusic(ActiveSbcDevice(active, media_curr_sbc))
<1>1. /\ media_active \in [Devices -> SUBSET StreamTypes]
      /\ "SBC" \in StreamTypes /\ "MEDIA" \in StreamTypes /\ "VOICE" \in StreamTypes
  BY DEF ManagerInv, ManagerOK, StreamTypes
<1>2. /\ active \in [Devices -> SUBSET StreamTypes] /\ ~On(active, "MEDIA")
      /\ On(active, "SBC") <=> On(media_active, "SBC")
      /\ On(active, "VOICE") <=> On(media_active, "VOICE")
      /\ \A e \in Devices : "SBC" \in active[e] <=> "SBC" \in media_active[e]
  BY <1>1, ClearedLemma DEF bt_media_clear_all_media_type
<1>3. /\ Next_is("AUDIO_MANAGE", "STOP", "MEDIA") /\ UNCHANGED audio
      /\ media_active' = active /\ media_curr_sbc' = media_curr_sbc
  BY DEF StopMedia, Request
<1>4. /\ curr_active_media' = IF On(active, "VOICE") THEN "VOICE"
                              ELSE IF On(active, "SBC") THEN "SBC" ELSE "0"
      /\ Sends
  <2>1. On(active, "VOICE") => curr_active_media \in {"MEDIA", "VOICE"}
    BY <1>2 DEF ManagerInv, ManagerOK
  <2>2. /\ Handled(<<>>) => Sends
        /\ Handled(<<Open("HFP_PCM")>>) => Sends
        /\ On(active, "SBC") => (Handled(music) => Sends)
    <3>1. On(active, "SBC") => music \in Seq(Requests)
      BY <1>2, MusicSends
    <3> HIDE DEF music
    <3> QED BY <3>1, MessageLemma DEF Sends, Players
  <2> HIDE DEF active, music
  <2> QED BY <2>1, <2>2 DEF StopMedia, Stay, Switch, active, music
<1>5. ManagerOK(active, media_curr_sbc, curr_active_media')
  BY <1>1, <1>2, <1>4 DEF ManagerInv, ManagerOK
<1> QED BY <1>3, <1>4, <1>5, ManagerPrime, SendsLemma, AudioSame

LEMMA StopVoiceLemma ==
  ASSUME ManagerInv, MailInv, AudioInv, NEW d \in Devices, StopVoice(d)
  PROVE  ManagerInv' /\ MailInv' /\ AudioInv'
<1> DEFINE active == Deactivated("VOICE", d)
           music  == PlayMusic(ActiveSbcDevice(active, media_curr_sbc))
<1>1. /\ media_active \in [Devices -> SUBSET StreamTypes]
      /\ "SBC" \in StreamTypes /\ "MEDIA" \in StreamTypes /\ "VOICE" \in StreamTypes
  BY DEF ManagerInv, ManagerOK, StreamTypes
<1>2. /\ active \in [Devices -> SUBSET StreamTypes]
      /\ On(active, "SBC") <=> On(media_active, "SBC")
      /\ On(active, "MEDIA") <=> On(media_active, "MEDIA")
      /\ \A e \in Devices : "SBC" \in active[e] <=> "SBC" \in media_active[e]
  BY <1>1, DeactivatedLemma
<1>3. /\ Next_is("AUDIO_MANAGE", "STOP", "VOICE") /\ UNCHANGED audio
      /\ media_active' = active /\ media_curr_sbc' = media_curr_sbc
  BY DEF StopVoice, Request
<1>4. /\ curr_active_media' = IF On(active, "MEDIA") THEN "MEDIA"
                              ELSE IF On(active, "VOICE") THEN "VOICE"
                              ELSE IF On(active, "SBC") THEN "SBC" ELSE "0"
      /\ Sends
  <2>1. On(active, "MEDIA") => curr_active_media = "MEDIA"
    BY <1>2 DEF ManagerInv, ManagerOK
  <2>2. /\ Handled(<<>>) => Sends
        /\ Handled(<<Close("HFP_PCM")>>) => Sends
        /\ On(active, "SBC") => (Handled(<<Close("HFP_PCM")>> \o music) => Sends)
    <3>1. <<Close("HFP_PCM")>> \in Seq(Requests) /\ <<>> \in Seq(Requests)
      BY MessageLemma DEF Players
    <3>2. On(active, "SBC") => <<Close("HFP_PCM")>> \o music \in Seq(Requests)
      <4>1. On(active, "SBC") => music \in Seq(Requests)
        BY <1>2, MusicSends
      <4> HIDE DEF music
      <4> QED BY <3>1, <4>1, MessageLemma
    <3> HIDE DEF music
    <3> QED BY <3>1, <3>2 DEF Sends
  <2> HIDE DEF active, music
  <2> QED BY <2>1, <2>2 DEF StopVoice, Stay, Switch, active, music
<1>5. ManagerOK(active, media_curr_sbc, curr_active_media')
  BY <1>1, <1>2, <1>4 DEF ManagerInv, ManagerOK
<1> QED BY <1>3, <1>4, <1>5, ManagerPrime, SendsLemma, AudioSame

LEMMA StopPromptsLemma ==
  ASSUME ManagerInv, MailInv, AudioInv,
         NEW op \in {"STOP_MEDIA", "SWITCHTO_SCO"}, StopPrompts(op)
  PROVE  ManagerInv' /\ MailInv' /\ AudioInv'
<1>1. Next_is("AUDIO_MANAGE", op, "VOICE")
  BY DEF StopPrompts
<1>2. CASE StopAllMedia
  <2> DEFINE active == bt_media_clear_all_media_type
             music  == PlayMusic(ActiveSbcDevice(active, media_curr_sbc))
             close  == IF curr_active_media = "MEDIA" THEN <<Close("PLAY_BACK")>> ELSE <<>>
  <2>1. /\ media_active \in [Devices -> SUBSET StreamTypes]
        /\ "SBC" \in StreamTypes /\ "MEDIA" \in StreamTypes /\ "VOICE" \in StreamTypes
    BY DEF ManagerInv, ManagerOK, StreamTypes
  <2>2. /\ active \in [Devices -> SUBSET StreamTypes] /\ ~On(active, "MEDIA")
        /\ On(active, "SBC") <=> On(media_active, "SBC")
        /\ On(active, "VOICE") <=> On(media_active, "VOICE")
        /\ \A e \in Devices : "SBC" \in active[e] <=> "SBC" \in media_active[e]
    BY <2>1, ClearedLemma DEF bt_media_clear_all_media_type
  <2>3. /\ audio_list' = <<>> /\ media_active' = active /\ media_curr_sbc' = media_curr_sbc
        /\ UNCHANGED <<gStreamplayer, isRun, stop_proc, sample_rate>>
    BY <1>2 DEF StopAllMedia, audio_list_clear
  <2>4. /\ curr_active_media' = IF On(active, "VOICE") THEN "VOICE"
                                ELSE IF On(active, "SBC") THEN "SBC" ELSE "0"
        /\ Sends
    <3>1. ~On(active, "VOICE") /\ ~On(active, "SBC") => curr_active_media \in {"MEDIA", "0"}
      BY <2>2 DEF ManagerInv, ManagerOK
    <3>2. /\ Handled(close) => Sends
          /\ Handled(close \o <<Open("HFP_PCM")>>) => Sends
          /\ On(active, "SBC") => (Handled(close \o music) => Sends)
      <4>1. close \in Seq(Requests) /\ <<Open("HFP_PCM")>> \in Seq(Requests)
        BY MessageLemma DEF Players
      <4>2. On(active, "SBC") => music \in Seq(Requests)
        BY <2>2, MusicSends
      <4> HIDE DEF music, close
      <4>3. /\ close \o <<Open("HFP_PCM")>> \in Seq(Requests)
            /\ On(active, "SBC") => close \o music \in Seq(Requests)
        BY <4>1, <4>2, MessageLemma
      <4> QED BY <4>1, <4>3 DEF Sends
    <3> HIDE DEF active, music, close
    <3> QED BY <1>2, <3>1, <3>2 DEF StopAllMedia, Switch, active, music, close
  <2>5. ManagerOK(active, media_curr_sbc, curr_active_media')
    BY <2>1, <2>2, <2>4 DEF ManagerInv, ManagerOK
  <2> QED BY <1>1, <2>3, <2>4, <2>5, ManagerPrime, SendsLemma, AudioCleared
<1>3. CASE Handled(<<>>) /\ UNCHANGED <<audio, manager>>
  <2>1. Sends
    BY <1>3, MessageLemma DEF Sends
  <2>2. ManagerOK(media_active', media_curr_sbc', curr_active_media')
    BY <1>3 DEF ManagerInv, manager
  <2> QED BY <1>1, <1>3, <2>1, <2>2, ManagerPrime, SendsLemma, AudioSame
<1> QED BY <1>2, <1>3 DEF StopPrompts
----------------------------------------------------------------------------
(* The handlers of the audio module.                                         *)

Listed == [id : Players, aud : Tones]
ListOK(list) == /\ list \in Seq(Listed)
                /\ \A k \in DOMAIN list : k > 1 => list[k].id = "PLAY_BACK"
PlayerOK(player, run, stop) ==
  /\ player \in Players \cup {"NUM"} /\ run = {player} \ {"NUM"} /\ stop \in BOOLEAN

LEMMA AudioParts ==
  AudioInv <=> /\ ListOK(audio_list) /\ PlayerOK(gStreamplayer, isRun, stop_proc)
               /\ sample_rate \in Devices \cup {BT_DEVICE_NUM}
BY DEF AudioInv, ListOK, Listed, PlayerOK, PromptsBehind, OneOwner, Players

LEMMA AudioPrime ==
  ASSUME ListOK(audio_list'), PlayerOK(gStreamplayer', isRun', stop_proc'),
         sample_rate' \in Devices \cup {BT_DEVICE_NUM}
  PROVE  AudioInv'
BY DEF AudioInv, ListOK, Listed, PlayerOK, PromptsBehind, OneOwner, Players

LEMMA PlayerLemma ==
  ASSUME PlayerOK(gStreamplayer, isRun, stop_proc), NEW id \in Players,
         app_bt_stream_open(id) \/ app_bt_stream_close(id)
  PROVE  PlayerOK(gStreamplayer', isRun', stop_proc')
<1>1. CASE app_bt_stream_open(id)
  <2>1. gStreamplayer' = id /\ isRun' = {id} /\ id # "NUM"
    BY <1>1 DEF app_bt_stream_open, PlayerOK, Players
  <2>2. stop_proc' \in BOOLEAN
    BY <1>1 DEF app_bt_stream_open
  <2> QED BY <2>1, <2>2 DEF PlayerOK
<1>2. CASE app_bt_stream_close(id)
  <2>1. stop_proc' \in BOOLEAN
    BY <1>2 DEF app_bt_stream_close, PlayerOK
  <2> QED BY <1>2, <2>1 DEF app_bt_stream_close, PlayerOK, Players
<1> QED BY <1>1, <1>2

LEMMA FirstPromptLemma ==
  ASSUME ListOK(audio_list), Playbacks # {}
  PROVE  /\ Min(Playbacks) \in DOMAIN audio_list
         /\ Min(Playbacks) \in Playbacks /\ \A y \in Playbacks : Min(Playbacks) =< y
         /\ DOMAIN audio_list = 1..Len(audio_list) /\ Len(audio_list) \in Nat
<1>1. DOMAIN audio_list = 1..Len(audio_list) /\ Len(audio_list) \in Nat
  BY DEF ListOK
<1>2. \E x \in Playbacks : \A y \in Playbacks : x =< y
  <2>1. CASE 1 \in Playbacks
    BY <1>1, <2>1 DEF Playbacks
  <2>2. CASE 1 \notin Playbacks
    <3>1. PICK k \in Playbacks : k > 1
      BY <1>1, <2>2 DEF Playbacks
    <3>2. 2 \in Playbacks
      BY <1>1, <3>1 DEF Playbacks, ListOK
    <3>3. \A y \in Playbacks : y \in Nat /\ y # 1 /\ y >= 1
      BY <1>1, <2>2 DEF Playbacks
    <3>4. \A y \in Playbacks : 2 =< y
      BY <3>3
    <3> QED BY <3>2, <3>4
  <2> QED BY <2>1, <2>2
<1>3. Min(Playbacks) \in Playbacks /\ \A y \in Playbacks : Min(Playbacks) =< y
  BY <1>2, Zenon DEF Min
<1> QED BY <1>1, <1>3 DEF Playbacks

LEMMA ListSteps ==
  ASSUME ListOK(audio_list)
  PROVE  /\ ListOK(<<>>)
         /\ \A id \in Players : ListOK(<<Entry(id, "none")>>)
         /\ \A p \in Tones : ListOK(Append(audio_list, Entry("PLAY_BACK", p)))
         /\ audio_list # <<>> => ListOK(Tail(audio_list)) /\ Head(audio_list).id \in Players
         /\ \A k \in 1..Len(audio_list) : ListOK(Without(audio_list, k))
<1>1. ListOK(<<>>)
  BY DEF ListOK
<1>2. \A id \in Players : ListOK(<<Entry(id, "none")>>)
  <2> SUFFICES ASSUME NEW id \in Players PROVE ListOK(<<Entry(id, "none")>>)
    OBVIOUS
  <2>1. Entry(id, "none") \in Listed
    BY DEF Entry, Listed, Tones
  <2> HIDE DEF Listed, Entry
  <2> QED BY <2>1 DEF ListOK
<1>3. \A p \in Tones : ListOK(Append(audio_list, Entry("PLAY_BACK", p)))
  <2> SUFFICES ASSUME NEW p \in Tones PROVE ListOK(Append(audio_list, Entry("PLAY_BACK", p)))
    OBVIOUS
  <2> DEFINE e == Entry("PLAY_BACK", p)
  <2>1. e \in Listed /\ e.id = "PLAY_BACK"
    BY DEF Entry, Listed, Tones, Players
  <2> HIDE DEF e, Listed
  <2> DEFINE t == Append(audio_list, e)
  <2>2. /\ t \in Seq(Listed) /\ DOMAIN t = 1..(Len(audio_list) + 1)
        /\ DOMAIN audio_list = 1..Len(audio_list) /\ Len(audio_list) \in Nat
        /\ \A k \in 1..Len(audio_list) : t[k] = audio_list[k]
        /\ t[Len(audio_list) + 1] = e
    BY <2>1 DEF ListOK
  <2> HIDE DEF t
  <2>3. \A k \in DOMAIN t : k > 1 => t[k].id = "PLAY_BACK"
    <3> SUFFICES ASSUME NEW k \in DOMAIN t, k > 1 PROVE t[k].id = "PLAY_BACK"
      OBVIOUS
    <3>1. CASE k = Len(audio_list) + 1
      BY <2>1, <2>2, <3>1
    <3>2. CASE k \in 1..Len(audio_list)
      BY <2>2, <3>2 DEF ListOK
    <3> QED BY <2>2, <3>1, <3>2
  <2> QED BY <2>2, <2>3 DEF ListOK, t, e
<1>4. audio_list # <<>> => ListOK(Tail(audio_list)) /\ Head(audio_list).id \in Players
  <2> SUFFICES ASSUME audio_list # <<>>
               PROVE  ListOK(Tail(audio_list)) /\ Head(audio_list).id \in Players
    OBVIOUS
  <2>1. Head(audio_list) \in Listed
    BY DEF ListOK
  <2>2. Head(audio_list).id \in Players
    BY <2>1 DEF Listed
  <2>3. ListOK(Tail(audio_list))
    <3> HIDE DEF Listed
    <3> QED BY DEF ListOK
  <2> QED BY <2>2, <2>3
<1>5. \A k \in 1..Len(audio_list) : ListOK(Without(audio_list, k))
  <2> SUFFICES ASSUME NEW k \in 1..Len(audio_list) PROVE ListOK(Without(audio_list, k))
    OBVIOUS
  <2>1. Len(audio_list) - 1 \in Nat /\ DOMAIN audio_list = 1..Len(audio_list)
        /\ \A j \in 1..Len(audio_list) : audio_list[j] \in Listed
    BY DEF ListOK
  <2>2. \A j \in 1..(Len(audio_list) - 1) :
          IF j < k THEN audio_list[j] \in Listed ELSE audio_list[j + 1] \in Listed
    BY <2>1
  <2>3. Without(audio_list, k) \in Seq(Listed)
    <3> HIDE DEF Listed
    <3> QED BY <2>1, <2>2 DEF Without
  <2>4. \A j \in DOMAIN Without(audio_list, k) :
          j > 1 => Without(audio_list, k)[j].id = "PLAY_BACK"
    BY <2>1 DEF Without, ListOK
  <2> QED BY <2>3, <2>4 DEF ListOK
<1> QED BY <1>1, <1>2, <1>3, <1>4, <1>5

Kept == AudioInv /\ MailInv

LEMMA StreamLemma ==
  ASSUME Kept, NEW id \in Players, OpenStream(id) \/ CloseStream(id)
  PROVE  Kept'
<1>1. /\ ListOK(audio_list) /\ PlayerOK(gStreamplayer, isRun, stop_proc)
      /\ sample_rate \in Devices \cup {BT_DEVICE_NUM} /\ MailInv
  BY AudioParts DEF Kept
<1>2. Handled(<<>>) => Sends
  BY MessageLemma DEF Sends
<1>3. CASE OpenStream(id)
  <2>1. MailInv'
    BY <1>1, <1>2, <1>3, SendsLemma DEF OpenStream
  <2>2. PlayerOK(gStreamplayer', isRun', stop_proc')
    BY <1>1, <1>3, PlayerLemma DEF OpenStream
  <2>3. ListOK(audio_list') /\ sample_rate' = sample_rate
    BY <1>1, <1>3, ListSteps DEF OpenStream
  <2> QED BY <1>1, <2>1, <2>2, <2>3, AudioPrime DEF Kept
<1>4. CASE CloseStream(id)
  <2>1. MailInv'
    BY <1>1, <1>2, <1>4, SendsLemma DEF CloseStream
  <2>2. PlayerOK(gStreamplayer', isRun', stop_proc')
    BY <1>1, <1>4, PlayerLemma DEF CloseStream
  <2>3. app_audio_list_stream_exist => audio_list # <<>>
    BY DEF app_audio_list_stream_exist
  <2>4. ListOK(audio_list') /\ sample_rate' = sample_rate
    BY <1>1, <1>4, <2>3, ListSteps DEF CloseStream
  <2> QED BY <1>1, <2>1, <2>2, <2>4, AudioPrime DEF Kept
<1> QED BY <1>3, <1>4

LEMMA OpenPromptLemma ==
  ASSUME Kept, PromptFiltered \/ PromptOverflow \/ PromptQueued \/ PromptPlayed
  PROVE  Kept'
<1>1. /\ ListOK(audio_list) /\ PlayerOK(gStreamplayer, isRun, stop_proc)
      /\ sample_rate \in Devices \cup {BT_DEVICE_NUM} /\ MailInv
  BY AudioParts DEF Kept
<1>2. Handled(<<>>) => Sends
  BY MessageLemma DEF Sends
<1>3. Next_is("AUDIO", "OPEN", "PLAY_BACK")
  BY DEF PromptFiltered, PromptOverflow, PromptQueued, PromptPlayed, OpenPrompt
<1>4. NewPrompt \in Tones
  BY <1>1, <1>3, HeadLemma DEF NewPrompt
<1>5. CASE PromptFiltered
  BY <1>1, <1>2, <1>3, <1>5, SendsLemma, AudioSame DEF PromptFiltered, Kept
<1>6. CASE PromptOverflow
  <2>1. MailInv'
    BY <1>1, <1>6 DEF PromptOverflow, Assert_fails, MailInv, AssertsHold
  <2> QED BY <1>6, <2>1, AudioSame DEF PromptOverflow, Kept
<1>7. CASE PromptQueued
  <2>1. MailInv'
    BY <1>1, <1>2, <1>3, <1>7, SendsLemma DEF PromptQueued
  <2>2. ListOK(audio_list')
    BY <1>1, <1>4, <1>7, ListSteps DEF PromptQueued
  <2>3. UNCHANGED <<gStreamplayer, isRun, stop_proc, sample_rate>>
    BY <1>7 DEF PromptQueued
  <2>4. PlayerOK(gStreamplayer', isRun', stop_proc') /\ sample_rate' = sample_rate
    BY <1>1, <2>3
  <2> QED BY <1>1, <2>1, <2>2, <2>4, AudioPrime DEF Kept
<1>8. CASE PromptPlayed
  <2>1. MailInv'
    BY <1>1, <1>2, <1>3, <1>8, SendsLemma DEF PromptPlayed
  <2>2. ListOK(audio_list') /\ sample_rate' = sample_rate
    BY <1>1, <1>4, <1>8, ListSteps DEF PromptPlayed
  <2>3. PlayerOK(gStreamplayer', isRun', stop_proc')
    BY <1>1, <1>8, PlayerLemma DEF PromptPlayed, Players
  <2> QED BY <1>1, <2>1, <2>2, <2>3, AudioPrime DEF Kept
<1> QED BY <1>5, <1>6, <1>7, <1>8

LEMMA ClosePromptLemma ==
  ASSUME Kept, CloseUnlisted \/ CloseNext \/ CloseLast
  PROVE  Kept'
<1>1. /\ ListOK(audio_list) /\ PlayerOK(gStreamplayer, isRun, stop_proc)
      /\ sample_rate \in Devices \cup {BT_DEVICE_NUM} /\ MailInv
  BY AudioParts DEF Kept
<1>2. Next_is("AUDIO", "CLOSE", "PLAY_BACK")
  BY DEF CloseUnlisted, CloseNext, CloseLast, ClosePrompt
<1>3. (Handled(<<>>) => Sends) /\ (Handled(Told) => Sends)
  <2>1. Manager("STOP", "MEDIA", 0, "none") \in Requests
    BY MessageLemma DEF StreamTypes, Devices, Tones
  <2> QED BY <2>1, MessageLemma DEF Sends, Told
<1>4. CASE CloseUnlisted
  <2>1. MailInv' /\ audio_list' = audio_list /\ sample_rate' = sample_rate
    BY <1>1, <1>2, <1>3, <1>4, SendsLemma DEF CloseUnlisted
  <2>2. PlayerOK(gStreamplayer', isRun', stop_proc')
    BY <1>1, <1>4, PlayerLemma DEF CloseUnlisted, Players
  <2> QED BY <1>1, <2>1, <2>2, AudioPrime DEF Kept
<1>5. CASE CloseNext
  <2> DEFINE k == Min(Playbacks)
  <2>1. /\ k \in 1..Len(audio_list) /\ k < Len(audio_list)
        /\ DOMAIN audio_list = 1..Len(audio_list) /\ Len(audio_list) \in Nat
    BY <1>1, <1>5, FirstPromptLemma DEF CloseNext
  <2>2. audio_list[k + 1].id = "PLAY_BACK"
    BY <1>1, <2>1 DEF ListOK
  <2>3. /\ audio_list' = Without(audio_list, k) /\ app_bt_stream_open("PLAY_BACK")
        /\ Handled(Told) /\ sample_rate' = sample_rate
    BY <1>5, <2>2 DEF CloseNext
  <2>4. MailInv' /\ PlayerOK(gStreamplayer', isRun', stop_proc')
    BY <1>1, <1>2, <1>3, <2>3, SendsLemma, PlayerLemma DEF Players
  <2>5. ListOK(audio_list')
    <3> HIDE DEF k
    <3> QED BY <1>1, <2>1, <2>3, ListSteps
  <2> QED BY <1>1, <2>3, <2>4, <2>5, AudioPrime DEF Kept
<1>6. CASE CloseLast
  <2>1. Len(audio_list) \in 1..Len(audio_list) /\ audio_list # <<>>
    BY <1>1, <1>6, FirstPromptLemma DEF CloseLast
  <2>2. ListOK(audio_list') /\ sample_rate' = sample_rate /\ MailInv'
    BY <1>1, <1>2, <1>3, <1>6, <2>1, ListSteps, SendsLemma DEF CloseLast
  <2>3. Head(audio_list).id \in Players
    BY <1>1, <2>1, ListSteps
  <2>4. PlayerOK(gStreamplayer', isRun', stop_proc')
    BY <1>1, <1>6, <2>3, PlayerLemma DEF CloseLast, Players
  <2> QED BY <1>1, <2>2, <2>4, AudioPrime DEF Kept
<1> QED BY <1>4, <1>5, <1>6

LEMMA SetupLemma ==
  ASSUME Kept, Setup \/ Restart
  PROVE  Kept'
<1>1. /\ ListOK(audio_list) /\ PlayerOK(gStreamplayer, isRun, stop_proc)
      /\ sample_rate \in Devices \cup {BT_DEVICE_NUM} /\ MailInv
  BY AudioParts DEF Kept
<1>2. Handled(<<>>) => Sends
  BY MessageLemma DEF Sends
<1>3. MailInv'
  BY <1>1, <1>2, SendsLemma DEF Setup, Restart
<1>4. sample_rate' \in Devices \cup {BT_DEVICE_NUM} /\ audio_list' = audio_list
  <2>1. Setup => Head(mailbox).dev \in Devices
    BY <1>1, HeadLemma DEF Setup
  <2> QED BY <1>1, <2>1 DEF Setup, Restart
<1>5. PlayerOK(gStreamplayer', isRun', stop_proc')
  <2>1. UNCHANGED <<gStreamplayer, stop_proc>> /\ isRun' = isRun
    BY <1>1 DEF Setup, Restart, PlayerOK
  <2> QED BY <1>1, <2>1
<1> QED BY <1>1, <1>3, <1>4, <1>5, AudioPrime DEF Kept
----------------------------------------------------------------------------
(* The Bluetooth thread, the prompts and the audio thread.                   *)

LEMMA PutLemma ==
  ASSUME MailInv, NEW msg \in Requests, app_mailbox_put(msg), UNCHANGED halted
  PROVE  MailInv'
<1>1. Append(mailbox, msg) \in Seq(Requests)
  BY DEF MailInv
<1> QED BY <1>1 DEF MailInv, app_mailbox_put, AssertsHold

LEMMA StepLemma ==
  /\ \A m \in Requests : Put(m) \in Steps
  /\ \A d \in Devices, on \in BOOLEAN : Call(d, on) \in Steps
  /\ \A s \in Steps : /\ s.do = "put" => s.msg \in Requests
                      /\ s.do \in {"active", "none"} => s.msg.dev \in Devices
                      /\ s.do \in {"put", "active", "none"}
<1>1. \A m \in Requests : Put(m) \in Steps
  <2> HIDE DEF Requests
  <2> QED BY DEF Put, Steps
<1>2. \A d \in Devices, on \in BOOLEAN : Call(d, on) \in Steps
  BY DEF Steps
<1>3. ASSUME NEW s \in Steps
      PROVE  /\ s.do = "put" => s.msg \in Requests
             /\ s.do \in {"active", "none"} => s.msg.dev \in Devices
             /\ s.do \in {"put", "active", "none"}
  <2>1. CASE s \in [do : {"put"}, msg : Requests]
    BY <2>1
  <2>2. CASE s \in {Call(d, on) : d \in Devices, on \in BOOLEAN}
    <3>1. PICK d \in Devices, on \in BOOLEAN : s = Call(d, on)
      BY <2>2
    <3>2. s.do = (IF on THEN "active" ELSE "none") /\ s.msg.dev = d
      BY <3>1 DEF Call, Manager
    <3> QED BY <3>2
  <2> QED BY <2>1, <2>2 DEF Steps
<1> QED BY <1>1, <1>2, <1>3

\* What an event of the environment may put or leave to its callback.
Occurs ==
  \/ \E msg \in Requests : Puts(msg)
  \/ \E steps \in Seq(Steps) : Does(steps)

LEMMA OccursLemma ==
  ASSUME PathInv, Occurs, streaming' \subseteq Music, sco' \subseteq Voice
  PROVE  PathInv'
<1>1. ManagerInv /\ AudioInv /\ MailInv /\ OuterInv
  BY PartsLemma
<1>2. UNCHANGED <<audio, manager, hfchan_call, halted>>
  BY DEF Occurs, Puts, Does
<1>3. ManagerInv' /\ AudioInv'
  <2>1. ManagerOK(media_active', media_curr_sbc', curr_active_media')
    BY <1>1, <1>2 DEF manager, ManagerInv
  <2> QED BY <1>1, <1>2, <2>1, ManagerPrime, AudioSame
<1>4. CASE \E msg \in Requests : Puts(msg)
  <2>1. PICK msg \in Requests : Puts(msg)
    BY <1>4
  <2>2. MailInv' /\ callback' = callback
    BY <1>1, <2>1, PutLemma DEF Puts
  <2>3. OuterInv'
    BY <1>1, <1>2, <2>2 DEF OuterInv
  <2> QED BY <1>3, <2>2, <2>3, PartsLemma, PTL
<1>5. CASE \E steps \in Seq(Steps) : Does(steps)
  <2>1. callback' \in Seq(Steps) /\ mailbox' = mailbox
    BY <1>5 DEF Does
  <2>2. MailInv'
    BY <1>1, <1>2, <2>1 DEF MailInv, AssertsHold
  <2>3. OuterInv'
    BY <1>1, <1>2, <2>1 DEF OuterInv
  <2> QED BY <1>3, <2>2, <2>3, PartsLemma, PTL
<1> QED BY <1>4, <1>5 DEF Occurs

LEMMA EnvironmentLemma ==
  ASSUME PathInv, Environment
  PROVE  PathInv'
<1>1. streaming \subseteq Music /\ sco \subseteq Voice
  BY PartsLemma DEF OuterInv
<1>2. Music \subseteq Devices /\ Voice \subseteq Devices
  BY MailAssumption
<1> USE DEF StreamTypes, Tones
<1>3. ASSUME NEW d \in Music,
             \/ StreamStarted(d) \/ StreamSuspended(d)
             \/ StreamClosed(d) \/ SuspendForced(d)
      PROVE  PathInv'
  <2>1. d \in Devices
    BY <1>2
  <2>2. /\ Manager("START", "SBC", d, "none") \in Requests
        /\ Manager("STOP", "SBC", d, "none") \in Requests
    BY <2>1, MessageLemma
  <2>3. LET stop == Put(Manager("STOP", "SBC", d, "none")) IN <<stop, stop>> \in Seq(Steps)
    BY <2>2, StepLemma
  <2>4. Occurs
    BY <1>3, <2>2, <2>3 DEF StreamStarted, StreamSuspended, StreamClosed, SuspendForced, Occurs
  <2>5. streaming' \subseteq Music /\ sco' \subseteq Voice
    BY <1>1, <1>3 DEF StreamStarted, StreamSuspended, StreamClosed, SuspendForced
  <2> QED BY <2>4, <2>5, OccursLemma
<1>4. ASSUME NEW d \in Voice,
             \/ AudioConnected(d) \/ AudioDisconnected(d) \/ ServiceDisconnected(d)
             \/ CallActive(d) \/ CallNone(d) \/ CallRefused(d)
      PROVE  PathInv'
  <2>1. d \in Devices /\ 0 \in Devices
    BY <1>2 DEF Devices
  <2>2. /\ Manager("START", "VOICE", d, "none") \in Requests
        /\ Manager("STOP", "VOICE", d, "none") \in Requests
        /\ Manager("SWITCHTO_SCO", "VOICE", d, "none") \in Requests
        /\ Warning \in Requests /\ StopPrompt(d) \in Requests
    BY <2>1, MessageLemma DEF Warning, StopPrompt
  <2>3. /\ Put(Manager("SWITCHTO_SCO", "VOICE", d, "none")) \in Steps
        /\ Put(Warning) \in Steps /\ Put(StopPrompt(d)) \in Steps
        /\ Call(d, TRUE) \in Steps /\ Call(d, FALSE) \in Steps
    BY <2>1, <2>2, StepLemma
  <2>4. /\ <<Put(Manager("SWITCHTO_SCO", "VOICE", d, "none")), Put(Warning), Call(d, TRUE)>>
             \in Seq(Steps)
        /\ <<Put(StopPrompt(d)), Call(d, FALSE)>> \in Seq(Steps)
    <3>1. /\ \A r, s \in Steps : <<r, s>> \in Seq(Steps)
          /\ \A r, s, t \in Steps : <<r, s, t>> \in Seq(Steps)
      OBVIOUS
    <3> QED BY <2>3, <3>1
  <2>5. Occurs
    BY <1>4, <2>2, <2>4 DEF AudioConnected, AudioDisconnected, ServiceDisconnected,
                            CallActive, CallNone, CallRefused, Occurs
  <2>6. streaming' \subseteq Music /\ sco' \subseteq Voice
    BY <1>1, <1>4 DEF AudioConnected, AudioDisconnected, ServiceDisconnected,
                      CallActive, CallNone, CallRefused
  <2> QED BY <2>5, <2>6, OccursLemma
<1>5. ASSUME NEW d \in Music \cup Voice, NEW p \in Prompts, media_PlayAudio(p, d)
      PROVE  PathInv'
  <2>1. d \in Devices /\ p \in Tones
    BY <1>2
  <2>2. Manager("START", "MEDIA", d, p) \in Requests
    BY <2>1, MessageLemma
  <2>3. Occurs /\ streaming' \subseteq Music /\ sco' \subseteq Voice
    BY <1>1, <1>5, <2>2 DEF media_PlayAudio, Occurs
  <2> QED BY <2>3, OccursLemma
<1> QED BY <1>3, <1>4, <1>5 DEF Environment

LEMMA CallbackLemma ==
  ASSUME PathInv, CallbackStep
  PROVE  PathInv'
<1> DEFINE step == Head(callback)
<1>1. ManagerInv /\ AudioInv /\ MailInv /\ OuterInv
  BY PartsLemma
<1>2. /\ UNCHANGED <<halted, audio, manager, phone>> /\ callback' = Tail(callback)
      /\ CASE step.do = "put"    -> app_mailbox_put(step.msg) /\ UNCHANGED hfchan_call
           [] step.do = "active" -> hfchan_call' = hfchan_call \cup {step.msg.dev} /\ UNCHANGED mailbox
           [] step.do = "none"   -> hfchan_call' = hfchan_call \ {step.msg.dev} /\ UNCHANGED mailbox
  BY DEF CallbackStep
<1>3. step \in Steps /\ Tail(callback) \in Seq(Steps)
  BY <1>1 DEF CallbackStep, OuterInv
<1> HIDE DEF step
<1>4. /\ step.do = "put" => step.msg \in Requests
      /\ step.do \in {"active", "none"} => step.msg.dev \in Devices
      /\ step.do \in {"put", "active", "none"}
  BY <1>3, StepLemma
<1>5. ManagerInv' /\ AudioInv'
  <2>1. ManagerOK(media_active', media_curr_sbc', curr_active_media')
    BY <1>1, <1>2 DEF manager, ManagerInv
  <2> QED BY <1>1, <1>2, <2>1, ManagerPrime, AudioSame
<1>6. MailInv' /\ hfchan_call' \subseteq Devices
  <2>1. CASE step.do = "put"
    BY <1>1, <1>2, <1>4, <2>1, PutLemma DEF OuterInv
  <2>2. CASE step.do = "active"
    BY <1>1, <1>2, <1>4, <2>2 DEF OuterInv, MailInv, AssertsHold
  <2>3. CASE step.do = "none"
    BY <1>1, <1>2, <1>4, <2>3 DEF OuterInv, MailInv, AssertsHold
  <2> QED BY <1>4, <2>1, <2>2, <2>3
<1>7. OuterInv'
  BY <1>1, <1>2, <1>3, <1>6 DEF OuterInv, phone
<1> QED BY <1>5, <1>6, <1>7, PartsLemma, PTL

LEMMA AudioThreadLemma ==
  ASSUME PathInv, AudioThread
  PROVE  PathInv'
<1>1. ManagerInv /\ AudioInv /\ MailInv /\ OuterInv
  BY PartsLemma
<1>2. /\ UNCHANGED <<manager, hfchan_call, phone, callback>> /\ stop_proc' = TRUE
      /\ app_mailbox_put(Audio("CLOSE", "PLAY_BACK", BT_DEVICE_NUM, "none"))
      /\ UNCHANGED <<audio_list, gStreamplayer, isRun, sample_rate, halted>>
  BY DEF AudioThread, PromptEnds
<1>3. ManagerOK(media_active', media_curr_sbc', curr_active_media')
  BY <1>1, <1>2 DEF manager, ManagerInv
<1>4. Audio("CLOSE", "PLAY_BACK", BT_DEVICE_NUM, "none") \in Requests
  BY MessageLemma DEF Close, Players
<1>5. MailInv'
  BY <1>1, <1>2, <1>4, PutLemma
<1>6. AudioInv'
  BY <1>1, <1>2 DEF AudioInv, PromptsBehind, OneOwner
<1>7. OuterInv'
  BY <1>1, <1>2 DEF OuterInv, phone
<1> QED BY <1>3, <1>5, <1>6, <1>7, ManagerPrime, PartsLemma, PTL
----------------------------------------------------------------------------
(* The theorems.                                                             *)

LEMMA InitLemma == Init => PathInv
<1> SUFFICES ASSUME Init PROVE PathInv
  OBVIOUS
<1>1. ManagerInv
  BY DEF Init, ManagerInit, ManagerInv, ManagerOK, On, BT_DEVICE_NUM
<1>2. AudioInv
  <2>1. <<>> \in Seq([id : Players, aud : Tones]) /\ DOMAIN <<>> = {}
    OBVIOUS
  <2> QED BY <2>1 DEF Init, AudioInit, AudioInv, PromptsBehind, OneOwner, BT_DEVICE_NUM
<1>3. MailInv
  BY MessageLemma DEF Init, MailInv, AssertsHold
<1>4. OuterInv
  <2>1. <<>> \in Seq(Steps)
    OBVIOUS
  <2> QED BY <2>1 DEF Init, OuterInv
<1> QED BY <1>1, <1>2, <1>3, <1>4, PartsLemma

LEMMA NextLemma == PathInv /\ [Next]_vars => PathInv'
<1> SUFFICES ASSUME PathInv, [Next]_vars PROVE PathInv'
  OBVIOUS
<1>1. ManagerInv /\ AudioInv /\ MailInv /\ OuterInv
  BY PartsLemma
<1>2. CASE HandleAudio
  <2>1. UNCHANGED <<manager, hfchan_call, phone, callback>>
    BY <1>2 DEF HandleAudio
  <2>2. ManagerOK(media_active', media_curr_sbc', curr_active_media')
    BY <1>1, <2>1 DEF manager, ManagerInv
  <2>3. OuterInv'
    BY <1>1, <2>1 DEF OuterInv, phone
  <2>4. Kept'
    BY <1>1, <1>2, StreamLemma, OpenPromptLemma, ClosePromptLemma, SetupLemma
       DEF HandleAudio, app_audio_handle_process, Kept
  <2> QED BY <2>2, <2>3, <2>4, ManagerPrime, PartsLemma, PTL DEF Kept
<1>3. CASE HandleManager
  <2>1. UNCHANGED hfchan_call
    BY <1>3 DEF HandleManager, app_audio_manager_handle_process, StartSbc, StartMedia,
                StartVoice, StopSbc, StopMedia, StopVoice, StopPrompts
  <2>2. OuterInv'
    BY <1>1, <1>3, <2>1 DEF OuterInv, phone, HandleManager
  <2>3. ManagerInv' /\ MailInv' /\ AudioInv'
    BY <1>1, <1>3, StartSbcLemma, StartMediaLemma, StartVoiceLemma, StopSbcLemma,
       StopMediaLemma, StopVoiceLemma, StopPromptsLemma
       DEF HandleManager, app_audio_manager_handle_process
  <2> QED BY <2>2, <2>3, PartsLemma, PTL
<1>4. CASE UNCHANGED vars
  <2>1. ManagerOK(media_active', media_curr_sbc', curr_active_media')
    BY <1>1, <1>4 DEF vars, manager, ManagerInv
  <2>2. AudioInv'
    BY <1>1, <1>4, AudioSame DEF vars
  <2>3. MailInv' /\ OuterInv'
    BY <1>1, <1>4 DEF vars, phone, MailInv, AssertsHold, OuterInv
  <2> QED BY <2>1, <2>2, <2>3, ManagerPrime, PartsLemma, PTL
<1> QED BY <1>2, <1>3, <1>4, AudioThreadLemma, CallbackLemma, EnvironmentLemma DEF Next

LEMMA InvLemma == Spec => []PathInv
BY InitLemma, NextLemma, PTL DEF Spec

\* After every message the current media is the active type of the highest
\* priority, whatever the threads interleave.
THEOREM CurrentIsHighestTheorem == Spec => []CurrentIsHighest
<1>1. PathInv => CurrentIsHighest
  BY DEF PathInv
<1> QED BY <1>1, InvLemma, PTL

\* The current device of music is one whose music is active.
THEOREM MusicDeviceActiveTheorem == Spec => []MusicDeviceActive
<1>1. PathInv => MusicDeviceActive
  BY DEF PathInv
<1> QED BY <1>1, InvLemma, PTL

\* The stream AUD_STREAM_ID_0 is never opened by two players.
THEOREM OneOwnerTheorem == Spec => []OneOwner
<1>1. PathInv => OneOwner
  BY DEF PathInv
<1> QED BY <1>1, InvLemma, PTL

\* The assertions on the current media and on the list behind a prompt hold.
THEOREM AssertsHoldTheorem == Spec => []AssertsHold
<1>1. PathInv => AssertsHold
  BY DEF PathInv
<1> QED BY <1>1, InvLemma, PTL

\* Every message and every list entry has its type, and a SETUP never names
\* BT_DEVICE_NUM.
THEOREM TypeTheorem == Spec => []TypeOK
<1>1. PathInv => TypeOK
  BY DEF PathInv
<1> QED BY <1>1, InvLemma, PTL
----------------------------------------------------------------------------
(* The messages on their way.  What the mailbox says of the player and the   *)
(* list once it is handled is decided by a few of its messages: the last     *)
(* that opens a stream, the one that closes that stream again, the last that *)
(* opens a prompt, the last SETUP.  The operators speak of a mailbox given   *)
(* as an argument, so that a handler can be taken in two steps: its message  *)
(* is taken and has its effect, then its own messages go behind the rest.    *)

Streams == {"HFP_PCM", "A2DP_SBC"}

Asks(mod, op, whats) == {m \in Requests : m.mod = mod /\ m.op = op /\ m.what \in whats}
OpensOf(s)   == Asks("AUDIO", "OPEN", {s})
ClosesOf(s)  == Asks("AUDIO", "CLOSE", {s})
StreamOpens  == Asks("AUDIO", "OPEN", Streams)
PromptOpens  == OpensOf("PLAY_BACK")
PromptCloses == ClosesOf("PLAY_BACK")
Setups       == Asks("AUDIO", "SETUP", Players)
SetupsOf(d)  == {m \in Setups : m.dev = d}
MediaStops   == Asks("AUDIO_MANAGE", "STOP", {"MEDIA"})
SbcStarts(d) == {m \in Asks("AUDIO_MANAGE", "START", {"SBC"}) : m.dev = d}
SbcStops(d)  == {m \in Asks("AUDIO_MANAGE", "STOP", {"SBC"}) : m.dev = d}

\* What takes the audio stream from a Bluetooth stream that has it.
Disturbs == Asks("AUDIO", "OPEN", Players) \cup Asks("AUDIO", "CLOSE", Streams)

\* Among the first n messages there is none of B; there is one of A with none
\* of B behind it.
Never(mail, n, B)    == \A i \in 1..n : mail[i] \notin B
Since(mail, n, A, B) == \E i \in 1..n : /\ mail[i] \in A
                                        /\ \A j \in (i + 1)..n : mail[j] \notin B
Some(mail, A)        == \E i \in 1..Len(mail) : mail[i] \in A

Alone(s) == <<Entry(s, "none")>>
StreamOf(type) == IF type = "VOICE" THEN "HFP_PCM" ELSE "A2DP_SBC"

\* No Bluetooth stream is the player or listed.
Free(player, list) ==
  player \notin Streams /\ \A k \in DOMAIN list : list[k].id = "PLAY_BACK"

\* Stream s has the audio stream and gives it up, and no stream takes it.
GivenUp(mail, s, player) ==
  \E k \in 1..Len(mail) :
    /\ mail[k] \in ClosesOf(s)
    /\ \/ player = s /\ Never(mail, k - 1, Disturbs)
       \/ Since(mail, k - 1, OpensOf(s), Disturbs)
    /\ \A j \in (k + 1)..Len(mail) : mail[j] \notin StreamOpens

\* The audio stream goes to the stream of the current media, or to none.
StreamOK(mail, current, player, list) ==
  IF current \in {"VOICE", "SBC"}
  THEN \/ /\ player = StreamOf(current) /\ list = Alone(player)
          /\ Never(mail, Len(mail), Disturbs)
       \/ Since(mail, Len(mail), OpensOf(StreamOf(current)), Disturbs)
  ELSE \/ Free(player, list) /\ Never(mail, Len(mail), StreamOpens)
       \/ \E s \in Streams : GivenUp(mail, s, player)

Listens(list) == \E k \in DOMAIN list : list[k].id = "PLAY_BACK"

\* A prompt is listed, or will be, or the end of all prompts is on its way.
MediaOK(mail, list) ==
  \/ Some(mail, MediaStops)
  \/ Listens(list) /\ Never(mail, Len(mail), StreamOpens)
  \/ Since(mail, Len(mail), PromptOpens, StreamOpens)

\* The sample rate becomes that of device d.
RateOK(mail, rate, d) ==
  \/ rate = d /\ Never(mail, Len(mail), Setups)
  \/ Since(mail, Len(mail), SetupsOf(d), Setups)

\* Between two starts of the music of d there is a stop, and there is one
\* before the first when the music is active.
OrderOK(mail, d, active) ==
  \A i \in 1..Len(mail) : mail[i] \in SbcStarts(d) =>
    /\ "SBC" \in active => \E k \in 1..(i - 1) : mail[k] \in SbcStops(d)
    /\ \A j \in (i + 1)..Len(mail) : mail[j] \in SbcStarts(d) =>
         \E k \in (i + 1)..(j - 1) : mail[k] \in SbcStops(d)

\* The music of d is stopped once the mailbox is handled.
Stopped(mail, d, active) ==
  /\ "SBC" \in active => Some(mail, SbcStops(d))
  /\ \A i \in 1..Len(mail) : mail[i] \in SbcStarts(d) =>
       \E k \in (i + 1)..Len(mail) : mail[k] \in SbcStops(d)

StreamAhead == StreamOK(mailbox, curr_active_media, gStreamplayer, audio_list)
MediaAhead  == On(media_active, "MEDIA") => MediaOK(mailbox, audio_list)
RateAhead   == curr_active_media = "SBC" => RateOK(mailbox, sample_rate, media_curr_sbc)

\* A listed prompt is the player, else the first entry is.
ListPlayer ==
  /\ Listens(audio_list) => gStreamplayer = "PLAY_BACK"
  /\ ~Listens(audio_list) /\ audio_list # <<>> => gStreamplayer = audio_list[1].id

\* A prompt that ended, or was taken from the list, will be closed.
EndAhead ==
  gStreamplayer = "PLAY_BACK" /\ (stop_proc \/ audio_list = <<>>) => Some(mailbox, PromptCloses)

Stopping(d) == \E i \in 1..Len(callback) : /\ callback[i].do = "put"
                                           /\ callback[i].msg \in SbcStops(d)

SbcInOrder ==
  \A d \in Devices : /\ OrderOK(mailbox, d, media_active[d])
                     /\ d \in streaming \/ Stopping(d) \/ Stopped(mailbox, d, media_active[d])

\* A callback puts messages for the manager only, and starts no music.
CallbackOK ==
  \A i \in 1..Len(callback) :
    callback[i].do = "put" => /\ callback[i].msg.mod = "AUDIO_MANAGE"
                              /\ \A d \in Devices : callback[i].msg \notin SbcStarts(d)

AheadInv == /\ StreamAhead /\ MediaAhead /\ RateAhead /\ ListPlayer /\ EndAhead
            /\ SbcInOrder /\ CallbackOK
----------------------------------------------------------------------------
(* Messages taken from the front of a mailbox and put behind it.             *)

LEMMA TailFacts ==
  ASSUME NEW S, NEW mail \in Seq(S), mail # <<>>
  PROVE  /\ Tail(mail) \in Seq(S) /\ Len(mail) \in Nat /\ Len(mail) >= 1
         /\ Len(Tail(mail)) = Len(mail) - 1
         /\ Head(mail) = mail[1]
         /\ \A i \in 1..(Len(mail) - 1) : Tail(mail)[i] = mail[i + 1]
OBVIOUS

LEMMA ConcatFacts ==
  ASSUME NEW S, NEW mail \in Seq(S), NEW puts \in Seq(S)
  PROVE  /\ mail \o puts \in Seq(S)
         /\ Len(mail) \in Nat /\ Len(puts) \in Nat
         /\ Len(mail \o puts) = Len(mail) + Len(puts)
         /\ \A i \in 1..Len(mail) : (mail \o puts)[i] = mail[i]
         /\ \A i \in 1..Len(puts) : (mail \o puts)[Len(mail) + i] = puts[i]
         /\ \A i \in (Len(mail) + 1)..(Len(mail) + Len(puts)) :
              (mail \o puts)[i] = puts[i - Len(mail)]
OBVIOUS

LEMMA TailLemma ==
  ASSUME NEW S, NEW mail \in Seq(S), mail # <<>>, NEW n \in 1..Len(mail), NEW A, NEW B
  PROVE  /\ Never(mail, n, B) => Head(mail) \notin B /\ Never(Tail(mail), n - 1, B)
         /\ Since(mail, n, A, B) =>
              \/ Since(Tail(mail), n - 1, A, B)
              \/ Head(mail) \in A /\ Never(Tail(mail), n - 1, B)
         /\ Some(mail, A) => Head(mail) \in A \/ Some(Tail(mail), A)
<1>1. /\ Len(mail) \in Nat /\ Len(Tail(mail)) = Len(mail) - 1 /\ Head(mail) = mail[1]
      /\ \A i \in 1..(Len(mail) - 1) : Tail(mail)[i] = mail[i + 1]
  BY TailFacts
<1> DEFINE t == Tail(mail)
           h == Head(mail)
<1> HIDE DEF t, h
<1>2. ASSUME Never(mail, n, B) PROVE h \notin B /\ Never(t, n - 1, B)
  BY <1>1, <1>2 DEF Never, t, h
<1>3. ASSUME Since(mail, n, A, B)
      PROVE  Since(t, n - 1, A, B) \/ (h \in A /\ Never(t, n - 1, B))
  <2>1. PICK i \in 1..n : mail[i] \in A /\ \A j \in (i + 1)..n : mail[j] \notin B
    BY <1>3 DEF Since
  <2>2. CASE i = 1
    <3>1. \A j \in 1..(n - 1) : j + 1 \in 2..n /\ j \in 1..(Len(mail) - 1)
      OBVIOUS
    <3>2. Never(t, n - 1, B)
      BY <1>1, <2>1, <2>2, <3>1 DEF Never, t
    <3> QED BY <1>1, <2>1, <2>2, <3>2 DEF h
  <2>3. CASE i > 1
    <3>1. i - 1 \in 1..(n - 1) /\ t[i - 1] = mail[i]
      BY <1>1, <2>3 DEF t
    <3>2. \A j \in ((i - 1) + 1)..(n - 1) : j + 1 \in (i + 1)..n /\ t[j] = mail[j + 1]
      BY <1>1, <2>3 DEF t
    <3> QED BY <2>1, <3>1, <3>2 DEF Since
  <2> QED BY <2>2, <2>3
<1>4. ASSUME Some(mail, A) PROVE h \in A \/ Some(t, A)
  <2>1. PICK i \in 1..Len(mail) : mail[i] \in A
    BY <1>4 DEF Some
  <2>2. CASE i = 1
    BY <1>1, <2>1, <2>2 DEF h
  <2>3. CASE i > 1
    <3>1. i - 1 \in 1..(Len(mail) - 1) /\ t[i - 1] = mail[i]
      BY <1>1, <2>3 DEF t
    <3> QED BY <1>1, <2>1, <3>1 DEF Some, t
  <2> QED BY <2>2, <2>3
<1> QED BY <1>2, <1>3, <1>4 DEF t, h

LEMMA ConcatLemma ==
  ASSUME NEW S, NEW mail \in Seq(S), NEW puts \in Seq(S), NEW A, NEW B
  PROVE  /\ Never(mail, Len(mail), B) /\ Never(puts, Len(puts), B)
              => Never(mail \o puts, Len(mail \o puts), B)
         /\ Since(mail, Len(mail), A, B) /\ Never(puts, Len(puts), B)
              => Since(mail \o puts, Len(mail \o puts), A, B)
         /\ Since(puts, Len(puts), A, B) => Since(mail \o puts, Len(mail \o puts), A, B)
         /\ Some(mail, A) \/ Some(puts, A) => Some(mail \o puts, A)
<1> DEFINE u == mail \o puts
           m == Len(mail)
           p == Len(puts)
<1>1. /\ m \in Nat /\ p \in Nat /\ Len(u) = m + p
      /\ \A i \in 1..m : u[i] = mail[i]
      /\ \A i \in 1..p : u[m + i] = puts[i]
      /\ \A i \in (m + 1)..(m + p) : u[i] = puts[i - m]
  BY ConcatFacts
<1> HIDE DEF u, m, p
<1>2. ASSUME Never(puts, p, B)
      PROVE  \A i \in (m + 1)..(m + p) : u[i] \notin B
  <2>1. \A i \in (m + 1)..(m + p) : i - m \in 1..p
    BY <1>1
  <2> QED BY <1>1, <1>2, <2>1 DEF Never
<1>3. ASSUME Never(mail, m, B), Never(puts, p, B) PROVE Never(u, m + p, B)
  <2>1. \A i \in 1..(m + p) : i \in 1..m \/ i \in (m + 1)..(m + p)
    BY <1>1
  <2> QED BY <1>1, <1>2, <1>3, <2>1 DEF Never
<1>4. ASSUME Since(mail, m, A, B), Never(puts, p, B) PROVE Since(u, m + p, A, B)
  <2>1. PICK i \in 1..m : mail[i] \in A /\ \A j \in (i + 1)..m : mail[j] \notin B
    BY <1>4 DEF Since
  <2>2. \A j \in (i + 1)..(m + p) : j \in (i + 1)..m \/ j \in (m + 1)..(m + p)
    BY <1>1
  <2>3. \A j \in (i + 1)..(m + p) : u[j] \notin B
    BY <1>1, <1>2, <1>4, <2>1, <2>2
  <2>4. i \in 1..(m + p) /\ u[i] \in A
    BY <1>1, <2>1
  <2> QED BY <2>3, <2>4 DEF Since
<1>5. ASSUME Since(puts, p, A, B) PROVE Since(u, m + p, A, B)
  <2>1. PICK i \in 1..p : puts[i] \in A /\ \A j \in (i + 1)..p : puts[j] \notin B
    BY <1>5 DEF Since
  <2>2. \A j \in ((m + i) + 1)..(m + p) : j - m \in (i + 1)..p /\ u[j] = puts[j - m]
    BY <1>1
  <2>3. m + i \in 1..(m + p) /\ u[m + i] \in A
    BY <1>1, <2>1
  <2>4. \A j \in ((m + i) + 1)..(m + p) : u[j] \notin B
    BY <2>1, <2>2
  <2> QED BY <2>3, <2>4 DEF Since
<1>6. ASSUME Some(mail, A) \/ Some(puts, A) PROVE Some(u, A)
  <2>1. CASE Some(mail, A)
    <3>1. PICK i \in 1..m : mail[i] \in A
      BY <2>1 DEF Some, m
    <3> QED BY <1>1, <3>1 DEF Some
  <2>2. CASE Some(puts, A)
    <3>1. PICK i \in 1..p : puts[i] \in A
      BY <2>2 DEF Some, p
    <3>2. m + i \in 1..Len(u) /\ u[m + i] \in A
      BY <1>1, <3>1
    <3> QED BY <3>2 DEF Some
  <2> QED BY <1>6, <2>1, <2>2
<1> QED BY <1>1, <1>3, <1>4, <1>5, <1>6 DEF u, m, p
----------------------------------------------------------------------------
(* One message is taken: the statements hold of the rest of the mailbox      *)
(* when the handler's effect on the player and the list is the usual one.    *)

LEMMA SetsLemma ==
  /\ \A m \in StreamOpens : \E s \in Streams : m \in OpensOf(s)
  /\ \A s \in Streams : OpensOf(s) \subseteq StreamOpens /\ OpensOf(s) \subseteq Disturbs
                        /\ ClosesOf(s) \subseteq Disturbs
  /\ StreamOpens \subseteq Disturbs /\ PromptOpens \subseteq Disturbs
BY DEF StreamOpens, OpensOf, ClosesOf, PromptOpens, Disturbs, Asks, Streams, Players

LEMMA StreamOfLemma == \A current \in {"VOICE", "SBC"} : StreamOf(current) \in Streams
BY DEF StreamOf, Streams

LEMMA GivenUpTaken ==
  ASSUME NEW mail \in Seq(Requests), mail # <<>>,
         NEW player, NEW list, NEW player2, NEW list2,
         NEW s \in Streams, GivenUp(mail, s, player),
         Head(mail) \in OpensOf(s) => player2 = s,
         Head(mail) \notin Disturbs /\ player = s => player2 = s,
         Head(mail) \in ClosesOf(s) /\ player = s => Free(player2, list2)
  PROVE  \/ GivenUp(Tail(mail), s, player2)
         \/ Free(player2, list2) /\ Never(Tail(mail), Len(Tail(mail)), StreamOpens)
<1> DEFINE n == Len(mail)
           t == Tail(mail)
<1>1. /\ n \in Nat /\ n >= 1 /\ Len(t) = n - 1 /\ Head(mail) = mail[1]
      /\ \A i \in 1..(n - 1) : t[i] = mail[i + 1]
  BY TailFacts
<1>2. PICK k \in 1..n :
        /\ mail[k] \in ClosesOf(s)
        /\ \/ player = s /\ Never(mail, k - 1, Disturbs)
           \/ Since(mail, k - 1, OpensOf(s), Disturbs)
        /\ \A j \in (k + 1)..n : mail[j] \notin StreamOpens
  BY DEF GivenUp
<1>3. CASE k = 1
  <2>1. ~Since(mail, k - 1, OpensOf(s), Disturbs)
    BY <1>3 DEF Since
  <2>2. Free(player2, list2)
    BY <1>1, <1>2, <1>3, <2>1
  <2>3. \A j \in 1..(n - 1) : j + 1 \in (k + 1)..n
    BY <1>1, <1>3
  <2>4. Never(t, Len(t), StreamOpens)
    <3> HIDE DEF n, t
    <3> QED BY <1>1, <1>2, <2>3 DEF Never
  <2> QED BY <2>2, <2>4
<1>4. CASE k > 1
  <2>1. k - 1 \in 1..n /\ k - 1 \in 1..(n - 1) /\ t[k - 1] = mail[k]
    BY <1>1, <1>4
  <2>2. \/ player2 = s /\ Never(t, (k - 1) - 1, Disturbs)
        \/ Since(t, (k - 1) - 1, OpensOf(s), Disturbs)
    <3>1. /\ Never(mail, k - 1, Disturbs) =>
               Head(mail) \notin Disturbs /\ Never(t, (k - 1) - 1, Disturbs)
          /\ Since(mail, k - 1, OpensOf(s), Disturbs) =>
               \/ Since(t, (k - 1) - 1, OpensOf(s), Disturbs)
               \/ Head(mail) \in OpensOf(s) /\ Never(t, (k - 1) - 1, Disturbs)
      BY <2>1, TailLemma
    <3> HIDE DEF n, t
    <3> QED BY <1>2, <3>1
  <2>3. \A j \in ((k - 1) + 1)..(n - 1) : j + 1 \in (k + 1)..n /\ j \in 1..(n - 1)
    BY <1>1, <1>4
  <2>4. \A j \in ((k - 1) + 1)..(n - 1) : t[j] \notin StreamOpens
    <3> HIDE DEF n, t
    <3> QED BY <1>1, <1>2, <2>3
  <2> HIDE DEF n, t
  <2>5. GivenUp(t, s, player2)
    BY <1>1, <1>2, <2>1, <2>2, <2>4 DEF GivenUp
  <2> QED BY <2>5 DEF t
<1> QED BY <1>3, <1>4

LEMMA StreamTaken ==
  ASSUME NEW mail \in Seq(Requests), mail # <<>>,
         NEW current, NEW player, NEW list, NEW player2, NEW list2,
         StreamOK(mail, current, player, list),
         \A s \in Streams : Head(mail) \in OpensOf(s) => player2 = s /\ list2 = Alone(s),
         Head(mail) \notin Disturbs /\ player \in Streams =>
           player2 = player /\ (list = Alone(player) => list2 = list),
         \A s \in Streams : Head(mail) \in ClosesOf(s) /\ player = s => Free(player2, list2),
         Free(player, list) /\ Head(mail) \notin StreamOpens => Free(player2, list2)
  PROVE  StreamOK(Tail(mail), current, player2, list2)
<1> DEFINE n == Len(mail)
           t == Tail(mail)
<1>1. n \in 1..n /\ Len(t) = n - 1
  BY TailFacts
<1>2. /\ Never(mail, n, Disturbs) => Head(mail) \notin Disturbs /\ Never(t, n - 1, Disturbs)
      /\ Never(mail, n, StreamOpens) =>
           Head(mail) \notin StreamOpens /\ Never(t, n - 1, StreamOpens)
      /\ \A s \in Streams : Since(mail, n, OpensOf(s), Disturbs) =>
           \/ Since(t, n - 1, OpensOf(s), Disturbs)
           \/ Head(mail) \in OpensOf(s) /\ Never(t, n - 1, Disturbs)
  BY <1>1, TailLemma
<1>3. CASE current \in {"VOICE", "SBC"}
  <2>1. StreamOf(current) \in Streams
    BY <1>3, StreamOfLemma
  <2> HIDE DEF n, t
  <2>2. \/ /\ player = StreamOf(current) /\ list = Alone(player)
           /\ Never(mail, n, Disturbs)
        \/ Since(mail, n, OpensOf(StreamOf(current)), Disturbs)
    BY <1>3 DEF StreamOK, n
  <2>3. \/ /\ player2 = StreamOf(current) /\ list2 = Alone(player2)
           /\ Never(t, n - 1, Disturbs)
        \/ Since(t, n - 1, OpensOf(StreamOf(current)), Disturbs)
    BY <1>2, <2>1, <2>2
  <2>4. StreamOK(t, current, player2, list2)
    BY <1>1, <1>3, <2>3 DEF StreamOK
  <2> QED BY <2>4 DEF t
<1>4. CASE current \notin {"VOICE", "SBC"}
  <2>1. CASE Free(player, list) /\ Never(mail, n, StreamOpens)
    BY <1>1, <1>2, <1>4, <2>1 DEF StreamOK
  <2>2. CASE \E s \in Streams : GivenUp(mail, s, player)
    <3>1. PICK s \in Streams : GivenUp(mail, s, player)
      BY <2>2
    <3>2. \/ GivenUp(t, s, player2)
          \/ Free(player2, list2) /\ Never(t, Len(t), StreamOpens)
      BY <3>1, GivenUpTaken
    <3> QED BY <1>4, <3>2 DEF StreamOK
  <2> QED BY <1>4, <2>1, <2>2 DEF StreamOK
<1> QED BY <1>3, <1>4

LEMMA MediaTaken ==
  ASSUME NEW mail \in Seq(Requests), mail # <<>>, NEW list, NEW list2,
         MediaOK(mail, list), Head(mail) \notin MediaStops,
         Listens(list) /\ Head(mail) \notin StreamOpens => Listens(list2),
         Head(mail) \in PromptOpens => Listens(list2)
  PROVE  MediaOK(Tail(mail), list2)
<1> DEFINE n == Len(mail)
           t == Tail(mail)
<1>1. n \in 1..n /\ Len(t) = n - 1
  BY TailFacts
<1>2. /\ Never(mail, n, StreamOpens) =>
           Head(mail) \notin StreamOpens /\ Never(t, n - 1, StreamOpens)
      /\ Since(mail, n, PromptOpens, StreamOpens) =>
           \/ Since(t, n - 1, PromptOpens, StreamOpens)
           \/ Head(mail) \in PromptOpens /\ Never(t, n - 1, StreamOpens)
      /\ Some(mail, MediaStops) => Head(mail) \in MediaStops \/ Some(t, MediaStops)
  BY <1>1, TailLemma
<1> HIDE DEF n, t
<1>3. MediaOK(t, list2)
  BY <1>1, <1>2 DEF MediaOK, n
<1> QED BY <1>3 DEF t

LEMMA RateTaken ==
  ASSUME NEW mail \in Seq(Requests), mail # <<>>, NEW rate, NEW rate2, NEW d,
         RateOK(mail, rate, d),
         IF Head(mail) \in Setups THEN rate2 = Head(mail).dev ELSE rate2 = rate
  PROVE  RateOK(Tail(mail), rate2, d)
<1> DEFINE n == Len(mail)
           t == Tail(mail)
<1>1. n \in 1..n /\ Len(t) = n - 1
  BY TailFacts
<1>2. /\ Never(mail, n, Setups) => Head(mail) \notin Setups /\ Never(t, n - 1, Setups)
      /\ Since(mail, n, SetupsOf(d), Setups) =>
           \/ Since(t, n - 1, SetupsOf(d), Setups)
           \/ Head(mail) \in SetupsOf(d) /\ Never(t, n - 1, Setups)
  BY <1>1, TailLemma
<1> HIDE DEF n, t
<1>3. RateOK(t, rate2, d)
  BY <1>1, <1>2 DEF RateOK, n, SetupsOf
<1> QED BY <1>3 DEF t

LEMMA OrderTaken ==
  ASSUME NEW mail \in Seq(Requests), mail # <<>>, NEW d, NEW active, NEW active2,
         OrderOK(mail, d, active),
         Head(mail) \in SbcStops(d) => "SBC" \notin active2,
         Head(mail) \notin SbcStarts(d) => ("SBC" \in active2 => "SBC" \in active)
  PROVE  /\ OrderOK(Tail(mail), d, active2)
         /\ Stopped(mail, d, active) => Stopped(Tail(mail), d, active2)
<1> DEFINE n  == Len(mail)
           t  == Tail(mail)
           st == SbcStarts(d)
           sp == SbcStops(d)
<1>1. /\ n \in Nat /\ n >= 1 /\ Len(t) = n - 1 /\ Head(mail) = mail[1]
      /\ \A i \in 1..(n - 1) : t[i] = mail[i + 1] /\ i + 1 \in 1..n
  BY TailFacts
<1>2. \A i \in 1..n : mail[i] \in st =>
        /\ "SBC" \in active => \E k \in 1..(i - 1) : mail[k] \in sp
        /\ \A j \in (i + 1)..n : mail[j] \in st => \E k \in (i + 1)..(j - 1) : mail[k] \in sp
  BY DEF OrderOK
<1>3. /\ mail[1] \in sp => "SBC" \notin active2
      /\ mail[1] \notin st => ("SBC" \in active2 => "SBC" \in active)
  BY <1>1
<1> HIDE DEF n, t, st, sp
<1>4. ASSUME NEW i \in 1..(n - 1), t[i] \in st, "SBC" \in active2
      PROVE  \E k \in 1..(i - 1) : t[k] \in sp
  <2>1. i + 1 \in 1..n /\ mail[i + 1] \in st
    BY <1>1, <1>4
  <2>2. PICK k \in 2..i : mail[k] \in sp
    <3>1. CASE mail[1] \in st
      <4>1. 1 \in 1..n /\ i + 1 \in (1 + 1)..n
        BY <1>1
      <4>2. \E k \in (1 + 1)..((i + 1) - 1) : mail[k] \in sp
        BY <1>2, <2>1, <3>1, <4>1
      <4> QED BY <4>2
    <3>2. CASE mail[1] \notin st
      <4>1. PICK k \in 1..((i + 1) - 1) : mail[k] \in sp
        BY <1>2, <1>3, <1>4, <2>1, <3>2
      <4>2. k # 1
        BY <1>3, <1>4, <4>1
      <4> QED BY <4>1, <4>2
    <3> QED BY <3>1, <3>2
  <2>3. k - 1 \in 1..(i - 1) /\ k - 1 \in 1..(n - 1) /\ t[k - 1] = mail[k]
    BY <1>1
  <2> QED BY <2>2, <2>3
<1>5. ASSUME NEW i \in 1..(n - 1), t[i] \in st, NEW j \in (i + 1)..(n - 1), t[j] \in st
      PROVE  \E k \in (i + 1)..(j - 1) : t[k] \in sp
  <2>1. /\ i + 1 \in 1..n /\ mail[i + 1] \in st
        /\ j + 1 \in ((i + 1) + 1)..n /\ mail[j + 1] \in st
    BY <1>1, <1>5
  <2>2. PICK k \in ((i + 1) + 1)..((j + 1) - 1) : mail[k] \in sp
    BY <1>2, <2>1
  <2>3. k - 1 \in (i + 1)..(j - 1) /\ t[k - 1] = mail[k]
    BY <1>1
  <2> QED BY <2>2, <2>3
<1>6. OrderOK(t, d, active2)
  BY <1>1, <1>4, <1>5 DEF OrderOK, st, sp
<1>7. ASSUME Stopped(mail, d, active) PROVE Stopped(t, d, active2)
  <2>1. /\ "SBC" \in active => \E k \in 1..n : mail[k] \in sp
        /\ \A i \in 1..n : mail[i] \in st => \E k \in (i + 1)..n : mail[k] \in sp
    BY <1>7 DEF Stopped, Some, n, st, sp
  <2>2. ASSUME "SBC" \in active2 PROVE \E k \in 1..(n - 1) : t[k] \in sp
    <3>1. PICK k \in 2..n : mail[k] \in sp
      <4>1. CASE mail[1] \in st
        <5>1. \E k \in (1 + 1)..n : mail[k] \in sp
          BY <1>1, <2>1, <4>1
        <5> QED BY <5>1
      <4>2. CASE mail[1] \notin st
        <5>1. PICK k \in 1..n : mail[k] \in sp
          BY <1>3, <2>1, <2>2, <4>2
        <5>2. k # 1
          BY <1>3, <2>2, <5>1
        <5> QED BY <5>1, <5>2
      <4> QED BY <4>1, <4>2
    <3>2. k - 1 \in 1..(n - 1) /\ t[k - 1] = mail[k]
      BY <1>1
    <3> QED BY <3>1, <3>2
  <2>3. ASSUME NEW i \in 1..(n - 1), t[i] \in st
        PROVE  \E k \in (i + 1)..(n - 1) : t[k] \in sp
    <3>1. i + 1 \in 1..n /\ mail[i + 1] \in st
      BY <1>1, <2>3
    <3>2. PICK k \in ((i + 1) + 1)..n : mail[k] \in sp
      BY <2>1, <3>1
    <3>3. k - 1 \in (i + 1)..(n - 1) /\ t[k - 1] = mail[k]
      BY <1>1
    <3> QED BY <3>2, <3>3
  <2> QED BY <1>1, <2>2, <2>3 DEF Stopped, Some, st, sp
<1> QED BY <1>6, <1>7 DEF t
----------------------------------------------------------------------------
(* The handler's own messages, or that of another thread, go behind the rest *)
(* of the mailbox.                                                           *)

\* What the manager may ask for when its current media changes: it goes on;
\* it has no stream before and after; it gives its stream up; or it opens a
\* stream last.
StreamOrder(current, current2, puts) ==
  \/ current2 = current /\ Never(puts, Len(puts), Disturbs)
  \/ /\ current \notin {"VOICE", "SBC"} /\ current2 \notin {"VOICE", "SBC"}
     /\ Never(puts, Len(puts), StreamOpens)
  \/ /\ current \in {"VOICE", "SBC"} /\ current2 \notin {"VOICE", "SBC"}
     /\ puts # <<>> /\ puts[1] \in ClosesOf(StreamOf(current))
     /\ \A j \in 2..Len(puts) : puts[j] \notin StreamOpens
  \/ /\ current2 \in {"VOICE", "SBC"}
     /\ Since(puts, Len(puts), OpensOf(StreamOf(current2)), Disturbs)

LEMMA GivenUpPut ==
  ASSUME NEW mail \in Seq(Requests), NEW puts \in Seq(Requests),
         NEW player, NEW s \in Streams
  PROVE  /\ GivenUp(mail, s, player) /\ Never(puts, Len(puts), StreamOpens)
              => GivenUp(mail \o puts, s, player)
         /\ (/\ \/ player = s /\ Never(mail, Len(mail), Disturbs)
                \/ Since(mail, Len(mail), OpensOf(s), Disturbs)
             /\ puts # <<>> /\ puts[1] \in ClosesOf(s)
             /\ \A j \in 2..Len(puts) : puts[j] \notin StreamOpens)
              => GivenUp(mail \o puts, s, player)
<1> DEFINE u == mail \o puts
           m == Len(mail)
           p == Len(puts)
<1>1. /\ m \in Nat /\ p \in Nat /\ Len(u) = m + p
      /\ \A i \in 1..m : u[i] = mail[i]
      /\ \A i \in (m + 1)..(m + p) : u[i] = puts[i - m] /\ i - m \in 1..p
      /\ puts # <<>> => p >= 1
  BY ConcatFacts
<1> HIDE DEF u, m, p
<1>2. \A k \in 0..m : /\ Never(mail, k, Disturbs) => Never(u, k, Disturbs)
                      /\ Since(mail, k, OpensOf(s), Disturbs) => Since(u, k, OpensOf(s), Disturbs)
  <2> SUFFICES ASSUME NEW k \in 0..m
               PROVE  /\ Never(mail, k, Disturbs) => Never(u, k, Disturbs)
                      /\ Since(mail, k, OpensOf(s), Disturbs) => Since(u, k, OpensOf(s), Disturbs)
    OBVIOUS
  <2>1. \A i \in 1..k : u[i] = mail[i] /\ \A j \in (i + 1)..k : u[j] = mail[j]
    BY <1>1
  <2> QED BY <2>1 DEF Never, Since
<1>3. ASSUME GivenUp(mail, s, player), Never(puts, p, StreamOpens)
      PROVE  GivenUp(u, s, player)
  <2>1. PICK k \in 1..m :
          /\ mail[k] \in ClosesOf(s)
          /\ \/ player = s /\ Never(mail, k - 1, Disturbs)
             \/ Since(mail, k - 1, OpensOf(s), Disturbs)
          /\ \A j \in (k + 1)..m : mail[j] \notin StreamOpens
    BY <1>3 DEF GivenUp, m
  <2>2. k - 1 \in 0..m /\ k \in 1..(m + p) /\ u[k] = mail[k]
    BY <1>1
  <2>3. \A j \in (k + 1)..(m + p) : j \in (k + 1)..m \/ j \in (m + 1)..(m + p)
    BY <1>1
  <2>4. \A j \in (m + 1)..(m + p) : u[j] \notin StreamOpens
    BY <1>1, <1>3 DEF Never
  <2>5. \A j \in (k + 1)..(m + p) : u[j] \notin StreamOpens
    BY <1>1, <2>1, <2>3, <2>4
  <2> QED BY <1>1, <1>2, <2>1, <2>2, <2>5 DEF GivenUp
<1>4. ASSUME \/ player = s /\ Never(mail, m, Disturbs)
             \/ Since(mail, m, OpensOf(s), Disturbs),
             puts # <<>>, puts[1] \in ClosesOf(s),
             \A j \in 2..p : puts[j] \notin StreamOpens
      PROVE  GivenUp(u, s, player)
  <2>1. m + 1 \in 1..(m + p) /\ u[m + 1] \in ClosesOf(s) /\ (m + 1) - 1 = m /\ m \in 0..m
    BY <1>1, <1>4
  <2>2. \A j \in ((m + 1) + 1)..(m + p) : u[j] = puts[j - m] /\ j - m \in 2..p
    BY <1>1
  <2>3. \A j \in ((m + 1) + 1)..(m + p) : u[j] \notin StreamOpens
    BY <1>4, <2>2
  <2>4. \/ player = s /\ Never(u, (m + 1) - 1, Disturbs)
        \/ Since(u, (m + 1) - 1, OpensOf(s), Disturbs)
    BY <1>2, <1>4, <2>1
  <2> QED BY <1>1, <2>1, <2>3, <2>4 DEF GivenUp
<1> QED BY <1>3, <1>4 DEF u, m, p

LEMMA StreamPut ==
  ASSUME NEW mail \in Seq(Requests), NEW puts \in Seq(Requests),
         NEW current, NEW current2, NEW player, NEW list, NEW list2,
         StreamOK(mail, current, player, list),
         StreamOrder(current, current2, puts),
         list2 = list \/ (list2 = <<>> /\ current \notin {"VOICE", "SBC"})
  PROVE  StreamOK(mail \o puts, current2, player, list2)
<1> DEFINE u == mail \o puts
<1>1. /\ Never(mail, Len(mail), Disturbs) /\ Never(puts, Len(puts), Disturbs)
           => Never(u, Len(u), Disturbs)
      /\ Never(mail, Len(mail), StreamOpens) /\ Never(puts, Len(puts), StreamOpens)
           => Never(u, Len(u), StreamOpens)
      /\ \A s : /\ Since(mail, Len(mail), OpensOf(s), Disturbs) /\ Never(puts, Len(puts), Disturbs)
                     => Since(u, Len(u), OpensOf(s), Disturbs)
                /\ Since(puts, Len(puts), OpensOf(s), Disturbs)
                     => Since(u, Len(u), OpensOf(s), Disturbs)
  BY ConcatLemma
<1>2. Never(puts, Len(puts), Disturbs) => Never(puts, Len(puts), StreamOpens)
  BY SetsLemma DEF Never
<1>3. Free(player, list) /\ current \notin {"VOICE", "SBC"} => Free(player, list2)
  <2>1. Free(player, list) => Free(player, <<>>)
    BY DEF Free
  <2> QED BY <2>1
<1> HIDE DEF u
<1>4. ASSUME current2 \in {"VOICE", "SBC"},
             Since(puts, Len(puts), OpensOf(StreamOf(current2)), Disturbs)
      PROVE  StreamOK(u, current2, player, list2)
  <2>1. Since(u, Len(u), OpensOf(StreamOf(current2)), Disturbs)
    BY <1>1, <1>4
  <2> QED BY <1>4, <2>1 DEF StreamOK
<1>5. ASSUME current \in {"VOICE", "SBC"}, current2 = current,
             Never(puts, Len(puts), Disturbs)
      PROVE  StreamOK(u, current2, player, list2)
  BY <1>1, <1>5 DEF StreamOK
<1>6. ASSUME current \notin {"VOICE", "SBC"}, current2 \notin {"VOICE", "SBC"},
             Never(puts, Len(puts), StreamOpens)
      PROVE  StreamOK(u, current2, player, list2)
  <2>1. CASE Free(player, list) /\ Never(mail, Len(mail), StreamOpens)
    BY <1>1, <1>3, <1>6, <2>1 DEF StreamOK
  <2>2. CASE \E s \in Streams : GivenUp(mail, s, player)
    <3>1. \E s \in Streams : GivenUp(u, s, player)
      BY <1>6, <2>2, GivenUpPut DEF u
    <3> QED BY <1>6, <3>1 DEF StreamOK
  <2> QED BY <1>6, <2>1, <2>2 DEF StreamOK
<1>7. ASSUME current \in {"VOICE", "SBC"}, current2 \notin {"VOICE", "SBC"},
             puts # <<>>, puts[1] \in ClosesOf(StreamOf(current)),
             \A j \in 2..Len(puts) : puts[j] \notin StreamOpens
      PROVE  StreamOK(u, current2, player, list2)
  <2>1. StreamOf(current) \in Streams
    BY <1>7, StreamOfLemma
  <2>2. \/ player = StreamOf(current) /\ Never(mail, Len(mail), Disturbs)
        \/ Since(mail, Len(mail), OpensOf(StreamOf(current)), Disturbs)
    BY <1>7 DEF StreamOK
  <2>3. GivenUp(u, StreamOf(current), player)
    BY <1>7, <2>1, <2>2, GivenUpPut DEF u
  <2> QED BY <1>7, <2>1, <2>3 DEF StreamOK
<1>8. StreamOK(u, current2, player, list2)
  BY <1>2, <1>4, <1>5, <1>6, <1>7 DEF StreamOrder
<1> QED BY <1>8 DEF u

LEMMA MediaPut ==
  ASSUME NEW mail \in Seq(Requests), NEW puts \in Seq(Requests), NEW list
  PROVE  /\ MediaOK(mail, list) /\ Never(puts, Len(puts), StreamOpens)
              => MediaOK(mail \o puts, list)
         /\ (\/ Since(puts, Len(puts), PromptOpens, StreamOpens)
             \/ Some(puts, MediaStops)) => MediaOK(mail \o puts, list)
<1> DEFINE u == mail \o puts
<1>1. /\ Never(mail, Len(mail), StreamOpens) /\ Never(puts, Len(puts), StreamOpens)
           => Never(u, Len(u), StreamOpens)
      /\ Since(mail, Len(mail), PromptOpens, StreamOpens) /\ Never(puts, Len(puts), StreamOpens)
           => Since(u, Len(u), PromptOpens, StreamOpens)
      /\ Since(puts, Len(puts), PromptOpens, StreamOpens)
           => Since(u, Len(u), PromptOpens, StreamOpens)
      /\ Some(mail, MediaStops) \/ Some(puts, MediaStops) => Some(u, MediaStops)
  BY ConcatLemma
<1> HIDE DEF u
<1> QED BY <1>1 DEF MediaOK, u

LEMMA RatePut ==
  ASSUME NEW mail \in Seq(Requests), NEW puts \in Seq(Requests), NEW rate, NEW d
  PROVE  /\ RateOK(mail, rate, d) /\ Never(puts, Len(puts), Setups)
              => RateOK(mail \o puts, rate, d)
         /\ Since(puts, Len(puts), SetupsOf(d), Setups) => RateOK(mail \o puts, rate, d)
<1> DEFINE u == mail \o puts
<1>1. /\ Never(mail, Len(mail), Setups) /\ Never(puts, Len(puts), Setups)
           => Never(u, Len(u), Setups)
      /\ Since(mail, Len(mail), SetupsOf(d), Setups) /\ Never(puts, Len(puts), Setups)
           => Since(u, Len(u), SetupsOf(d), Setups)
      /\ Since(puts, Len(puts), SetupsOf(d), Setups)
           => Since(u, Len(u), SetupsOf(d), Setups)
  BY ConcatLemma
<1> HIDE DEF u
<1> QED BY <1>1 DEF RateOK, u

LEMMA OrderPut ==
  ASSUME NEW mail \in Seq(Requests), NEW puts \in Seq(Requests), NEW d, NEW active,
         OrderOK(mail, d, active)
  PROVE  /\ Never(puts, Len(puts), SbcStarts(d)) =>
              /\ OrderOK(mail \o puts, d, active)
              /\ Stopped(mail, d, active) => Stopped(mail \o puts, d, active)
              /\ Some(puts, SbcStops(d)) => Stopped(mail \o puts, d, active)
         /\ Len(puts) = 1 /\ Stopped(mail, d, active) => OrderOK(mail \o puts, d, active)
<1> DEFINE u  == mail \o puts
           m  == Len(mail)
           p  == Len(puts)
           st == SbcStarts(d)
           sp == SbcStops(d)
<1>1. /\ m \in Nat /\ p \in Nat /\ Len(u) = m + p
      /\ \A i \in 1..m : u[i] = mail[i]
      /\ \A i \in (m + 1)..(m + p) : u[i] = puts[i - m] /\ i - m \in 1..p
      /\ \A i \in 1..p : u[m + i] = puts[i] /\ m + i \in 1..(m + p)
  BY ConcatFacts
<1>2. \A i \in 1..m : mail[i] \in st =>
        /\ "SBC" \in active => \E k \in 1..(i - 1) : mail[k] \in sp
        /\ \A j \in (i + 1)..m : mail[j] \in st => \E k \in (i + 1)..(j - 1) : mail[k] \in sp
  BY DEF OrderOK
<1> HIDE DEF u, m, p, st, sp
<1>3. \A i \in 1..m : u[i] \in st =>
        /\ "SBC" \in active => \E k \in 1..(i - 1) : u[k] \in sp
        /\ \A j \in (i + 1)..m : u[j] \in st => \E k \in (i + 1)..(j - 1) : u[k] \in sp
  <2> SUFFICES ASSUME NEW i \in 1..m, u[i] \in st
               PROVE  /\ "SBC" \in active => \E k \in 1..(i - 1) : u[k] \in sp
                      /\ \A j \in (i + 1)..m : u[j] \in st =>
                           \E k \in (i + 1)..(j - 1) : u[k] \in sp
    OBVIOUS
  <2>1. /\ \A k \in 1..(i - 1) : u[k] = mail[k]
        /\ \A j \in (i + 1)..m : u[j] = mail[j] /\ \A k \in (i + 1)..(j - 1) : u[k] = mail[k]
    BY <1>1
  <2> QED BY <1>1, <1>2, <2>1
<1>4. Stopped(mail, d, active) <=>
        /\ "SBC" \in active => \E k \in 1..m : u[k] \in sp
        /\ \A i \in 1..m : u[i] \in st => \E k \in (i + 1)..m : u[k] \in sp
  <2>1. \A i \in 1..m : u[i] = mail[i] /\ \A k \in (i + 1)..m : u[k] = mail[k]
    BY <1>1
  <2> QED BY <2>1 DEF Stopped, Some, m, st, sp
<1>5. ASSUME Never(puts, p, st)
      PROVE  /\ OrderOK(u, d, active)
             /\ Stopped(mail, d, active) => Stopped(u, d, active)
             /\ Some(puts, sp) => Stopped(u, d, active)
  <2>1. \A i \in 1..(m + p) : u[i] \in st => i \in 1..m
    BY <1>1, <1>5 DEF Never
  <2>2. OrderOK(u, d, active)
    <3> SUFFICES ASSUME NEW i \in 1..(m + p), u[i] \in st
                 PROVE  /\ "SBC" \in active => \E k \in 1..(i - 1) : u[k] \in sp
                        /\ \A j \in (i + 1)..(m + p) : u[j] \in st =>
                             \E k \in (i + 1)..(j - 1) : u[k] \in sp
      BY <1>1 DEF OrderOK, st, sp
    <3>1. i \in 1..m /\ \A j \in (i + 1)..(m + p) : u[j] \in st => j \in (i + 1)..m
      BY <1>1, <2>1
    <3> QED BY <1>3, <3>1
  <2>3. ASSUME Stopped(mail, d, active) PROVE Stopped(u, d, active)
    <3>1. \A k \in 1..m : k \in 1..(m + p)
      BY <1>1
    <3>2. \A i \in 1..m : \A k \in (i + 1)..m : k \in (i + 1)..(m + p)
      BY <1>1
    <3>3. \A i \in 1..m : u[i] \in st => \E k \in (i + 1)..(m + p) : u[k] \in sp
      BY <1>4, <2>3, <3>2
    <3>4. "SBC" \in active => \E k \in 1..(m + p) : u[k] \in sp
      BY <1>4, <2>3, <3>1
    <3> QED BY <1>1, <2>1, <3>3, <3>4 DEF Stopped, Some, st, sp
  <2>4. ASSUME Some(puts, sp) PROVE Stopped(u, d, active)
    <3>1. PICK k \in 1..p : puts[k] \in sp
      BY <2>4 DEF Some, p
    <3>2. m + k \in 1..(m + p) /\ u[m + k] \in sp
      BY <1>1, <3>1
    <3>3. \A i \in 1..m : m + k \in (i + 1)..(m + p)
      BY <1>1
    <3> QED BY <1>1, <2>1, <3>2, <3>3 DEF Stopped, Some, st, sp
  <2> QED BY <2>2, <2>3, <2>4
<1>6. ASSUME p = 1, Stopped(mail, d, active) PROVE OrderOK(u, d, active)
  <2> SUFFICES ASSUME NEW i \in 1..(m + 1), u[i] \in st
               PROVE  /\ "SBC" \in active => \E k \in 1..(i - 1) : u[k] \in sp
                      /\ \A j \in (i + 1)..(m + 1) : u[j] \in st =>
                           \E k \in (i + 1)..(j - 1) : u[k] \in sp
    BY <1>1, <1>6 DEF OrderOK, st, sp
  <2>1. CASE i = m + 1
    <3>1. \A j \in (i + 1)..(m + 1) : FALSE
      BY <1>1, <2>1
    <3>2. "SBC" \in active => \E k \in 1..m : u[k] \in sp
      BY <1>4, <1>6
    <3>3. i - 1 = m
      BY <1>1, <2>1
    <3> QED BY <3>1, <3>2, <3>3
  <2>2. CASE i \in 1..m
    <3>1. ASSUME NEW j \in (i + 1)..(m + 1), u[j] \in st
          PROVE  \E k \in (i + 1)..(j - 1) : u[k] \in sp
      <4>1. CASE j \in (i + 1)..m
        BY <1>3, <2>2, <3>1, <4>1
      <4>2. CASE j = m + 1
        <5>1. \E k \in (i + 1)..m : u[k] \in sp
          BY <1>4, <1>6, <2>2
        <5>2. j - 1 = m
          BY <1>1, <4>2
        <5> QED BY <5>1, <5>2
      <4> QED BY <1>1, <4>1, <4>2
    <3> QED BY <1>3, <2>2, <3>1
  <2> QED BY <1>1, <2>1, <2>2
<1> QED BY <1>5, <1>6 DEF u, m, p, st, sp
----------------------------------------------------------------------------
(* The statements of the next state, by what its variables are.              *)

LEMMA AheadPrime ==
  /\ StreamOK(mailbox', curr_active_media', gStreamplayer', audio_list') => StreamAhead'
  /\ (On(media_active', "MEDIA") => MediaOK(mailbox', audio_list')) => MediaAhead'
  /\ (curr_active_media' = "SBC" => RateOK(mailbox', sample_rate', media_curr_sbc')) => RateAhead'
  /\ (/\ Listens(audio_list') => gStreamplayer' = "PLAY_BACK"
      /\ ~Listens(audio_list') /\ audio_list' # <<>> => gStreamplayer' = audio_list'[1].id)
       => ListPlayer'
  /\ (gStreamplayer' = "PLAY_BACK" /\ (stop_proc' \/ audio_list' = <<>>)
        => Some(mailbox', PromptCloses)) => EndAhead'
  /\ (\A d \in Devices :
        /\ OrderOK(mailbox', d, media_active'[d])
        /\ d \in streaming' \/ Stopping(d)' \/ Stopped(mailbox', d, media_active'[d]))
       => SbcInOrder'
<1>1. StreamOK(mailbox', curr_active_media', gStreamplayer', audio_list') => StreamAhead'
  BY DEF StreamAhead, StreamOK, GivenUp, Free, Alone, Entry, Never, Since
<1>2. (On(media_active', "MEDIA") => MediaOK(mailbox', audio_list')) => MediaAhead'
  BY DEF MediaAhead, On, MediaOK, Listens, Some, Never, Since
<1>3. (curr_active_media' = "SBC" => RateOK(mailbox', sample_rate', media_curr_sbc')) => RateAhead'
  BY DEF RateAhead, RateOK, Never, Since, SetupsOf
<1>4. (/\ Listens(audio_list') => gStreamplayer' = "PLAY_BACK"
       /\ ~Listens(audio_list') /\ audio_list' # <<>> => gStreamplayer' = audio_list'[1].id)
       => ListPlayer'
  BY DEF ListPlayer, Listens
<1>5. (gStreamplayer' = "PLAY_BACK" /\ (stop_proc' \/ audio_list' = <<>>)
        => Some(mailbox', PromptCloses)) => EndAhead'
  BY DEF EndAhead, Some
<1>6. (\A d \in Devices :
        /\ OrderOK(mailbox', d, media_active'[d])
        /\ d \in streaming' \/ Stopping(d)' \/ Stopped(mailbox', d, media_active'[d]))
       => SbcInOrder'
  BY DEF SbcInOrder, Stopping, OrderOK, Stopped, Some, SbcStarts, SbcStops
<1> QED BY <1>1, <1>2, <1>3, <1>4, <1>5, <1>6

\* What gives the audio stream to another player, or another sample rate.
Moves == Disturbs \cup Setups

LEMMA MovesLemma ==
  /\ \A m : m.mod = "AUDIO" => m \notin MediaStops /\ \A d : m \notin SbcStarts(d) \cup SbcStops(d)
  /\ \A m : m.mod = "AUDIO_MANAGE" => m \notin Moves \cup StreamOpens \cup PromptCloses
  /\ \A m \in PromptCloses : m \notin Moves \cup StreamOpens
BY DEF Moves, MediaStops, SbcStarts, SbcStops, Disturbs, Setups, StreamOpens, PromptCloses,
       ClosesOf, Asks, Players, Streams

LEMMA NeverMoves ==
  ASSUME NEW puts, Never(puts, Len(puts), Moves)
  PROVE  /\ Never(puts, Len(puts), Disturbs) /\ Never(puts, Len(puts), StreamOpens)
         /\ Never(puts, Len(puts), Setups)
BY SetsLemma DEF Never, Moves

LEMMA SingleLemma ==
  ASSUME NEW m, NEW A
  PROVE  /\ m \notin A => Never(<<m>>, Len(<<m>>), A)
         /\ m \in A => Some(<<m>>, A)
         /\ Len(<<m>>) = 1 /\ Never(<<>>, Len(<<>>), A)
<1>1. Len(<<m>>) = 1 /\ <<m>>[1] = m /\ Len(<<>>) = 0
  OBVIOUS
<1>2. m \notin A => Never(<<m>>, 1, A)
  <2>1. \A i \in 1..1 : i = 1
    OBVIOUS
  <2> QED BY <1>1, <2>1 DEF Never
<1>3. m \in A => \E i \in 1..1 : <<m>>[i] \in A
  <2>1. 1 \in 1..1
    OBVIOUS
  <2> QED BY <1>1, <2>1
<1>4. Never(<<>>, 0, A)
  <2>1. 1..0 = {}
    OBVIOUS
  <2> QED BY <2>1 DEF Never
<1> QED BY <1>1, <1>2, <1>3, <1>4 DEF Some

\* A message of another thread that leaves the streams alone goes behind the
\* mailbox.
LEMMA PutAhead ==
  ASSUME PathInv, AheadInv, NEW msg \in Requests, app_mailbox_put(msg), msg \notin Moves,
         UNCHANGED <<manager, audio_list, gStreamplayer, sample_rate>>
  PROVE  /\ StreamAhead' /\ MediaAhead' /\ RateAhead' /\ ListPlayer'
         /\ (gStreamplayer = "PLAY_BACK" /\ (stop_proc' \/ audio_list = <<>>)
               => Some(mailbox, PromptCloses) \/ msg \in PromptCloses) => EndAhead'
         /\ \A d \in Devices : msg \notin SbcStarts(d) \/ Stopped(mailbox, d, media_active[d])
              => OrderOK(mailbox', d, media_active[d])
         /\ \A d \in Devices : (\/ msg \in SbcStops(d)
                                \/ /\ msg \notin SbcStarts(d)
                                   /\ Stopped(mailbox, d, media_active[d]))
              => Stopped(mailbox', d, media_active[d])
<1> DEFINE puts == <<msg>>
<1>1. /\ mailbox \in Seq(Requests) /\ puts \in Seq(Requests)
      /\ mailbox' = mailbox \o puts
  BY DEF app_mailbox_put, PathInv, TypeOK
<1>2. /\ Never(puts, Len(puts), Moves) /\ Len(puts) = 1
      /\ \A A : (msg \notin A => Never(puts, Len(puts), A)) /\ (msg \in A => Some(puts, A))
  BY SingleLemma
<1> HIDE DEF puts
<1>3. /\ Never(puts, Len(puts), Disturbs) /\ Never(puts, Len(puts), StreamOpens)
      /\ Never(puts, Len(puts), Setups)
  BY <1>2, NeverMoves
<1>4. /\ UNCHANGED <<media_active, media_curr_sbc, curr_active_media>>
      /\ UNCHANGED <<audio_list, gStreamplayer, sample_rate>>
  BY DEF manager
<1>5. StreamAhead'
  <2>1. StreamOrder(curr_active_media, curr_active_media, puts)
    BY <1>3 DEF StreamOrder
  <2>2. StreamOK(mailbox \o puts, curr_active_media, gStreamplayer, audio_list)
    BY <1>1, <2>1, StreamPut DEF AheadInv, StreamAhead
  <2> QED BY <1>1, <1>4, <2>2, AheadPrime
<1>6. MediaAhead'
  <2>1. On(media_active, "MEDIA") => MediaOK(mailbox \o puts, audio_list)
    BY <1>1, <1>3, MediaPut DEF AheadInv, MediaAhead
  <2> QED BY <1>1, <1>4, <2>1, AheadPrime
<1>7. RateAhead'
  <2>1. curr_active_media = "SBC" => RateOK(mailbox \o puts, sample_rate, media_curr_sbc)
    BY <1>1, <1>3, RatePut DEF AheadInv, RateAhead
  <2> QED BY <1>1, <1>4, <2>1, AheadPrime
<1>8. ListPlayer'
  BY <1>4, AheadPrime DEF AheadInv, ListPlayer
<1>9. ASSUME gStreamplayer = "PLAY_BACK" /\ (stop_proc' \/ audio_list = <<>>)
               => Some(mailbox, PromptCloses) \/ msg \in PromptCloses
      PROVE  EndAhead'
  <2>1. Some(mailbox, PromptCloses) \/ Some(puts, PromptCloses)
          => Some(mailbox \o puts, PromptCloses)
    BY <1>1, ConcatLemma
  <2> QED BY <1>1, <1>2, <1>4, <1>9, <2>1, AheadPrime
<1>10. ASSUME NEW d \in Devices
       PROVE  /\ msg \notin SbcStarts(d) \/ Stopped(mailbox, d, media_active[d])
                   => OrderOK(mailbox', d, media_active[d])
              /\ (\/ msg \in SbcStops(d)
                  \/ msg \notin SbcStarts(d) /\ Stopped(mailbox, d, media_active[d]))
                => Stopped(mailbox', d, media_active[d])
  <2>1. OrderOK(mailbox, d, media_active[d])
    BY DEF AheadInv, SbcInOrder
  <2>2. msg \in SbcStops(d) => msg \notin SbcStarts(d)
    BY DEF SbcStops, SbcStarts, Asks
  <2>3. /\ Never(puts, Len(puts), SbcStarts(d)) =>
             /\ OrderOK(mailbox \o puts, d, media_active[d])
             /\ Stopped(mailbox, d, media_active[d]) => Stopped(mailbox \o puts, d, media_active[d])
             /\ Some(puts, SbcStops(d)) => Stopped(mailbox \o puts, d, media_active[d])
        /\ Len(puts) = 1 /\ Stopped(mailbox, d, media_active[d])
             => OrderOK(mailbox \o puts, d, media_active[d])
    BY <1>1, <2>1, OrderPut
  <2> QED BY <1>1, <1>2, <2>2, <2>3
<1> QED BY <1>5, <1>6, <1>7, <1>8, <1>9, <1>10
----------------------------------------------------------------------------
(* The other threads.                                                        *)

LEMMA OuterPut ==
  ASSUME PathInv, AheadInv, NEW msg \in Requests, app_mailbox_put(msg),
         msg.mod = "AUDIO_MANAGE", UNCHANGED <<audio, manager>>, CallbackOK',
         \A d \in Devices : msg \in SbcStarts(d) =>
           d \in streaming' /\ Stopped(mailbox, d, media_active[d]),
         \A d \in Devices : d \in streaming' \/ Stopping(d)' \/ msg \in SbcStops(d)
                            \/ (d \notin streaming /\ ~Stopping(d))
  PROVE  AheadInv'
<1>1. msg \notin Moves /\ UNCHANGED <<audio_list, gStreamplayer, stop_proc, sample_rate>>
  BY MovesLemma DEF audio
<1>2. StreamAhead' /\ MediaAhead' /\ RateAhead' /\ ListPlayer'
  BY <1>1, PutAhead
<1>3. EndAhead'
  <2>1. gStreamplayer = "PLAY_BACK" /\ (stop_proc' \/ audio_list = <<>>)
          => Some(mailbox, PromptCloses)
    BY <1>1 DEF AheadInv, EndAhead
  <2> QED BY <1>1, <2>1, PutAhead
<1>4. SbcInOrder'
  <2>1. media_active' = media_active
    BY DEF manager
  <2>2. ASSUME NEW d \in Devices
        PROVE  /\ OrderOK(mailbox', d, media_active[d])
               /\ d \in streaming' \/ Stopping(d)' \/ Stopped(mailbox', d, media_active[d])
    <3>1. OrderOK(mailbox', d, media_active[d])
      BY <1>1, PutAhead
    <3>2. \/ d \in streaming' \/ Stopping(d)' \/ msg \in SbcStops(d)
          \/ msg \notin SbcStarts(d) /\ Stopped(mailbox, d, media_active[d])
      BY DEF AheadInv, SbcInOrder
    <3>3. (\/ msg \in SbcStops(d)
           \/ msg \notin SbcStarts(d) /\ Stopped(mailbox, d, media_active[d]))
            => Stopped(mailbox', d, media_active[d])
      BY <1>1, PutAhead
    <3> QED BY <3>1, <3>2, <3>3
  <2> QED BY <2>1, <2>2, AheadPrime
<1> QED BY <1>2, <1>3, <1>4 DEF AheadInv

LEMMA PutsAhead ==
  ASSUME PathInv, AheadInv, NEW msg \in Requests, Puts(msg), msg.mod = "AUDIO_MANAGE",
         \A d \in Devices : msg \in SbcStarts(d) =>
           d \in streaming' /\ Stopped(mailbox, d, media_active[d]),
         \A d \in Devices : d \in streaming => d \in streaming' \/ msg \in SbcStops(d)
  PROVE  AheadInv'
<1>1. app_mailbox_put(msg) /\ UNCHANGED <<audio, manager, callback>>
  BY DEF Puts
<1>2. CallbackOK' /\ \A d \in Devices : Stopping(d)' <=> Stopping(d)
  BY <1>1 DEF AheadInv, CallbackOK, Stopping
<1> QED BY <1>1, <1>2, OuterPut

LEMMA DoesAhead ==
  ASSUME AheadInv, NEW steps, Does(steps), callback = <<>>, CallbackOK',
         \A d \in Devices : d \in streaming => d \in streaming' \/ Stopping(d)'
  PROVE  AheadInv'
<1>1. UNCHANGED <<mailbox, audio, manager>>
  BY DEF Does
<1>2. /\ UNCHANGED <<media_active, media_curr_sbc, curr_active_media>>
      /\ UNCHANGED <<audio_list, gStreamplayer, stop_proc, sample_rate>>
  BY <1>1 DEF manager, audio
<1>3. StreamAhead' /\ MediaAhead' /\ RateAhead' /\ ListPlayer' /\ EndAhead'
  BY <1>1, <1>2, AheadPrime
     DEF AheadInv, StreamAhead, MediaAhead, RateAhead, ListPlayer, EndAhead
<1>4. SbcInOrder'
  <2>1. \A d : ~Stopping(d)
    <3>1. 1..Len(callback) = {}
      OBVIOUS
    <3> QED BY <3>1 DEF Stopping
  <2>2. \A d \in Devices :
          /\ OrderOK(mailbox', d, media_active'[d])
          /\ d \in streaming' \/ Stopping(d)' \/ Stopped(mailbox', d, media_active'[d])
    BY <1>1, <1>2, <2>1 DEF AheadInv, SbcInOrder
  <2> QED BY <2>2, AheadPrime
<1> QED BY <1>3, <1>4 DEF AheadInv

LEMMA CallbackAhead ==
  ASSUME PathInv, AheadInv, CallbackStep
  PROVE  AheadInv'
<1> DEFINE step == Head(callback)
<1>1. /\ UNCHANGED <<halted, audio, manager, phone>> /\ callback' = Tail(callback)
      /\ CASE step.do = "put"    -> app_mailbox_put(step.msg) /\ UNCHANGED hfchan_call
           [] step.do = "active" -> hfchan_call' = hfchan_call \cup {step.msg.dev} /\ UNCHANGED mailbox
           [] step.do = "none"   -> hfchan_call' = hfchan_call \ {step.msg.dev} /\ UNCHANGED mailbox
  BY DEF CallbackStep
<1>2. /\ step \in Steps /\ step = callback[1] /\ Len(callback) \in Nat /\ Len(callback) >= 1
      /\ Len(callback') = Len(callback) - 1
      /\ \A i \in 1..(Len(callback) - 1) : callback'[i] = callback[i + 1]
  <2>1. callback \in Seq(Steps) /\ callback # <<>>
    BY DEF CallbackStep, PathInv, TypeOK
  <2> QED BY <1>1, <2>1, TailFacts
<1> HIDE DEF step
<1>3. /\ step.do = "put" => step.msg \in Requests
      /\ step.do \in {"put", "active", "none"}
  BY <1>2, StepLemma
<1>4. CallbackOK'
  <2>1. \A i \in 1..Len(callback') : i + 1 \in 1..Len(callback) /\ callback'[i] = callback[i + 1]
    BY <1>2
  <2> QED BY <2>1 DEF AheadInv, CallbackOK
<1>5. \A d \in Devices : Stopping(d) => \/ Stopping(d)'
                                        \/ step.do = "put" /\ step.msg \in SbcStops(d)
  <2> SUFFICES ASSUME NEW d \in Devices, Stopping(d)
               PROVE  Stopping(d)' \/ (step.do = "put" /\ step.msg \in SbcStops(d))
    OBVIOUS
  <2>1. PICK i \in 1..Len(callback) : callback[i].do = "put" /\ callback[i].msg \in SbcStops(d)
    BY DEF Stopping
  <2>2. CASE i = 1
    BY <1>2, <2>1, <2>2
  <2>3. CASE i > 1
    <3>1. i - 1 \in 1..Len(callback') /\ callback'[i - 1] = callback[i]
      BY <1>2, <2>3
    <3>2. \E j \in 1..Len(callback') : callback'[j].do = "put" /\ callback'[j].msg \in SbcStops(d)
      BY <2>1, <3>1
    <3> QED BY <3>2 DEF Stopping, SbcStops
  <2> QED BY <2>2, <2>3
<1>6. streaming' = streaming
  BY <1>1 DEF phone
<1>7. CASE step.do = "put"
  <2>1. /\ app_mailbox_put(step.msg) /\ step.msg.mod = "AUDIO_MANAGE"
        /\ \A d \in Devices : step.msg \notin SbcStarts(d)
    <3>1. 1 \in 1..Len(callback)
      BY <1>2
    <3> QED BY <1>1, <1>2, <1>7, <3>1 DEF AheadInv, CallbackOK
  <2>2. step.msg \in Requests /\ UNCHANGED <<audio, manager>>
    BY <1>1, <1>3, <1>7
  <2>3. \A d \in Devices : d \in streaming' \/ Stopping(d)' \/ step.msg \in SbcStops(d)
                           \/ (d \notin streaming /\ ~Stopping(d))
    BY <1>5, <1>6
  <2> QED BY <1>4, <2>1, <2>2, <2>3, OuterPut
<1>8. CASE step.do # "put"
  <2>1. mailbox' = mailbox
    BY <1>1, <1>3, <1>8
  <2>2. /\ UNCHANGED <<media_active, media_curr_sbc, curr_active_media>>
        /\ UNCHANGED <<audio_list, gStreamplayer, stop_proc, sample_rate>>
    BY <1>1 DEF manager, audio
  <2>3. StreamAhead' /\ MediaAhead' /\ RateAhead' /\ ListPlayer' /\ EndAhead'
    BY <2>1, <2>2, AheadPrime
       DEF AheadInv, StreamAhead, MediaAhead, RateAhead, ListPlayer, EndAhead
  <2>4. SbcInOrder'
    <3>1. \A d \in Devices :
            /\ OrderOK(mailbox', d, media_active'[d])
            /\ d \in streaming' \/ Stopping(d)' \/ Stopped(mailbox', d, media_active'[d])
      BY <1>5, <1>6, <1>8, <2>1, <2>2 DEF AheadInv, SbcInOrder
    <3> QED BY <3>1, AheadPrime
  <2> QED BY <1>4, <2>3, <2>4 DEF AheadInv
<1> QED BY <1>7, <1>8

LEMMA AudioThreadAhead ==
  ASSUME PathInv, AheadInv, AudioThread
  PROVE  AheadInv'
<1> DEFINE msg == Audio("CLOSE", "PLAY_BACK", BT_DEVICE_NUM, "none")
<1>1. /\ UNCHANGED <<manager, phone, callback>> /\ app_mailbox_put(msg)
      /\ UNCHANGED <<audio_list, gStreamplayer, sample_rate>>
  BY DEF AudioThread, PromptEnds
<1>2. msg \in Requests
  BY MessageLemma DEF Close, Players
<1>3. msg \in PromptCloses /\ msg.mod = "AUDIO"
  BY <1>2 DEF PromptCloses, ClosesOf, Asks, Audio
<1> HIDE DEF msg
<1>4. msg \notin Moves /\ \A d \in Devices : msg \notin SbcStarts(d)
  BY <1>3, MovesLemma
<1>5. StreamAhead' /\ MediaAhead' /\ RateAhead' /\ ListPlayer' /\ EndAhead'
  BY <1>1, <1>2, <1>3, <1>4, PutAhead
<1>6. CallbackOK' /\ media_active' = media_active /\ streaming' = streaming
      /\ \A d \in Devices : Stopping(d)' <=> Stopping(d)
  BY <1>1 DEF AheadInv, CallbackOK, Stopping, manager, phone
<1>7. SbcInOrder'
  <2>1. ASSUME NEW d \in Devices
        PROVE  /\ OrderOK(mailbox', d, media_active[d])
               /\ d \in streaming' \/ Stopping(d)' \/ Stopped(mailbox', d, media_active[d])
    <3>1. OrderOK(mailbox', d, media_active[d])
      BY <1>1, <1>2, <1>4, PutAhead
    <3>2. Stopped(mailbox, d, media_active[d]) => Stopped(mailbox', d, media_active[d])
      BY <1>1, <1>2, <1>4, PutAhead
    <3> QED BY <1>6, <3>1, <3>2 DEF AheadInv, SbcInOrder
  <2> QED BY <1>6, <2>1, AheadPrime
<1> QED BY <1>5, <1>6, <1>7 DEF AheadInv

LEMMA PhoneMessages ==
  /\ \A d \in Devices :
       /\ Manager("STOP", "SBC", d, "none") \in SbcStops(d)
       /\ \A e : /\ Manager("START", "SBC", d, "none") \in SbcStarts(e) => e = d
                 /\ Manager("STOP", "SBC", d, "none") \notin SbcStarts(e)
  /\ \A op, type, d, p, e : type # "SBC" => Manager(op, type, d, p) \notin SbcStarts(e)
  /\ \A op, type, d, p : Manager(op, type, d, p).mod = "AUDIO_MANAGE"
<1>1. \A d \in Devices : Manager("STOP", "SBC", d, "none") \in Requests
  BY MessageLemma DEF StreamTypes, Tones
<1>2. \A op, type, d, p : /\ Manager(op, type, d, p).mod = "AUDIO_MANAGE"
                          /\ Manager(op, type, d, p).op = op
                          /\ Manager(op, type, d, p).what = type
                          /\ Manager(op, type, d, p).dev = d
  BY DEF Manager
<1>3. \A d \in Devices : Manager("STOP", "SBC", d, "none") \in SbcStops(d)
  BY <1>1, <1>2 DEF SbcStops, Asks
<1> QED BY <1>2, <1>3 DEF SbcStarts, Asks

\* The steps that a callback of the Bluetooth thread leaves to be done.
LEMMA StepsAhead ==
  ASSUME NEW steps \in Seq(Steps), callback' = steps,
         \A i \in 1..Len(steps) : steps[i].do = "put" =>
           /\ steps[i].msg.mod = "AUDIO_MANAGE"
           /\ \A d \in Devices : steps[i].msg \notin SbcStarts(d)
  PROVE  CallbackOK'
BY DEF CallbackOK, SbcStarts

LEMMA EnvironmentAhead ==
  ASSUME PathInv, AheadInv, Environment
  PROVE  AheadInv'
<1>1. Music \subseteq Devices /\ Voice \subseteq Devices
  BY MailAssumption
<1>2. ASSUME NEW d \in Music, StreamStarted(d) PROVE AheadInv'
  <2> DEFINE msg == Manager("START", "SBC", d, "none")
  <2>1. msg \in Requests /\ msg.mod = "AUDIO_MANAGE" /\ \A e : msg \in SbcStarts(e) => e = d
    BY <1>1, MessageLemma, PhoneMessages DEF StreamTypes, Tones
  <2>2. /\ callback = <<>> /\ d \notin streaming /\ Puts(msg)
        /\ streaming' = streaming \cup {d}
    BY <1>2 DEF StreamStarted, BtEvent
  <2>3. ~Stopping(d)
    <3>1. 1..Len(callback) = {}
      BY <2>2
    <3> QED BY <3>1 DEF Stopping
  <2> HIDE DEF msg
  <2>4. Stopped(mailbox, d, media_active[d])
    BY <1>1, <2>2, <2>3 DEF AheadInv, SbcInOrder
  <2> QED BY <2>1, <2>2, <2>4, PutsAhead
<1>3. ASSUME NEW d \in Music, StreamSuspended(d) \/ SuspendForced(d) PROVE AheadInv'
  <2> DEFINE msg == Manager("STOP", "SBC", d, "none")
  <2>1. /\ msg \in Requests /\ msg.mod = "AUDIO_MANAGE" /\ msg \in SbcStops(d)
        /\ \A e : msg \notin SbcStarts(e)
    BY <1>1, MessageLemma, PhoneMessages DEF StreamTypes, Tones
  <2>2. Puts(msg) /\ streaming' \in {streaming, streaming \ {d}}
    BY <1>3 DEF StreamSuspended, SuspendForced
  <2> HIDE DEF msg
  <2>3. \A e \in Devices : e \in streaming => e \in streaming' \/ msg \in SbcStops(e)
    BY <2>1, <2>2
  <2> QED BY <2>1, <2>2, <2>3, PutsAhead
<1>4. ASSUME NEW d \in Music, StreamClosed(d) PROVE AheadInv'
  <2> DEFINE msg   == Manager("STOP", "SBC", d, "none")
             steps == <<Put(msg), Put(msg)>>
  <2>1. /\ msg \in Requests /\ msg.mod = "AUDIO_MANAGE" /\ msg \in SbcStops(d)
        /\ \A e : msg \notin SbcStarts(e)
    BY <1>1, MessageLemma, PhoneMessages DEF StreamTypes, Tones
  <2>2. callback = <<>> /\ Does(steps) /\ streaming' = streaming \ {d}
    BY <1>4 DEF StreamClosed, BtEvent
  <2> HIDE DEF msg
  <2>3. Put(msg) \in Steps /\ Put(msg).do = "put" /\ Put(msg).msg = msg
    BY <2>1, StepLemma DEF Put
  <2>4. /\ steps \in Seq(Steps) /\ Len(steps) = 2
        /\ \A i \in 1..2 : steps[i] = Put(msg)
    BY <2>3
  <2> HIDE DEF steps
  <2>5. callback' = steps
    BY <2>2 DEF Does
  <2>6. CallbackOK'
    BY <2>1, <2>3, <2>4, <2>5, StepsAhead
  <2>7. Stopping(d)'
    <3>1. \E i \in 1..Len(steps) : steps[i].do = "put" /\ steps[i].msg \in SbcStops(d)
      BY <2>1, <2>3, <2>4
    <3> QED BY <2>5, <3>1 DEF Stopping, SbcStops
  <2> QED BY <2>2, <2>6, <2>7, DoesAhead
<1>5. ASSUME NEW d \in Voice, AudioConnected(d) \/ AudioDisconnected(d)
                              \/ ServiceDisconnected(d) \/ CallRefused(d)
      PROVE  AheadInv'
  <2>1. d \in Devices
    BY <1>1
  <2>2. PICK msg \in {Manager("START", "VOICE", d, "none"), Manager("STOP", "VOICE", d, "none"),
                      StopPrompt(d)} : Puts(msg)
    BY <1>5 DEF AudioConnected, AudioDisconnected, ServiceDisconnected, CallRefused
  <2>3. streaming' = streaming
    BY <1>5 DEF AudioConnected, AudioDisconnected, ServiceDisconnected, CallRefused
  <2>4. msg \in Requests /\ msg.mod = "AUDIO_MANAGE" /\ \A e : msg \notin SbcStarts(e)
    BY <2>1, MessageLemma, PhoneMessages DEF StreamTypes, Tones, StopPrompt
  <2> QED BY <2>2, <2>3, <2>4, PutsAhead
<1>6. ASSUME NEW d \in Voice, CallActive(d) PROVE AheadInv'
  <2> DEFINE msg   == Manager("SWITCHTO_SCO", "VOICE", d, "none")
             steps == <<Put(msg), Put(Warning), Call(d, TRUE)>>
  <2>1. d \in Devices /\ 0 \in Devices
    BY <1>1 DEF Devices
  <2>2. /\ msg \in Requests /\ msg.mod = "AUDIO_MANAGE"
        /\ Warning \in Requests /\ Warning.mod = "AUDIO_MANAGE"
        /\ \A e : msg \notin SbcStarts(e) /\ Warning \notin SbcStarts(e)
    BY <2>1, MessageLemma, PhoneMessages DEF StreamTypes, Tones, Warning
  <2>3. callback = <<>> /\ Does(steps) /\ streaming' = streaming
    BY <1>6 DEF CallActive, BtEvent
  <2>4. /\ Put(msg) \in Steps /\ Put(msg).msg = msg
        /\ Put(Warning) \in Steps /\ Put(Warning).msg = Warning
        /\ Call(d, TRUE) \in Steps /\ Call(d, TRUE).do # "put"
    <3>1. Call(d, TRUE) \in Steps
      BY <2>1, StepLemma
    <3>2. Call(d, TRUE).do # "put"
      BY DEF Call
    <3>3. /\ Put(msg) \in Steps /\ Put(msg).msg = msg
          /\ Put(Warning) \in Steps /\ Put(Warning).msg = Warning
      <4> HIDE DEF msg
      <4> QED BY <2>2, StepLemma DEF Put
    <3> QED BY <3>1, <3>2, <3>3
  <2>5. /\ steps \in Seq(Steps) /\ Len(steps) = 3
        /\ steps[1] = Put(msg) /\ steps[2] = Put(Warning) /\ steps[3] = Call(d, TRUE)
    <3>1. \A r, s, t \in Steps :
            /\ <<r, s, t>> \in Seq(Steps) /\ Len(<<r, s, t>>) = 3
            /\ <<r, s, t>>[1] = r /\ <<r, s, t>>[2] = s /\ <<r, s, t>>[3] = t
      OBVIOUS
    <3> QED BY <2>4, <3>1
  <2> HIDE DEF steps, msg
  <2>6. CallbackOK'
    <3>1. callback' = steps
      BY <2>3 DEF Does
    <3>2. \A i \in 1..3 : i = 1 \/ i = 2 \/ i = 3
      OBVIOUS
    <3> QED BY <2>2, <2>4, <2>5, <3>1, <3>2, StepsAhead
  <2> QED BY <2>3, <2>6, DoesAhead
<1>7. ASSUME NEW d \in Voice, CallNone(d) PROVE AheadInv'
  <2> DEFINE msg   == StopPrompt(d)
             steps == <<Put(msg), Call(d, FALSE)>>
  <2>1. d \in Devices
    BY <1>1
  <2>2. /\ msg \in Requests /\ msg.mod = "AUDIO_MANAGE" /\ \A e : msg \notin SbcStarts(e)
    BY <2>1, MessageLemma, PhoneMessages DEF StopPrompt
  <2>3. callback = <<>> /\ Does(steps) /\ streaming' = streaming
    BY <1>7 DEF CallNone, BtEvent
  <2>4. /\ Put(msg) \in Steps /\ Put(msg).msg = msg
        /\ Call(d, FALSE) \in Steps /\ Call(d, FALSE).do # "put"
    <3>1. Call(d, FALSE) \in Steps
      BY <2>1, StepLemma
    <3>2. Call(d, FALSE).do # "put"
      BY DEF Call
    <3>3. Put(msg) \in Steps /\ Put(msg).msg = msg
      <4> HIDE DEF msg
      <4> QED BY <2>2, StepLemma DEF Put
    <3> QED BY <3>1, <3>2, <3>3
  <2>5. /\ steps \in Seq(Steps) /\ Len(steps) = 2
        /\ steps[1] = Put(msg) /\ steps[2] = Call(d, FALSE)
    <3>1. \A r, s \in Steps : /\ <<r, s>> \in Seq(Steps) /\ Len(<<r, s>>) = 2
                              /\ <<r, s>>[1] = r /\ <<r, s>>[2] = s
      OBVIOUS
    <3> QED BY <2>4, <3>1
  <2> HIDE DEF steps, msg
  <2>6. CallbackOK'
    <3>1. callback' = steps
      BY <2>3 DEF Does
    <3>2. \A i \in 1..2 : i = 1 \/ i = 2
      OBVIOUS
    <3> QED BY <2>2, <2>4, <2>5, <3>1, <3>2, StepsAhead
  <2> QED BY <2>3, <2>6, DoesAhead
<1>8. ASSUME NEW d \in Music \cup Voice, NEW p \in Prompts, media_PlayAudio(p, d) PROVE AheadInv'
  <2> DEFINE msg == Manager("START", "MEDIA", d, p)
  <2>1. msg \in Requests /\ msg.mod = "AUDIO_MANAGE" /\ \A e : msg \notin SbcStarts(e)
    BY <1>1, MessageLemma, PhoneMessages DEF StreamTypes, Tones
  <2>2. Puts(msg) /\ streaming' = streaming
    BY <1>8 DEF media_PlayAudio
  <2> HIDE DEF msg
  <2> QED BY <2>1, <2>2, PutsAhead
<1> QED BY <1>2, <1>3, <1>4, <1>5, <1>6, <1>7, <1>8 DEF Environment
----------------------------------------------------------------------------
(* The handlers of the audio module.                                         *)

EndOfMedia == Manager("STOP", "MEDIA", 0, "none")

LEMMA EndOfMediaLemma ==
  /\ EndOfMedia \in Requests /\ <<EndOfMedia>> \in Seq(Requests) /\ <<>> \in Seq(Requests)
  /\ EndOfMedia \in MediaStops /\ EndOfMedia \notin Moves
  /\ \A d \in Devices : EndOfMedia \notin SbcStarts(d)
<1>1. EndOfMedia \in Requests /\ <<EndOfMedia>> \in Seq(Requests) /\ <<>> \in Seq(Requests)
  BY MessageLemma DEF EndOfMedia, StreamTypes, Devices, Tones
<1>2. EndOfMedia \in MediaStops
  BY <1>1 DEF EndOfMedia, Manager, MediaStops, Asks
<1> QED BY <1>1, <1>2, MovesLemma, PhoneMessages DEF EndOfMedia

\* A message of the audio module that is next is of one kind only.
LEMMA KindLemma ==
  ASSUME PathInv, NEW op, NEW what, Next_is("AUDIO", op, what)
  PROVE  /\ mailbox # <<>> /\ Head(mailbox).mod = "AUDIO"
         /\ \A s : Head(mailbox) \in OpensOf(s) <=> op = "OPEN" /\ what = s
         /\ \A s : Head(mailbox) \in ClosesOf(s) <=> op = "CLOSE" /\ what = s
         /\ Head(mailbox) \in StreamOpens <=> op = "OPEN" /\ what \in Streams
         /\ Head(mailbox) \in Disturbs <=>
              (op = "OPEN" /\ what \in Players) \/ (op = "CLOSE" /\ what \in Streams)
         /\ Head(mailbox) \in Setups <=> op = "SETUP" /\ what \in Players
<1>1. Head(mailbox) \in Requests
  BY HeadLemma, PartsLemma
<1> QED BY <1>1 DEF Next_is, OpensOf, ClosesOf, StreamOpens, Disturbs, Setups, Asks

\* What a handler of the audio module does to the player and the list, as far
\* as the statements on the messages behind its own are concerned.
Follows(h, puts) ==
  /\ \A s \in Streams : h \in OpensOf(s) => gStreamplayer' = s /\ audio_list' = Alone(s)
  /\ h \notin Disturbs /\ gStreamplayer \in Streams =>
       /\ gStreamplayer' = gStreamplayer
       /\ audio_list = Alone(gStreamplayer) => audio_list' = audio_list
  /\ \A s \in Streams : h \in ClosesOf(s) /\ gStreamplayer = s =>
       Free(gStreamplayer', audio_list')
  /\ Free(gStreamplayer, audio_list) /\ h \notin StreamOpens =>
       Free(gStreamplayer', audio_list')
  /\ Listens(audio_list) /\ h \notin StreamOpens => Listens(audio_list') \/ puts # <<>>
  /\ h \in PromptOpens => Listens(audio_list')
  /\ IF h \in Setups THEN sample_rate' = h.dev ELSE sample_rate' = sample_rate
  /\ Listens(audio_list') => gStreamplayer' = "PLAY_BACK"
  /\ ~Listens(audio_list') /\ audio_list' # <<>> => gStreamplayer' = audio_list'[1].id
  /\ gStreamplayer' = "PLAY_BACK" /\ (stop_proc' \/ audio_list' = <<>>) =>
       /\ gStreamplayer = "PLAY_BACK" /\ (stop_proc \/ audio_list = <<>>)
       /\ h \notin PromptCloses

LEMMA AudioAhead ==
  ASSUME PathInv, AheadInv, UNCHANGED <<manager, hfchan_call, phone, callback>>,
         mailbox # <<>>, Head(mailbox).mod = "AUDIO",
         NEW puts \in {<<>>, <<EndOfMedia>>}, Handled(puts), Follows(Head(mailbox), puts)
  PROVE  AheadInv'
<1> DEFINE t == Tail(mailbox)
           h == Head(mailbox)
<1>1. mailbox \in Seq(Requests) /\ t \in Seq(Requests) /\ puts \in Seq(Requests)
  BY EndOfMediaLemma, TailFacts DEF PathInv, TypeOK
<1>2. /\ UNCHANGED <<media_active, media_curr_sbc, curr_active_media, streaming, callback>>
      /\ mailbox' = t \o puts
  BY DEF manager, phone, Handled
<1>3. Never(puts, Len(puts), Moves) /\ \A d \in Devices : Never(puts, Len(puts), SbcStarts(d))
  BY SingleLemma, EndOfMediaLemma
<1>4. /\ Never(puts, Len(puts), Disturbs) /\ Never(puts, Len(puts), StreamOpens)
      /\ Never(puts, Len(puts), Setups)
  BY <1>3, NeverMoves
<1>5. puts # <<>> => Some(puts, MediaStops)
  BY SingleLemma, EndOfMediaLemma
<1>6. h \notin MediaStops /\ \A d \in Devices : h \notin SbcStarts(d) /\ h \notin SbcStops(d)
  BY MovesLemma
<1>7. StreamAhead'
  <2>1. StreamOK(t, curr_active_media, gStreamplayer', audio_list')
    BY <1>1, StreamTaken DEF Follows, AheadInv, StreamAhead
  <2>2. StreamOrder(curr_active_media, curr_active_media, puts)
    BY <1>4 DEF StreamOrder
  <2> HIDE DEF t
  <2>3. StreamOK(t \o puts, curr_active_media, gStreamplayer', audio_list')
    BY <1>1, <2>1, <2>2, StreamPut
  <2> QED BY <1>2, <2>3, AheadPrime
<1>8. MediaAhead'
  <2>1. SUFFICES ASSUME On(media_active, "MEDIA") PROVE MediaOK(t \o puts, audio_list')
    BY <1>2, AheadPrime
  <2>2. MediaOK(mailbox, audio_list)
    BY <2>1 DEF AheadInv, MediaAhead
  <2>3. CASE puts # <<>>
    <3> HIDE DEF t
    <3> QED BY <1>1, <1>5, <2>3, MediaPut
  <2>4. CASE puts = <<>>
    <3>1. MediaOK(t, audio_list')
      BY <1>1, <1>6, <2>2, <2>4, MediaTaken DEF Follows
    <3> HIDE DEF t
    <3> QED BY <1>1, <1>4, <3>1, MediaPut
  <2> QED BY <2>3, <2>4
<1>9. RateAhead'
  <2>1. SUFFICES ASSUME curr_active_media = "SBC"
                 PROVE  RateOK(t \o puts, sample_rate', media_curr_sbc)
    BY <1>2, AheadPrime
  <2>2. RateOK(t, sample_rate', media_curr_sbc)
    BY <1>1, <2>1, RateTaken DEF Follows, AheadInv, RateAhead
  <2> HIDE DEF t
  <2> QED BY <1>1, <1>4, <2>2, RatePut
<1>10. ListPlayer'
  BY AheadPrime DEF Follows
<1>11. EndAhead'
  <2>1. SUFFICES ASSUME gStreamplayer' = "PLAY_BACK", stop_proc' \/ audio_list' = <<>>
                 PROVE  Some(t \o puts, PromptCloses)
    BY <1>2, AheadPrime
  <2>2. Some(mailbox, PromptCloses) /\ h \notin PromptCloses
    BY <2>1 DEF Follows, AheadInv, EndAhead
  <2>3. Len(mailbox) \in 1..Len(mailbox)
    BY <1>1, TailFacts
  <2>4. Some(t, PromptCloses)
    BY <1>1, <2>2, <2>3, TailLemma
  <2> HIDE DEF t
  <2> QED BY <1>1, <2>4, ConcatLemma
<1>12. SbcInOrder'
  <2>1. ASSUME NEW d \in Devices
        PROVE  /\ OrderOK(t \o puts, d, media_active[d])
               /\ d \in streaming' \/ Stopping(d)' \/ Stopped(t \o puts, d, media_active[d])
    <3>1. /\ OrderOK(mailbox, d, media_active[d])
          /\ d \in streaming' \/ Stopping(d)' \/ Stopped(mailbox, d, media_active[d])
      BY <1>2 DEF AheadInv, SbcInOrder, Stopping
    <3>2. /\ OrderOK(t, d, media_active[d])
          /\ Stopped(mailbox, d, media_active[d]) => Stopped(t, d, media_active[d])
      BY <1>1, <1>6, <3>1, OrderTaken
    <3> HIDE DEF t
    <3>3. /\ OrderOK(t \o puts, d, media_active[d])
          /\ Stopped(t, d, media_active[d]) => Stopped(t \o puts, d, media_active[d])
      BY <1>1, <1>3, <3>2, OrderPut
    <3> QED BY <3>1, <3>2, <3>3
  <2> HIDE DEF t
  <2> QED BY <1>2, <2>1, AheadPrime
<1>13. CallbackOK'
  BY <1>2 DEF AheadInv, CallbackOK
<1> QED BY <1>7, <1>8, <1>9, <1>10, <1>11, <1>12, <1>13 DEF AheadInv

LEMMA ListFacts ==
  ASSUME ListOK(audio_list)
  PROVE  /\ Len(audio_list) \in Nat /\ DOMAIN audio_list = 1..Len(audio_list)
         /\ audio_list # <<>> <=> Len(audio_list) >= 1
         /\ audio_list # <<>> => Head(audio_list) = audio_list[1]
         /\ Listens(audio_list) <=> Playbacks # {}
         /\ Len(audio_list) >= 2 => Listens(audio_list)
         /\ app_audio_list_stream_exist <=>
              audio_list # <<>> /\ audio_list[1].id # "PLAY_BACK"
<1>1. /\ Len(audio_list) \in Nat /\ DOMAIN audio_list = 1..Len(audio_list)
      /\ audio_list # <<>> <=> Len(audio_list) >= 1
      /\ audio_list # <<>> => Head(audio_list) = audio_list[1]
      /\ \A k \in 1..Len(audio_list) : k > 1 => audio_list[k].id = "PLAY_BACK"
  BY DEF ListOK
<1>2. Listens(audio_list) <=> Playbacks # {}
  BY DEF Listens, Playbacks
<1>3. Len(audio_list) >= 2 => 2 \in 1..Len(audio_list)
  BY <1>1
<1>4. \A k \in 1..Len(audio_list) : k = 1 \/ k > 1
  BY <1>1
<1>5. app_audio_list_stream_exist <=> audio_list # <<>> /\ audio_list[1].id # "PLAY_BACK"
  <2>1. Len(audio_list) >= 1 => 1 \in 1..Len(audio_list)
    BY <1>1
  <2> QED BY <1>1, <1>4, <2>1 DEF app_audio_list_stream_exist
<1> QED BY <1>1, <1>2, <1>3, <1>5 DEF Listens

\* The list without its front, with a prompt behind it, and without one entry.
LEMMA ListAfter ==
  ASSUME ListOK(audio_list), NEW p
  PROVE  /\ audio_list # <<>> =>
              /\ Listens(audio_list) /\ audio_list[1].id # "PLAY_BACK" => Listens(Tail(audio_list))
              /\ \A k \in DOMAIN Tail(audio_list) : Tail(audio_list)[k].id = "PLAY_BACK"
              /\ Tail(audio_list) = <<>> => Len(audio_list) = 1
         /\ LET t == Append(audio_list, Entry("PLAY_BACK", p)) IN
              /\ Listens(t) /\ t # <<>>
              /\ \A k \in DOMAIN t : \/ k \in DOMAIN audio_list /\ t[k] = audio_list[k]
                                     \/ t[k].id = "PLAY_BACK"
<1> DEFINE n == Len(audio_list)
           e == Entry("PLAY_BACK", p)
           t == Append(audio_list, e)
           u == Tail(audio_list)
<1>1. /\ n \in Nat /\ DOMAIN audio_list = 1..n
      /\ audio_list # <<>> <=> n >= 1
      /\ \A k \in 1..n : k > 1 => audio_list[k].id = "PLAY_BACK"
  BY ListFacts DEF ListOK
<1>2. /\ audio_list # <<>> => /\ DOMAIN u = 1..(n - 1)
                              /\ \A k \in 1..(n - 1) : u[k] = audio_list[k + 1]
                              /\ u = <<>> => n = 1
      /\ DOMAIN t = 1..(n + 1) /\ t # <<>> /\ t[n + 1] = e
      /\ \A k \in 1..n : t[k] = audio_list[k]
  <2>1. audio_list \in Seq(Listed \cup {e})
    <3>1. audio_list \in Seq(Listed)
      BY DEF ListOK
    <3> HIDE DEF e, Listed
    <3> QED BY <3>1
  <2>2. /\ audio_list # <<>> => /\ DOMAIN u = 1..(n - 1)
                                /\ \A k \in 1..(n - 1) : u[k] = audio_list[k + 1]
                                /\ u = <<>> => n = 1
    <3> HIDE DEF e, Listed
    <3>1. ASSUME audio_list # <<>>
          PROVE  /\ u \in Seq(Listed \cup {e}) /\ Len(u) = n - 1 /\ n \in Nat
                 /\ \A k \in 1..(n - 1) : u[k] = audio_list[k + 1]
      BY <2>1, <3>1, TailFacts
    <3>2. \A q : q = <<>> => Len(q) = 0
      OBVIOUS
    <3>3. u \in Seq(Listed \cup {e}) => DOMAIN u = 1..Len(u)
      OBVIOUS
    <3> HIDE DEF u, n
    <3>4. u = <<>> => Len(u) = 0
      BY <3>2
    <3>5. audio_list # <<>> => (u = <<>> => n = 1)
      BY <3>1, <3>4
    <3>6. audio_list # <<>> => DOMAIN u = 1..(n - 1)
      BY <3>1, <3>3
    <3> QED BY <3>1, <3>5, <3>6
  <2>3. /\ DOMAIN t = 1..(n + 1) /\ t # <<>> /\ t[n + 1] = e
        /\ \A k \in 1..n : t[k] = audio_list[k]
    <3> DEFINE S == Listed \cup {e}
    <3>1. e \in S
      OBVIOUS
    <3> HIDE DEF e, Listed, S
    <3> QED BY <2>1, <3>1 DEF S
  <2> QED BY <2>2, <2>3
<1>3. e.id = "PLAY_BACK"
  BY DEF Entry
<1> HIDE DEF n, e, t, u
<1>4. ASSUME audio_list # <<>>
      PROVE  /\ Listens(audio_list) /\ audio_list[1].id # "PLAY_BACK" => Listens(u)
             /\ \A k \in DOMAIN u : u[k].id = "PLAY_BACK"
  <2>1. \A k \in 1..(n - 1) : k + 1 \in 1..n /\ k + 1 > 1
    BY <1>1
  <2>2. \A k \in DOMAIN u : u[k].id = "PLAY_BACK"
    BY <1>1, <1>2, <1>4, <2>1
  <2>3. ASSUME Listens(audio_list), audio_list[1].id # "PLAY_BACK" PROVE Listens(u)
    <3>1. PICK k \in 1..n : audio_list[k].id = "PLAY_BACK"
      BY <1>1, <2>3 DEF Listens
    <3>2. k # 1 /\ k - 1 \in 1..(n - 1)
      BY <1>1, <2>3, <3>1
    <3> QED BY <1>2, <1>4, <2>2, <3>2 DEF Listens
  <2> QED BY <2>2, <2>3
<1>5. /\ Listens(t)
      /\ \A k \in DOMAIN t : \/ k \in DOMAIN audio_list /\ t[k] = audio_list[k]
                             \/ t[k].id = "PLAY_BACK"
  <2>1. n + 1 \in 1..(n + 1) /\ \A k \in 1..(n + 1) : k \in 1..n \/ k = n + 1
    BY <1>1
  <2> QED BY <1>1, <1>2, <1>3, <2>1 DEF Listens
<1> QED BY <1>2, <1>4, <1>5 DEF n, e, t, u

LEMMA StreamAudioAhead ==
  ASSUME PathInv, AheadInv, NEW id \in Players, OpenStream(id) \/ CloseStream(id)
  PROVE  Handled(<<>>) /\ Follows(Head(mailbox), <<>>)
<1> DEFINE h == Head(mailbox)
<1>1. ListOK(audio_list) /\ ListPlayer /\ id \in Streams
  BY PartsLemma, AudioParts DEF AheadInv, OpenStream, CloseStream, Players, Streams
<1>2. CASE OpenStream(id)
  <2>1. /\ Handled(<<>>) /\ gStreamplayer' = id /\ audio_list' = Alone(id)
        /\ sample_rate' = sample_rate
    BY <1>2 DEF OpenStream, Alone, app_bt_stream_open
  <2>2. /\ \A s : h \in OpensOf(s) <=> s = id
        /\ \A s : h \notin ClosesOf(s)
        /\ h \in StreamOpens /\ h \in Disturbs /\ h \notin Setups
    BY <1>1, <1>2, KindLemma DEF OpenStream
  <2>3. /\ DOMAIN Alone(id) = {1} /\ Alone(id)[1].id = id
        /\ id # "PLAY_BACK"
    BY <1>1 DEF Alone, Entry, Streams
  <2>4. ~Listens(audio_list') /\ audio_list'[1].id = id
    BY <2>1, <2>3 DEF Listens
  <2> HIDE DEF h
  <2>5. h \notin PromptOpens /\ h \notin PromptCloses
    BY <2>2, <2>3 DEF PromptOpens, PromptCloses
  <2> QED BY <2>1, <2>2, <2>3, <2>4, <2>5 DEF Follows, h
<1>3. CASE CloseStream(id)
  <2>1. /\ Handled(<<>>) /\ UNCHANGED <<stop_proc, sample_rate>>
        /\ gStreamplayer' = IF gStreamplayer = id THEN "NUM" ELSE gStreamplayer
        /\ audio_list' = IF app_audio_list_stream_exist THEN Tail(audio_list) ELSE audio_list
    BY <1>3 DEF CloseStream, app_bt_stream_close
  <2>2. /\ \A s : h \in ClosesOf(s) <=> s = id
        /\ \A s : h \notin OpensOf(s)
        /\ h \notin StreamOpens /\ h \in Disturbs /\ h \notin Setups
    BY <1>1, <1>3, KindLemma DEF CloseStream
  <2> HIDE DEF h
  <2>3. h \notin PromptOpens /\ h \notin PromptCloses /\ id # "PLAY_BACK"
    BY <1>1, <2>2 DEF PromptOpens, PromptCloses, Streams
  <2>4. \A k \in DOMAIN audio_list' : audio_list'[k].id = "PLAY_BACK"
    BY <1>1, <2>1, ListFacts, ListAfter DEF app_audio_list_stream_exist
  <2>5. Listens(audio_list) => Listens(audio_list')
    BY <1>1, <2>1, ListFacts, ListAfter
  <2>6. Listens(audio_list') => Listens(audio_list)
    <3>1. CASE app_audio_list_stream_exist
      <4>1. SUFFICES ASSUME ~Listens(audio_list), Listens(audio_list') PROVE FALSE
        OBVIOUS
      <4>2. Len(audio_list) = 1 /\ audio_list \in Seq(Listed)
        BY <1>1, <3>1, <4>1, ListFacts DEF ListOK
      <4>3. DOMAIN Tail(audio_list) = {}
        <5> HIDE DEF Listed
        <5> QED BY <4>2
      <4> QED BY <2>1, <3>1, <4>1, <4>3 DEF Listens
    <3> QED BY <2>1, <3>1
  <2>7. Free(gStreamplayer, audio_list)
          => audio_list' = audio_list /\ gStreamplayer' = gStreamplayer
    BY <1>1, <2>1 DEF Free, app_audio_list_stream_exist
  <2>8. audio_list' # <<>> => Listens(audio_list')
    <3>1. CASE app_audio_list_stream_exist
      <4>1. SUFFICES ASSUME audio_list' # <<>> PROVE Listens(audio_list')
        OBVIOUS
      <4>2. /\ audio_list \in Seq(Listed) /\ Len(audio_list) \in Nat /\ Len(audio_list) >= 1
            /\ audio_list' = Tail(audio_list)
        BY <1>1, <2>1, <3>1, ListFacts DEF ListOK
      <4>3. 1 \in DOMAIN Tail(audio_list)
        <5> HIDE DEF Listed
        <5> QED BY <4>1, <4>2
      <4> QED BY <2>4, <4>2, <4>3 DEF Listens
    <3>2. CASE ~app_audio_list_stream_exist
      <4>1. audio_list' # <<>> => 1 \in DOMAIN audio_list'
        BY <1>1, <2>1, <3>2, ListFacts
      <4> QED BY <2>4, <4>1 DEF Listens
    <3> QED BY <3>1, <3>2
  <2>9. Listens(audio_list') => gStreamplayer' = "PLAY_BACK"
    BY <1>1, <2>1, <2>3, <2>6 DEF ListPlayer
  <2>10. gStreamplayer' = "PLAY_BACK" /\ audio_list' = <<>> =>
           gStreamplayer = "PLAY_BACK" /\ audio_list = <<>>
    <3>1. ~Listens(<<>>)
      BY DEF Listens
    <3> QED BY <1>1, <2>1, <2>5, <3>1, ListFacts DEF ListPlayer
  <2>11. gStreamplayer' = "PLAY_BACK" => gStreamplayer = "PLAY_BACK"
    BY <2>1
  <2>12. \A s \in Streams : h \in ClosesOf(s) /\ gStreamplayer = s =>
           Free(gStreamplayer', audio_list')
    BY <2>1, <2>2, <2>4 DEF Free, Streams
  <2> QED BY <2>1, <2>2, <2>3, <2>5, <2>7, <2>8, <2>9, <2>10, <2>11, <2>12 DEF Follows, h
<1> QED BY <1>2, <1>3

LEMMA OpenPromptAhead ==
  ASSUME PathInv, AheadInv, PromptFiltered \/ PromptQueued \/ PromptPlayed
  PROVE  Handled(<<>>) /\ Follows(Head(mailbox), <<>>)
<1> DEFINE h == Head(mailbox)
<1>1. ListOK(audio_list) /\ ListPlayer
  BY PartsLemma, AudioParts DEF AheadInv
<1>2. Next_is("AUDIO", "OPEN", "PLAY_BACK")
  BY DEF PromptFiltered, PromptQueued, PromptPlayed, OpenPrompt
<1>3. /\ \A s : h \notin ClosesOf(s)
      /\ \A s \in Streams : h \notin OpensOf(s)
      /\ h \notin StreamOpens /\ h \in Disturbs /\ h \notin Setups
  BY <1>2, KindLemma DEF Players, Streams
<1>4. h \notin PromptCloses
  BY <1>3 DEF PromptCloses
<1>5. Listens(audio_list) <=> Playbacks # {}
  BY <1>1, ListFacts
<1> HIDE DEF h
<1>6. CASE PromptFiltered
  <2>1. Handled(<<>>) /\ UNCHANGED <<audio_list, gStreamplayer, stop_proc, sample_rate>>
    BY <1>6 DEF PromptFiltered, audio
  <2>2. Playbacks # {}
    <3>1. Cardinality({}) = 0 /\ MAX_WARNINGS \in Nat
      BY FS_EmptySet, ListAssumption
    <3> DEFINE q == Queued(NewPrompt)
    <3>2. q # {} \/ Cardinality(q) > MAX_WARNINGS
      BY <1>6 DEF PromptFiltered, Filtered
    <3>3. q # {}
      <4> HIDE DEF q
      <4>1. q = {} => Cardinality(q) = 0
        BY <3>1
      <4> QED BY <3>1, <3>2, <4>1
    <3> QED BY <3>3 DEF Queued
  <2> QED BY <1>1, <1>3, <1>4, <1>5, <2>1, <2>2 DEF Follows, h, ListPlayer
<1>7. ASSUME PromptQueued \/ PromptPlayed
      PROVE  /\ Handled(<<>>) /\ sample_rate' = sample_rate
             /\ Listens(audio_list') /\ audio_list' # <<>>
             /\ Free(gStreamplayer, audio_list) =>
                  \A k \in DOMAIN audio_list' : audio_list'[k].id = "PLAY_BACK"
  <2>1. /\ Handled(<<>>) /\ sample_rate' = sample_rate
        /\ audio_list' = Append(audio_list, Entry("PLAY_BACK", NewPrompt))
    BY <1>7 DEF PromptQueued, PromptPlayed
  <2> QED BY <1>1, <2>1, ListAfter DEF Free
<1>8. CASE PromptQueued
  <2>1. UNCHANGED <<gStreamplayer, stop_proc>> /\ Playbacks # {}
    BY <1>8 DEF PromptQueued
  <2>2. gStreamplayer = "PLAY_BACK"
    BY <1>1, <1>5, <2>1 DEF ListPlayer
  <2>3. Free(gStreamplayer, audio_list) => Free(gStreamplayer', audio_list')
    BY <1>7, <1>8, <2>1 DEF Free
  <2> QED BY <1>3, <1>4, <1>7, <1>8, <2>1, <2>2, <2>3 DEF Follows, h
<1>9. CASE PromptPlayed
  <2>1. gStreamplayer' = "PLAY_BACK" /\ stop_proc' = FALSE
    BY <1>9 DEF PromptPlayed, app_bt_stream_open
  <2>2. Free(gStreamplayer, audio_list) => Free(gStreamplayer', audio_list')
    BY <1>7, <1>9, <2>1 DEF Free, Streams
  <2> QED BY <1>3, <1>4, <1>7, <1>9, <2>1, <2>2 DEF Follows, h
<1> QED BY <1>6, <1>8, <1>9

\* The list without its k-th entry, when a prompt follows or nothing does.
LEMMA ListWithout ==
  ASSUME ListOK(audio_list), NEW k \in DOMAIN audio_list
  PROVE  LET t == Without(audio_list, k) IN
         /\ \A j \in DOMAIN t : \E i \in DOMAIN audio_list : t[j] = audio_list[i]
         /\ DOMAIN t = 1..(Len(audio_list) - 1)
         /\ k < Len(audio_list) => t[k] = audio_list[k + 1]
         /\ k > 1 => t[1] = audio_list[1]
         /\ t = <<>> <=> Len(audio_list) = 1
<1> DEFINE n == Len(audio_list)
           t == Without(audio_list, k)
<1>1. n \in Nat /\ n >= 1 /\ DOMAIN audio_list = 1..n /\ k \in 1..n
  BY ListFacts
<1>2. /\ DOMAIN t = 1..(n - 1)
      /\ \A j \in 1..(n - 1) : t[j] = IF j < k THEN audio_list[j] ELSE audio_list[j + 1]
  BY DEF Without
<1> HIDE DEF n, t
<1>3. \A j \in 1..(n - 1) : j \in 1..n /\ j + 1 \in 1..n
  BY <1>1
<1>4. k < n => k \in 1..(n - 1)
  BY <1>1
<1>5. k > 1 => 1 \in 1..(n - 1)
  BY <1>1
<1>6. t = <<>> <=> n = 1
  <2>1. t = <<>> => DOMAIN t = {}
    OBVIOUS
  <2>2. 1..(n - 1) = {} <=> n = 1
    BY <1>1
  <2>3. n = 1 => t = <<>>
    <3>1. \A S : (S = {}) => [j \in S |-> t[j]] = <<>>
      OBVIOUS
    <3>2. t = [j \in DOMAIN t |-> t[j]]
      BY DEF t, Without
    <3> QED BY <1>2, <2>2, <3>1, <3>2
  <2> QED BY <1>2, <2>1, <2>2, <2>3
<1>7. \A j \in DOMAIN t : \E i \in DOMAIN audio_list : t[j] = audio_list[i]
  BY <1>1, <1>2, <1>3
<1>8. k < n => t[k] = audio_list[k + 1]
  BY <1>1, <1>2, <1>4
<1>9. k > 1 => t[1] = audio_list[1]
  BY <1>1, <1>2, <1>5
<1> QED BY <1>2, <1>6, <1>7, <1>8, <1>9 DEF n, t

LEMMA ClosePromptAhead ==
  ASSUME PathInv, AheadInv, CloseUnlisted \/ CloseNext \/ CloseLast
  PROVE  \E puts \in {<<>>, <<EndOfMedia>>} : Handled(puts) /\ Follows(Head(mailbox), puts)
<1> DEFINE h == Head(mailbox)
<1>1. ListOK(audio_list) /\ ListPlayer
  BY PartsLemma, AudioParts DEF AheadInv
<1>2. Next_is("AUDIO", "CLOSE", "PLAY_BACK")
  BY DEF CloseUnlisted, CloseNext, CloseLast, ClosePrompt
<1>3. /\ \A s : h \notin OpensOf(s)
      /\ \A s \in Streams : h \notin ClosesOf(s)
      /\ h \notin StreamOpens /\ h \notin Disturbs /\ h \notin Setups
  BY <1>2, KindLemma DEF Streams
<1>4. h \notin PromptOpens /\ "PLAY_BACK" \notin Streams
  BY <1>3 DEF PromptOpens, Streams
<1>5. /\ Len(audio_list) \in Nat /\ DOMAIN audio_list = 1..Len(audio_list)
      /\ audio_list # <<>> <=> Len(audio_list) >= 1
      /\ audio_list # <<>> => Head(audio_list) = audio_list[1]
      /\ Listens(audio_list) <=> Playbacks # {}
      /\ Len(audio_list) >= 2 => Listens(audio_list)
      /\ app_audio_list_stream_exist <=> audio_list # <<>> /\ audio_list[1].id # "PLAY_BACK"
  BY <1>1, ListFacts
<1> HIDE DEF h
<1>6. CASE CloseUnlisted
  <2>1. /\ Handled(<<>>) /\ UNCHANGED <<audio_list, stop_proc, sample_rate>>
        /\ gStreamplayer' = IF gStreamplayer = "PLAY_BACK" THEN "NUM" ELSE gStreamplayer
        /\ Playbacks = {}
    BY <1>6 DEF CloseUnlisted, app_bt_stream_close
  <2>2. audio_list # <<>> => /\ gStreamplayer = audio_list[1].id
                             /\ audio_list[1].id # "PLAY_BACK"
    BY <1>1, <1>5, <2>1 DEF ListPlayer, Listens
  <2>3. ~Listens(audio_list) /\ audio_list' = audio_list
    BY <1>5, <2>1
  <2>4. Follows(h, <<>>)
    BY <1>3, <1>4, <2>1, <2>2, <2>3 DEF Follows, Free, Streams
  <2> QED BY <2>1, <2>4 DEF h
<1>7. CASE CloseNext
  <2> DEFINE k == Min(Playbacks)
  <2>1. /\ k \in DOMAIN audio_list /\ k < Len(audio_list) /\ Playbacks # {}
        /\ gStreamplayer = "PLAY_BACK"
    BY <1>1, <1>5, <1>7, FirstPromptLemma DEF CloseNext, ListPlayer
  <2>2. audio_list[k + 1].id = "PLAY_BACK"
    <3> HIDE DEF k
    <3> QED BY <1>1, <1>5, <2>1 DEF ListOK
  <2>3. /\ audio_list' = Without(audio_list, k) /\ app_bt_stream_open("PLAY_BACK")
        /\ Handled(Told) /\ sample_rate' = sample_rate
    BY <1>7, <2>2 DEF CloseNext
  <2> HIDE DEF k
  <2>4. gStreamplayer' = "PLAY_BACK" /\ stop_proc' = FALSE
    BY <2>3 DEF app_bt_stream_open
  <2>5. Listens(audio_list') /\ audio_list' # <<>>
    <3>1. k \in 1..(Len(audio_list) - 1) /\ Len(audio_list) # 1
      BY <1>5, <2>1
    <3> QED BY <1>1, <2>1, <2>2, <2>3, <3>1, ListWithout DEF Listens
  <2>6. Free(gStreamplayer, audio_list) => Free(gStreamplayer', audio_list')
    BY <1>1, <1>4, <2>1, <2>3, <2>4, ListWithout DEF Free
  <2>7. Told \in {<<>>, <<EndOfMedia>>}
    BY DEF Told, EndOfMedia
  <2>8. \A puts : Follows(h, puts)
    BY <1>3, <1>4, <2>1, <2>3, <2>4, <2>5, <2>6 DEF Follows
  <2> QED BY <2>3, <2>7, <2>8 DEF h
<1>8. CASE CloseLast
  <2> DEFINE n == Len(audio_list)
  <2>1. /\ Min(Playbacks) = n /\ Playbacks # {} /\ n \in DOMAIN audio_list
        /\ n \in Playbacks /\ \A y \in Playbacks : n =< y
        /\ gStreamplayer = "PLAY_BACK"
    BY <1>1, <1>5, <1>8, FirstPromptLemma DEF CloseLast, ListPlayer
  <2>2. Playbacks = {n}
    BY <1>5, <2>1 DEF Playbacks
  <2>3. Told = <<EndOfMedia>>
    <3>1. Cardinality({n}) = 1
      BY FS_Singleton
    <3> QED BY <2>2, <3>1 DEF Told, EndOfMedia
  <2>4. /\ audio_list' = Without(audio_list, n) /\ Handled(Told) /\ sample_rate' = sample_rate
        /\ IF app_audio_list_stream_exist
           THEN app_bt_stream_open(audio_list[1].id)
           ELSE app_bt_stream_close("PLAY_BACK")
    BY <1>5, <1>8, <2>1 DEF CloseLast
  <2>5. n \in {1, 2}
    <3>1. n >= 2 => 2 \in Playbacks
      BY <1>1, <1>5 DEF Playbacks, ListOK
    <3> QED BY <1>5, <2>1, <2>2, <3>1
  <2>6. CASE n = 1
    <3>1. ~app_audio_list_stream_exist
      BY <1>5, <2>1, <2>6 DEF Playbacks
    <3>2. audio_list' = <<>> /\ gStreamplayer' = "NUM"
      BY <1>1, <2>1, <2>4, <2>6, <3>1, ListWithout DEF app_bt_stream_close
    <3>3. Free(gStreamplayer', audio_list') /\ ~Listens(audio_list')
      BY <3>2 DEF Free, Listens, Streams
    <3>4. Follows(h, <<EndOfMedia>>)
      BY <1>3, <1>4, <2>1, <2>4, <3>2, <3>3 DEF Follows
    <3> QED BY <2>3, <2>4, <3>4 DEF h
  <2>7. CASE n = 2
    <3>1. audio_list[1].id # "PLAY_BACK" /\ 1 \in DOMAIN audio_list
      BY <1>5, <2>2, <2>7 DEF Playbacks
    <3>2. app_audio_list_stream_exist /\ ~Free(gStreamplayer, audio_list)
      BY <1>5, <2>7, <3>1 DEF Free
    <3>3. gStreamplayer' = audio_list[1].id
      BY <2>4, <3>2 DEF app_bt_stream_open
    <3>4. DOMAIN audio_list' = 1..1 /\ audio_list'[1] = audio_list[1] /\ audio_list' # <<>>
      BY <1>1, <2>1, <2>4, <2>7, ListWithout
    <3>5. ~Listens(audio_list')
      BY <3>1, <3>4 DEF Listens
    <3>6. Follows(h, <<EndOfMedia>>)
      BY <1>3, <1>4, <2>1, <2>4, <3>1, <3>2, <3>3, <3>4, <3>5 DEF Follows
    <3> QED BY <2>3, <2>4, <3>6 DEF h
  <2> QED BY <2>5, <2>6, <2>7
<1> QED BY <1>6, <1>7, <1>8

LEMMA SetupAhead ==
  ASSUME PathInv, AheadInv, Setup \/ Restart
  PROVE  Handled(<<>>) /\ Follows(Head(mailbox), <<>>)
<1> DEFINE h == Head(mailbox)
<1>1. PICK op \in {"SETUP", "RESTART"} :
        /\ Next_is("AUDIO", op, "A2DP_SBC")
        /\ Handled(<<>>) /\ UNCHANGED <<audio_list, gStreamplayer, stop_proc>>
        /\ sample_rate' = IF op = "SETUP" THEN h.dev ELSE sample_rate
  BY DEF Setup, Restart
<1>2. /\ \A s : h \notin OpensOf(s) /\ h \notin ClosesOf(s)
      /\ h \notin StreamOpens /\ h \notin Disturbs
      /\ h \in Setups <=> op = "SETUP"
  BY <1>1, KindLemma DEF Players
<1>3. h \notin PromptOpens /\ h \notin PromptCloses
  BY <1>2 DEF PromptOpens, PromptCloses
<1> HIDE DEF h
<1> QED BY <1>1, <1>2, <1>3 DEF Follows, h, AheadInv, ListPlayer

\* A step that leaves the mailbox, the manager and the audio module alone.
LEMMA SameAhead ==
  ASSUME AheadInv, UNCHANGED <<mailbox, audio, manager, phone, callback>>
  PROVE  AheadInv'
<1>1. /\ UNCHANGED <<media_active, media_curr_sbc, curr_active_media>>
      /\ UNCHANGED <<audio_list, gStreamplayer, stop_proc, sample_rate>>
      /\ UNCHANGED <<mailbox, callback, streaming>>
  BY DEF manager, audio, phone
<1>2. StreamAhead' /\ MediaAhead' /\ RateAhead' /\ ListPlayer' /\ EndAhead'
  BY <1>1, AheadPrime
     DEF AheadInv, StreamAhead, MediaAhead, RateAhead, ListPlayer, EndAhead
<1>3. SbcInOrder'
  BY <1>1, AheadPrime DEF AheadInv, SbcInOrder, Stopping
<1>4. CallbackOK'
  BY <1>1 DEF AheadInv, CallbackOK
<1> QED BY <1>2, <1>3, <1>4 DEF AheadInv

LEMMA HandleAudioAhead ==
  ASSUME PathInv, AheadInv, HandleAudio
  PROVE  AheadInv'
<1>1. UNCHANGED <<manager, hfchan_call, phone, callback>> /\ app_audio_handle_process
  BY DEF HandleAudio
<1>2. CASE PromptOverflow
  <2>1. UNCHANGED <<mailbox, audio>>
    BY <1>2 DEF PromptOverflow, Assert_fails
  <2> QED BY <1>1, <2>1, SameAhead
<1>3. CASE ~PromptOverflow
  <2>1. PICK puts \in {<<>>, <<EndOfMedia>>} : Handled(puts) /\ Follows(Head(mailbox), puts)
    BY <1>1, <1>3, StreamAudioAhead, OpenPromptAhead, ClosePromptAhead, SetupAhead
       DEF app_audio_handle_process
  <2>2. mailbox # <<>> /\ Head(mailbox).mod = "AUDIO"
    BY <1>1, <1>3 DEF app_audio_handle_process, OpenStream, CloseStream, PromptFiltered,
       PromptQueued, PromptPlayed, CloseUnlisted, CloseNext, CloseLast, Setup, Restart,
       OpenPrompt, ClosePrompt, Next_is
  <2> QED BY <1>1, <2>1, <2>2, AudioAhead
<1> QED BY <1>2, <1>3
----------------------------------------------------------------------------
(* The handlers of the manager.                                              *)

AudioRequests == {m \in Requests : m.mod = "AUDIO"}

LEMMA AudioRequestsLemma ==
  /\ \A puts \in Seq(AudioRequests) :
       /\ puts \in Seq(Requests)
       /\ \A i \in 1..Len(puts) : puts[i].mod = "AUDIO"
  /\ <<>> \in Seq(AudioRequests)
  /\ \A m \in AudioRequests : <<m>> \in Seq(AudioRequests)
  /\ \A m, n \in AudioRequests : <<m, n>> \in Seq(AudioRequests)
  /\ \A s, t \in Seq(AudioRequests) : s \o t \in Seq(AudioRequests)
<1>1. \A m \in AudioRequests : m \in Requests /\ m.mod = "AUDIO"
  BY DEF AudioRequests
<1> HIDE DEF AudioRequests, Requests
<1>2. ASSUME NEW puts \in Seq(AudioRequests)
      PROVE  puts \in Seq(Requests) /\ \A i \in 1..Len(puts) : puts[i].mod = "AUDIO"
  <2>1. \A i \in 1..Len(puts) : puts[i] \in AudioRequests
    OBVIOUS
  <2>2. AudioRequests \subseteq Requests
    BY <1>1
  <2> QED BY <1>1, <2>1, <2>2
<1>3. /\ <<>> \in Seq(AudioRequests)
      /\ \A m \in AudioRequests : <<m>> \in Seq(AudioRequests)
      /\ \A m, n \in AudioRequests : <<m, n>> \in Seq(AudioRequests)
      /\ \A s, t \in Seq(AudioRequests) : s \o t \in Seq(AudioRequests)
  OBVIOUS
<1> QED BY <1>2, <1>3

\* What a handler of the manager does, as far as the statements on the
\* messages are concerned, when h was the message and puts are its own.
Orders(h, puts) ==
  /\ UNCHANGED <<gStreamplayer, stop_proc, sample_rate>>
  /\ \/ audio_list' = audio_list
     \/ /\ audio_list' = <<>> /\ curr_active_media = "MEDIA" /\ ~On(media_active', "MEDIA")
        /\ Some(puts, PromptCloses)
  /\ StreamOrder(curr_active_media, curr_active_media', puts)
  /\ On(media_active', "MEDIA") =>
       \/ On(media_active, "MEDIA") /\ h \notin MediaStops /\ Never(puts, Len(puts), StreamOpens)
       \/ Since(puts, Len(puts), PromptOpens, StreamOpens)
  /\ curr_active_media' = "SBC" =>
       \/ /\ curr_active_media = "SBC" /\ media_curr_sbc' = media_curr_sbc
          /\ Never(puts, Len(puts), Setups)
       \/ Since(puts, Len(puts), SetupsOf(media_curr_sbc'), Setups)
  /\ \A d \in Devices :
       /\ h \in SbcStops(d) => "SBC" \notin media_active'[d]
       /\ h \notin SbcStarts(d) => ("SBC" \in media_active'[d] => "SBC" \in media_active[d])

LEMMA ManagerAhead ==
  ASSUME PathInv, AheadInv, UNCHANGED <<phone, callback>>,
         mailbox # <<>>, Head(mailbox).mod = "AUDIO_MANAGE",
         NEW puts \in Seq(AudioRequests), Handled(puts), Orders(Head(mailbox), puts)
  PROVE  AheadInv'
<1> DEFINE t == Tail(mailbox)
           h == Head(mailbox)
<1>1. /\ mailbox \in Seq(Requests) /\ t \in Seq(Requests) /\ puts \in Seq(Requests)
      /\ \A i \in 1..Len(puts) : puts[i].mod = "AUDIO"
  BY AudioRequestsLemma, TailFacts DEF PathInv, TypeOK
<1>2. UNCHANGED <<streaming, callback, gStreamplayer, stop_proc, sample_rate>>
      /\ mailbox' = t \o puts
  BY DEF phone, Handled, Orders
<1>3. \A d \in Devices : Never(puts, Len(puts), SbcStarts(d))
  BY <1>1, MovesLemma DEF Never
<1>4. /\ h \notin Disturbs /\ h \notin Setups /\ h \notin StreamOpens /\ h \notin PromptCloses
      /\ h \notin PromptOpens
      /\ \A s \in Streams : h \notin OpensOf(s) /\ h \notin ClosesOf(s)
  BY MovesLemma, SetsLemma DEF Moves
<1>5. Len(mailbox) \in 1..Len(mailbox) /\ Len(t) = Len(mailbox) - 1
  BY <1>1, TailFacts
<1>6. StreamAhead'
  <2>1. StreamOK(t, curr_active_media, gStreamplayer, audio_list)
    BY <1>1, <1>4, StreamTaken DEF AheadInv, StreamAhead
  <2>2. /\ StreamOrder(curr_active_media, curr_active_media', puts)
        /\ \/ audio_list' = audio_list
           \/ audio_list' = <<>> /\ curr_active_media \notin {"VOICE", "SBC"}
    BY DEF Orders
  <2> HIDE DEF t, h
  <2>3. StreamOK(t \o puts, curr_active_media', gStreamplayer, audio_list')
    BY <1>1, <2>1, <2>2, StreamPut
  <2> QED BY <1>2, <2>3, AheadPrime
<1>7. MediaAhead'
  <2>1. SUFFICES ASSUME On(media_active', "MEDIA") PROVE MediaOK(t \o puts, audio_list')
    BY <1>2, AheadPrime
  <2>2. CASE Since(puts, Len(puts), PromptOpens, StreamOpens)
    <3> HIDE DEF t
    <3> QED BY <1>1, <2>2, MediaPut
  <2>3. CASE On(media_active, "MEDIA") /\ h \notin MediaStops /\ Never(puts, Len(puts), StreamOpens)
    <3>1. MediaOK(mailbox, audio_list) /\ audio_list' = audio_list
      BY <2>1, <2>3 DEF AheadInv, MediaAhead, Orders
    <3>2. MediaOK(t, audio_list')
      BY <1>1, <1>4, <2>3, <3>1, MediaTaken
    <3> HIDE DEF t
    <3> QED BY <1>1, <2>3, <3>2, MediaPut
  <2> QED BY <2>1, <2>2, <2>3 DEF Orders
<1>8. RateAhead'
  <2>1. SUFFICES ASSUME curr_active_media' = "SBC"
                 PROVE  RateOK(t \o puts, sample_rate, media_curr_sbc')
    BY <1>2, AheadPrime
  <2>2. CASE Since(puts, Len(puts), SetupsOf(media_curr_sbc'), Setups)
    <3> HIDE DEF t
    <3> QED BY <1>1, <2>2, RatePut
  <2>3. CASE /\ curr_active_media = "SBC" /\ media_curr_sbc' = media_curr_sbc
             /\ Never(puts, Len(puts), Setups)
    <3>1. RateOK(t, sample_rate, media_curr_sbc)
      BY <1>1, <1>4, <2>3, RateTaken DEF AheadInv, RateAhead
    <3> HIDE DEF t
    <3> QED BY <1>1, <2>3, <3>1, RatePut
  <2> QED BY <2>1, <2>2, <2>3 DEF Orders
<1>9. ListPlayer'
  <2>1. ~Listens(<<>>)
    BY DEF Listens
  <2> QED BY <1>2, <2>1, AheadPrime DEF Orders, AheadInv, ListPlayer
<1>10. EndAhead'
  <2>1. SUFFICES ASSUME gStreamplayer = "PLAY_BACK", stop_proc \/ audio_list' = <<>>
                 PROVE  Some(t \o puts, PromptCloses)
    BY <1>2, AheadPrime
  <2>2. CASE Some(puts, PromptCloses)
    <3> HIDE DEF t
    <3> QED BY <1>1, <2>2, ConcatLemma
  <2>3. CASE audio_list' = audio_list
    <3>1. Some(mailbox, PromptCloses)
      BY <2>1, <2>3 DEF AheadInv, EndAhead
    <3>2. Some(t, PromptCloses)
      BY <1>1, <1>4, <1>5, <3>1, TailLemma
    <3> HIDE DEF t
    <3> QED BY <1>1, <3>2, ConcatLemma
  <2> QED BY <2>2, <2>3 DEF Orders
<1>11. SbcInOrder'
  <2>1. ASSUME NEW d \in Devices
        PROVE  /\ OrderOK(t \o puts, d, media_active'[d])
               /\ d \in streaming' \/ Stopping(d)' \/ Stopped(t \o puts, d, media_active'[d])
    <3>1. /\ OrderOK(mailbox, d, media_active[d])
          /\ d \in streaming' \/ Stopping(d)' \/ Stopped(mailbox, d, media_active[d])
      BY <1>2 DEF AheadInv, SbcInOrder, Stopping
    <3>2. /\ OrderOK(t, d, media_active'[d])
          /\ Stopped(mailbox, d, media_active[d]) => Stopped(t, d, media_active'[d])
      BY <1>1, <3>1, OrderTaken DEF Orders
    <3> HIDE DEF t
    <3>3. /\ OrderOK(t \o puts, d, media_active'[d])
          /\ Stopped(t, d, media_active'[d]) => Stopped(t \o puts, d, media_active'[d])
      BY <1>1, <1>3, <3>2, OrderPut
    <3> QED BY <3>1, <3>2, <3>3
  <2> HIDE DEF t
  <2> QED BY <1>2, <2>1, AheadPrime
<1>12. CallbackOK'
  BY <1>2 DEF AheadInv, CallbackOK
<1> QED BY <1>6, <1>7, <1>8, <1>9, <1>10, <1>11, <1>12 DEF AheadInv

\* The messages of the manager's orders.
LEMMA OrderLemma ==
  /\ \A id \in Players : /\ Open(id) \in AudioRequests /\ Close(id) \in AudioRequests
                         /\ Open(id) \in OpensOf(id) /\ Close(id) \in ClosesOf(id)
                         /\ Close(id) \notin StreamOpens /\ Close(id) \notin Setups
  /\ LET restart == Audio("RESTART", "A2DP_SBC", BT_DEVICE_NUM, "none") IN
       restart \in AudioRequests /\ restart \notin Disturbs \cup StreamOpens \cup Setups
  /\ \A d \in Devices :
       /\ PlayMusic(d) \in Seq(AudioRequests)
       /\ Since(PlayMusic(d), Len(PlayMusic(d)), OpensOf("A2DP_SBC"), Disturbs)
       /\ Since(PlayMusic(d), Len(PlayMusic(d)), SetupsOf(d), Setups)
  /\ \A p \in Tones :
       /\ PlayPrompt(p) \in Seq(AudioRequests)
       /\ Never(PlayPrompt(p), Len(PlayPrompt(p)), StreamOpens)
       /\ Since(PlayPrompt(p), Len(PlayPrompt(p)), PromptOpens, StreamOpens)
<1>1. \A status, id, device, p :
        LET m == Audio(status, id, device, p) IN
        m.mod = "AUDIO" /\ m.op = status /\ m.what = id /\ m.dev = device
  BY DEF Audio
<1>2. \A m : <<m>>[1] = m /\ Len(<<m>>) = 1
  OBVIOUS
<1>3. \A m, n : <<m, n>>[1] = m /\ <<m, n>>[2] = n /\ Len(<<m, n>>) = 2
  OBVIOUS
<1>4. ASSUME NEW id \in Players
      PROVE  /\ Open(id) \in AudioRequests /\ Close(id) \in AudioRequests
             /\ Open(id) \in OpensOf(id) /\ Close(id) \in ClosesOf(id)
             /\ Close(id) \notin StreamOpens /\ Close(id) \notin Setups
  <2>1. /\ Open(id) \in Requests /\ Open(id).mod = "AUDIO"
        /\ Open(id).op = "OPEN" /\ Open(id).what = id
    BY <1>1, MessageLemma DEF Open
  <2>2. /\ Close(id) \in Requests /\ Close(id).mod = "AUDIO"
        /\ Close(id).op = "CLOSE" /\ Close(id).what = id
    BY <1>1, MessageLemma DEF Close
  <2> QED BY <2>1, <2>2 DEF AudioRequests, OpensOf, ClosesOf, StreamOpens, Setups, Asks
<1>5. LET restart == Audio("RESTART", "A2DP_SBC", BT_DEVICE_NUM, "none") IN
        restart \in AudioRequests /\ restart \notin Disturbs \cup StreamOpens \cup Setups
  BY <1>1, MessageLemma DEF AudioRequests, Disturbs, StreamOpens, Setups, Asks
<1>6. ASSUME NEW d \in Devices
      PROVE  /\ PlayMusic(d) \in Seq(AudioRequests)
             /\ Since(PlayMusic(d), Len(PlayMusic(d)), OpensOf("A2DP_SBC"), Disturbs)
             /\ Since(PlayMusic(d), Len(PlayMusic(d)), SetupsOf(d), Setups)
  <2> DEFINE setup == Audio("SETUP", "A2DP_SBC", d, "none")
             open  == Open("A2DP_SBC")
  <2>1. setup \in Requests
    BY DEF Requests, Audio, Players
  <2>2. setup \in AudioRequests /\ setup \in SetupsOf(d)
    BY <1>1, <2>1 DEF AudioRequests, SetupsOf, Setups, Asks, Players
  <2>3. open \in AudioRequests /\ open \in OpensOf("A2DP_SBC") /\ open \notin Setups
    <3>1. "A2DP_SBC" \in Players
      BY DEF Players
    <3> QED BY <1>1, <1>4, <3>1 DEF Open, Setups, Asks
  <2>4. PlayMusic(d) = <<setup, open>>
    BY DEF PlayMusic
  <2> HIDE DEF setup, open
  <2> DEFINE q == <<setup, open>>
  <2>5. q \in Seq(AudioRequests) /\ q[1] = setup /\ q[2] = open /\ Len(q) = 2
    BY <1>3, <2>2, <2>3, AudioRequestsLemma
  <2> HIDE DEF q
  <2>6. Since(q, 2, OpensOf("A2DP_SBC"), Disturbs)
    <3>1. 2 \in 1..2 /\ (2 + 1)..2 = {}
      OBVIOUS
    <3> QED BY <2>3, <2>5, <3>1 DEF Since
  <2>7. Since(q, 2, SetupsOf(d), Setups)
    <3>1. 1 \in 1..2 /\ \A j \in (1 + 1)..2 : j = 2
      OBVIOUS
    <3> QED BY <2>2, <2>3, <2>5, <3>1 DEF Since
  <2> QED BY <2>4, <2>5, <2>6, <2>7 DEF q
<1>7. ASSUME NEW p \in Tones
      PROVE  /\ PlayPrompt(p) \in Seq(AudioRequests)
             /\ Never(PlayPrompt(p), Len(PlayPrompt(p)), StreamOpens)
             /\ Since(PlayPrompt(p), Len(PlayPrompt(p)), PromptOpens, StreamOpens)
  <2> DEFINE m == Audio("OPEN", "PLAY_BACK", BT_DEVICE_NUM, p)
  <2>1. m \in Requests
    BY DEF Requests, Audio, Players
  <2>2. m \in AudioRequests /\ m \in PromptOpens /\ m \notin StreamOpens
    BY <1>1, <2>1 DEF AudioRequests, PromptOpens, OpensOf, StreamOpens, Asks, Streams
  <2>3. PlayPrompt(p) = <<m>>
    BY DEF PlayPrompt
  <2> HIDE DEF m
  <2>4. <<m>> \in Seq(AudioRequests) /\ Never(<<m>>, Len(<<m>>), StreamOpens)
    BY <2>2, SingleLemma, AudioRequestsLemma
  <2>5. Since(<<m>>, Len(<<m>>), PromptOpens, StreamOpens)
    <3>1. 1 \in 1..1 /\ (1 + 1)..1 = {}
      OBVIOUS
    <3> QED BY <1>2, <2>2, <3>1 DEF Since
  <2> QED BY <2>3, <2>4, <2>5
<1> QED BY <1>4, <1>5, <1>6, <1>7

\* The stream that has the audio stream is closed first, and none is opened.
LEMMA ClosingLemma ==
  ASSUME NEW current \in {"VOICE", "SBC"}, NEW current2, current2 \notin {"VOICE", "SBC"},
         NEW rest \in Seq(AudioRequests), Never(rest, Len(rest), StreamOpens)
  PROVE  /\ StreamOrder(current, current2, <<Close(StreamOf(current))>>)
         /\ StreamOrder(current, current2, <<Close(StreamOf(current))>> \o rest)
<1> DEFINE c == Close(StreamOf(current))
           q == <<c>> \o rest
<1>1. StreamOf(current) \in Players
  BY DEF StreamOf, Players
<1>2. c \in AudioRequests /\ c \in ClosesOf(StreamOf(current))
  BY <1>1, OrderLemma
<1> HIDE DEF c
<1>3. <<c>> \in Seq(AudioRequests) /\ Len(<<c>>) = 1 /\ <<c>>[1] = c /\ <<c>> # <<>>
  BY <1>2, AudioRequestsLemma
<1>4. StreamOrder(current, current2, <<c>>)
  <2>1. 2..1 = {}
    OBVIOUS
  <2> QED BY <1>2, <1>3, <2>1 DEF StreamOrder
<1>5. /\ Len(rest) \in Nat /\ Len(q) = 1 + Len(rest) /\ q[1] = c
      /\ \A j \in 2..(1 + Len(rest)) : q[j] = rest[j - 1]
  BY <1>3, ConcatFacts
<1> HIDE DEF q
<1>6. \A j \in 2..Len(q) : j - 1 \in 1..Len(rest)
  BY <1>5
<1>7. q # <<>>
  <2>1. Len(<<>>) = 0
    OBVIOUS
  <2> QED BY <1>5, <2>1
<1>8. StreamOrder(current, current2, q)
  BY <1>2, <1>5, <1>6, <1>7 DEF StreamOrder, Never
<1> QED BY <1>4, <1>8 DEF c, q

\* A stream, or a prompt, is opened last.
LEMMA OpeningLemma ==
  ASSUME NEW front \in Seq(AudioRequests), NEW current
  PROVE  /\ LET q == front \o <<Open("HFP_PCM")>> IN
              q \in Seq(AudioRequests) /\ StreamOrder(current, "VOICE", q)
         /\ \A d \in Devices : LET q == front \o PlayMusic(d) IN
              /\ q \in Seq(AudioRequests) /\ StreamOrder(current, "SBC", q)
              /\ Since(q, Len(q), SetupsOf(d), Setups)
         /\ \A p \in Tones : LET q == front \o PlayPrompt(p) IN
              q \in Seq(AudioRequests) /\ Since(q, Len(q), PromptOpens, StreamOpens)
<1>1. StreamOf("VOICE") = "HFP_PCM" /\ StreamOf("SBC") = "A2DP_SBC"
  BY DEF StreamOf
<1>2. \A puts : /\ Since(puts, Len(puts), OpensOf("HFP_PCM"), Disturbs)
                     => StreamOrder(current, "VOICE", puts)
                /\ Since(puts, Len(puts), OpensOf("A2DP_SBC"), Disturbs)
                     => StreamOrder(current, "SBC", puts)
  BY <1>1 DEF StreamOrder
<1>3. /\ <<Open("HFP_PCM")>> \in Seq(AudioRequests)
      /\ Since(<<Open("HFP_PCM")>>, Len(<<Open("HFP_PCM")>>), OpensOf("HFP_PCM"), Disturbs)
  <2> DEFINE m == Open("HFP_PCM")
  <2>1. m \in AudioRequests /\ m \in OpensOf("HFP_PCM")
    BY OrderLemma DEF Players
  <2> HIDE DEF m
  <2>2. 1 \in 1..1 /\ (1 + 1)..1 = {} /\ <<m>>[1] = m /\ Len(<<m>>) = 1
    OBVIOUS
  <2>3. Since(<<m>>, 1, OpensOf("HFP_PCM"), Disturbs)
    BY <2>1, <2>2 DEF Since
  <2> QED BY <2>1, <2>2, <2>3, AudioRequestsLemma DEF m
<1>4. ASSUME NEW back \in Seq(AudioRequests), NEW A, NEW B, Since(back, Len(back), A, B)
      PROVE  /\ front \o back \in Seq(AudioRequests)
             /\ Since(front \o back, Len(front \o back), A, B)
  BY <1>4, ConcatLemma, AudioRequestsLemma
<1>5. LET q == front \o <<Open("HFP_PCM")>> IN
        q \in Seq(AudioRequests) /\ StreamOrder(current, "VOICE", q)
  BY <1>2, <1>3, <1>4
<1>6. ASSUME NEW d \in Devices
      PROVE  LET q == front \o PlayMusic(d) IN
              /\ q \in Seq(AudioRequests) /\ StreamOrder(current, "SBC", q)
              /\ Since(q, Len(q), SetupsOf(d), Setups)
  <2>1. /\ PlayMusic(d) \in Seq(AudioRequests)
        /\ Since(PlayMusic(d), Len(PlayMusic(d)), OpensOf("A2DP_SBC"), Disturbs)
        /\ Since(PlayMusic(d), Len(PlayMusic(d)), SetupsOf(d), Setups)
    BY OrderLemma
  <2> QED BY <1>2, <1>4, <2>1
<1>7. ASSUME NEW p \in Tones
      PROVE  LET q == front \o PlayPrompt(p) IN
              q \in Seq(AudioRequests) /\ Since(q, Len(q), PromptOpens, StreamOpens)
  BY <1>4, OrderLemma
<1> QED BY <1>5, <1>6, <1>7

\* What is next for the manager is of one kind only.
LEMMA ManagerKind ==
  ASSUME PathInv, NEW op, NEW what, Next_is("AUDIO_MANAGE", op, what)
  PROVE  /\ mailbox # <<>> /\ Head(mailbox).mod = "AUDIO_MANAGE"
         /\ Head(mailbox).aud \in Tones
         /\ Head(mailbox) \in MediaStops <=> op = "STOP" /\ what = "MEDIA"
         /\ \A d : Head(mailbox) \in SbcStarts(d) <=>
                     op = "START" /\ what = "SBC" /\ Head(mailbox).dev = d
         /\ \A d : Head(mailbox) \in SbcStops(d) <=>
                     op = "STOP" /\ what = "SBC" /\ Head(mailbox).dev = d
<1>1. Head(mailbox) \in Requests /\ Head(mailbox).aud \in Tones
  BY HeadLemma, PartsLemma
<1> QED BY <1>1 DEF Next_is, MediaStops, SbcStarts, SbcStops, Asks

\* No message: the same stream, or none before and after.
LEMMA NoOrder ==
  /\ <<>> \in Seq(AudioRequests) /\ \A A : Never(<<>>, Len(<<>>), A)
  /\ \A current : StreamOrder(current, current, <<>>)
  /\ \A current, current2 : current \notin {"VOICE", "SBC"} /\ current2 \notin {"VOICE", "SBC"}
       => StreamOrder(current, current2, <<>>)
<1>1. \A A : Never(<<>>, Len(<<>>), A)
  BY SingleLemma
<1> QED BY <1>1, AudioRequestsLemma DEF StreamOrder

ManagerAfter == ManagerOK(media_active', media_curr_sbc', curr_active_media')

LEMMA AfterLemma ==
  ASSUME PathInv'
  PROVE  ManagerAfter /\ halted' \in {"no", "app_audio_list_append"}
<1>1. ManagerInv' /\ AssertsHold'
  BY PartsLemma, PTL DEF PathInv
<1>2. ManagerAfter
  BY <1>1 DEF ManagerInv, ManagerOK, ManagerAfter, On
<1> QED BY <1>1, <1>2 DEF AssertsHold

Ordered == \E puts \in Seq(AudioRequests) : Handled(puts) /\ Orders(Head(mailbox), puts)

LEMMA StartSbcAhead ==
  ASSUME PathInv, PathInv', AheadInv, NEW d \in Devices, StartSbc(d)
  PROVE  Ordered
<1> DEFINE active == Activated("SBC", d)
           curr   == IF media_curr_sbc = BT_DEVICE_NUM THEN d ELSE media_curr_sbc
           h      == Head(mailbox)
<1>1. /\ ManagerOK(media_active, media_curr_sbc, curr_active_media)
      /\ halted' \in {"no", "app_audio_list_append"}
  BY PartsLemma, AfterLemma DEF ManagerInv
<1>2. /\ media_active \in [Devices -> SUBSET StreamTypes]
      /\ "SBC" \in StreamTypes /\ "MEDIA" \in StreamTypes /\ "VOICE" \in StreamTypes
      /\ media_curr_sbc \in Devices \cup {BT_DEVICE_NUM} /\ BT_DEVICE_NUM \notin Devices
  BY <1>1 DEF ManagerOK, StreamTypes, Devices, BT_DEVICE_NUM
<1>3. /\ On(active, "MEDIA") <=> On(media_active, "MEDIA")
      /\ On(active, "VOICE") <=> On(media_active, "VOICE")
  BY <1>2, ActivatedLemma
<1>4. \A e \in Devices \ {d} : "SBC" \in active[e] <=> "SBC" \in media_active[e]
  BY <1>2 DEF Activated
<1>5. /\ media_active' = active /\ media_curr_sbc' = curr
      /\ UNCHANGED <<audio_list, gStreamplayer, stop_proc, sample_rate>>
      /\ Next_is("AUDIO_MANAGE", "START", "SBC") /\ h.dev = d
  BY DEF StartSbc, Request, audio
<1>6. /\ mailbox # <<>> /\ h \notin MediaStops
      /\ \A e : h \in SbcStarts(e) <=> e = d
      /\ \A e : h \notin SbcStops(e)
  BY <1>5, ManagerKind
<1>7. "SBC" \notin media_active[d]
  <2>1. OrderOK(mailbox, d, media_active[d])
    BY DEF AheadInv, SbcInOrder
  <2>2. mailbox \in Seq(Requests)
    BY DEF PathInv, TypeOK
  <2>3. Len(mailbox) \in Nat /\ Len(mailbox) >= 1 /\ h = mailbox[1]
    BY <1>6, <2>2, TailFacts
  <2>4. 1 \in 1..Len(mailbox) /\ 1..(1 - 1) = {}
    BY <2>3
  <2>5. mailbox[1] \in SbcStarts(d)
    BY <1>6, <2>3
  <2> HIDE DEF h
  <2> QED BY <2>1, <2>4, <2>5 DEF OrderOK
<1>8. /\ (\E other \in Devices \ {d} : "SBC" \in active[other]) <=> On(media_active, "SBC")
      /\ On(media_active, "SBC") => media_curr_sbc \in Devices /\ media_curr_sbc # d
      /\ ~On(media_active, "SBC") => media_curr_sbc = BT_DEVICE_NUM
  BY <1>1, <1>4, <1>7 DEF On, ManagerOK
<1>9. \A e \in Devices : /\ h \notin SbcStops(e)
                         /\ h \notin SbcStarts(e) => ("SBC" \in active[e] => "SBC" \in media_active[e])
  BY <1>4, <1>6
<1> HIDE DEF active, h
<1>10. CASE On(active, "MEDIA") \/ On(active, "VOICE")
  <2>1. Handled(<<>>) /\ curr_active_media' = curr_active_media
    BY <1>10 DEF StartSbc, Stay, Switch, active
  <2>2. curr_active_media' # "SBC"
    BY <1>1, <1>3, <1>10, <2>1 DEF ManagerOK
  <2>3. Orders(h, <<>>)
    BY <1>3, <1>5, <1>6, <1>9, <2>1, <2>2, NoOrder DEF Orders
  <2> QED BY <2>1, <2>3, NoOrder DEF Ordered, h
<1>11. CASE ~On(active, "MEDIA") /\ ~On(active, "VOICE") /\ On(media_active, "SBC")
  <2> DEFINE m == Audio("RESTART", "A2DP_SBC", BT_DEVICE_NUM, "none")
  <2>1. curr # d /\ curr = media_curr_sbc /\ curr_active_media = "SBC"
    BY <1>1, <1>2, <1>3, <1>8, <1>11 DEF ManagerOK
  <2>2. Handled(<<m>>) /\ curr_active_media' = curr_active_media
    <3> HIDE DEF curr, m
    <3> QED BY <1>8, <1>11, <2>1 DEF StartSbc, Stay, Switch, active, curr, m
  <2>3. m \in AudioRequests /\ m \notin Disturbs \cup StreamOpens \cup Setups
    BY OrderLemma
  <2> HIDE DEF m
  <2>4. /\ <<m>> \in Seq(AudioRequests) /\ Never(<<m>>, Len(<<m>>), Disturbs)
        /\ Never(<<m>>, Len(<<m>>), Setups)
    BY <2>3, SingleLemma, AudioRequestsLemma
  <2>5. StreamOrder(curr_active_media, curr_active_media', <<m>>)
    BY <2>2, <2>4 DEF StreamOrder
  <2> HIDE DEF curr
  <2>6. Orders(h, <<m>>)
    BY <1>5, <1>9, <1>11, <2>1, <2>2, <2>4, <2>5 DEF Orders
  <2> QED BY <2>2, <2>4, <2>6 DEF Ordered, h
<1>12. CASE ~On(active, "MEDIA") /\ ~On(active, "VOICE") /\ ~On(media_active, "SBC")
  <2>1. Handled(PlayMusic(d)) /\ curr_active_media' = "SBC"
    BY <1>8, <1>12 DEF StartSbc, Switch, active
  <2>2. media_curr_sbc' = d
    BY <1>5, <1>8, <1>12
  <2>3. /\ PlayMusic(d) \in Seq(AudioRequests)
        /\ Since(PlayMusic(d), Len(PlayMusic(d)), OpensOf(StreamOf("SBC")), Disturbs)
        /\ Since(PlayMusic(d), Len(PlayMusic(d)), SetupsOf(d), Setups)
    BY OrderLemma DEF StreamOf
  <2>4. StreamOrder(curr_active_media, curr_active_media', PlayMusic(d))
    BY <2>1, <2>3 DEF StreamOrder
  <2>5. Orders(h, PlayMusic(d))
    BY <1>5, <1>9, <1>12, <2>2, <2>3, <2>4 DEF Orders
  <2> QED BY <2>1, <2>3, <2>5 DEF Ordered, h
<1> QED BY <1>10, <1>11, <1>12

LEMMA StartMediaAhead ==
  ASSUME PathInv, PathInv', NEW d \in Devices, StartMedia(d)
  PROVE  Ordered
<1> DEFINE active  == Activated("MEDIA", d)
           cleared == bt_media_clear_all_media_type
           p       == Head(mailbox).aud
           h       == Head(mailbox)
<1>1. /\ ManagerOK(media_active, media_curr_sbc, curr_active_media)
      /\ ManagerAfter /\ halted' \in {"no", "app_audio_list_append"}
  BY PartsLemma, AfterLemma DEF ManagerInv
<1>2. /\ media_active \in [Devices -> SUBSET StreamTypes]
      /\ "SBC" \in StreamTypes /\ "MEDIA" \in StreamTypes /\ "VOICE" \in StreamTypes
  BY <1>1 DEF ManagerOK, StreamTypes
<1>3. /\ \A t \in {"SBC", "VOICE"} : On(active, t) <=> On(media_active, t)
      /\ \A e \in Devices : "SBC" \in active[e] <=> "SBC" \in media_active[e]
  BY <1>2, ActivatedLemma
<1>4. /\ ~On(cleared, "MEDIA")
      /\ \A e \in Devices : "SBC" \in cleared[e] <=> "SBC" \in media_active[e]
  BY <1>2, ClearedLemma DEF bt_media_clear_all_media_type
<1>5. /\ media_curr_sbc' = media_curr_sbc
      /\ UNCHANGED <<audio_list, gStreamplayer, stop_proc, sample_rate>>
      /\ Next_is("AUDIO_MANAGE", "START", "MEDIA")
  BY DEF StartMedia, Request, audio
<1>6. h \notin MediaStops /\ (\A e : h \notin SbcStarts(e) /\ h \notin SbcStops(e)) /\ p \in Tones
  BY <1>5, ManagerKind
<1> HIDE DEF h
<1>7. \/ /\ media_active' = cleared /\ Handled(<<>>) /\ curr_active_media' = curr_active_media
      \/ /\ media_active' = active /\ curr_active_media' = "MEDIA"
         /\ \/ Handled(<<>> \o PlayPrompt(p)) /\ curr_active_media \notin {"VOICE", "SBC"}
            \/ /\ Handled(<<Close(StreamOf(curr_active_media))>> \o PlayPrompt(p))
               /\ curr_active_media \in {"VOICE", "SBC"}
  <2>1. /\ On(media_active, "VOICE") => curr_active_media \in {"VOICE", "MEDIA"}
        /\ On(media_active, "SBC") /\ ~On(media_active, "VOICE")
             => curr_active_media \in {"SBC", "MEDIA"}
        /\ ~On(media_active, "SBC") /\ ~On(media_active, "VOICE")
             => curr_active_media \in {"0", "MEDIA"}
    BY <1>1 DEF ManagerOK
  <2>2. StreamOf("VOICE") = "HFP_PCM" /\ StreamOf("SBC") = "A2DP_SBC"
    BY DEF StreamOf
  <2>3. /\ On(active, "VOICE") <=> On(media_active, "VOICE")
        /\ On(active, "SBC") <=> On(media_active, "SBC")
    BY <1>3
  <2> HIDE DEF active, cleared, p
  <2> QED BY <2>1, <2>2, <2>3 DEF StartMedia, Stay, Switch, active, cleared, p
<1> HIDE DEF active, cleared, p
<1>8. CASE media_active' = cleared /\ Handled(<<>>) /\ curr_active_media' = curr_active_media
  <2>1. Orders(h, <<>>)
    BY <1>4, <1>5, <1>6, <1>8, NoOrder DEF Orders
  <2> QED BY <1>8, <2>1, NoOrder DEF Ordered, h
<1>9. ASSUME media_active' = active, curr_active_media' = "MEDIA",
             NEW puts \in Seq(AudioRequests), Handled(puts),
             Since(puts, Len(puts), PromptOpens, StreamOpens),
             StreamOrder(curr_active_media, "MEDIA", puts)
      PROVE  Ordered
  <2>1. Orders(h, puts)
    BY <1>3, <1>5, <1>6, <1>9 DEF Orders
  <2> QED BY <1>9, <2>1 DEF Ordered, h
<1>10. /\ PlayPrompt(p) \in Seq(AudioRequests)
       /\ Never(PlayPrompt(p), Len(PlayPrompt(p)), StreamOpens)
  BY <1>6, OrderLemma
<1>11. CASE /\ media_active' = active /\ curr_active_media' = "MEDIA"
            /\ Handled(<<>> \o PlayPrompt(p)) /\ curr_active_media \notin {"VOICE", "SBC"}
  <2> DEFINE q == <<>> \o PlayPrompt(p)
  <2>1. q \in Seq(AudioRequests) /\ Since(q, Len(q), PromptOpens, StreamOpens)
    BY <1>6, OpeningLemma, NoOrder
  <2>2. Never(q, Len(q), StreamOpens)
    <3>1. /\ <<>> \in Seq(AudioRequests) /\ Never(<<>>, Len(<<>>), StreamOpens)
      BY NoOrder
    <3> QED BY <1>10, <3>1, ConcatLemma
  <2> HIDE DEF q
  <2>3. StreamOrder(curr_active_media, "MEDIA", q)
    BY <1>11, <2>2 DEF StreamOrder
  <2>4. Handled(q)
    BY <1>11 DEF q
  <2> QED BY <1>9, <1>11, <2>1, <2>3, <2>4
<1>12. CASE /\ media_active' = active /\ curr_active_media' = "MEDIA"
            /\ Handled(<<Close(StreamOf(curr_active_media))>> \o PlayPrompt(p))
            /\ curr_active_media \in {"VOICE", "SBC"}
  <2> DEFINE front == <<Close(StreamOf(curr_active_media))>>
             q     == front \o PlayPrompt(p)
  <2>1. front \in Seq(AudioRequests)
    <3>1. StreamOf(curr_active_media) \in Players
      BY DEF StreamOf, Players
    <3> QED BY <3>1, OrderLemma, AudioRequestsLemma
  <2>2. StreamOrder(curr_active_media, "MEDIA", q)
    BY <1>10, <1>12, ClosingLemma
  <2> HIDE DEF front
  <2>3. q \in Seq(AudioRequests) /\ Since(q, Len(q), PromptOpens, StreamOpens)
    BY <1>6, <2>1, OpeningLemma
  <2>4. Handled(q)
    BY <1>12 DEF front
  <2> HIDE DEF q
  <2> QED BY <1>9, <1>12, <2>2, <2>3, <2>4
<1> QED BY <1>7, <1>8, <1>11, <1>12

\* Short sequences of messages, as concatenations.
LEMMA ShortLemma ==
  /\ \A m : <<>> \o <<m>> = <<m>>
  /\ \A m, n : <<m>> \o <<n>> = <<m, n>>
<1>1. \A S : \A s, t \in Seq(S) :
        Len(s) = Len(t) /\ (\A i \in 1..Len(s) : s[i] = t[i]) => s = t
  OBVIOUS
<1>2. ASSUME NEW m PROVE <<>> \o <<m>> = <<m>>
  <2> DEFINE q == <<>> \o <<m>>
  <2>1. /\ <<>> \in Seq({m}) /\ <<m>> \in Seq({m}) /\ Len(<<>>) = 0
        /\ Len(<<m>>) = 1 /\ <<m>>[1] = m
    OBVIOUS
  <2>2. q \in Seq({m}) /\ Len(q) = 0 + 1 /\ q[1] = m
    <3>1. \A i \in 1..1 : q[0 + i] = <<m>>[i]
      BY <2>1, ConcatFacts
    <3> QED BY <2>1, <3>1, ConcatFacts
  <2> HIDE DEF q
  <2>3. \A i \in 1..1 : i = 1
    OBVIOUS
  <2>4. q = <<m>>
    BY <1>1, <2>1, <2>2, <2>3
  <2> QED BY <2>4 DEF q
<1>3. ASSUME NEW m, NEW n PROVE <<m>> \o <<n>> = <<m, n>>
  <2> DEFINE q == <<m>> \o <<n>>
             r == <<m, n>>
  <2>1. /\ <<m>> \in Seq({m, n}) /\ <<n>> \in Seq({m, n}) /\ r \in Seq({m, n})
        /\ Len(<<m>>) = 1 /\ <<m>>[1] = m /\ Len(<<n>>) = 1 /\ <<n>>[1] = n
        /\ Len(r) = 2 /\ r[1] = m /\ r[2] = n
    OBVIOUS
  <2>2. q \in Seq({m, n}) /\ Len(q) = 1 + 1 /\ q[1] = m /\ q[2] = n
    <3>1. /\ \A i \in 1..1 : q[i] = <<m>>[i]
          /\ \A i \in 1..1 : q[1 + i] = <<n>>[i]
      BY <2>1, ConcatFacts
    <3> QED BY <2>1, <3>1, ConcatFacts
  <2> HIDE DEF q, r
  <2>3. \A i \in 1..2 : i = 1 \/ i = 2
    OBVIOUS
  <2>4. q = r
    BY <1>1, <2>1, <2>2, <2>3
  <2> QED BY <2>4 DEF q, r
<1> QED BY <1>2, <1>3

LEMMA StartVoiceAhead ==
  ASSUME PathInv, PathInv', NEW d \in Devices, StartVoice(d)
  PROVE  Ordered
<1> DEFINE active  == Activated("VOICE", d)
           cleared == [e \in Devices |-> active[e] \ {"MEDIA"}]
           h       == Head(mailbox)
<1>1. /\ ManagerOK(media_active, media_curr_sbc, curr_active_media)
  BY PartsLemma DEF ManagerInv
<1>2. /\ media_active \in [Devices -> SUBSET StreamTypes]
      /\ "SBC" \in StreamTypes /\ "MEDIA" \in StreamTypes /\ "VOICE" \in StreamTypes
  BY <1>1 DEF ManagerOK, StreamTypes
<1>3. /\ active \in [Devices -> SUBSET StreamTypes] /\ On(active, "VOICE")
      /\ \A t \in {"SBC", "MEDIA"} : On(active, t) <=> On(media_active, t)
      /\ \A e \in Devices : "SBC" \in active[e] <=> "SBC" \in media_active[e]
  BY <1>2, ActivatedLemma
<1>4. /\ ~On(cleared, "MEDIA")
      /\ \A e \in Devices : "SBC" \in cleared[e] <=> "SBC" \in media_active[e]
  <2>1. /\ ~On(cleared, "MEDIA")
        /\ \A e \in Devices : "SBC" \in cleared[e] <=> "SBC" \in active[e]
    <3> HIDE DEF active
    <3> QED BY <1>3, ClearedLemma
  <2> QED BY <1>3, <2>1
<1>5. /\ UNCHANGED <<gStreamplayer, stop_proc, sample_rate, media_curr_sbc>>
      /\ Next_is("AUDIO_MANAGE", "START", "VOICE")
  BY DEF StartVoice, Request
<1>6. h \notin MediaStops /\ \A e : h \notin SbcStarts(e) /\ h \notin SbcStops(e)
  BY <1>5, ManagerKind
<1> HIDE DEF h
<1>7. /\ On(active, "MEDIA") <=> curr_active_media = "MEDIA"
      /\ On(active, "MEDIA") <=> On(media_active, "MEDIA")
  <2>1. On(media_active, "MEDIA") <=> curr_active_media = "MEDIA"
    BY <1>1 DEF ManagerOK
  <2> QED BY <1>3, <2>1
<1>8. \/ /\ media_active' = cleared /\ curr_active_media = "MEDIA"
         /\ audio_list' = <<>> /\ curr_active_media' = "VOICE"
         /\ Handled(<<Close("PLAY_BACK"), Open("HFP_PCM")>>)
      \/ /\ media_active' = active /\ audio_list' = audio_list
         /\ curr_active_media' = curr_active_media /\ Handled(<<>>)
         /\ curr_active_media # "SBC" /\ On(active, "MEDIA") <=> On(media_active, "MEDIA")
      \/ /\ media_active' = active /\ audio_list' = audio_list
         /\ ~On(active, "MEDIA") /\ curr_active_media' = "VOICE"
         /\ \/ Handled(<<Close("A2DP_SBC")>> \o <<Open("HFP_PCM")>>)
            \/ Handled(<<>> \o <<Open("HFP_PCM")>>)
            \/ Handled(<<Open("HFP_PCM")>>)
  <2> HIDE DEF active, cleared
  <2> QED BY <1>7 DEF StartVoice, Stay, Switch, audio_list_clear, active, cleared
<1> HIDE DEF active, cleared
<1>9. /\ Close("PLAY_BACK") \in AudioRequests /\ Close("PLAY_BACK") \in PromptCloses
      /\ Open("HFP_PCM") \in AudioRequests /\ Close("A2DP_SBC") \in AudioRequests
  BY OrderLemma DEF Players, PromptCloses
<1>10. CASE /\ media_active' = cleared /\ curr_active_media = "MEDIA"
            /\ audio_list' = <<>> /\ curr_active_media' = "VOICE"
            /\ Handled(<<Close("PLAY_BACK"), Open("HFP_PCM")>>)
  <2> DEFINE front == <<Close("PLAY_BACK")>>
             q     == front \o <<Open("HFP_PCM")>>
  <2>1. front \in Seq(AudioRequests) /\ Some(front, PromptCloses)
        /\ <<Open("HFP_PCM")>> \in Seq(AudioRequests)
    BY <1>9, SingleLemma, AudioRequestsLemma
  <2>2. q = <<Close("PLAY_BACK"), Open("HFP_PCM")>>
    BY ShortLemma
  <2> HIDE DEF front
  <2>3. q \in Seq(AudioRequests) /\ StreamOrder(curr_active_media, "VOICE", q)
    BY <2>1, OpeningLemma
  <2>4. Some(q, PromptCloses)
    BY <2>1, ConcatLemma
  <2> HIDE DEF q
  <2>5. Orders(h, q)
    BY <1>4, <1>5, <1>6, <1>10, <2>3, <2>4 DEF Orders
  <2> QED BY <1>10, <2>2, <2>3, <2>5 DEF Ordered, h
<1>11. CASE /\ media_active' = active /\ audio_list' = audio_list
            /\ curr_active_media' = curr_active_media /\ Handled(<<>>)
            /\ curr_active_media # "SBC" /\ On(active, "MEDIA") <=> On(media_active, "MEDIA")
  <2>1. Orders(h, <<>>)
    BY <1>3, <1>5, <1>6, <1>11, NoOrder DEF Orders
  <2> QED BY <1>11, <2>1, NoOrder DEF Ordered, h
<1>12. CASE /\ media_active' = active /\ audio_list' = audio_list
            /\ ~On(active, "MEDIA") /\ curr_active_media' = "VOICE"
            /\ \/ Handled(<<Close("A2DP_SBC")>> \o <<Open("HFP_PCM")>>)
               \/ Handled(<<>> \o <<Open("HFP_PCM")>>)
               \/ Handled(<<Open("HFP_PCM")>>)
  <2>1. PICK front \in {<<Close("A2DP_SBC")>>, <<>>} : Handled(front \o <<Open("HFP_PCM")>>)
    BY <1>12, ShortLemma
  <2>2. front \in Seq(AudioRequests)
    BY <1>9, AudioRequestsLemma
  <2> DEFINE q == front \o <<Open("HFP_PCM")>>
  <2>3. q \in Seq(AudioRequests) /\ StreamOrder(curr_active_media, "VOICE", q)
    BY <2>2, OpeningLemma
  <2>4. Handled(q)
    BY <2>1
  <2> HIDE DEF q
  <2>5. Orders(h, q)
    BY <1>3, <1>5, <1>6, <1>12, <2>3 DEF Orders
  <2> QED BY <2>3, <2>4, <2>5 DEF Ordered, h
<1> QED BY <1>8, <1>10, <1>11, <1>12

\* The streams that the manager's orders close and open.
LEMMA StreamNames ==
  /\ StreamOf("VOICE") = "HFP_PCM" /\ StreamOf("SBC") = "A2DP_SBC"
  /\ \A id \in Players : <<Close(id)>> \in Seq(AudioRequests)
                         /\ Never(<<Close(id)>>, Len(<<Close(id)>>), StreamOpens)
  /\ Some(<<Close("PLAY_BACK")>>, PromptCloses)
  /\ {"HFP_PCM", "A2DP_SBC", "PLAY_BACK"} = Players
<1>1. \A id \in Players : Close(id) \in AudioRequests /\ Close(id) \notin StreamOpens
  BY OrderLemma
<1>2. Close("PLAY_BACK") \in PromptCloses
  BY OrderLemma DEF Players, PromptCloses
<1> HIDE DEF AudioRequests
<1> QED BY <1>1, <1>2, SingleLemma, AudioRequestsLemma DEF StreamOf, Players

LEMMA StopSbcAhead ==
  ASSUME PathInv, PathInv', NEW d \in Devices, StopSbc(d)
  PROVE  Ordered
<1> DEFINE active == Deactivated("SBC", d)
           first  == FirstDevice(active, "SBC")
           closed == curr_active_media = "SBC" /\ media_curr_sbc = d
           close  == IF closed THEN <<Close("A2DP_SBC")>> ELSE <<>>
           h      == Head(mailbox)
<1>1. /\ ManagerOK(media_active, media_curr_sbc, curr_active_media) /\ ManagerAfter
  BY PartsLemma, AfterLemma DEF ManagerInv
<1>2. /\ media_active \in [Devices -> SUBSET StreamTypes]
      /\ "SBC" \in StreamTypes /\ "MEDIA" \in StreamTypes /\ "VOICE" \in StreamTypes
  BY <1>1 DEF ManagerOK, StreamTypes
<1>3. /\ On(active, "MEDIA") <=> On(media_active, "MEDIA")
      /\ On(active, "VOICE") <=> On(media_active, "VOICE")
      /\ "SBC" \notin active[d]
      /\ \A e \in Devices : "SBC" \in active[e] => "SBC" \in media_active[e]
  BY <1>2, DeactivatedLemma
<1>4. On(active, "SBC") => first \in Devices
  BY FirstLemma
<1>5. /\ media_active' = active /\ media_curr_sbc' = first
      /\ UNCHANGED <<audio_list, gStreamplayer, stop_proc, sample_rate>>
      /\ Next_is("AUDIO_MANAGE", "STOP", "SBC") /\ h.dev = d
  BY DEF StopSbc, Request, audio
<1>6. h \notin MediaStops /\ \A e : h \in SbcStops(e) <=> e = d
  BY <1>5, ManagerKind
<1>7. close \in Seq(AudioRequests)
  BY StreamNames, NoOrder
<1> HIDE DEF h
<1>8. \/ /\ Handled(close \o PlayMusic(first)) /\ curr_active_media' = "SBC"
         /\ ~On(active, "MEDIA") /\ On(active, "SBC")
      \/ /\ Handled(close) /\ curr_active_media' = IF closed THEN "0" ELSE curr_active_media
         /\ On(active, "VOICE") \/ On(active, "MEDIA") \/ ~On(active, "SBC")
  <2> HIDE DEF active, first, closed, close
  <2> QED BY DEF StopSbc, Switch, active, first, closed, close
<1>9. \A e \in Devices :
        /\ h \in SbcStops(e) => "SBC" \notin active[e]
        /\ h \notin SbcStarts(e) => ("SBC" \in active[e] => "SBC" \in media_active[e])
  BY <1>3, <1>6
<1> HIDE DEF active, first
<1>10. CASE /\ Handled(close \o PlayMusic(first)) /\ curr_active_media' = "SBC"
            /\ ~On(active, "MEDIA") /\ On(active, "SBC")
  <2> DEFINE q == close \o PlayMusic(first)
  <2> HIDE DEF close
  <2>1. /\ q \in Seq(AudioRequests) /\ StreamOrder(curr_active_media, "SBC", q)
        /\ Since(q, Len(q), SetupsOf(first), Setups)
    BY <1>4, <1>7, <1>10, OpeningLemma
  <2>2. Handled(q)
    BY <1>10
  <2> HIDE DEF q
  <2>3. Orders(h, q)
    BY <1>5, <1>9, <1>10, <2>1 DEF Orders
  <2> QED BY <2>1, <2>2, <2>3 DEF Ordered, h
<1>11. CASE closed /\ Handled(close) /\ curr_active_media' = "0"
  <2>1. close = <<Close("A2DP_SBC")>>
    BY <1>11
  <2>2. StreamOrder("SBC", "0", <<Close("A2DP_SBC")>>)
    BY StreamNames, NoOrder, ClosingLemma
  <2>3. ~On(active, "MEDIA")
    BY <1>1, <1>3, <1>11 DEF ManagerOK
  <2>4. Orders(h, close)
    BY <1>5, <1>9, <1>11, <2>1, <2>2, <2>3 DEF Orders
  <2> QED BY <1>7, <1>11, <2>4 DEF Ordered, h
<1>12. CASE /\ ~closed /\ Handled(close) /\ curr_active_media' = curr_active_media
            /\ On(active, "VOICE") \/ On(active, "MEDIA") \/ ~On(active, "SBC")
  <2>1. close = <<>>
    BY <1>12
  <2>2. curr_active_media # "SBC"
    <3>1. SUFFICES ASSUME curr_active_media = "SBC" PROVE FALSE
      OBVIOUS
    <3>2. On(active, "SBC")
      BY <1>1, <1>5, <1>12, <3>1 DEF ManagerAfter, ManagerOK
    <3>3. ~On(active, "VOICE") /\ ~On(active, "MEDIA")
      BY <1>1, <1>3, <3>1 DEF ManagerOK
    <3> QED BY <1>12, <3>2, <3>3
  <2>3. Orders(h, <<>>)
    BY <1>3, <1>5, <1>6, <1>9, <1>12, <2>2, NoOrder DEF Orders
  <2> QED BY <1>12, <2>1, <2>3, NoOrder DEF Ordered, h
<1> QED BY <1>8, <1>10, <1>11, <1>12

LEMMA StopMediaAhead ==
  ASSUME PathInv, PathInv', NEW d \in Devices, StopMedia(d)
  PROVE  Ordered
<1> DEFINE active == bt_media_clear_all_media_type
           h      == Head(mailbox)
<1>1. ManagerOK(media_active, media_curr_sbc, curr_active_media)
  BY PartsLemma DEF ManagerInv
<1>2. /\ ~On(active, "MEDIA")
      /\ \A t \in {"SBC", "VOICE"} :
           /\ On(active, t) <=> On(media_active, t)
           /\ \A e \in Devices : t \in active[e] <=> t \in media_active[e]
  BY <1>1, ClearedLemma DEF bt_media_clear_all_media_type, ManagerOK
<1>3. /\ media_active' = active /\ media_curr_sbc' = media_curr_sbc
      /\ UNCHANGED <<audio_list, gStreamplayer, stop_proc, sample_rate>>
      /\ Next_is("AUDIO_MANAGE", "STOP", "MEDIA")
  BY DEF StopMedia, Request, audio
<1>4. \A e : h \notin SbcStarts(e) /\ h \notin SbcStops(e)
  BY <1>3, ManagerKind
<1>5. On(active, "SBC") => /\ media_curr_sbc \in Devices
                           /\ ActiveSbcDevice(active, media_curr_sbc) = media_curr_sbc
  BY <1>1, <1>2, ActiveSbcLemma DEF ManagerOK
<1> HIDE DEF h
<1>6. /\ On(active, "VOICE") => curr_active_media \in {"VOICE", "MEDIA"}
      /\ ~On(active, "VOICE") /\ ~On(active, "SBC") => curr_active_media \in {"0", "MEDIA"}
  BY <1>1, <1>2 DEF ManagerOK
<1>7. \/ /\ Handled(<<>>) /\ curr_active_media' # "SBC"
         /\ \/ curr_active_media' = curr_active_media
            \/ /\ curr_active_media \notin {"VOICE", "SBC"}
               /\ curr_active_media' \notin {"VOICE", "SBC"}
      \/ Handled(<<Open("HFP_PCM")>>) /\ curr_active_media' = "VOICE"
      \/ /\ Handled(PlayMusic(media_curr_sbc)) /\ curr_active_media' = "SBC"
         /\ media_curr_sbc \in Devices
  <2> HIDE DEF active
  <2> QED BY <1>5, <1>6 DEF StopMedia, Stay, Switch, active
<1>8. \A e \in Devices :
        /\ h \in SbcStops(e) => "SBC" \notin active[e]
        /\ h \notin SbcStarts(e) => ("SBC" \in active[e] => "SBC" \in media_active[e])
  BY <1>2, <1>4
<1> HIDE DEF active
<1>9. CASE /\ Handled(<<>>) /\ curr_active_media' # "SBC"
           /\ \/ curr_active_media' = curr_active_media
              \/ /\ curr_active_media \notin {"VOICE", "SBC"}
                 /\ curr_active_media' \notin {"VOICE", "SBC"}
  <2>1. Orders(h, <<>>)
    BY <1>2, <1>3, <1>8, <1>9, NoOrder DEF Orders
  <2> QED BY <1>9, <2>1, NoOrder DEF Ordered, h
<1>10. CASE Handled(<<Open("HFP_PCM")>>) /\ curr_active_media' = "VOICE"
  <2> DEFINE q == <<>> \o <<Open("HFP_PCM")>>
  <2>1. q \in Seq(AudioRequests) /\ StreamOrder(curr_active_media, "VOICE", q)
    BY NoOrder, OpeningLemma
  <2>2. Handled(q)
    BY <1>10, ShortLemma
  <2> HIDE DEF q
  <2>3. Orders(h, q)
    BY <1>2, <1>3, <1>8, <1>10, <2>1 DEF Orders
  <2> QED BY <2>1, <2>2, <2>3 DEF Ordered, h
<1>11. CASE /\ Handled(PlayMusic(media_curr_sbc)) /\ curr_active_media' = "SBC"
            /\ media_curr_sbc \in Devices
  <2> DEFINE q == PlayMusic(media_curr_sbc)
  <2>1. /\ q \in Seq(AudioRequests)
        /\ Since(q, Len(q), OpensOf("A2DP_SBC"), Disturbs)
        /\ Since(q, Len(q), SetupsOf(media_curr_sbc), Setups)
    BY <1>11, OrderLemma
  <2>2. Handled(q)
    BY <1>11
  <2> HIDE DEF q
  <2>3. StreamOrder(curr_active_media, "SBC", q)
    BY <2>1, StreamNames DEF StreamOrder
  <2>4. Orders(h, q)
    BY <1>2, <1>3, <1>8, <1>11, <2>1, <2>3 DEF Orders
  <2> QED BY <2>1, <2>2, <2>4 DEF Ordered, h
<1> QED BY <1>7, <1>9, <1>10, <1>11

LEMMA StopVoiceAhead ==
  ASSUME PathInv, PathInv', NEW d \in Devices, StopVoice(d)
  PROVE  Ordered
<1> DEFINE active == Deactivated("VOICE", d)
           h      == Head(mailbox)
           front  == <<Close("HFP_PCM")>>
<1>1. /\ ManagerOK(media_active, media_curr_sbc, curr_active_media)
      /\ ManagerAfter /\ halted' \in {"no", "app_audio_list_append"}
  BY PartsLemma, AfterLemma DEF ManagerInv
<1>2. /\ media_active \in [Devices -> SUBSET StreamTypes]
      /\ "SBC" \in StreamTypes /\ "MEDIA" \in StreamTypes /\ "VOICE" \in StreamTypes
  BY <1>1 DEF ManagerOK, StreamTypes
<1>3. /\ On(active, "MEDIA") <=> On(media_active, "MEDIA")
      /\ On(active, "SBC") <=> On(media_active, "SBC")
      /\ On(active, "VOICE") => On(media_active, "VOICE")
      /\ \A e \in Devices : "SBC" \in active[e] <=> "SBC" \in media_active[e]
  <2>1. On(active, "VOICE") => On(media_active, "VOICE")
    BY <1>2 DEF On, Deactivated
  <2> QED BY <1>2, <2>1, DeactivatedLemma
<1>4. /\ media_active' = active /\ media_curr_sbc' = media_curr_sbc
      /\ UNCHANGED <<audio_list, gStreamplayer, stop_proc, sample_rate>>
      /\ Next_is("AUDIO_MANAGE", "STOP", "VOICE")
  BY DEF StopVoice, Request, audio
<1>5. h \notin MediaStops /\ \A e : h \notin SbcStarts(e) /\ h \notin SbcStops(e)
  BY <1>4, ManagerKind
<1>6. On(active, "SBC") => /\ media_curr_sbc \in Devices
                           /\ ActiveSbcDevice(active, media_curr_sbc) = media_curr_sbc
  BY <1>1, <1>3, ActiveSbcLemma DEF ManagerOK
<1> HIDE DEF h
<1>7. /\ On(active, "MEDIA") <=> curr_active_media = "MEDIA"
      /\ ~On(active, "MEDIA") /\ On(active, "VOICE") => curr_active_media = "VOICE"
      /\ ~On(active, "MEDIA") /\ ~On(active, "SBC") => curr_active_media \in {"0", "VOICE"}
  BY <1>1, <1>3 DEF ManagerOK
<1>8. \/ /\ Handled(<<>>) /\ curr_active_media' = curr_active_media
         /\ curr_active_media # "SBC"
      \/ /\ Handled(front \o PlayMusic(media_curr_sbc)) /\ curr_active_media' = "SBC"
         /\ media_curr_sbc \in Devices /\ ~On(active, "MEDIA")
      \/ /\ Handled(front) /\ curr_active_media' = "0" /\ curr_active_media \in {"0", "VOICE"}
         /\ ~On(active, "MEDIA")
  <2> HIDE DEF active, front
  <2> QED BY <1>6, <1>7 DEF StopVoice, Stay, Switch, active, front
<1>9. \A e \in Devices :
        /\ h \in SbcStops(e) => "SBC" \notin active[e]
        /\ h \notin SbcStarts(e) => ("SBC" \in active[e] => "SBC" \in media_active[e])
  BY <1>3, <1>5
<1> HIDE DEF active
<1>10. CASE /\ Handled(<<>>) /\ curr_active_media' = curr_active_media
            /\ curr_active_media # "SBC"
  <2>1. Orders(h, <<>>)
    BY <1>3, <1>4, <1>5, <1>9, <1>10, NoOrder DEF Orders
  <2> QED BY <1>10, <2>1, NoOrder DEF Ordered, h
<1>11. front \in Seq(AudioRequests) /\ Never(front, Len(front), StreamOpens)
  BY StreamNames
<1>12. CASE /\ Handled(front \o PlayMusic(media_curr_sbc)) /\ curr_active_media' = "SBC"
            /\ media_curr_sbc \in Devices /\ ~On(active, "MEDIA")
  <2> DEFINE q == front \o PlayMusic(media_curr_sbc)
  <2> HIDE DEF front
  <2>1. /\ q \in Seq(AudioRequests) /\ StreamOrder(curr_active_media, "SBC", q)
        /\ Since(q, Len(q), SetupsOf(media_curr_sbc), Setups)
    BY <1>11, <1>12, OpeningLemma
  <2>2. Handled(q)
    BY <1>12
  <2> HIDE DEF q
  <2>3. Orders(h, q)
    BY <1>4, <1>9, <1>12, <2>1 DEF Orders
  <2> QED BY <2>1, <2>2, <2>3 DEF Ordered, h
<1>13. CASE /\ Handled(front) /\ curr_active_media' = "0"
            /\ curr_active_media \in {"0", "VOICE"} /\ ~On(active, "MEDIA")
  <2>1. StreamOrder(curr_active_media, "0", front)
    <3>1. CASE curr_active_media = "VOICE"
      BY <3>1, StreamNames, NoOrder, ClosingLemma
    <3>2. CASE curr_active_media = "0"
      BY <1>11, <3>2 DEF StreamOrder
    <3> QED BY <1>13, <3>1, <3>2
  <2> HIDE DEF front
  <2>2. Orders(h, front)
    BY <1>4, <1>9, <1>13, <2>1 DEF Orders
  <2> QED BY <1>11, <1>13, <2>2 DEF Ordered, h
<1> QED BY <1>8, <1>10, <1>12, <1>13

LEMMA StopPromptsAhead ==
  ASSUME PathInv, NEW op \in {"STOP_MEDIA", "SWITCHTO_SCO"}, StopPrompts(op)
  PROVE  Ordered
<1> DEFINE h == Head(mailbox)
<1>1. Next_is("AUDIO_MANAGE", op, "VOICE")
  BY DEF StopPrompts
<1>2. h \notin MediaStops /\ \A e : h \notin SbcStarts(e) /\ h \notin SbcStops(e)
  BY <1>1, ManagerKind
<1>3. ManagerOK(media_active, media_curr_sbc, curr_active_media)
  BY PartsLemma DEF ManagerInv
<1> HIDE DEF h
<1>4. CASE Handled(<<>>) /\ UNCHANGED <<audio, manager>>
  <2>1. UNCHANGED <<audio_list, gStreamplayer, stop_proc, sample_rate,
                    media_active, media_curr_sbc, curr_active_media>>
    BY <1>4 DEF audio, manager
  <2>2. Orders(h, <<>>)
    BY <1>2, <2>1, NoOrder DEF Orders
  <2> QED BY <1>4, <2>2, NoOrder DEF Ordered, h
<1>5. CASE StopAllMedia /\ On(media_active, "MEDIA")
  <2> DEFINE active == bt_media_clear_all_media_type
             front  == <<Close("PLAY_BACK")>>
  <2>1. /\ ~On(active, "MEDIA")
        /\ \A t \in {"SBC", "VOICE"} :
             /\ On(active, t) <=> On(media_active, t)
             /\ \A e \in Devices : t \in active[e] <=> t \in media_active[e]
    BY <1>3, ClearedLemma DEF bt_media_clear_all_media_type, ManagerOK
  <2>2. /\ media_active' = active /\ media_curr_sbc' = media_curr_sbc /\ audio_list' = <<>>
        /\ UNCHANGED <<gStreamplayer, stop_proc, sample_rate>>
    BY <1>5 DEF StopAllMedia, audio_list_clear
  <2>3. On(active, "SBC") => /\ media_curr_sbc \in Devices
                             /\ ActiveSbcDevice(active, media_curr_sbc) = media_curr_sbc
    BY <1>3, <2>1, ActiveSbcLemma DEF ManagerOK
  <2>4. curr_active_media = "MEDIA"
    BY <1>3, <1>5 DEF ManagerOK
  <2>5. \/ Handled(front \o <<Open("HFP_PCM")>>) /\ curr_active_media' = "VOICE"
        \/ /\ Handled(front \o PlayMusic(media_curr_sbc)) /\ curr_active_media' = "SBC"
           /\ media_curr_sbc \in Devices
        \/ Handled(front) /\ curr_active_media' = "0"
    <3> HIDE DEF active, front
    <3> QED BY <1>5, <2>3, <2>4 DEF StopAllMedia, Switch, active, front
  <2>6. \A e \in Devices :
          /\ h \in SbcStops(e) => "SBC" \notin active[e]
          /\ h \notin SbcStarts(e) => ("SBC" \in active[e] => "SBC" \in media_active[e])
    BY <1>2, <2>1
  <2>7. /\ front \in Seq(AudioRequests) /\ Never(front, Len(front), StreamOpens)
        /\ Some(front, PromptCloses)
    BY StreamNames
  <2>8. /\ <<Open("HFP_PCM")>> \in Seq(AudioRequests)
        /\ \A e \in Devices : PlayMusic(e) \in Seq(AudioRequests)
    <3>1. Open("HFP_PCM") \in AudioRequests
      BY OrderLemma DEF Players
    <3> QED BY <3>1, OrderLemma, AudioRequestsLemma
  <2> HIDE DEF active, front
  <2>9. \A back \in Seq(AudioRequests) : Some(front \o back, PromptCloses)
    BY <2>7, ConcatLemma
  <2>10. CASE Handled(front \o <<Open("HFP_PCM")>>) /\ curr_active_media' = "VOICE"
    <3> DEFINE q == front \o <<Open("HFP_PCM")>>
    <3>1. /\ q \in Seq(AudioRequests) /\ StreamOrder(curr_active_media, "VOICE", q)
          /\ Some(q, PromptCloses)
      BY <2>7, <2>8, <2>9, OpeningLemma
    <3>2. Handled(q)
      BY <2>10
    <3> HIDE DEF q
    <3>3. Orders(h, q)
      BY <2>1, <2>2, <2>4, <2>6, <2>10, <3>1 DEF Orders
    <3> QED BY <3>1, <3>2, <3>3 DEF Ordered, h
  <2>11. CASE /\ Handled(front \o PlayMusic(media_curr_sbc)) /\ curr_active_media' = "SBC"
              /\ media_curr_sbc \in Devices
    <3> DEFINE q == front \o PlayMusic(media_curr_sbc)
    <3>1. /\ q \in Seq(AudioRequests) /\ StreamOrder(curr_active_media, "SBC", q)
          /\ Some(q, PromptCloses) /\ Since(q, Len(q), SetupsOf(media_curr_sbc), Setups)
      BY <2>7, <2>8, <2>9, <2>11, OpeningLemma
    <3>2. Handled(q)
      BY <2>11
    <3> HIDE DEF q
    <3>3. Orders(h, q)
      BY <2>1, <2>2, <2>4, <2>6, <2>11, <3>1 DEF Orders
    <3> QED BY <3>1, <3>2, <3>3 DEF Ordered, h
  <2>12. CASE Handled(front) /\ curr_active_media' = "0"
    <3>1. StreamOrder(curr_active_media, "0", front)
      BY <2>4, <2>7 DEF StreamOrder
    <3>2. Orders(h, front)
      BY <2>1, <2>2, <2>4, <2>6, <2>7, <2>12, <3>1 DEF Orders
    <3> QED BY <2>7, <2>12, <3>2 DEF Ordered, h
  <2> QED BY <2>5, <2>10, <2>11, <2>12
<1> QED BY <1>4, <1>5 DEF StopPrompts

LEMMA HandleManagerAhead ==
  ASSUME PathInv, PathInv', AheadInv, HandleManager
  PROVE  AheadInv'
<1>1. UNCHANGED <<phone, callback>> /\ app_audio_manager_handle_process
  BY DEF HandleManager
<1>2. Ordered
  BY <1>1, StartSbcAhead, StartMediaAhead, StartVoiceAhead, StopSbcAhead, StopMediaAhead,
     StopVoiceAhead, StopPromptsAhead DEF app_audio_manager_handle_process
<1>3. mailbox # <<>> /\ Head(mailbox).mod = "AUDIO_MANAGE"
  BY <1>1 DEF app_audio_manager_handle_process, StartSbc, StartMedia, StartVoice, StopSbc,
     StopMedia, StopVoice, StopPrompts, Request, Next_is
<1> QED BY <1>1, <1>2, <1>3, ManagerAhead DEF Ordered
----------------------------------------------------------------------------
(* The settled states.                                                       *)

LEMMA AheadInit == Init => AheadInv
<1> SUFFICES ASSUME Init PROVE AheadInv
  OBVIOUS
<1>1. /\ mailbox = <<>> /\ callback = <<>> /\ audio_list = <<>> /\ gStreamplayer = "NUM"
      /\ curr_active_media = "0" /\ media_active = [d \in Devices |-> {}]
  BY DEF Init, AudioInit, ManagerInit
<1>2. Len(<<>>) = 0 /\ 1..0 = {} /\ DOMAIN <<>> = {}
  OBVIOUS
<1>3. StreamAhead /\ ~On(media_active, "MEDIA") /\ curr_active_media # "SBC"
  BY <1>1, <1>2 DEF StreamAhead, StreamOK, Free, Never, Streams, On
<1>4. ListPlayer /\ EndAhead /\ CallbackOK
  BY <1>1, <1>2 DEF ListPlayer, Listens, EndAhead, CallbackOK
<1>5. SbcInOrder
  <2>1. \A d \in Devices : media_active[d] = {}
    BY <1>1
  <2> QED BY <1>1, <1>2, <2>1 DEF SbcInOrder, OrderOK, Stopped
<1> QED BY <1>3, <1>4, <1>5 DEF AheadInv, MediaAhead, RateAhead

LEMMA AheadNext == PathInv /\ AheadInv /\ [Next]_vars => AheadInv'
<1> SUFFICES ASSUME PathInv, AheadInv, [Next]_vars PROVE AheadInv'
  OBVIOUS
<1>1. PathInv'
  BY NextLemma
<1>2. CASE UNCHANGED vars
  <2>1. UNCHANGED <<mailbox, audio, manager, phone, callback>>
    BY <1>2 DEF vars
  <2> QED BY <2>1, SameAhead
<1>3. CASE Next
  BY <1>1, <1>3, HandleAudioAhead, HandleManagerAhead, AudioThreadAhead, CallbackAhead,
     EnvironmentAhead DEF Next
<1> QED BY <1>2, <1>3

LEMMA AheadLemma == Spec => [](PathInv /\ AheadInv)
<1>1. Spec => []AheadInv
  BY InvLemma, AheadInit, AheadNext, PTL DEF Spec
<1> QED BY <1>1, InvLemma, PTL

\* With no message left, only the parts without messages remain.
LEMMA SettledLemma ==
  ASSUME PathInv, AheadInv, Running
  PROVE  /\ IF curr_active_media \in {"VOICE", "SBC"}
            THEN /\ gStreamplayer = StreamOf(curr_active_media)
                 /\ audio_list = Alone(gStreamplayer)
            ELSE Free(gStreamplayer, audio_list)
         /\ On(media_active, "MEDIA") => Listens(audio_list)
         /\ curr_active_media = "SBC" => sample_rate = media_curr_sbc
         /\ gStreamplayer = "PLAY_BACK" => ~stop_proc /\ audio_list # <<>>
<1>1. mailbox = <<>> /\ Len(<<>>) = 0 /\ 1..0 = {}
  BY DEF Running
<1>2. /\ \A A, B : ~Since(mailbox, Len(mailbox), A, B) /\ ~Some(mailbox, A)
      /\ \A s : ~GivenUp(mailbox, s, gStreamplayer)
  BY <1>1 DEF Since, Some, GivenUp
<1>3. /\ StreamOK(mailbox, curr_active_media, gStreamplayer, audio_list)
      /\ On(media_active, "MEDIA") => MediaOK(mailbox, audio_list)
      /\ curr_active_media = "SBC" => RateOK(mailbox, sample_rate, media_curr_sbc)
      /\ EndAhead
  BY DEF AheadInv, StreamAhead, MediaAhead, RateAhead
<1> QED BY <1>2, <1>3 DEF StreamOK, MediaOK, RateOK, EndAhead

LEMMA FollowsListLemma == PathInv /\ AheadInv => PlayerFollowsList
<1> SUFFICES ASSUME PathInv, AheadInv, Running
             PROVE  IF audio_list = <<>> THEN gStreamplayer = "NUM"
                    ELSE gStreamplayer = Head(audio_list).id
  BY DEF PlayerFollowsList
<1>1. /\ IF curr_active_media \in {"VOICE", "SBC"}
         THEN gStreamplayer \in Streams /\ audio_list = Alone(gStreamplayer)
         ELSE Free(gStreamplayer, audio_list)
      /\ gStreamplayer = "PLAY_BACK" => audio_list # <<>>
  BY SettledLemma, StreamOfLemma
<1>2. /\ ListOK(audio_list) /\ gStreamplayer \in Players \cup {"NUM"} /\ ListPlayer
  BY PartsLemma, AudioParts DEF PlayerOK, AheadInv
<1>3. /\ DOMAIN audio_list = 1..Len(audio_list) /\ Len(audio_list) \in Nat
      /\ audio_list # <<>> => Len(audio_list) >= 1 /\ Head(audio_list) = audio_list[1]
  BY <1>2, ListFacts
<1>4. \A s : Alone(s) # <<>> /\ DOMAIN Alone(s) = {1} /\ Alone(s)[1].id = s
  BY DEF Alone, Entry
<1>5. CASE audio_list = <<>>
  BY <1>1, <1>2, <1>4, <1>5 DEF Free, Streams, Players
<1>6. CASE audio_list # <<>> /\ curr_active_media \in {"VOICE", "SBC"}
  BY <1>1, <1>3, <1>4, <1>6
<1>7. CASE audio_list # <<>> /\ curr_active_media \notin {"VOICE", "SBC"}
  <2>1. 1 \in DOMAIN audio_list /\ audio_list[1].id = "PLAY_BACK"
    BY <1>1, <1>3, <1>7 DEF Free
  <2> QED BY <1>2, <1>3, <1>7, <2>1 DEF ListPlayer, Listens
<1> QED BY <1>5, <1>6, <1>7

LEMMA WillEndLemma == PathInv /\ AheadInv => MediaWillEnd
<1> SUFFICES ASSUME PathInv, AheadInv, Running, On(media_active, "MEDIA") PROVE Prompted
  BY DEF MediaWillEnd
<1>1. gStreamplayer = "PLAY_BACK"
  BY SettledLemma DEF AheadInv, ListPlayer
<1>2. ~stop_proc
  BY <1>1, SettledLemma
<1>3. isRun = {gStreamplayer} \ {"NUM"}
  BY DEF PathInv, OneOwner
<1> QED BY <1>1, <1>2, <1>3 DEF Prompted

LEMMA HeardLemma == PathInv /\ AheadInv => HeardWhenSettled
<1> SUFFICES ASSUME PathInv, AheadInv, Running, ~Prompted
             PROVE  /\ gStreamplayer = Wanted
                    /\ gStreamplayer = "A2DP_SBC" => sample_rate = media_curr_sbc
  BY DEF HeardWhenSettled
<1>1. ~On(media_active, "MEDIA")
  BY WillEndLemma DEF MediaWillEnd
<1>2. /\ ManagerOK(media_active, media_curr_sbc, curr_active_media)
      /\ gStreamplayer \in Players \cup {"NUM"} /\ isRun = {gStreamplayer} \ {"NUM"}
  BY PartsLemma, AudioParts DEF PlayerOK, ManagerInv
<1>3. curr_active_media = IF On(media_active, "VOICE") THEN "VOICE"
                          ELSE IF On(media_active, "SBC") THEN "SBC" ELSE "0"
  BY <1>1, <1>2 DEF ManagerOK
<1>4. CASE curr_active_media \in {"VOICE", "SBC"}
  <2>1. gStreamplayer = StreamOf(curr_active_media)
        /\ (curr_active_media = "SBC" => sample_rate = media_curr_sbc)
    BY <1>4, SettledLemma
  <2>2. gStreamplayer = Wanted
    BY <1>3, <1>4, <2>1, StreamNames DEF Wanted
  <2>3. gStreamplayer = "A2DP_SBC" => curr_active_media = "SBC"
    BY <1>4, <2>1, StreamNames
  <2> QED BY <2>1, <2>2, <2>3
<1>5. CASE curr_active_media \notin {"VOICE", "SBC"}
  <2>1. gStreamplayer \notin Streams
    BY <1>5, SettledLemma DEF Free
  <2>2. gStreamplayer # "PLAY_BACK"
    <3>1. SUFFICES ASSUME gStreamplayer = "PLAY_BACK" PROVE FALSE
      OBVIOUS
    <3>2. "PLAY_BACK" \in isRun /\ ~stop_proc
      BY <1>2, <3>1, SettledLemma
    <3> QED BY <3>2 DEF Prompted
  <2>3. gStreamplayer = "NUM"
    BY <1>2, <2>1, <2>2 DEF Players, Streams
  <2>4. Wanted = "NUM"
    BY <1>3, <1>5 DEF Wanted
  <2> QED BY <2>3, <2>4
<1> QED BY <1>4, <1>5

\* Once app_thread has handled every message, the player is the one of the
\* first list entry, although the manager empties the list directly and the
\* player only changes with the messages that follow.
THEOREM PlayerFollowsListTheorem == Spec => []PlayerFollowsList
BY AheadLemma, FollowsListLemma, PTL

\* Once app_thread has handled every message, an active MEDIA means a prompt
\* that plays and whose end is still to be reported.
THEOREM MediaWillEndTheorem == Spec => []MediaWillEnd
BY AheadLemma, WillEndLemma, PTL

\* Once app_thread has handled every message and no prompt plays, the voice of
\* the call is heard, else the music of the current device at its rate.
THEOREM HeardWhenSettledTheorem == Spec => []HeardWhenSettled
BY AheadLemma, HeardLemma, PTL
=============================================================================
