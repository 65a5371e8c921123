------------------------------- MODULE Codec -------------------------------
(* platform/drivers/codec/codec_best1000.c with delayed closing              *)
(* (CODEC_ASYNC_CLOSE): app_thread opens and closes the streams of the       *)
(* codec; the codec itself is switched off by the timer thread, 5 s after    *)
(* the last stream was closed.  analog_aud_coedc_open and _close sleep       *)
(* (osDelay) half way.  The driver votes for its frequency through SysFreq,  *)
(* and holds the audio PLL.                                                  *)
EXTENDS SysFreq

CONSTANTS app, tmr   \* app_thread and osTimerThread

ASSUME ThreadAssumption == {app, tmr} \subseteq Threads /\ app # tmr

VARIABLES
  running,         \* codec_best1000_cfg.running
  stream_running,  \* stream_cfg[stream].running
  timer,           \* CODEC_TIMER is counting
  on,              \* the parts of the codec that are on
  place, stream    \* of the threads: the place in the driver; of app: its stream

driver == <<running, stream_running, timer, on, place, stream>>
codecVars == <<vars, driver>>

AUD_STREAM_T == {"playback", "capture"}
HAL_SYSFREQ_USER_CODEC == 5
ASSUME CodecAssumption ==
  /\ HAL_SYSFREQ_USER_CODEC \in Users \ AppUsers /\ HAL_SYSFREQ_USER_CODEC # BootUser
  /\ <<HAL_SYSFREQ_USER_CODEC, Freq26M>> \in Requests[app]
  /\ <<HAL_SYSFREQ_USER_CODEC, 0>> \in Requests[tmr]
  /\ \A r \in IrqRequests : r[1] # HAL_SYSFREQ_USER_CODEC

Moves(t, there) == place' = [place EXCEPT ![t] = there]
Votes(t, freq) == Begin(t, HAL_SYSFREQ_USER_CODEC, freq)
\* A request of a thread under way, or a request that is not the driver's.
Asks(t) ==
  /\ \/ place[t] = "none" /\ \E r \in Requests[t] : r[1] # HAL_SYSFREQ_USER_CODEC /\ Begin(t, r[1], r[2])
     \/ PowerUp(t) \/ WriteDemand(t) \/ DecideFreq(t) \/ Check(t) \/ PowerDown(t)
  /\ UNCHANGED driver
----------------------------------------------------------------------------
(* app_thread; the audio flinger's lock keeps its calls apart.               *)

Free == place[app] = "none" /\ at[app] = "idle"

\* Mutant: the timer goes on.
codec_best1000_open_KeepTimer(s) ==
  /\ Free /\ ~stream_running[s] /\ stream' = s
  /\ IF running
     THEN Moves(app, "stream") /\ UNCHANGED vars
     ELSE Moves(app, "analog") /\ Votes(app, Freq26M)
  /\ UNCHANGED <<running, stream_running, timer, on>>

codec_best1000_open(s) ==
  /\ Free /\ ~stream_running[s] /\ stream' = s /\ timer' = FALSE
  /\ IF running
     THEN Moves(app, "stream") /\ UNCHANGED vars
     ELSE Moves(app, "analog") /\ Votes(app, Freq26M)
  /\ UNCHANGED <<running, stream_running, on>>

\* analog_aud_pll_open and analog_aud_coedc_open, until it sleeps.
OpenAnalog ==
  /\ place[app] = "analog" /\ at[app] = "idle"
  /\ on' = on \union {"dac"} /\ PllOp(On("aud", "aud")) /\ Moves(app, "hal")
  /\ UNCHANGED <<frequency, at, call, op, running, stream_running, timer, stream>>

\* The rest of it, and hal_codec_open.
OpenHal ==
  /\ place[app] = "hal" /\ on' = on \union {"hal"} /\ running' = TRUE /\ Moves(app, "stream")
  /\ UNCHANGED <<vars, stream_running, timer, stream>>

codec_best1000_stream_open ==
  /\ place[app] = "stream" /\ stream_running' = [stream_running EXCEPT ![stream] = TRUE]
  /\ Moves(app, "none") /\ UNCHANGED <<vars, running, timer, on, stream>>

codec_best1000_stream_close(s) ==
  /\ Free /\ stream_running[s] /\ stream_running' = [stream_running EXCEPT ![s] = FALSE]
  /\ Moves(app, "close") /\ UNCHANGED <<vars, running, timer, on, stream>>

\* Mutant: the delay is not started while the capture stream is set up.
codec_best1000_close_Other ==
  /\ place[app] = "close" /\ Moves(app, "none")
  /\ timer' = (timer \/ (running /\ stream = "playback" /\ \A s \in AUD_STREAM_T : ~stream_running[s]))
  /\ UNCHANGED <<vars, running, stream_running, on, stream>>

codec_best1000_close ==
  /\ place[app] = "close" /\ Moves(app, "none")
  /\ timer' = (timer \/ (running /\ \A s \in AUD_STREAM_T : ~stream_running[s]))
  /\ UNCHANGED <<vars, running, stream_running, on, stream>>
----------------------------------------------------------------------------
(* The timer thread, whose priority is above that of app_thread: app_thread  *)
(* runs only while this one has nothing to do or sleeps.                     *)

Aside == place[tmr] \in {"none", "asleep"}

\* codec_timehandler and codec_best1000_real_close up to the sleep in
\* analog_aud_coedc_close.
codec_timehandler ==
  /\ timer /\ place[tmr] = "none" /\ timer' = FALSE
  /\ IF running THEN on' = on \ {"hal"} /\ Moves(tmr, "asleep") ELSE UNCHANGED <<on, place>>
  /\ UNCHANGED <<vars, running, stream_running, stream>>

\* Mutant: the audio PLL is left held.
RealCloseWakes_KeepPll ==
  /\ place[tmr] = "asleep" /\ Moves(tmr, "off") /\ on' = {}
  /\ UNCHANGED <<vars, running, stream_running, timer, stream>>
\* Mutant: only the PLL is released.
RealCloseWakes_PllOnly ==
  /\ place[tmr] = "asleep" /\ Moves(tmr, "off") /\ PllOp(Off("aud", "aud"))
  /\ UNCHANGED <<frequency, at, call, op, on, running, stream_running, timer, stream>>

\* The rest of analog_aud_coedc_close, and analog_aud_pll_close.
RealCloseWakes ==
  /\ place[tmr] = "asleep" /\ Moves(tmr, "off")
  /\ on' = {} /\ PllOp(Off("aud", "aud"))
  /\ UNCHANGED <<frequency, at, call, op, running, stream_running, timer, stream>>

RealCloseVotes ==
  /\ place[tmr] = "off" /\ Moves(tmr, "vote") /\ Votes(tmr, 0)
  /\ UNCHANGED <<running, stream_running, timer, on, stream>>

RealCloseEnds ==
  /\ place[tmr] = "vote" /\ at[tmr] = "idle" /\ running' = FALSE /\ Moves(tmr, "none")
  /\ UNCHANGED <<vars, stream_running, timer, on, stream>>
----------------------------------------------------------------------------
CodecInit ==
  /\ Init /\ running = FALSE /\ stream_running = [s \in AUD_STREAM_T |-> FALSE] /\ timer = FALSE
  /\ on = {} /\ place = [t \in Threads |-> "none"] /\ stream = "playback"

AppStep ==
  /\ Aside
  /\ \/ Asks(app)
     \/ \E s \in AUD_STREAM_T : codec_best1000_open(s) \/ codec_best1000_stream_close(s)
     \/ OpenAnalog \/ OpenHal \/ codec_best1000_stream_open \/ codec_best1000_close
TimerStep ==
  Asks(tmr) \/ codec_timehandler \/ RealCloseWakes \/ RealCloseVotes \/ RealCloseEnds
CodecNext ==
  \/ AppStep \/ TimerStep
  \/ \E t \in Threads \ {app, tmr} : Asks(t)
  \/ \E r \in IrqRequests : Interrupt(r[1], r[2]) /\ UNCHANGED driver

CodecSpec == CodecInit /\ [][CodecNext]_codecVars

\* The timer expires and its thread and the calls of app_thread go on.
CodecFairSpec == CodecSpec /\ WF_codecVars(TimerStep) /\ WF_codecVars(AppStep /\ ~Free)
----------------------------------------------------------------------------
CodecTypeOK ==
  /\ TypeOK
  /\ running \in BOOLEAN /\ timer \in BOOLEAN /\ stream_running \in [AUD_STREAM_T -> BOOLEAN]
  /\ on \in {{}, {"dac"}, {"dac", "hal"}} /\ stream \in AUD_STREAM_T
  /\ place \in [Threads -> {"none", "analog", "hal", "stream", "close", "asleep", "off", "vote"}]

\* While a part of the codec is on, the driver's demand for 26M stands and the
\* audio PLL is held for it, whatever the other users ask for; it is marked as
\* not running only when it is off and neither is left behind, unless an open
\* is under way.
Provided  == sysfreq_per_user[HAL_SYSFREQ_USER_CODEC] = Freq26M /\ "aud" \in pll_user_map["aud"]
GivenBack == sysfreq_per_user[HAL_SYSFREQ_USER_CODEC] = 0 /\ "aud" \notin pll_user_map["aud"]
VotesFollowCodec ==
  /\ on # {} => Provided
  /\ ~running /\ place[app] \notin {"analog", "hal"} => on = {} /\ GivenBack

\* The delayed close never begins while a stream is open or being opened: the
\* timer is stopped by every open and started by the last close only.
OffWhenClosed ==
  [][ "hal" \in on /\ "hal" \notin on' =>
        place[app] # "stream" /\ \A s \in AUD_STREAM_T : ~stream_running[s] ]_codecVars

\* An open stream has a codec that is switched on (audioflinger.c, "open device
\* and stream").
StreamHasCodec == \A s \in AUD_STREAM_T : stream_running[s] => on = {"dac", "hal"}

\* When streams stay closed, the codec and its demand go in the end.
GoesOff ==
  <>[](\A s \in AUD_STREAM_T : ~stream_running[s]) =>
    <>[](on = {} /\ sysfreq_per_user[HAL_SYSFREQ_USER_CODEC] = 0)
=============================================================================
