---------------------------- MODULE AudioFlinger ----------------------------
(* services/audioflinger/audioflinger.c with the audio DMA of hal_dma.c: the *)
(* application thread opens, starts, stops and closes streams, each played   *)
(* or captured by a DMA channel that runs round two halves of a buffer; the  *)
(* interrupt at the end of a half makes af_thread call the stream's handler  *)
(* for that half.  Stopping the output first waits for af_thread to fade it. *)
(* Codecs and volumes are left out; a stream is numbered id * 2 + stream.    *)
EXTENDS Integers, FiniteSets, Sequences, FiniteSetsExt

CONSTANTS
  Streams,    \* the streams in use; 0 is the output, the one that is faded
  Sessions,   \* names of what the application plays
  Script,     \* for each session, its calls, in order
  FadeCalls,  \* for each session, the half buffers the fade-out takes
  NULL        \* no handler

Output == 0
NoChannel == 255
MaxCount == 4
MaxFaded == 2
Channels == 0..(Cardinality(Streams) - 1)

Requests == [op : {"open", "start", "stop", "close"}, s : Streams]

\* A script opens before it starts, starts a stream once and then stops it, and
\* closes what it has opened, as bt_sbc_player, bt_sco_player and app_play_audio.
InOrder(script) ==
  LET Later(i, op) ==
        \E j \in 1..Len(script) : j > i /\ script[j].op = op /\ script[j].s = script[i].s
  IN  \A i \in 1..Len(script) :
        /\ script[i].op = "start" =>
             /\ Later(i, "stop") /\ ~Later(i, "start")
             /\ \A j \in 1..Len(script) : j > i => script[j].op # "open"
        /\ script[i].op = "open" => Later(i, "close")

ASSUME StreamAssumption ==
  /\ Streams \subseteq Nat /\ IsFiniteSet(Streams) /\ Cardinality(Streams) <= NoChannel
  /\ Output \in Streams
  /\ NULL \notin Sessions
  /\ FadeCalls \in [Sessions -> Nat]
  /\ Script \in [Sessions -> Seq(Requests)] /\ \A name \in Sessions : InOrder(Script[name])

VARIABLES
  session, calls,                    \* what the application plays, and its calls to come
  at,                                \* where it is in the first of them
  status, handler, pp_index, ch,     \* af_stream[id][stream]
  mutex,                             \* audioflinger_mutex: "free", "app" or "af"
  chan_enabled, dma, tc,             \* hal_dma: channels got, their transfers, pending interrupts
  signals, todo, af, half,           \* af_thread: signals set, signals taken, place, its half
  stop_on_process, stop_process_cnt, \* af_stream_fade_out
  need_fadeout, stop_signal,         \* half buffers still to fade; signal 0x10
  faded,                             \* history: the output's calls among those counted, up to MaxFaded
  content,                           \* what the halves of the output's buffer hold
  late,                              \* history: a half ended before af_thread was done with the last
  halted                             \* an ASSERT failed

application == <<session, calls, at>>
roles == <<status, handler, pp_index, ch>>
hal   == <<chan_enabled, dma, tc>>
thread == <<signals, todo, af, half>>
fade  == <<stop_on_process, stop_process_cnt, need_fadeout, stop_signal, faded>>
vars  == <<application, roles, mutex, hal, thread, fade, content, late, halted>>

Idle == [run |-> FALSE, stream |-> Output, half |-> 0]
\* Mutant: the index counts on.
PP_PINGPANG_Count(v) == v + 1

PP_PINGPANG(v) == 1 - v
----------------------------------------------------------------------------
(* The application thread.                                                   *)

Begins(name) ==
  /\ ~halted /\ calls = <<>> /\ calls' = Script[name] /\ session' = name
  /\ UNCHANGED <<at, roles, mutex, hal, thread, fade, content, late, halted>>

Calls(op, s) == ~halted /\ calls # <<>> /\ Head(calls).op = op /\ Head(calls).s = s
Returns == calls' = Tail(calls) /\ at' = "call" /\ UNCHANGED session
Locked(op, s) == Calls(op, s) /\ at = "call" /\ mutex = "free"

\* af_stream_open takes the lock and clears dma_cfg: until it has a channel,
\* the stream names channel 0.
OpenBegins(s) ==
  /\ Locked("open", s)
  /\ status[s] = "OPEN_CLOSE"
  /\ mutex' = "app" /\ at' = "opening"
  /\ ch' = [ch EXCEPT ![s] = 0]
  /\ UNCHANGED <<session, calls, status, handler, pp_index, hal, thread, fade, content, late, halted>>

\* hal_audma_get_chan(HAL_DMA_HIGH_PRIO): the first channel that is not in use.
GetChan == Min({c \in Channels : c \notin chan_enabled /\ ~dma[c].run})

\* The players clear the buffer before they open, af_stream_close clears it again.
Cleared(s) == content' = IF s = Output THEN [h \in {0, 1} |-> "zero"] ELSE content

\* The rest of af_stream_open, under the lock.
OpenEnds(s) ==
  /\ Calls("open", s) /\ at = "opening"
  /\ ch' = [ch EXCEPT ![s] = GetChan] /\ chan_enabled' = chan_enabled \cup {GetChan}
  /\ handler' = [handler EXCEPT ![s] = session]
  /\ status' = [status EXCEPT ![s] = "STREAM_OPEN_CLOSE"]
  /\ Cleared(s)
  /\ mutex' = "free" /\ Returns
  /\ UNCHANGED <<pp_index, dma, tc, thread, fade, late, halted>>

\* af_stream_start: the DMA begins with the first half.
Start(s) ==
  /\ Locked("start", s)
  /\ status[s] = "STREAM_OPEN_CLOSE"
  /\ dma' = [dma EXCEPT ![ch[s]] = [run |-> TRUE, stream |-> s, half |-> 0]]
  /\ tc' = tc \ {ch[s]}
  /\ status' = [status EXCEPT ![s] = "STREAM_START_STOP"]
  /\ Returns
  /\ UNCHANGED <<handler, pp_index, ch, mutex, chan_enabled, thread, fade, content, late, halted>>

\* Mutant: the pending interrupt is not cleared.
hal_dma_cancel_Pending(c) == dma' = [dma EXCEPT ![c].run = FALSE] /\ tc' = tc

hal_dma_cancel(c) == dma' = [dma EXCEPT ![c].run = FALSE] /\ tc' = tc \ {c}

\* af_stream_stop of a stream that is not faded.
Stop(s) ==
  /\ Locked("stop", s) /\ s # Output
  /\ status[s] = "STREAM_START_STOP"
  /\ hal_dma_cancel(ch[s])
  /\ status' = [status EXCEPT ![s] = "STREAM_OPEN_CLOSE"]
  /\ Returns
  /\ UNCHANGED <<handler, pp_index, ch, mutex, chan_enabled, thread, fade, content, late, halted>>

\* Mutant: the signal of an earlier stop is kept.
StopRequested_KeepSignal ==
  /\ Locked("stop", Output)
  /\ status[Output] = "STREAM_START_STOP"
  /\ need_fadeout' = FadeCalls[session] /\ stop_on_process' = TRUE
  /\ at' = "waiting"
  /\ UNCHANGED <<session, calls, roles, mutex, hal, thread, stop_process_cnt, stop_signal,
                 faded, content, late, halted>>

\* Mutant: the application waits with the lock held.
StopRequested_Locked ==
  /\ Locked("stop", Output)
  /\ status[Output] = "STREAM_START_STOP"
  /\ need_fadeout' = FadeCalls[session] /\ stop_on_process' = TRUE /\ stop_signal' = FALSE
  /\ at' = "waiting" /\ mutex' = "app"
  /\ UNCHANGED <<session, calls, roles, hal, thread, stop_process_cnt, faded, content, late, halted>>

\* af_stream_fadeout_start and the request of af_stream_stop_wait_finish.
StopRequested ==
  /\ Locked("stop", Output)
  /\ status[Output] = "STREAM_START_STOP"
  /\ need_fadeout' = FadeCalls[session] /\ stop_on_process' = TRUE /\ stop_signal' = FALSE
  /\ at' = "waiting"
  /\ UNCHANGED <<session, calls, roles, mutex, hal, thread, stop_process_cnt, faded, content, late,
                 halted>>

\* The signal comes, or not within 300 ms.
StopSignalled ==
  /\ ~halted /\ at = "waiting" /\ stop_signal
  /\ stop_signal' = FALSE /\ at' = "signalled"
  /\ UNCHANGED <<session, calls, roles, mutex, hal, thread, stop_on_process,
                 stop_process_cnt, need_fadeout, faded, content, late, halted>>
StopTimeout ==
  /\ ~halted /\ at = "waiting"
  /\ at' = "timeout"
  /\ UNCHANGED <<session, calls, roles, mutex, hal, thread, fade, content, late, halted>>

\* The rest of af_stream_stop, with af_stream_fadeout_stop.
StopFinished ==
  /\ ~halted /\ at \in {"signalled", "timeout"} /\ mutex = "free"
  /\ hal_dma_cancel(ch[Output])
  /\ stop_on_process' = FALSE /\ stop_process_cnt' = 0 /\ faded' = 0
  /\ status' = [status EXCEPT ![Output] = "STREAM_OPEN_CLOSE"]
  /\ Returns
  /\ UNCHANGED <<handler, pp_index, ch, mutex, chan_enabled, thread, need_fadeout,
                 stop_signal, content, late, halted>>

\* Mutant: the stream keeps its place in the buffer.
Close_KeepIndex(s) ==
  /\ Locked("close", s)
  /\ status[s] = "STREAM_OPEN_CLOSE"
  /\ hal_dma_cancel(ch[s]) /\ chan_enabled' = chan_enabled \ {ch[s]}
  /\ handler' = [handler EXCEPT ![s] = NULL]
  /\ ch' = [ch EXCEPT ![s] = NoChannel]
  /\ status' = [status EXCEPT ![s] = "OPEN_CLOSE"]
  /\ Cleared(s) /\ Returns
  /\ UNCHANGED <<pp_index, mutex, thread, fade, late, halted>>

\* Mutant: without the lock.
Close_Unlocked(s) ==
  /\ Calls("close", s) /\ at = "call"
  /\ status[s] = "STREAM_OPEN_CLOSE"
  /\ hal_dma_cancel(ch[s]) /\ chan_enabled' = chan_enabled \ {ch[s]}
  /\ handler' = [handler EXCEPT ![s] = NULL]
  /\ pp_index' = [pp_index EXCEPT ![s] = 0]
  /\ ch' = [ch EXCEPT ![s] = NoChannel]
  /\ status' = [status EXCEPT ![s] = "OPEN_CLOSE"]
  /\ Cleared(s) /\ Returns
  /\ UNCHANGED <<mutex, thread, fade, late, halted>>

\* af_stream_close
Close(s) ==
  /\ Locked("close", s)
  /\ status[s] = "STREAM_OPEN_CLOSE"
  /\ hal_dma_cancel(ch[s]) /\ chan_enabled' = chan_enabled \ {ch[s]}
  /\ handler' = [handler EXCEPT ![s] = NULL]
  /\ pp_index' = [pp_index EXCEPT ![s] = 0]
  /\ ch' = [ch EXCEPT ![s] = NoChannel]
  /\ status' = [status EXCEPT ![s] = "OPEN_CLOSE"]
  /\ Cleared(s) /\ Returns
  /\ UNCHANGED <<mutex, thread, fade, late, halted>>
----------------------------------------------------------------------------
(* The DMA and its interrupt, which comes before the next half ends.         *)

Processed(s) == s \notin signals \cup todo

HalfEnds(c) ==
  /\ dma[c].run /\ c \notin tc
  /\ dma' = [dma EXCEPT ![c].half = 1 - @]
  /\ tc' = tc \cup {c} /\ late' = (late \/ ~Processed(dma[c].stream))
  /\ UNCHANGED <<application, roles, mutex, chan_enabled, thread, fade, content, halted>>

RolesOf(c) == {s \in Streams : ch[s] = c}

\* af_dma_irq_handler: the first stream that names the channel.
af_dma_irq_handler(c) ==
  /\ ~halted /\ c \in tc
  /\ tc' = tc \ {c}
  /\ IF RolesOf(c) = {}
     THEN halted' = TRUE /\ UNCHANGED <<pp_index, signals>>
     ELSE LET s == Min(RolesOf(c)) IN
          /\ pp_index' = [pp_index EXCEPT ![s] = PP_PINGPANG(@)]
          /\ signals' = signals \cup {s}
          /\ UNCHANGED halted
  /\ UNCHANGED <<application, status, handler, ch, mutex, chan_enabled, dma, todo, af, half,
                 fade, content, late>>
----------------------------------------------------------------------------
(* af_thread                                                                 *)

SignalWait ==
  /\ ~halted /\ af = "wait" /\ signals # {}
  /\ todo' = signals /\ signals' = {} /\ af' = "scan"
  /\ UNCHANGED <<application, roles, mutex, hal, half, fade, content, late, halted>>

\* Mutant: the half that is being transferred.
HalfToProcess_Other(s) == pp_index[s]

HalfToProcess(s) == PP_PINGPANG(pp_index[s])

\* The handler is called under the lock; a closed stream has none.
HandlerCalled ==
  /\ ~halted /\ af = "scan" /\ mutex = "free"
  /\ LET s == Min(todo) IN
     /\ half' = HalfToProcess(s)
     /\ IF handler[s] # NULL THEN mutex' = "af" /\ af' = "handler"
        ELSE af' = "stop_process" /\ UNCHANGED mutex
  /\ UNCHANGED <<application, roles, hal, signals, todo, fade, content, late, halted>>

\* It has filled its half; the half to fade is found after the unlock.
HandlerReturns ==
  /\ ~halted /\ af = "handler"
  /\ content' = IF Min(todo) = Output THEN [content EXCEPT ![half] = "sound"] ELSE content
  /\ half' = HalfToProcess(Min(todo))
  /\ mutex' = "free" /\ af' = "stop_process"
  /\ UNCHANGED <<application, roles, hal, signals, todo, fade, late, halted>>

Faded == stop_process_cnt > 3

\* af_stream_stop_process, whatever the stream.  MaxCount is a bound: counts
\* above 3 are alike, and the 8 bits wrap long after the application is woken.
StopProcess ==
  /\ ~halted /\ af = "stop_process" /\ mutex = "free"
  /\ IF stop_on_process
     THEN /\ content' = IF Min(todo) # Output THEN content
                        ELSE [content EXCEPT ![half] = IF need_fadeout = 0 THEN "zero" ELSE "fading"]
          /\ need_fadeout' = IF need_fadeout = 0 THEN 0 ELSE need_fadeout - 1
          /\ stop_signal' = (stop_signal \/ Faded)
          /\ stop_process_cnt' = IF Faded THEN MaxCount ELSE stop_process_cnt + 1
          /\ faded' = IF Min(todo) = Output /\ faded < MaxFaded THEN faded + 1 ELSE faded
     ELSE UNCHANGED <<content, need_fadeout, stop_signal, stop_process_cnt, faded>>
  /\ todo' = todo \ {Min(todo)}
  /\ af' = IF todo' = {} THEN "wait" ELSE "scan"
  /\ UNCHANGED <<application, roles, mutex, hal, signals, half, stop_on_process, late, halted>>

af_thread == SignalWait \/ HandlerCalled \/ HandlerReturns \/ StopProcess
----------------------------------------------------------------------------
Application ==
  \/ \E name \in Sessions : Begins(name)
  \/ \E s \in Streams : OpenBegins(s) \/ OpenEnds(s) \/ Start(s) \/ Stop(s) \/ Close(s)
  \/ StopRequested \/ StopSignalled \/ StopTimeout \/ StopFinished
Dma == \E c \in Channels : HalfEnds(c) \/ af_dma_irq_handler(c)

\* af_open
Init ==
  /\ session = NULL /\ calls = <<>> /\ at = "call"
  /\ status = [s \in Streams |-> "OPEN_CLOSE"] /\ handler = [s \in Streams |-> NULL]
  /\ pp_index = [s \in Streams |-> 0] /\ ch = [s \in Streams |-> NoChannel]
  /\ mutex = "free"
  /\ chan_enabled = {} /\ dma = [c \in Channels |-> Idle] /\ tc = {}
  /\ signals = {} /\ todo = {} /\ af = "wait" /\ half = 0
  /\ stop_on_process = FALSE /\ stop_process_cnt = 0 /\ need_fadeout = 0
  /\ stop_signal = FALSE /\ faded = 0 /\ content = [h \in {0, 1} |-> "zero"] /\ late = FALSE /\ halted = FALSE

Next == Application \/ Dma \/ af_thread

Spec == Init /\ [][Next]_vars

\* The DMA goes on, its interrupts are taken and af_thread runs.
Fairness == /\ \A c \in Channels : WF_vars(HalfEnds(c)) /\ WF_vars(af_dma_irq_handler(c))
            /\ WF_vars(af_thread) /\ WF_vars(StopSignalled)
FairSpec == Spec /\ Fairness
----------------------------------------------------------------------------
(* Properties.                                                               *)

TypeOK ==
  /\ status \in [Streams -> {"OPEN_CLOSE", "STREAM_OPEN_CLOSE", "STREAM_START_STOP"}]
  /\ handler \in [Streams -> Sessions \cup {NULL}] /\ pp_index \in [Streams -> {0, 1}]
  /\ ch \in [Streams -> Channels \cup {NoChannel}] /\ chan_enabled \subseteq Channels
  /\ dma \in [Channels -> [run : BOOLEAN, stream : Streams, half : {0, 1}]]
  /\ tc \subseteq Channels /\ signals \subseteq Streams /\ todo \subseteq Streams
  /\ at \in {"call", "opening", "waiting", "signalled", "timeout"}
  /\ af \in {"wait", "scan", "handler", "stop_process"} /\ (af # "wait" => todo # {})
  /\ mutex \in {"free", "app", "af"} /\ half \in {0, 1}
  /\ stop_on_process \in BOOLEAN /\ stop_process_cnt \in 0..MaxCount /\ need_fadeout \in Nat
  /\ faded \in 0..MaxFaded
  /\ {stop_signal, late, halted} \subseteq BOOLEAN
  /\ content \in [{0, 1} -> {"sound", "fading", "zero"}]

\* "invalid dma irq" (af_dma_irq_handler) never happens, and every pending
\* interrupt is given to the stream whose transfer raised it.
IrqFindsStream ==
  /\ ~halted
  /\ \A c \in tc : RolesOf(c) # {} /\ Min(RolesOf(c)) = dma[c].stream

\* The ping-pong index of a stream that runs follows the DMA: it names the
\* half in transfer, or the other one while the interrupt is pending; it starts
\* again at PING when the stream is closed (af_stream_close), so that this
\* holds for the stream that is opened next.
InStep ==
  \A s \in Streams :
    IF status[s] = "STREAM_START_STOP"
    THEN LET d == dma[ch[s]] IN
         d.run /\ d.stream = s /\ pp_index[s] = (IF ch[s] \in tc THEN 1 - d.half ELSE d.half)
    ELSE status[s] = "OPEN_CLOSE" => pp_index[s] = 0

\* Interrupts, streams and buffers agree: each interrupt moves the index of its
\* own stream, one half at a time (af_dma_irq_handler, af_stream_stop and close).
IrqsInStep == IrqFindsStream /\ InStep

\* While a handler runs, the stream stays open with the buffer it was given
\* (af_thread holds the lock that af_stream_close takes).
HandlerOwnsBuffer == af = "handler" => handler[Min(todo)] # NULL

\* If af_thread keeps pace, no handler touches the half in transfer, not even
\* when a signal of a stream that was closed meets the next one.
HalfIsFree ==
  LET s == Min(todo) IN
  ~late /\ af = "handler" /\ status[s] = "STREAM_START_STOP" => dma[ch[s]].half # half

\* A handler writes only to a buffer its stream owns, and there not into the
\* half in transfer (af_thread).
HandlerKeepsClear == HandlerOwnsBuffer /\ HalfIsFree

\* If af_thread keeps pace, a stop that does not time out ends while the output
\* plays a half that was faded out, provided that two of the calls counted were
\* the output's own (af_stream_stop_process counts those of every stream).
FadedIsQuiet ==
  ~late /\ at = "signalled" /\ faded = MaxFaded => content[dma[ch[Output]].half] # "sound"

\* An output that runs alone needs no such premise, whatever signals are left of
\* streams closed before.  In a call it does: the voice streams are stopped
\* after the output, and their calls may use up the five that are counted.
AloneIsQuiet ==
  ~late /\ at = "signalled" /\ chan_enabled = {ch[Output]} =>
    content[dma[ch[Output]].half] # "sound"

\* What a stop of the output promises (af_stream_stop_wait_finish).
StopIsQuiet == FadedIsQuiet /\ AloneIsQuiet

\* What it takes for that when the output runs alone: the calls of every stream
\* are counted, those of closed streams too, and the fifth signals.  The players
\* open four streams at most (bt_sco_player, app_bt_stream.cpp).
FewStreams == Cardinality(Streams) <= 4

\* The wait of af_stream_stop_wait_finish ends without its timeout as long as
\* the output's DMA and af_thread run.
StopEnds == at = "waiting" ~> at # "waiting"
=============================================================================
