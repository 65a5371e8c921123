# TLA+ models of the best1000 headset firmware

The repository is the firmware of a Bluetooth headset on the BES best1000 chip
(two products, `config/1more_bt` and `config/1more_btusb`). This directory holds
TLA+ models of the parts of it whose correctness depends on the order in which
threads, interrupts, the other processor and callbacks act, the TLC
configurations that check them, and proofs of their main invariants for TLAPS.

`tlc -config X.cfg M` checks a configuration of the MC module M, `tlapm
M_proofs.tla` checks the proofs of a module. All source lines are of the commit
the models were written from; PROJECT.json maps every definition to its lines.

## 1. The system

### Threads, interrupts, processors

The headset runs on an RTX kernel. The Bluetooth stack (closed source, its
callbacks are in `services/bt_app`) runs in the Bluetooth thread (`IabtThread`).
Everything the user hears is decided in `app_thread`, which takes messages from
one mailbox. `af_thread` moves sound between buffers and the audio DMA. These
three have the same priority and share time in slices, so that any of them may
be stopped between any two statements. `osTimerThread` and the thread that
receives from the Bluetooth processor have a higher priority. Interrupts
(hardware timer, DMA, mailbox between the processors, ADC, GPIO) preempt all of
them. A second processor runs the Bluetooth controller.

### Components

State, operations, interaction, what makes it hard, and what makes it correct.

**Hardware timer list** (`utils/hwtimer_list`, `platform/hal/hal_timer.c`).
State: a delta list of active timers, a list of fired ones, a pool, the counter
of the one hardware timer. Operations: alloc, free, start, stop, restart, update,
the interrupt handler. Callbacks run with interrupts unmasked, and any interrupt
or thread may operate on any timer meanwhile. Correct: every timer is where its
state says; the hardware counts for the head of the list; no timer is planned later
than what the driver rounds up;
every timer fires and gets its callback.

**app_thread and its mailbox** (`apps/common/app_thread.c`). A FIFO of 20
messages; handlers of the modules are called one after the other.

**Media manager** (`services/bt_app/app_bt_media_manager.cpp`). State: which of
music, prompt and voice is active for each of two phones, whose music is current,
what is heard. It is told by messages from the Bluetooth thread (A2DP and HFP
callbacks), keys, battery, and by the audio module when a prompt has ended; it
sends requests to the audio module through the same mailbox. Hard: its state is
an idea of what the audio module will do later, and call state is read when a
message is handled, not when it was sent. Correct: what is heard is the active
type of the highest priority, and a prompt always ends.

**Audio requests and stream players** (`apps/audioplayers/app_audio.cpp`,
`services/bt_app/app_bt_stream.cpp`, `app_media_player.cpp`). State: the list of
what is to be played, the player that owns the stream. Correct: one player at a
time; the player is that of the first entry.

**Audio flinger** (`services/audioflinger`). State: for every stream its status,
DMA channel and ping-pong index; the fade-out handshake. Operations: open, start,
stop (with fade-out), close, the DMA interrupt, `af_thread`. Hard: the interrupt,
the thread and the caller share all of it, and the lock does not cover the
interrupt. Correct: handlers touch neither the half in transfer nor a closed
stream's buffer; a stop ends quietly and in time.

**Codec driver** (`platform/drivers/codec/codec_best1000.c`, `drivers/ana`). The
codec is switched off by a timer five seconds after the last stream was closed,
in the timer's thread, which sleeps half way.

**System frequency and clocks** (`platform/hal/hal_sysfreq.c`, `hal_cmu.c`,
`apps/common/app_utils.c`). Users vote for a frequency; above 52 MHz the audio
PLL must run; votes are written outside the lock and come from interrupts too.

**Circular queue** (`utils/cqueue`). A buffer, two places in it and a length; used by the
A2DP player and by HCI, each under its own lock. Correct: a queue, also where a run
wraps at the buffer's end.

**A2DP player's data path** (`apps/audioplayers/a2dpplay.cpp`). State: the queue of frames,
whether it is cached, who waits for whom. The Bluetooth thread stores packets and, when
there is no room, waits up to 20 ms, several times, for a signal of the player; `af_thread`
decodes a half buffer per call and goes back to caching when frames run out;
`app_thread` starts, restarts and stops the player while the other two go on. Hard: a
signal may be of an earlier wait, or be wiped by the wait it was for; the frames a call
decoded before the queue ran dry shorten the next call; the thread to be signalled may be
forgotten; and a packet may be half way into a queue that is being started anew. Correct: frames are
played in order, sessions do not mix, a packet is dropped only when the player did not
keep pace, and music comes back after a gap.

**Intersystem channel** (`platform/hal/hal_intersys.c`). Messages to and from
the Bluetooth processor through lists in shared memory and four interrupts; two
lists, three records and a vote against sleep. Correct: a reliable link in both
directions; a buffer is given back when it was read; sleep is prohibited exactly
while a message is out.

**Intersystem HCI** (`utils/intersyshci`). The receive interrupt puts the bytes of a message
into a queue and its length into a mail queue; a thread peeks at as many bytes and
puts packets together, with its state kept from one message to the next. There is one
send buffer, given back by a signal of the transmit interrupt. Hard: the peer's messages
cut packets anywhere, the queue's runs cut messages, and the two queues fill
independently. Correct: the stack gets whole packets in order, and everything is read.

Not modelled yet, with the reason or the plan in PROJECT.json "components": the PCM
queues of the voice player, keys, battery, NV record, lists, reconnection, sleep votes, I2C, and the
drivers that only write registers. Vendored code is left aside: CMSIS, RTX, mbed,
the FAT file system, jansson, libc, the headers of the stack.

## 2. The modules

| module | models | built on |
|---|---|---|
| Lists | removal and insertion in sequences without repetition | - |
| HwTimer | hardware timer list and its interrupt | Lists |
| AppThread | the mailbox | - |
| AppAudio | audio request list, ownership of the stream, end of prompts | AppThread |
| MediaManager | the media manager's handlers | AppThread |
| MediaPath | the composition of the three above with the phones' events | all three |
| AudioFlinger | streams, DMA channels and interrupts, af_thread, fade-out | - |
| SysFreq | frequency votes, PLLs and clock mux | - |
| Codec | delayed close of the codec | SysFreq |
| Fifo | abstract: a bounded first-in-first-out queue | - |
| CQueue | the circular buffer, implements Fifo | Fifo |
| Link | abstract: one direction of a reliable link | - |
| A2dpPlay | the A2DP player's packets, half buffers and sessions | CQueue |
| Intersys | the mailbox channel, implements two Links | Link |
| Hci | HCI packets over the channel, taken as the Links Intersys implements | CQueue |

`MC*` modules give the constants their values; `*_proofs` hold the
theorems. Definitions have the names of the functions they model; an operator whose
comment begins with "Mutant" is a deliberate error that no behaviour uses: it
replaces its namesake to see that a property notices.

**HwTimer.** Variables `state`, `time`, `free`, `active`, `fired` are the timers
and the three lists; `enabled`, `value`, `elapsed`, `pending` are the hardware
timer (`value` counts down, `elapsed` is the overrun after zero). Operations run
under `int_lock` and are one action each; the handler is split where interrupts are
unmasked: entry, locked, callback. `due` is a history variable: the ticks until the
requested expiry, which no operation on another timer moves, and so is `postponed`: how
often a head with nothing left of its time was stopped before its first tick while the
timer waited (`hwtimer_list.c:354` then adds the load of one tick it was given to its
successor, and nothing takes that back). `allocating` is the window of `hwtimer_alloc` after its unlock.
`nullWrite` records a write through a null `next` pointer.

**MediaPath.** Each message is handled by one action, with all it does: the
manager's state, the messages it puts, `audio_list_clear`. Callbacks of the stack
are broken into steps wherever `app_thread` may run in between (`callback`). The
order "message put, then call state written" is the source's. Sample data, volumes
and frequencies are left out. The mailbox is bounded by `MaxMail` for events from
outside only; what handlers put is not bounded.

**AudioFlinger.** The application's calls come in the scripts of its players
(`bt_sbc_player`, `app_play_audio`, `bt_sco_player`); `InOrder` says what these have in
common: all opens come before a start, a start is followed by a stop, an open by a
close. DMA transfers are two halves,
with a pending flag `tc` per channel; the contents of the output's halves are
abstracted to sound, fading or zero. `late` is a history variable: a half ended
before `af_thread` was done with the one before. The code has no defence against
that, so the two properties about samples are claimed only while it is false. All
others hold at any pace. `faded` is another: how many of the calls that
`af_stream_stop_process` has counted for this stop were the output's own. In a call the
voice streams still run when the output is stopped, their calls are counted, and the
fifth may end the wait before the output is faded; so `FadedIsQuiet` asks for two calls of
the output's own, while `AloneIsQuiet` asks for nothing when no other stream runs.

**SysFreq and Codec.** A request is several steps of its thread, as the code locks
only the decision; a request of an interrupt is one step. PLL operations are the
critical sections of `hal_cmu.c`. Three threads of the headset call `app_sysfreq_req`:
`app_thread`, `intersys_rx_thread` for every message of the stack's processor, and the
stack's event thread; each has a user of its own (the main thread shares `app_thread`'s in
`app_init` and `app_deinit`, which are not modelled). PllFollowsClock speaks of them all and
has one premise, that no call that switches the PLLs meets another call (`Overlap`): where
two do, finding 4 is what happens. Calls that do not switch overlap freely, with each
other, with the codec's votes and with interrupts. Codec extends SysFreq with the two threads that open and
close the codec; it has the driver's variables besides those of SysFreq, and every step of it is
one of SysFreq or leaves its variables alone. The timer thread has the higher priority, so
`app_thread` runs only while it sleeps or has nothing to do. `app_deinit`'s direct call of
`codec_best1000_real_close` at power-off is not modelled.

**CQueue.** The buffer is a function of cells; copying a run is one assignment, since
its users hold a lock around every call. `Contents` is the refinement mapping. Its
properties are checked where it is used, in A2dpPlay, and proved for it alone.

**A2dpPlay.** An item of the queue is a frame, marked as of this session ("fresh") or of an
earlier one ("stray"). `at` is the place of the Bluetooth thread in `store_sbc_buffer`: each
step ends where a lock is given back or `af_thread` or `app_thread` may come in between.
A call of `af_thread` is one step, as it has the highest priority while music plays. The
decoder is reduced to what it does to the queue: how many frames it takes and whether one
of them fails, and `carry` is what the static `pcm_data.dataLen` counts between calls: a
call that runs dry, or that the decoder stops, leaves it, and the next takes so many fewer.
`excused` is a history variable: while the last packet waited for room, a 20 ms wait
expired in which the player was not called, the player was stopped, or the decoder gave
up a half buffer. A wait that expires because `osSignalClear` wiped the signal of a call
made just before is not excused. The samples are left out (with `carry`, those of the
half buffer's beginning, to which the call does not decode), as are the equalizer and the
adjustment to the phone's clock.

**Hci.** The bytes the peer sends are numbered, so that a byte tells its packet and its
place there; the parser itself sees only the type and the length. One iteration of the
parser's loop is a step, and a run of data bytes one step. The peer cuts its packets into
messages of any length. An exhausted queue, a packet of events or data without a buffer
of the stack, and a byte that is no type are assertions of the code: `halted` names the
one that stopped the firmware. `IAHCI_SendBuffer`, which nothing calls, is left out.

**Intersys.** Lists are sequences of record numbers. The peer is modelled from how
this side uses it (marked external): it reads a list element by element after the
"sent" interrupt and raises "done" at its end, and its own lists reach us the same
way. The receiver may stop in the middle of a list and start again;
`hal_intersys_start_recv` is two steps because the interrupt may come between. The
channel is closed only when nothing is under way: both callers of
`hal_intersys_close` wait for their answers first; and it is opened only while it is closed,
as `btdrv_start_bt` closes it before `IAHCI_Open` opens it. What `hal_intersys_open`
would do to an open channel, emptying its lists and records, is not modelled.

## 3. What is checked

| run | instance | shows |
|---|---|---|
| hwtimer | 3 timers, starts of 0 (raised to 1) or 3 ticks, 3 ticks between two loads, one postponement | TypeOK; ListsMatchStates; HardwareForHead; NeverPlannedLate; Fires; FiredIsHandled |
| hwtimer_null | 2 timers | finding: NoNullWrite |
| media | two phones' music, one's calls, one prompt besides the tones of calls, one message ahead | TypeOK; CurrentIsHighest; OneOwner; PlayerFollowsList; MediaWillEnd; HeardWhenSettled; MusicDeviceActive; AssertsHold; Settles |
| media_call_heard | one phone | finding: CallIsHeard |
| media_list_full | the real limits of the list | finding: ListHasRoom |
| audioflinger | music, prompts and calls, two streams | TypeOK; HandlerKeepsClear; IrqsInStep; StopIsQuiet; StopEnds |
| codec | app_thread, intersys_rx_thread, timer thread, an interrupt | CodecTypeOK; Served; PllFollowsClock; VotesFollowCodec; OffWhenClosed; GoesOff |
| codec_open | as codec | finding: StreamHasCodec |
| sysfreq_pll | app_thread and the Bluetooth thread | finding: PllRuns |
| a2dp | a queue of 6 frames, packets of 2 and 3, half buffers of 2, 2 waits, 2 faults | A2dpTypeOK; PeekIsFront; StrayFirst; IsFifo (refinement of Fifo); LossIsExcused; MusicResumes |
| hci | a queue of 6 bytes, 2 mails, three packets of ten bytes, 2 packets out | HciTypeOK; PacketsWhole; AllIsRead |
| intersys | 3 records, 4 messages out, 2 lists in | TypeOK; ConfirmedIsHeard; BusyWhileSending; Arrives (both directions refine Link); SendIsConfirmed |

**Why the bounds are enough.** Three timers make a head, a middle and a last entry,
and one may be fired or freed while two are linked. Starts of 1 tick lie below, of 3
above `HAL_TIMER_LOAD_DELTA`, and three ticks without the handler let several timers
expire in one interrupt, or the head be stopped when it and the next have expired. For the media path the list length of two and a prompt besides the warning
tones of calls make one prompt play and one wait; two phones change the current device of
music, and one of them calls; one message ahead of `app_thread` is enough for every order of two
messages, since handlers put further ones. Three prompts and the real list length of
five are needed only to fill the list. In AudioFlinger two streams are needed for a
channel to be given to another stream, three scripts for every pair of "what was closed
and what was opened next". A queue of six frames or bytes wraps at every offset, fills, and is emptied in
one run or two; packets of two and three frames leave a rest that fits neither; two waits
are one that succeeds and one that is the last. Ten bytes of three types, with and without
data, are more than the queue, so that each of the two queues fills before the other.
Four messages use every record twice over; lists of three and two bytes let the
receiver stop at the start, in the middle and at the end. In Codec `app_thread` asks for
104 MHz and `intersys_rx_thread` for 52 MHz and both give up again, so that a call that switches,
one that does not and one that decides while the frequency is high all occur, also with
the three threads in a request at once. The event thread, as a fourth, makes the run too long (more than 17 million
states); it is in the run sysfreq_pll, and in the theorems, which hold for any threads.

**Fairness.** HwTimer: the clock ticks, a raised interrupt is taken, and callbacks
return. `Fires` has the premise that operations stop in the end: each start or stop of
a timer ahead of another reloads the counter, and costs the other one
`HAL_TIMER_LOAD_DELTA`, so that two timers restarted for ever starve a third; the run
showed this. MediaPath: the threads are scheduled (same priority, time slices) and a
playing prompt comes to its end. Nothing is assumed of the phones: the premise of
`Settles` is that from some moment on only the headset's own threads take steps. AudioFlinger: DMA goes on, its interrupts are taken, `af_thread` and a
signalled waiter run; the 300 ms timeout is not fair, so `StopEnds` says that it is
not needed. Codec: the timer expires, and calls under way go on; no new call is assumed.
Intersys: the transmit interrupt is taken and the peer reads and answers. A2dpPlay: the
phone goes on sending, the DMA goes on asking, and both threads run; that the player is
left on is the premise of `MusicResumes`. Hci: the peer sends what it has and reads, the
interrupts are taken and the threads run.

**Deadlock** is checked except where the modelled system may stop: a failed ASSERT halts
the firmware (MediaPath), and the bounded number of messages runs out (Intersys, Hci).

## 4. Findings

1. *hwtimer_stop of the last of several active timers writes through a null pointer*
   (`hwtimer_list.c:368`): the time of the removed timer is added to `next->next`
   without a test. Run hwtimer_null.
2. *The tone of a call that becomes active can replace the call's voice*
   (`app_hfp.cpp:604`): the message is put before the call state is stored, and
   `bt_media_start` decides by the call state. Run media_call_heard.
3. *Prompts may overflow their list, which stops the firmware* (`app_audio.cpp:434`).
   Run media_list_full.
4. *A preempted app_sysfreq_req stops the PLL under a 104 MHz clock*
   (`app_utils.c:29`). Run sysfreq_pll: two threads, no lock around read, decision and
   switch.
5. *An open during the codec's delayed close leaves an open stream with a codec that is
   off* (`codec_best1000.c:239`). Run codec_open.

## 5. What is proved

For every value of the constants (any number of timers, prompts, threads, users, packets,
any queue size), under the ASSUMEs of the modules:

* `HwTimer_proofs`: ListsMatchStates, HardwareForHead, NeverPlannedLate and types. The
  first needs only the types of the lists; the lemmas about inserting in and removing from
  sequences without repetition come first in the module. The others follow from `TimeInv`:
  the counter is the load less what has elapsed, and for every active timer the offset
  (the sum of the delta list up to it) and the head's time are at most one tick more than
  `due`, `postponed` and what has elapsed. Stopping an expired head keeps this because
  `Consume` takes from the list exactly the overrun. The sum is a recursive function; that it exists and
  is unique is shown by a minimal counterexample (`SumsExist`, `SumsUnique`), and what an
  insertion or removal makes of the sums by giving the new sums (`SumsInsert`,
  `SumsWithout`).
* `MediaPath_proofs`: CurrentIsHighest, MusicDeviceActive, OneOwner and AssertsHold
  are proved together as `PathInv`, with `TypeOK` and `PromptsBehind`: a
  Bluetooth stream is only ever the first entry of the list. Without it closing a
  prompt might find another stream behind it, and the assertion there would fail. The
  proof is split by component, and has one lemma for each handler of the manager.
  The second half of the module proves what holds once the mailbox is empty:
  PlayerFollowsList, MediaWillEnd and HeardWhenSettled. Between two messages the player, the
  list and the sample rate may all differ from what the manager means, because its orders are
  still on their way; so the invariant, `AheadInv`, speaks of the mailbox. The audio stream
  goes to the stream of the current media if it has it and no message takes it away, or if
  the last message that does anything about it opens that stream (`StreamAhead`); with no
  current media, no message opens a stream, or the one that has it is closed later
  (`GivenUp`). Likewise for the prompt of an active MEDIA (`MediaAhead`) and the last SETUP
  (`RateAhead`); a listed prompt is the player (`ListPlayer`), and one that ended, or that
  the manager took from the list directly, has a CLOSE on its way (`EndAhead`).
  `bt_media_start` of music closes the music when the device that starts is already the
  current one; that nothing then opens it again is excused by `SbcInOrder`: the phone's
  starts and stops come in turn, in the mailbox and in the callback, so that this branch is
  never taken. With an empty mailbox nothing but the three properties is left of it. A
  handler is taken in two steps: what its message does to the statements when it is taken
  from the front (`StreamTaken`, `MediaTaken`, ...), and what its own messages do behind the
  rest (`StreamPut`, `MediaPut`, ...). `Follows` and `Orders` say what these need to know of a
  handler of the audio module and of the manager, and each handler has one lemma.
* `AudioFlinger_proofs`: IrqsInStep, HandlerKeepsClear and types. Neither property is
  inductive. `IInv` adds what the calls to come say of the streams (`CallsAgree`: a stream
  that is open will be closed, one that runs will be stopped, and none runs before an
  open), who has the lock at which place (`PlacesAgree`), that open streams have channels
  of their own and closed ones none, but for the one being opened, which names channel 0
  (`ChannelsAgree`), that a channel runs only for the stream that has it (`DmaAgrees`), and
  that while af_thread keeps pace a stream with a pending interrupt has been processed
  (`HandlersAgree`). That `hal_dma_get_chan` finds a channel is the pigeonhole principle. The
  theorems rest on `StreamAssumption`: scripts are in order as the players' are. The
  model has as many channels as streams (the chip has eight for four streams). Were a
  stream opened while another runs, its `ch` of 0 could make it the first to be found by
  an interrupt of channel 0.
  StopIsQuiet has a further invariant, `FadeInv`: the stages of the fade-out (no call of the
  output's own yet, one and the other half faded, the playing half faded). It gives the first
  part, FadedIsQuiet, for any number of streams, running or not. The second part, about an
  output that runs alone, adds `AloneAgrees`: the calls counted and the signals still to be
  processed of streams closed before are at most three, and one more after the output's
  first. It has the hypothesis `FewStreams`, four streams at most:
  `af_stream_stop_process` signals at the fifth call it counts, so that with more streams
  what is left of them might bring the signal before the output was faded. The players open two ids in two directions
  (`app_bt_stream.cpp`, `bt_sco_player`); MCAudioFlinger evaluates the hypothesis for its
  streams.
* `Codec_proofs`, first part, of SysFreq: types, `Served`, PllFollowsClock. A demand that
  the frequency does not meet is one that some thread is still to decide on: this disjunct
  is what makes the invariant inductive over the unlocked write, and with it the maximum of
  the demands must be shown to exist. PllFollowsClock is proved for any number of threads
  that call `app_sysfreq_req`, under its premise. The invariant, `PInv`, says when the PLLs are not being
  switched that they are on for the frequency or for a call that will raise it or look
  whether it fell (`PllOn`), or off, with no call under way that found or asks for
  more than 52 MHz (`PllOff`); and that what a call wrote still stands when it decides
  (`DemandsAgree`). It does not hold through an overlap, so the theorem is that of the premise:
  `[]~Overlap => [](PllRuns /\ PllStopped)`. `AsksApart` is assumed of the requests: no two
  threads share a user of `app_sysfreq_req`, interrupts do not call it, and whoever asks
  `hal_sysfreq_req` directly asks for 52 MHz at most. MCCodec evaluates it for its threads.
* `Codec_proofs`, second part: VotesFollowCodec, OffWhenClosed and types, that the driver with its two
  threads is an instance of SysFreq (`CodecSpec => Spec`), and so `Served` and PllFollowsClock
  for it. The invariant `CInv` says for every place of the two threads which parts of the codec are on,
  what its demand is and whether it holds the PLL (`CodecAgrees`), including the places
  where the driver's own request is under way; it needs that nobody else asks in the
  driver's name (`OthersAsk`, from the assumption on the requests), and that only one of
  the two threads is inside the driver at places that write (`PlacesAgree`).
* `CQueue_proofs`: `Spec => IsFifo`, the refinement of Fifo; PeekIsFront; types. The
  invariant is that the write place is the read place advanced by the length
  (`PlacesAgree` of that module).
* `A2dpPlay_proofs`: types, `IsFifo` for the queue as the player uses it, StrayFirst and
  LossIsExcused. LossIsExcused rests on `RoomAssumption`: a packet has no more frames than
  its waits can free when the first frees one frame only, and is no longer than half the
  queue; the invariant (`WaitsRoom`) counts what the waits so far have freed, less what is
  carried over, and says that an answered request has had its call, signal or not.
* `Intersys_proofs`: `Spec => Arrives`, both directions as refinements of Link, with
  ConfirmedIsHeard, BusyWhileSending and types. The inductive invariant says that a record
  in a list is in use and in one of the two lists only (`RecordsInUse`), how the flags and
  the place in the list go together (`ListsAgree`), that what the peer has heard is what was confirmed and the part of the
  list it has read (`HeardAgrees`), and how the receiver's rest of a list relates to the
  peer's waiting (`RestAgrees`). For each step of the program one lemma gives the step of
  Link it maps to.

* `Hci_proofs`: PacketsWhole and types, for any packets, cut into messages anywhere. The
  invariant `HciInv` says that the queue holds the last bytes that arrived (`HeldAgrees`),
  that the run the thread reads lies within the buffer and ends at its end if there is a
  second (`RunAgrees`), that the queue holds enough bytes for all lengths in the mail queue
  and the run under way (`MailsFit`: hence a peek never asks for more than there is), where
  the parser is in the peer's packets (`ParserAgrees`), and which packets were kept
  (`KeptAgrees`). Lengths that are lost leave bytes in the queue, but no length ever
  lacks its bytes; that is why the parser stays in step. Where packets begin is a recursive
  function, again shown to be what it says by a minimal counterexample, and the sum of the
  lengths is given by a witness. For sending, one packet is on its way at a time
  (`SendAgrees`).

Only model-checked is liveness (Fires, FiredIsHandled, Settles, StopEnds, GoesOff,
MusicResumes, SendIsConfirmed, AllIsRead), which needs fairness and ENABLED. Every
invariant and action property of the runs that pass is proved; `AheadInv` was also
model-checked before, on the instance of run media and with a longer mailbox.

## 6. Plan

In this order:

1. Keys (driver's state machine, event counter, two-key combination), battery and
   charging, ten-second timers.
2. NV record: the pool allocator against a set of disjoint blocks, and flushing.
3. The PCM queues of the voice player; safe_queue.
4. Sleep votes of all drivers together; I2C task queue.
5. Reconnection and the choice of the stream whose packets are stored, with the stack's
   state as environment.

Left aside for good: entry points that
nothing calls (`af_close`, `IAHCI_SendBuffer`); numeric code (decoders, equalizers, speech
processing, the adjustment of the player to the phone's clock); and drivers that only
write registers.
