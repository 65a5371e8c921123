------------------------------ MODULE A2dpPlay ------------------------------
(* apps/audioplayers/a2dpplay.cpp: the frames of the music between the       *)
(* Bluetooth thread, which stores packets (store_sbc_buffer), af_thread,     *)
(* which decodes a half buffer per call (a2dp_audio_more_data), and          *)
(* app_thread, which starts, restarts and stops the player.  An item of the  *)
(* queue is a frame.  af_thread has the highest priority of the three while  *)
(* music plays (app_bt_stream.cpp:273), so that its calls are not divided;   *)
(* the other two take turns with it and each other anywhere.                 *)
EXTENDS CQueue

CONSTANTS
  Half,       \* frames that fill a half buffer
  Start,      \* frames that end the caching (64)
  MaxWait,    \* A2DP_SYNC_WITH_GET_MUTUX_TIMEROUT_CNT
  Lengths,    \* of packets, in frames
  MaxFaults   \* bound on the frames that do not decode

Blank == "blank"
\* A run of frames: of this session ("fresh") or of an earlier one ("stray").
Frames(n, age) == [i \in 1..n |-> age]

ASSUME A2dpAssumption ==
  /\ Half \in Nat \ {0} /\ {Start, MaxWait, MaxFaults} \subseteq Nat
  /\ Lengths # {} /\ Lengths \subseteq Nat \ {0} /\ 0..(2 * Half) \subseteq Wanted
  /\ Items = {Blank, "fresh", "stray"}
  /\ \A n \in Lengths, age \in {"fresh", "stray"} : Frames(n, age) \in Chunks

\* A packet fits in half of the queue and in what its waits free, of which the
\* first may free one frame only (carry): in the product up to 15 frames, 5 waits
\* of 10 frames, and tens of kilobytes.
ASSUME RoomAssumption ==
  \A n \in Lengths : n + Half <= MaxWait * Half + 1 /\ 2 * n <= Size

VARIABLES
  at,        \* where the Bluetooth thread is in store_sbc_buffer
  packet,    \* what it still has to store: so many frames, and their age
  cnt,       \* its attempts so far
  tid,       \* a2dp_put_thread_tid is set
  needSync,  \* a2dp_get_need_sync
  signal,    \* signal 0x80 of the Bluetooth thread
  status,    \* a2dp_cache_status
  carry,     \* frames counted in pcm_data.dataLen, static in decode_sbc_frame
  run,       \* stream_running of PUT and GET
  player,    \* where app_thread is in bt_sbc_player
  faults,    \* frames that did not decode
  heard,     \* the last call of af_thread filled its half buffer
  excused    \* while the last packet waited the player was late, stopped or at fault

\* vars are those of the queue.
bt    == <<at, packet, cnt>>
sync  == <<tid, needSync, signal>>
ghosts == <<faults, heard, excused>>
A2dpVars == <<vars, bt, sync, status, carry, run, player, ghosts>>

None == [n |-> 0, age |-> "fresh"]
Storing == packet.n > 0

\* A2DP_SYNC_WITH_GET_MUTUX_SET
Set ==
  /\ needSync' = FALSE /\ UNCHANGED tid
  /\ signal' = (signal \/ (needSync /\ tid))
----------------------------------------------------------------------------
(* The Bluetooth thread. *)

\* A packet comes while the player is running (a2dp_callback).
Arrive(n) ==
  /\ at = "idle" /\ player \in {"on", "stopped", "deinit"}
  /\ run' = [run EXCEPT !.put = TRUE]
  /\ IF run.get
     THEN /\ at' = IF status = "cacheing" THEN "caching" ELSE "flowing"
          /\ packet' = [n |-> n, age |-> "fresh"] /\ cnt' = 0
          /\ excused' = (excused /\ status = "cacheing")
     ELSE UNCHANGED <<bt, excused>>
  /\ UNCHANGED <<vars, sync, status, carry, player, faults, heard>>

\* Mutant: caching ends only when the queue is exactly full.
Enough_Full(size, result) == size = Size

Enough(size, result) == size > Size \div 2 \/ size >= Start \/ result = "err"

CacheAdd ==
  /\ at = "caching" /\ EnCQueue(Frames(packet.n, packet.age))
  /\ at' = IF Enough(len', ret') THEN "cached" ELSE "idle"
  /\ packet' = None
  /\ UNCHANGED <<cnt, sync, status, carry, run, player, faults, heard, excused>>

CacheOk ==
  /\ at = "cached" /\ status' = "ok" /\ at' = "recheck"
  /\ UNCHANGED <<vars, packet, cnt, sync, carry, run, player, ghosts>>

\* The status is read again: a call of af_thread may have ended the music.
Recheck ==
  /\ at = "recheck" /\ at' = IF status = "ok" THEN "ask" ELSE "idle"
  /\ UNCHANGED <<vars, packet, cnt, sync, status, carry, run, player, ghosts>>

Flow ==
  /\ at = "flowing" /\ EnCQueue(Frames(packet.n, packet.age))
  /\ IF ret' = "ok" THEN at' = "idle" /\ packet' = None
                    ELSE at' = "ask" /\ UNCHANGED packet
  /\ UNCHANGED <<cnt, sync, status, carry, run, player, ghosts>>

\* A2DP_SYNC_WITH_GET_MUTUX_ALLOC and the request for a signal.
Ask ==
  /\ at = "ask" /\ at' = "clear" /\ tid' = TRUE /\ needSync' = TRUE
  /\ UNCHANGED <<vars, packet, cnt, signal, status, carry, run, player, ghosts>>

\* Mutant: a signal of an earlier wait is not cleared.
Clear_Stale ==
  /\ at = "clear" /\ at' = IF tid THEN "waiting" ELSE "after"
  /\ UNCHANGED <<vars, packet, cnt, sync, status, carry, run, player, ghosts>>

\* app_thread may have forgotten the thread meanwhile; then there is no wait.
Clear ==
  /\ at = "clear" /\ at' = IF tid THEN "waiting" ELSE "after"
  /\ signal' = (signal /\ ~tid)
  /\ UNCHANGED <<vars, packet, cnt, tid, needSync, status, carry, run, player, ghosts>>

Signalled ==
  /\ at = "waiting" /\ signal /\ at' = "after" /\ signal' = FALSE
  /\ UNCHANGED <<vars, packet, cnt, tid, needSync, status, carry, run, player, ghosts>>

\* After 20 ms.  If the player was called since the wait was asked for, its signal
\* was wiped by Clear: the wait was for nothing, but is no excuse.
Timeout ==
  /\ at = "waiting" /\ ~signal /\ at' = "after" /\ excused' = (excused \/ needSync)
  /\ UNCHANGED <<vars, packet, cnt, sync, status, carry, run, player, faults, heard>>

After ==
  /\ at = "after"
  /\ IF ~Storing THEN at' = "idle" /\ UNCHANGED <<packet, cnt>>
     ELSE IF cnt < MaxWait THEN at' = "flowing" /\ cnt' = cnt + 1 /\ UNCHANGED packet
     ELSE at' = "idle" /\ packet' = None /\ UNCHANGED cnt
  /\ UNCHANGED <<vars, sync, status, carry, run, player, faults, heard, excused>>

\* "cache add overflow" and "cache overflow"
Drops == (CacheAdd /\ ret' = "err") \/ (After /\ Storing /\ cnt = MaxWait)

BtThread == CacheAdd \/ CacheOk \/ Recheck \/ Flow \/ Ask \/ Clear \/ Signalled \/ Timeout \/ After
----------------------------------------------------------------------------
(* af_thread: a2dp_audio_more_data, decode_sbc_frame. *)

Calls == player = "on" /\ run' = [run EXCEPT !.get = TRUE] /\ Set

\* What a call leaves: a half buffer in full, or caching again.
Decoded(full) ==
  /\ heard' = full /\ status' = IF full THEN "ok" ELSE "cacheing"
  /\ UNCHANGED <<bt, player>>

Skip ==
  /\ status = "cacheing" /\ Calls /\ heard' = FALSE
  /\ UNCHANGED <<vars, bt, status, carry, player, faults, excused>>

\* A call decodes until dataLen is a half buffer and sets it to 0.  When the queue
\* runs dry before, what it counts stays, and the next call decodes the less.
Decode ==
  /\ status = "ok" /\ Calls
  /\ IF len < Half - carry
     THEN /\ DeCQueue(len, FALSE) /\ Decoded(FALSE) /\ carry' = carry + len
          /\ excused' = (excused /\ Storing)
     ELSE DeCQueue(Half - carry, FALSE) /\ Decoded(TRUE) /\ carry' = 0 /\ UNCHANGED excused
  /\ UNCHANGED faults

\* A frame fails after some good ones: the decoder starts anew and so do the half
\* buffer and dataLen.
DecodeFailed(good) ==
  /\ status = "ok" /\ good < len /\ carry + good < Half /\ faults < MaxFaults /\ Calls
  /\ IF len < good + 1 + Half
     THEN /\ DeCQueue(len, FALSE) /\ Decoded(FALSE) /\ carry' = len - (good + 1)
          /\ excused' = (excused /\ Storing)
     ELSE DeCQueue(good + 1 + Half, FALSE) /\ Decoded(TRUE) /\ carry' = 0 /\ UNCHANGED excused
  /\ faults' = faults + 1

\* The decoder has no resources after some good frames: the call ends there and
\* dataLen stays.
DecodeStopped(good) ==
  /\ status = "ok" /\ good < len /\ carry + good < Half /\ faults < MaxFaults /\ Calls
  /\ DeCQueue(good + 1, FALSE) /\ Decoded(FALSE) /\ carry' = carry + good
  /\ faults' = faults + 1 /\ excused' = TRUE

MoreData == Skip \/ Decode \/ \E good \in 0..(Half - 1) : DecodeFailed(good) \/ DecodeStopped(good)
----------------------------------------------------------------------------
(* app_thread: bt_sbc_player, a2dp_audio_init, a2dp_audio_deinit. *)

InitBegins ==
  /\ player = "off" /\ player' = "init" /\ excused' = TRUE
  /\ tid' = FALSE /\ run' = [put |-> FALSE, get |-> FALSE]
  /\ UNCHANGED <<vars, bt, needSync, signal, status, carry, faults, heard>>

\* Mutant: the frames of the last session stay in the queue.
InitQueue_Keep ==
  /\ player = "init" /\ player' = "ready" /\ packet' = [packet EXCEPT !.age = "stray"]
  /\ excused' = Storing /\ UNCHANGED <<vars, at, cnt, sync, status, carry, run, faults, heard>>

\* The buffer is blank, and a packet still to be stored has become stray.
InitQueue ==
  /\ player = "init" /\ player' = "ready"
  /\ InitCQueue /\ base' = [c \in Cells |-> Blank] /\ packet' = [packet EXCEPT !.age = "stray"]
  /\ excused' = Storing /\ UNCHANGED <<at, cnt, sync, status, carry, run, faults, heard>>

\* need_init_decoder makes the next call of af_thread begin with dataLen 0.
InitEnds ==
  /\ player = "ready" /\ player' = "closed" /\ status' = "cacheing" /\ carry' = 0
  /\ UNCHANGED <<vars, bt, sync, run, ghosts>>

\* Opened after a start or a restart.
OpenStream ==
  /\ player \in {"closed", "stopped"} /\ player' = "on"
  /\ UNCHANGED <<vars, bt, sync, status, carry, run, ghosts>>

CloseStream ==
  /\ player = "on" /\ player' = "stopped" /\ heard' = FALSE
  /\ UNCHANGED <<vars, bt, sync, status, carry, run, faults, excused>>

Deinit ==
  /\ player = "stopped" /\ player' = "deinit" /\ excused' = TRUE
  /\ needSync' = FALSE /\ signal' = (signal \/ (needSync /\ tid)) /\ tid' = FALSE
  /\ UNCHANGED <<vars, bt, status, carry, run, faults, heard>>

DeinitEnds ==
  /\ player = "deinit" /\ player' = "off" /\ status' = "cacheing" /\ carry' = 0
  /\ run' = [put |-> FALSE, get |-> FALSE]
  /\ UNCHANGED <<vars, bt, sync, ghosts>>

AppThread == InitBegins \/ InitQueue \/ InitEnds \/ OpenStream \/ Deinit \/ DeinitEnds
----------------------------------------------------------------------------
A2dpInit ==
  /\ read = 0 /\ write = 0 /\ len = 0 /\ base = [c \in Cells |-> Blank]
  /\ ret = "ok" /\ taken = <<>>
  /\ at = "idle" /\ packet = None /\ cnt = 0
  /\ tid = FALSE /\ needSync = FALSE /\ signal = FALSE
  /\ status = "cacheing" /\ carry = 0 /\ run = [put |-> FALSE, get |-> FALSE] /\ player = "off"
  /\ faults = 0 /\ heard = FALSE /\ excused = FALSE

A2dpNext ==
  \/ \E n \in Lengths : Arrive(n)
  \/ BtThread \/ MoreData \/ AppThread \/ CloseStream

\* The phone goes on sending, the DMA goes on asking, and both threads run; the
\* player need not be stopped.
A2dpFairness ==
  /\ WF_A2dpVars(\E n \in Lengths : Arrive(n)) /\ WF_A2dpVars(BtThread)
  /\ WF_A2dpVars(MoreData) /\ WF_A2dpVars(AppThread)

A2dpSpec == A2dpInit /\ [][A2dpNext]_A2dpVars /\ A2dpFairness
----------------------------------------------------------------------------
A2dpTypeOK ==
  /\ TypeOK
  /\ at \in {"idle", "caching", "cached", "recheck", "flowing", "ask", "clear", "waiting", "after"}
  /\ packet \in [n : {0} \cup Lengths, age : {"fresh", "stray"}] /\ cnt \in 0..MaxWait
  /\ tid \in BOOLEAN /\ needSync \in BOOLEAN /\ signal \in BOOLEAN
  /\ heard \in BOOLEAN /\ excused \in BOOLEAN
  /\ status \in {"cacheing", "ok"} /\ carry \in 0..(Half - 1)
  /\ run \in [put : BOOLEAN, get : BOOLEAN]
  /\ player \in {"off", "init", "ready", "closed", "on", "stopped", "deinit"}
  /\ faults \in 0..MaxFaults

\* A session plays its own frames in order: of an earlier session there is at
\* most the one packet whose storing was under way when the player was started
\* anew, in whole or what is left of it, ahead of every frame of this session.
StrayFirst ==
  \E j \in 0..len :
    /\ \E k \in Lengths : j <= k
    /\ \A i \in 1..len : Contents[i] = IF i <= j THEN "stray" ELSE "fresh"

\* A packet is dropped only if, while it waited for room, the player was not
\* called for 20 ms, was stopped, or gave up a half buffer for a fault
\* (store_sbc_buffer, "cache overflow").  A call whose signal is lost between the
\* request and osSignalClear is no excuse: it took its frames all the same, and
\* the waits suffice although a call may take fewer of them by dataLen.
LossIsExcused == [][Drops => excused]_A2dpVars

\* While the player is left on and the phone sends, the caching ends again and
\* again and music is heard (a2dp_cache_status, store_sbc_buffer).
MusicResumes == <>[](player = "on") => []<>heard
=============================================================================
