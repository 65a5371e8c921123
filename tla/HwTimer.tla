------------------------------ MODULE HwTimer ------------------------------
(* utils/hwtimer_list/hwtimer_list.c on top of platform/hal/hal_timer.c:     *)
(* software timers multiplexed on one one-shot hardware timer.  The active   *)
(* timers form a delta list: the field time of every timer but the head is   *)
(* relative to its predecessor, and the hardware counts for the head.        *)
(*                                                                           *)
(* Every operation runs with interrupts masked, so it is one action.  What   *)
(* interleaves is: the handler, which unmasks interrupts around each         *)
(* callback; the callback itself, which may call any operation; interrupts   *)
(* of higher priority that preempt the handler between its entry and its     *)
(* first int_lock or during a callback; and hwtimer_alloc, which initialises *)
(* the timer it took only after int_unlock.                                  *)
EXTENDS Lists

CONSTANTS HWTIMER_NUM,  \* number of timers
          Ticks,        \* arguments given to hwtimer_start
          MaxElapsed,   \* bound: ticks between hal_timer_start and the handler
          MaxPostponed  \* bound: on the history postponed

ASSUME NumAssumption   == HWTIMER_NUM \in Nat \ {0}
ASSUME TicksAssumption == Ticks \subseteq Nat /\ {MaxElapsed, MaxPostponed} \subseteq Nat

Timers == 1..HWTIMER_NUM
Nil    == 0

VARIABLES
  state,       \* HWTIMER_T.state
  time,        \* HWTIMER_T.time, 0 while the timer is not active and nobody reads it
  free,        \* the three lists of HWTIMER_LIST_T, linked by HWTIMER_T.next
  active,
  fired,
  allocating,  \* timers taken off the free list, not yet initialised
  enabled,     \* TIMER_CTRL_EN
  value,       \* the counter of the hardware timer
  elapsed,     \* hal_timer_get_elapsed_time: ticks since hal_timer_start
  pending,     \* the interrupt is raised and not yet taken
  handler,     \* where hwtimer_handler is
  current,     \* the timer whose callback runs
  nullWrite,   \* a field was written through a null pointer
  due,         \* history: ticks left until the expiry that was requested
  postponed    \* history: how often a head with nothing left was stopped before its first tick

list  == <<state, time, free, active, fired, allocating>>
hw    == <<enabled, value, elapsed, pending>>
irq   == <<handler, current>>
history == <<due, postponed>>
vars  == <<list, hw, irq, nullWrite, history>>

HWTIMER_STATE_T == {"FREE", "ALLOC", "ACTIVE", "FIRED", "CALLBACK"}

HAL_TIMER_LOAD_DELTA == 1

\* Ticks from the expiry of the head to the expiry of the k-th active timer.
Offset[k \in DOMAIN active] == IF k = 1 THEN 0 ELSE Offset[k - 1] + time[active[k]]
----------------------------------------------------------------------------
(* The hardware timer.                                                       *)

\* Mutant: the load is not kept above the correction.
hal_timer_start_Uncorrected(load) ==
  /\ enabled' = TRUE
  /\ elapsed' = 0
  /\ value' = load - HAL_TIMER_LOAD_DELTA

\* hal_timer_start: note the start time, reload the counter, enable it.
hal_timer_start(load) ==
  /\ enabled' = TRUE
  /\ elapsed' = 0
  /\ value' = IF load > HAL_TIMER_LOAD_DELTA
              THEN load - HAL_TIMER_LOAD_DELTA ELSE 1

\* hal_timer_stop: disable the counter and drop its pending interrupt.  The
\* counter keeps its value, which nobody reads before the next reload.
hal_timer_stop == enabled' = FALSE /\ value' = 0 /\ elapsed' = 0 /\ pending' = FALSE

\* One tick of the clock.  The one-shot counter stops at zero with its
\* interrupt raised, while the free-running system timer goes on.
Tick ==
  /\ enabled /\ handler # "locked"
  /\ elapsed < MaxElapsed
  /\ elapsed' = elapsed + 1
  /\ value' = Monus(value, 1)
  /\ pending' = (pending \/ value = 1)
  /\ due' = [t \in Timers |-> Monus(due[t], 1)]
  /\ UNCHANGED <<list, enabled, irq, nullWrite, postponed>>
----------------------------------------------------------------------------
(* The operations, from a thread, a callback or another interrupt handler.   *)

Unmasked == handler # "locked"

\* hwtimer_alloc, the part under int_lock.
AllocTake ==
  /\ Unmasked /\ free # <<>>
  /\ free' = Tail(free)
  /\ allocating' = allocating \cup {Head(free)}
  /\ UNCHANGED <<state, time, active, fired, hw, irq, nullWrite, history>>

\* hwtimer_alloc, the part after int_unlock.
AllocInit(t) ==
  /\ Unmasked /\ t \in allocating
  /\ state' = [state EXCEPT ![t] = "ALLOC"]
  /\ allocating' = allocating \ {t}
  /\ UNCHANGED <<time, free, active, fired, hw, irq, nullWrite, history>>

hwtimer_free(t) ==
  /\ Unmasked /\ state[t] = "ALLOC"
  /\ state' = [state EXCEPT ![t] = "FREE"]
  /\ free' = <<t>> \o free
  /\ UNCHANGED <<time, active, fired, allocating, hw, irq, nullWrite, history>>

Startable(t) == Unmasked /\ state[t] \in {"ALLOC", "CALLBACK"}
Clamp(n)     == IF n < HAL_TIMER_LOAD_DELTA THEN HAL_TIMER_LOAD_DELTA ELSE n

Started(t, n) ==
  /\ state' = [state EXCEPT ![t] = "ACTIVE"]
  /\ due' = [due EXCEPT ![t] = n]
  /\ UNCHANGED <<free, fired, allocating, irq, nullWrite, postponed>>

\* __hwtimer_start_int when no timer is active.
StartAlone(t, n) ==
  /\ Startable(t) /\ active = <<>>
  /\ active' = <<t>>
  /\ time' = [time EXCEPT ![t] = n]
  /\ hal_timer_start(n)
  /\ UNCHANGED pending
  /\ Started(t, n)

\* __hwtimer_start_int when the new timer expires before the head: the
\* hardware is stopped and started again for the new timer.
StartFirst(t, n) ==
  /\ Startable(t) /\ active # <<>> /\ value > n
  /\ active' = <<t>> \o active
  /\ time' = [time EXCEPT ![Head(active)] = value - n, ![t] = n]
  /\ hal_timer_start(n)
  /\ pending' = FALSE
  /\ Started(t, n)

\* Mutant: the timer behind the new one keeps its time.
StartBehind_KeepNext(t, n) ==
  /\ Startable(t) /\ active # <<>> /\ value <= n
  /\ \E k \in DOMAIN active :
       LET ticks == n - value IN
         /\ k > 1 => Offset[k] < ticks
         /\ k < Len(active) => Offset[k + 1] >= ticks
         /\ active' = InsertAfter(active, k, t)
         /\ time' = [time EXCEPT ![t] = ticks - Offset[k]]
  /\ Started(t, n)
  /\ UNCHANGED hw

\* __hwtimer_start_int when the head expires first: the new timer goes behind
\* the k-th, the last whose expiry is earlier than its own.
StartBehind(t, n) ==
  /\ Startable(t) /\ active # <<>> /\ value <= n
  /\ \E k \in DOMAIN active :
       LET ticks == n - value IN
         /\ k > 1 => Offset[k] < ticks
         /\ k < Len(active) => Offset[k + 1] >= ticks
         /\ active' = InsertAfter(active, k, t)
         /\ time' = [s \in Timers |->
                       IF s = t THEN ticks - Offset[k]
                       ELSE IF k < Len(active) /\ s = active[k + 1]
                            THEN Offset[k + 1] - ticks
                            ELSE time[s]]
  /\ Started(t, n)
  /\ UNCHANGED hw

\* hwtimer_start, hwtimer_update_then_start.
hwtimer_start(t, ticks) ==
  LET n == Clamp(ticks) IN
    StartAlone(t, n) \/ StartFirst(t, n) \/ StartBehind(t, n)

Stopped(t) ==
  /\ state' = [state EXCEPT ![t] = "ALLOC"]
  /\ UNCHANGED <<free, allocating, irq>>

Forget(t) == due' = [due EXCEPT ![t] = 0] /\ postponed' = [postponed EXCEPT ![t] = 0]

\* Mutant: the ticks since the head expired are not consumed.
Consume_None(overrun) ==
  [s \in Timers |-> IF \E k \in 2..Len(active) : s = active[k] THEN time[s] ELSE 0]

\* The time fields once overrun ticks have passed since the head expired.
Consume(overrun) ==
  [s \in Timers |->
     IF \E k \in 2..Len(active) : s = active[k]
     THEN LET k == CHOOSE k \in 2..Len(active) : s = active[k]
          IN Monus(Offset[k], overrun) - Monus(Offset[k - 1], overrun)
     ELSE 0]

\* Mutant: the hardware is left running.
StopOnly_KeepRunning(t) ==
  /\ Unmasked /\ active = <<t>>
  /\ active' = <<>>
  /\ time' = [time EXCEPT ![t] = 0]
  /\ UNCHANGED <<hw, fired, nullWrite>>
  /\ Stopped(t)
  /\ Forget(t)

\* hwtimer_stop of the only active timer.
StopOnly(t) ==
  /\ Unmasked /\ active = <<t>>
  /\ active' = <<>>
  /\ hal_timer_stop
  /\ time' = [time EXCEPT ![t] = 0]
  /\ UNCHANGED <<fired, nullWrite>>
  /\ Stopped(t)
  /\ Forget(t)

\* Mutant: the hardware is not started for the next timer.
StopHead_NoRestart(t) ==
  /\ Unmasked /\ Len(active) > 1 /\ t = active[1]
  /\ active' = Tail(active)
  /\ time' = [time EXCEPT ![active[2]] = @ + value, ![t] = 0]
  /\ hal_timer_stop
  /\ UNCHANGED <<fired, nullWrite>>
  /\ Stopped(t)
  /\ Forget(t)

\* hwtimer_stop of the head when others follow: the next timer inherits what
\* is left of the head's time, or the ticks since its expiry are consumed.
StopHead(t) ==
  /\ Unmasked /\ Len(active) > 1 /\ t = active[1]
  /\ active' = Tail(active)
  /\ time' = IF value = 0 THEN Consume(Monus(elapsed, time[t]))
             ELSE [time EXCEPT ![active[2]] = @ + value, ![t] = 0]
  /\ hal_timer_start(time'[active[2]])
  /\ pending' = FALSE
  /\ UNCHANGED <<fired, nullWrite>>
  /\ Stopped(t)
  /\ due' = [due EXCEPT ![t] = 0]
  /\ postponed' = [s \in Timers |->
                     IF s = t THEN 0
                     ELSE IF state[s] = "ACTIVE" /\ time[t] = 0 /\ value > 0
                     THEN postponed[s] + 1 ELSE postponed[s]]
  /\ \A s \in Timers : postponed'[s] <= MaxPostponed

\* hwtimer_stop behind the head.  The code adds the time of the stopped timer
\* to next->next->time without asking whether next->next is null; address 0
\* is ROM, so the write is taken to have no effect beyond nullWrite.
StopBehind(t) ==
  /\ Unmasked
  /\ \E k \in 2..Len(active) :
       /\ active[k] = t
       /\ active' = Without(active, k)
       /\ time' = IF k < Len(active)
                  THEN [time EXCEPT ![active[k + 1]] = @ + time[t], ![t] = 0]
                  ELSE [time EXCEPT ![t] = 0]
       /\ nullWrite' = (nullWrite \/ k = Len(active))
  /\ UNCHANGED <<fired, hw>>
  /\ Stopped(t)
  /\ Forget(t)

\* hwtimer_stop of a timer that has fired and waits for its callback.
StopFired(t) ==
  /\ Unmasked
  /\ \E k \in DOMAIN fired : fired[k] = t /\ fired' = Without(fired, k)
  /\ UNCHANGED <<time, active, nullWrite, hw>>
  /\ Stopped(t)
  /\ Forget(t)

hwtimer_stop(t) == \/ StopOnly(t) \/ StopHead(t) \/ StopBehind(t) \/ StopFired(t)
----------------------------------------------------------------------------
(* The interrupt handler.                                                    *)

\* hal_timer2_irq_handler acknowledges the interrupt.
HandlerEnter ==
  /\ handler = "idle" /\ pending
  /\ pending' = FALSE
  /\ handler' = "entered"
  /\ UNCHANGED <<list, enabled, value, elapsed, current, nullWrite, history>>

Early == active # <<>> /\ time[Head(active)] > elapsed + HAL_TIMER_LOAD_DELTA

\* The early returns: the timer of this interrupt was stopped meanwhile.
HandlerSpurious ==
  /\ handler = "entered"
  /\ active = <<>> \/ Early
  /\ handler' = "idle"
  /\ UNCHANGED <<list, hw, current, nullWrite, history>>

\* The expired prefix of the active list becomes the fired list and the
\* hardware is started for the rest.
HandlerFire ==
  /\ handler = "entered" /\ active # <<>> /\ ~Early
  /\ LET overrun == Monus(elapsed, time[Head(active)]) IN
     \E n \in DOMAIN active :
       /\ Offset[n] <= overrun
       /\ n < Len(active) => Offset[n + 1] > overrun
       /\ fired' = SubSeq(active, 1, n)
       /\ active' = SubSeq(active, n + 1, Len(active))
       /\ state' = [t \in Timers |-> IF \E j \in 1..n : active[j] = t
                                     THEN "FIRED" ELSE state[t]]
       /\ time' = [t \in Timers |->
                     IF n < Len(active) /\ t = active[n + 1] THEN Offset[n + 1] - overrun
                     ELSE IF \E j \in 1..n : active[j] = t THEN 0 ELSE time[t]]
       /\ due' = [t \in Timers |-> IF \E j \in 1..n : active[j] = t THEN 0 ELSE due[t]]
       /\ postponed' =
            [t \in Timers |-> IF \E j \in 1..n : active[j] = t THEN 0 ELSE postponed[t]]
       /\ IF n < Len(active)
          THEN hal_timer_start(time'[active[n + 1]]) /\ UNCHANGED pending
          ELSE hal_timer_stop
  /\ handler' = "locked"
  /\ UNCHANGED <<free, allocating, current, nullWrite>>

\* The next fired timer: its callback is called with interrupts unmasked.
HandlerCallback ==
  /\ handler = "locked" /\ fired # <<>>
  /\ fired' = Tail(fired)
  /\ state' = [state EXCEPT ![Head(fired)] = "CALLBACK"]
  /\ current' = Head(fired)
  /\ handler' = "callback"
  /\ UNCHANGED <<time, free, active, allocating, hw, nullWrite, history>>

\* Mutant: the timer is made idle even if its callback restarted it.
HandlerReturn_AlwaysIdle ==
  /\ handler = "callback"
  /\ state' = [state EXCEPT ![current] = "ALLOC"]
  /\ current' = Nil
  /\ handler' = "locked"
  /\ UNCHANGED <<time, free, active, fired, allocating, hw, nullWrite, history>>

\* The callback returns: unless it restarted the timer, the timer is idle.
HandlerReturn ==
  /\ handler = "callback"
  /\ state' = IF state[current] = "CALLBACK"
              THEN [state EXCEPT ![current] = "ALLOC"] ELSE state
  /\ current' = Nil
  /\ handler' = "locked"
  /\ UNCHANGED <<time, free, active, fired, allocating, hw, nullWrite, history>>

\* Mutant: one callback per interrupt.
HandlerExit_AfterOne ==
  /\ handler = "locked"
  /\ handler' = "idle"
  /\ UNCHANGED <<list, hw, current, nullWrite, history>>

HandlerExit ==
  /\ handler = "locked" /\ fired = <<>>
  /\ handler' = "idle"
  /\ UNCHANGED <<list, hw, current, nullWrite, history>>

hwtimer_handler == \/ HandlerSpurious \/ HandlerFire \/ HandlerCallback
                   \/ HandlerReturn \/ HandlerExit
----------------------------------------------------------------------------
\* hwtimer_init links the array of timers into the free list.
Init ==
  /\ state = [t \in Timers |-> "FREE"]
  /\ time = [t \in Timers |-> 0]
  /\ free = [i \in 1..HWTIMER_NUM |-> i]
  /\ active = <<>> /\ fired = <<>> /\ allocating = {}
  /\ enabled = FALSE /\ value = 0 /\ elapsed = 0 /\ pending = FALSE
  /\ handler = "idle" /\ current = Nil /\ nullWrite = FALSE
  /\ due = [t \in Timers |-> 0] /\ postponed = [t \in Timers |-> 0]

Operation(t) ==
  \/ AllocInit(t)
  \/ hwtimer_free(t)
  \/ \E ticks \in Ticks : hwtimer_start(t, ticks)
  \/ hwtimer_stop(t)

Next ==
  \/ Tick
  \/ HandlerEnter
  \/ hwtimer_handler
  \/ AllocTake
  \/ \E t \in Timers : Operation(t)

Spec == Init /\ [][Next]_vars

\* The clock ticks, a raised interrupt is taken and callbacks return.
FairSpec == Spec /\ WF_vars(Tick) /\ WF_vars(HandlerEnter) /\ WF_vars(hwtimer_handler)
----------------------------------------------------------------------------
TypeOK ==
  /\ state \in [Timers -> HWTIMER_STATE_T]
  /\ time \in [Timers -> Nat]
  /\ free \in Seq(Timers) /\ active \in Seq(Timers) /\ fired \in Seq(Timers)
  /\ allocating \subseteq Timers
  /\ enabled \in BOOLEAN /\ pending \in BOOLEAN /\ nullWrite \in BOOLEAN
  /\ value \in Nat /\ elapsed \in Nat
  /\ handler \in {"idle", "entered", "locked", "callback"}
  /\ current \in Timers \cup {Nil}
  /\ due \in [Timers -> Nat] /\ postponed \in [Timers -> 0..MaxPostponed]

(* Every timer is where its state says, and nowhere else, whatever           *)
(* operations callbacks and preempting interrupts call: no timer is lost     *)
(* from the lists and none is linked twice.  This is what the assertions     *)
(* "active timer not in list" and "fired timer not in list" of hwtimer_stop  *)
(* and the state assertion of hwtimer_alloc rely on.                         *)
ListsMatchStates ==
  /\ NoDuplicates(free) /\ NoDuplicates(active) /\ NoDuplicates(fired)
  /\ Range(free) \cap allocating = {}
  /\ \A t \in Timers :
       /\ state[t] = "FREE" <=> t \in Range(free) \cup allocating
       /\ state[t] = "ACTIVE" <=> t \in Range(active)
       /\ state[t] = "FIRED" <=> t \in Range(fired)
       /\ state[t] = "CALLBACK" => handler = "callback" /\ current = t

(* While a timer is active the hardware runs and its interrupt is still to   *)
(* come: the counter has not reached zero, the interrupt is raised or the    *)
(* handler is about to look at the list.  When no timer is active the        *)
(* hardware is stopped.  These are the two "HWTIMER collapsed" assertions of *)
(* hwtimer_handler, and what keeps every timer from being forgotten.         *)
HardwareArmed ==
  /\ active # <<>> <=> enabled
  /\ enabled => value > 0 \/ pending \/ handler = "entered"

(* The hardware counts for the head of the list: the "HWTIMER-START          *)
(* collapsed" and "HWTIMER-STOP collapsed" assertions on the counter.        *)
CounterForHead ==
  active # <<>> =>
    /\ value <= time[Head(active)] \/ value <= HAL_TIMER_LOAD_DELTA
    /\ value = 0 => elapsed + HAL_TIMER_LOAD_DELTA >= time[Head(active)]

(* The hardware serves the head of the list whenever there is one.           *)
HardwareForHead == HardwareArmed /\ CounterForHead

(* What the delta list plans for a timer stays within ticks of the expiry     *)
(* requested, or of now if that has passed, whatever insertions, removals,    *)
(* partial firings and stops of expired heads come between: one tick for      *)
(* what the counter rounds up behind an earlier timer, one for a head that is *)
(* loaded with nothing left, and one more each time such a head is stopped    *)
(* before its first tick, whose whole load hwtimer_stop then adds to the next *)
(* timer (next->time += cur_time).  The last is all that may add up.          *)
PlannedIn(k) ==
  IF value > 0 THEN value + Offset[k]
  ELSE Monus(Offset[k], Monus(elapsed, time[Head(active)]))

NeverPlannedLate ==
  \A k \in DOMAIN active :
    PlannedIn(k) <= due[active[k]] + 2 * HAL_TIMER_LOAD_DELTA + postponed[active[k]]

(* hwtimer_stop of an active timer writes no field through a null pointer.   *)
NoNullWrite == ~nullWrite

(* Once no thread, callback or preempting handler calls an operation any     *)
(* more, every active timer fires and the hardware comes to rest             *)
(* (hwtimer_handler).  Without that premise a timer may wait for ever: each  *)
(* start or stop of a timer ahead of it reloads the counter, and each reload *)
(* costs it HAL_TIMER_LOAD_DELTA.                                            *)
Machine == Tick \/ HandlerEnter \/ hwtimer_handler
Fires == <>[][Machine]_vars => <>[](active = <<>>)

(* A fired timer gets its callback unless it is stopped first.               *)
FiredIsHandled == \A t \in Timers : state[t] = "FIRED" ~> state[t] \in {"CALLBACK", "ALLOC"}
=============================================================================
