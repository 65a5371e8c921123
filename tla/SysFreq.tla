------------------------------ MODULE SysFreq ------------------------------
(* platform/hal/hal_sysfreq.c with app_sysfreq_req of apps/common/           *)
(* app_utils.c and the clock mux of platform/hal/hal_cmu.c: users ask for a  *)
(* system frequency, the highest demand is to win, and the ULTRA_LOW_POWER   *)
(* build runs the audio PLL only for frequencies above 52M.  Threads make    *)
(* their requests in several steps, interrupts in one.  Frequencies are the  *)
(* indices of enum HAL_CMU_FREQ_T.                                           *)
EXTENDS Integers, Sequences

CONSTANTS
  Threads,   \* the threads that make requests
  Users,     \* the users of hal_sysfreq that make requests, and user 0
  BootUser,  \* HAL_SYSFREQ_USER_RESVALID_0, which hal_cmu_setup asks 52M for
  AppUsers,  \* the users of app_sysfreq_req; the others call hal_sysfreq_req
  Requests,  \* for each thread, the <<user, frequency>> pairs it asks for
  IrqRequests \* those that interrupts ask for

HAL_SYSFREQ_USER_T == 0..11
HAL_CMU_FREQ_T == 0..6
Freq26M == 2
Freq52M == 3

ASSUME UserAssumption ==
  Users \subseteq HAL_SYSFREQ_USER_T /\ {0, BootUser} \subseteq Users /\ AppUsers \subseteq Users
ASSUME RequestAssumption ==
  /\ Requests \in [Threads -> SUBSET (Users \X HAL_CMU_FREQ_T)]
  /\ IrqRequests \subseteq Users \X HAL_CMU_FREQ_T

VARIABLES
  sysfreq_per_user,  \* the last demand of every user
  top_user,          \* the user whose demand set the frequency
  sys_freq,          \* hal_cmu.c: the system frequency
  pll_user_map,      \* hal_cmu.c: what each PLL runs for
  sys_pll,           \* the PLL that the mux of the system clock selects
  at, call, op       \* of every thread: its place, its request, its next PLL operation

frequency == <<sysfreq_per_user, top_user, sys_freq>>
clock     == <<pll_user_map, sys_pll>>
vars      == <<frequency, clock, at, call, op>>

PLL == {"aud", "usb"}
PllUser == {"sys", "aud", "switch"}
Places == {"idle", "power up", "write", "decide", "check", "power down"}
----------------------------------------------------------------------------
(* hal_sysfreq_req.                                                          *)

\* The highest of the demands, and the first of the users that have it.
TopDemand(demands) == CHOOSE f \in HAL_CMU_FREQ_T :
  /\ \E u \in Users : demands[u] = f
  /\ \A u \in Users : demands[u] <= f
TopDemander(demands) == CHOOSE u \in Users :
  /\ demands[u] = TopDemand(demands)
  /\ \A v \in Users : demands[v] = TopDemand(demands) => u <= v

\* Mutant: the other demands are not looked at.
Lower_Own(demands, user) ==
  IF top_user = user
  THEN sys_freq' = demands[user] /\ UNCHANGED top_user
  ELSE UNCHANGED <<top_user, sys_freq>>

\* A lower demand counts only if it comes from the user that set the frequency.
Lower(demands, user) ==
  IF top_user = user /\ TopDemand(demands) # sys_freq
  THEN /\ sys_freq' = IF TopDemand(demands) > Freq26M THEN TopDemand(demands) ELSE Freq26M
       /\ top_user' = TopDemander(demands)
  ELSE UNCHANGED <<top_user, sys_freq>>

\* The critical section, with the demands already written.
Decide(demands, user, freq) ==
  IF freq < sys_freq THEN Lower(demands, user) ELSE sys_freq' = freq /\ top_user' = user

Write(user, freq) == sysfreq_per_user' = [sysfreq_per_user EXCEPT ![user] = freq]

\* A request from an interrupt: no thread runs between the write and the decision.
Interrupt(user, freq) ==
  /\ Write(user, freq)
  /\ Decide([sysfreq_per_user EXCEPT ![user] = freq], user, freq)
  /\ UNCHANGED <<clock, at, call, op>>
----------------------------------------------------------------------------
(* The PLL operations of hal_cmu_low_freq_mode_disable and _enable; each one *)
(* is a critical section.                                                    *)

On(pll, user)  == [do |-> "on", pll |-> pll, user |-> user]
Off(pll, user) == [do |-> "off", pll |-> pll, user |-> user]
Select(pll)    == [do |-> "select", pll |-> pll, user |-> "sys"]

LowFreqModeDisable ==
  <<On("aud", "sys"), On("aud", "switch"), On("usb", "switch"), Select("aud"),
    Off("aud", "switch"), Off("usb", "switch")>>
LowFreqModeEnable ==
  <<On("aud", "switch"), On("usb", "switch"), Select("usb"), Off("aud", "switch"),
    Off("usb", "switch"), Off("aud", "sys")>>

PllOp(o) ==
  IF o.do = "select" THEN sys_pll' = o.pll /\ UNCHANGED pll_user_map
  ELSE /\ pll_user_map' = [pll_user_map EXCEPT ![o.pll] =
            IF o.do = "on" THEN @ \union {o.user} ELSE @ \ {o.user}]
       /\ UNCHANGED sys_pll

\* A thread goes on to a place; with the last one its call is over.
NoCall == [user |-> BootUser, freq |-> Freq52M, old_sysfreq |-> Freq52M]
GoTo(t, place) ==
  /\ at' = [at EXCEPT ![t] = place]
  /\ call' = IF place = "idle" THEN [call EXCEPT ![t] = NoCall] ELSE call

\* Mutant: the next sequence of operations does not start at its first.
Operate_NoReset(t, here, ops, next) ==
  /\ at[t] = here /\ PllOp(ops[op[t]]) /\ op' = [op EXCEPT ![t] = @ + 1]
  /\ IF op[t] < Len(ops) THEN UNCHANGED <<at, call>> ELSE GoTo(t, next)
  /\ UNCHANGED frequency

\* The operations of a place one after the other, and then the next place.
Operate(t, here, ops, next) ==
  /\ at[t] = here /\ PllOp(ops[op[t]])
  /\ IF op[t] < Len(ops)
     THEN op' = [op EXCEPT ![t] = @ + 1] /\ UNCHANGED <<at, call>>
     ELSE op' = [op EXCEPT ![t] = 1] /\ GoTo(t, next)
  /\ UNCHANGED frequency
----------------------------------------------------------------------------
(* A thread: app_sysfreq_req, or hal_sysfreq_req alone.                      *)

IsApp(t) == call[t].user \in AppUsers

\* Mutant: the PLL is started after the frequency is raised.
FirstPlace_Late(user, freq) == "write"

FirstPlace(user, freq) ==
  IF user \in AppUsers /\ sys_freq <= Freq52M /\ freq > Freq52M THEN "power up" ELSE "write"

Begin(t, user, freq) ==
  /\ at[t] = "idle" /\ at' = [at EXCEPT ![t] = FirstPlace(user, freq)]
  /\ call' = [call EXCEPT ![t] = [user |-> user, freq |-> freq, old_sysfreq |-> sys_freq]]
  /\ UNCHANGED <<frequency, clock, op>>

PowerUp(t) == Operate(t, "power up", LowFreqModeDisable, "write")

WriteDemand(t) ==
  /\ at[t] = "write" /\ Write(call[t].user, call[t].freq) /\ GoTo(t, "decide")
  /\ UNCHANGED <<top_user, sys_freq, clock, op>>

DecideFreq(t) ==
  /\ at[t] = "decide" /\ Decide(sysfreq_per_user, call[t].user, call[t].freq)
  /\ GoTo(t, IF IsApp(t) THEN "check" ELSE "idle")
  /\ UNCHANGED <<sysfreq_per_user, clock, op>>

Check(t) ==
  /\ at[t] = "check"
  /\ GoTo(t, IF call[t].old_sysfreq > Freq52M /\ sys_freq <= Freq52M THEN "power down" ELSE "idle")
  /\ UNCHANGED <<frequency, clock, op>>

PowerDown(t) == Operate(t, "power down", LowFreqModeEnable, "idle")

\* The codec's driver takes and releases the audio PLL (analog_aud_pll_open and
\* analog_aud_pll_close).
AudioPll ==
  /\ PllOp(On("aud", "aud")) \/ PllOp(Off("aud", "aud"))
  /\ UNCHANGED <<frequency, at, call, op>>
----------------------------------------------------------------------------
\* After hal_cmu_setup.
Init ==
  /\ sysfreq_per_user = [u \in Users |-> IF u = BootUser THEN Freq52M ELSE 0]
  /\ top_user = BootUser /\ sys_freq = Freq52M
  /\ pll_user_map = [p \in PLL |-> {}] /\ sys_pll = "usb"
  /\ at = [t \in Threads |-> "idle"] /\ op = [t \in Threads |-> 1]
  /\ call = [t \in Threads |-> NoCall]

ThreadStep(t) ==
  \/ \E r \in Requests[t] : Begin(t, r[1], r[2])
  \/ PowerUp(t) \/ WriteDemand(t) \/ DecideFreq(t) \/ Check(t) \/ PowerDown(t)

Next ==
  \/ \E t \in Threads : ThreadStep(t)
  \/ \E r \in IrqRequests : Interrupt(r[1], r[2])
  \/ AudioPll

Spec == Init /\ [][Next]_vars
----------------------------------------------------------------------------
TypeOK ==
  /\ sysfreq_per_user \in [Users -> HAL_CMU_FREQ_T]
  /\ top_user \in Users /\ sys_freq \in HAL_CMU_FREQ_T
  /\ pll_user_map \in [PLL -> SUBSET PllUser] /\ sys_pll \in PLL
  /\ at \in [Threads -> Places] /\ op \in [Threads -> 1..6]
  /\ call \in [Threads -> [user : Users, freq : HAL_CMU_FREQ_T, old_sysfreq : HAL_CMU_FREQ_T]]

\* The threads that have written a demand of u and not yet decided on it.
Pending(u) == {t \in Threads : at[t] = "decide" /\ call[t].user = u}

\* No user is left with a frequency below its demand (hal_sysfreq_req), though
\* demands are written outside the lock: a demand the frequency does not meet
\* is one that a thread is still about to decide on.
Served ==
  \A u \in Users : sysfreq_per_user[u] <= sys_freq
    \/ \E t \in Pending(u) : call[t].freq = sysfreq_per_user[u]

\* Above 52M the PLL that the system clock selects is running ("Enable PLL if
\* required", app_sysfreq_req).
PllRuns == sys_freq > Freq52M => pll_user_map[sys_pll] # {}

\* The other half: the audio PLL does not run for the system when no request is under way and
\* the frequency does not need it ("Disable PLL if capable", app_sysfreq_req).
PllStopped ==
  (\A t \in Threads : at[t] = "idle") /\ sys_freq <= Freq52M => "sys" \notin pll_user_map["aud"]

\* A call of app_sysfreq_req is under way, and one that switches the PLLs.
InCall(t) == at[t] # "idle" /\ IsApp(t)
Switches(t) ==
  InCall(t) /\ (at[t] = "power down" \/ (call[t].old_sysfreq <= Freq52M /\ call[t].freq > Freq52M))

\* A call that switches the PLLs meets a call of another thread.
Overlap == \E t \in Threads : Switches(t) /\ \E u \in Threads \ {t} : InCall(u)

\* As long as no call that switches the PLLs meets one of another thread, a PLL
\* runs while the clock selects it and none is left running for a clock that no
\* longer needs it (app_sysfreq_req), with any other interleaving of the
\* threads' calls, of their steps, and of the interrupts' demands.
PllFollowsClock == []~Overlap => [](PllRuns /\ PllStopped)

\* Each user of app_sysfreq_req is the user of one thread, interrupts do not
\* call it, and who calls hal_sysfreq_req asks for 52M at most.
AsksApart ==
  /\ \A t \in Threads : \A r \in Requests[t] :
       IF r[1] \in AppUsers
       THEN \A u \in Threads \ {t} : \A q \in Requests[u] : q[1] # r[1]
       ELSE r[2] <= Freq52M
  /\ \A r \in IrqRequests : r[1] \notin AppUsers /\ r[2] <= Freq52M
=============================================================================
