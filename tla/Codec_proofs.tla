---------------------------- MODULE Codec_proofs ----------------------------
(* Theorems about the system's frequency and about its user the codec.  For  *)
(* any threads and any requests of theirs and of the interrupts: SysFreq's   *)
(* types are correct, no demand is left unserved, and the PLLs follow the    *)
(* frequency until a call of app_sysfreq_req that switches them meets        *)
(* another one.  The codec's driver is a user of SysFreq; its demand and its *)
(* hold on the audio PLL follow the codec, and the delayed close finds every *)
(* stream closed.                                                            *)
EXTENDS Codec, TLAPS

Demands == [Users -> HAL_CMU_FREQ_T]
IInv == TypeOK /\ Served

\* The maximum of the demands exists and bounds every demand (the loop of
\* hal_sysfreq_req).
LEMMA TopDemandLemma ==
  ASSUME NEW d \in Demands
  PROVE  /\ TopDemand(d) \in HAL_CMU_FREQ_T
         /\ \E u \in Users : d[u] = TopDemand(d)
         /\ \A u \in Users : d[u] <= TopDemand(d)
<1> DEFINE Is(f) == (\E u \in Users : d[u] = f) /\ (\A u \in Users : d[u] <= f)
<1>1. BootUser \in Users /\ \A u \in Users : d[u] \in 0..6
  BY UserAssumption DEF Demands, HAL_CMU_FREQ_T
<1>2. \E f \in HAL_CMU_FREQ_T : Is(f)
  <2>1. \A f \in 0..6 : (\A u \in Users : d[u] <= f) /\ ~(\E u \in Users : d[u] = f)
          => f > 0 /\ \A u \in Users : d[u] <= f - 1
    BY <1>1
  <2>2. \A u \in Users : d[u] <= 6
    BY <1>1
  <2>3. CASE \E u \in Users : d[u] = 6
    BY <2>2, <2>3 DEF HAL_CMU_FREQ_T
  <2>4. CASE (\A u \in Users : d[u] <= 5) /\ \E u \in Users : d[u] = 5
    BY <2>4 DEF HAL_CMU_FREQ_T
  <2>5. CASE (\A u \in Users : d[u] <= 4) /\ \E u \in Users : d[u] = 4
    BY <2>5 DEF HAL_CMU_FREQ_T
  <2>6. CASE (\A u \in Users : d[u] <= 3) /\ \E u \in Users : d[u] = 3
    BY <2>6 DEF HAL_CMU_FREQ_T
  <2>7. CASE (\A u \in Users : d[u] <= 2) /\ \E u \in Users : d[u] = 2
    BY <2>7 DEF HAL_CMU_FREQ_T
  <2>8. CASE (\A u \in Users : d[u] <= 1) /\ \E u \in Users : d[u] = 1
    BY <2>8 DEF HAL_CMU_FREQ_T
  <2>9. CASE (\A u \in Users : d[u] <= 0) /\ \E u \in Users : d[u] = 0
    BY <2>9 DEF HAL_CMU_FREQ_T
  <2>10. QED
    BY <2>1, <2>2, <2>3, <2>4, <2>5, <2>6, <2>7, <2>8, <2>9
<1>3. TopDemand(d) = CHOOSE f \in HAL_CMU_FREQ_T : Is(f)
  BY DEF TopDemand
<1>4. TopDemand(d) \in HAL_CMU_FREQ_T /\ Is(TopDemand(d))
  <2> HIDE DEF Is
  <2>1. QED
    BY <1>2, <1>3, Zenon
<1>5. QED
  BY <1>4

\* A set of users has a first one.
LEMMA FirstUserLemma ==
  ASSUME NEW S, S \subseteq HAL_SYSFREQ_USER_T, S # {}
  PROVE  \E u \in S : \A v \in S : u <= v
<1>1. SUFFICES ASSUME \A u \in S : \E v \in S : v < u PROVE FALSE
  <2>1. \A u, v \in S : u <= v \/ v < u
    BY DEF HAL_SYSFREQ_USER_T
  <2>2. QED
    BY <2>1
<1>2. \A u \in S : u \in 0..11
  BY DEF HAL_SYSFREQ_USER_T
<1>3. \A u \in S : u > 2
  BY <1>1, <1>2
<1>4. \A u \in S : u > 5
  BY <1>1, <1>2, <1>3
<1>5. \A u \in S : u > 8
  BY <1>1, <1>2, <1>4
<1>6. \A u \in S : u > 11
  BY <1>1, <1>2, <1>5
<1>7. QED
  BY <1>2, <1>6

LEMMA TopDemanderLemma ==
  ASSUME NEW d \in Demands
  PROVE  TopDemander(d) \in Users /\ d[TopDemander(d)] = TopDemand(d)
<1> DEFINE S == {u \in Users : d[u] = TopDemand(d)}
<1> DEFINE Is(u) == d[u] = TopDemand(d) /\ \A v \in Users : d[v] = TopDemand(d) => u <= v
<1>1. S \subseteq HAL_SYSFREQ_USER_T /\ S # {}
  BY TopDemandLemma, UserAssumption
<1>2. \E u \in S : \A v \in S : u <= v
  <2> HIDE DEF S
  <2>1. QED
    BY <1>1, FirstUserLemma
<1>3. \E u \in Users : Is(u)
  BY <1>2
<1>4. TopDemander(d) = CHOOSE u \in Users : Is(u)
  BY DEF TopDemander
<1>5. TopDemander(d) \in Users /\ Is(TopDemander(d))
  <2> HIDE DEF Is
  <2>1. QED
    BY <1>3, <1>4, Zenon
<1>6. QED
  BY <1>5

\* The critical section never leaves the decided demand, or one it had met
\* before, above the frequency.
LEMMA DecideLemma ==
  ASSUME NEW d \in Demands, NEW user \in Users, NEW freq \in HAL_CMU_FREQ_T,
         sys_freq \in HAL_CMU_FREQ_T, top_user \in Users, Decide(d, user, freq)
  PROVE  /\ sys_freq' \in HAL_CMU_FREQ_T /\ top_user' \in Users
         /\ freq <= sys_freq' \/ d[user] # freq
         /\ \A u \in Users : d[u] <= sys_freq => d[u] <= sys_freq'
<1> DEFINE top == TopDemand(d)
<1>1. top \in 0..6 /\ (\A u \in Users : d[u] \in 0..6 /\ d[u] <= top) /\ TopDemander(d) \in Users
  BY TopDemandLemma, TopDemanderLemma DEF Demands, HAL_CMU_FREQ_T
<1>2. sys_freq \in 0..6 /\ freq \in 0..6
  BY DEF HAL_CMU_FREQ_T
<1> HIDE DEF top
<1>3. CASE freq < sys_freq /\ top_user = user /\ top # sys_freq
  <2>1. sys_freq' = IF top > Freq26M THEN top ELSE Freq26M
    BY <1>3 DEF Decide, Lower, top
  <2>2. top_user' = TopDemander(d)
    BY <1>3 DEF Decide, Lower, top
  <2>3. sys_freq' \in 0..6 /\ top <= sys_freq'
    BY <1>1, <2>1 DEF Freq26M
  <2>4. QED
    BY <1>1, <1>2, <2>2, <2>3 DEF HAL_CMU_FREQ_T
<1>4. CASE freq < sys_freq /\ ~(top_user = user /\ top # sys_freq)
  <2>1. sys_freq' = sys_freq /\ top_user' = top_user
    BY <1>4 DEF Decide, Lower, top
  <2>2. QED
    BY <1>2, <1>4, <2>1 DEF HAL_CMU_FREQ_T
<1>5. CASE ~(freq < sys_freq)
  <2>1. sys_freq' = freq /\ top_user' = user
    BY <1>5 DEF Decide
  <2>2. QED
    BY <1>1, <1>2, <1>5, <2>1 DEF HAL_CMU_FREQ_T
<1>6. QED
  BY <1>3, <1>4, <1>5

LEMMA OpsLemma ==
  /\ Len(LowFreqModeDisable) = 6 /\ Len(LowFreqModeEnable) = 6
  /\ \A i \in 1..6 : LowFreqModeDisable[i] \in [do : {"on", "off", "select"}, pll : PLL, user : PllUser]
  /\ \A i \in 1..6 : LowFreqModeEnable[i] \in [do : {"on", "off", "select"}, pll : PLL, user : PllUser]
BY DEF LowFreqModeDisable, LowFreqModeEnable, On, Off, Select, PLL, PllUser
----------------------------------------------------------------------------
LEMMA InitTypeLemma == Init => TypeOK
BY UserAssumption DEF Init, NoCall, TypeOK, HAL_CMU_FREQ_T, Freq52M, PLL, PllUser, Places

\* A thread that goes on; its call stays what it is unless it is over.
LEMMA GoToLemma ==
  ASSUME TypeOK, NEW t \in Threads, NEW place_ \in Places, GoTo(t, place_)
  PROVE  /\ at' \in [Threads -> Places] /\ at'[t] = place_ /\ (place_ # "idle" => call' = call)
         /\ call' \in [Threads -> [user : Users, freq : HAL_CMU_FREQ_T, old_sysfreq : HAL_CMU_FREQ_T]]
         /\ \A s \in Threads : s # t => at'[s] = at[s] /\ call'[s] = call[s]
<1>1. NoCall \in [user : Users, freq : HAL_CMU_FREQ_T, old_sysfreq : HAL_CMU_FREQ_T]
  BY UserAssumption DEF NoCall, HAL_CMU_FREQ_T, Freq52M
<1>2. at' = [at EXCEPT ![t] = place_]
      /\ call' = IF place_ = "idle" THEN [call EXCEPT ![t] = NoCall] ELSE call
  BY DEF GoTo
<1> HIDE DEF NoCall
<1>3. QED
  BY <1>1, <1>2 DEF TypeOK

LEMMA OperateLemma ==
  ASSUME TypeOK, NEW t \in Threads, NEW here, NEW next \in Places,
         NEW ops, Len(ops) = 6, Operate(t, here, ops, next)
  PROVE  /\ at[t] = here /\ op[t] \in 1..6 /\ PllOp(ops[op[t]]) /\ UNCHANGED frequency
         /\ op[t] < 6 => op' = [op EXCEPT ![t] = op[t] + 1] /\ UNCHANGED <<at, call>>
         /\ op[t] = 6 => op' = [op EXCEPT ![t] = 1] /\ GoTo(t, next)
         /\ at'[t] \in {here, next} /\ \A s \in Threads : s # t => at'[s] = at[s] /\ call'[s] = call[s]
<1>1. at[t] = here /\ op[t] \in 1..6 /\ PllOp(ops[op[t]]) /\ UNCHANGED frequency
  BY DEF TypeOK, Operate
<1>2. CASE op[t] < 6
  BY <1>1, <1>2 DEF Operate
<1>3. CASE op[t] = 6
  <2>1. op' = [op EXCEPT ![t] = 1] /\ GoTo(t, next)
    BY <1>1, <1>3 DEF Operate
  <2>2. QED
    BY <1>1, <1>3, <2>1, GoToLemma
<1>4. QED
  BY <1>1, <1>2, <1>3

\* The operations on the PLLs keep the types, and no demand or frequency.
LEMMA OperateTypeLemma ==
  ASSUME TypeOK, NEW t \in Threads, NEW here, NEW next \in Places,
         NEW ops, Len(ops) = 6, ops \in {LowFreqModeDisable, LowFreqModeEnable},
         Operate(t, here, ops, next)
  PROVE  TypeOK'
<1>1. op[t] \in 1..6 /\ PllOp(ops[op[t]]) /\ UNCHANGED <<sysfreq_per_user, top_user, sys_freq>>
  BY OperateLemma DEF frequency
<1>2. /\ op' \in [Threads -> 1..6] /\ at' \in [Threads -> Places]
      /\ call' \in [Threads -> [user : Users, freq : HAL_CMU_FREQ_T, old_sysfreq : HAL_CMU_FREQ_T]]
  <2>1. CASE op[t] < 6
    BY <1>1, <2>1, OperateLemma DEF TypeOK
  <2>2. CASE op[t] = 6
    <3>1. op' = [op EXCEPT ![t] = 1] /\ GoTo(t, next)
      BY <2>2, OperateLemma
    <3>2. QED
      BY <3>1, GoToLemma DEF TypeOK
  <2>3. QED
    BY <1>1, <2>1, <2>2
<1> DEFINE o == ops[op[t]]
<1>3. o \in [do : {"on", "off", "select"}, pll : PLL, user : PllUser]
  BY <1>1, OpsLemma
<1>4. PllOp(o)
  BY <1>1
<1>5. pll_user_map' \in [PLL -> SUBSET PllUser] /\ sys_pll' \in PLL
  <2> HIDE DEF o
  <2>1. pll_user_map \in [PLL -> SUBSET PllUser] /\ sys_pll \in PLL
    BY DEF TypeOK
  <2>2. o.pll \in PLL /\ o.user \in PllUser
    BY <1>3
  <2>3. QED
    BY <1>4, <2>1, <2>2 DEF PllOp
<1>6. QED
  BY <1>1, <1>2, <1>5 DEF TypeOK

\* A demand that the frequency meets, or that a thread is to decide on.
LEMMA NextLemma == IInv /\ [Next]_vars => IInv'
<1>1. SUFFICES ASSUME IInv, [Next]_vars PROVE IInv'
  OBVIOUS
<1>2. TypeOK /\ Served
  BY <1>1 DEF IInv
<1>3. ASSUME NEW t \in Threads, NEW r \in Requests[t], Begin(t, r[1], r[2]) PROVE IInv'
  <2>1. r[1] \in Users /\ r[2] \in HAL_CMU_FREQ_T
    BY RequestAssumption
  <2>2. at[t] = "idle" /\ at' = [at EXCEPT ![t] = FirstPlace(r[1], r[2])]
        /\ UNCHANGED <<frequency, clock, op>>
        /\ call' = [call EXCEPT ![t] = [user |-> r[1], freq |-> r[2], old_sysfreq |-> sys_freq]]
    BY <1>3 DEF Begin, GoTo
  <2>3. TypeOK'
    BY <1>2, <2>1, <2>2 DEF TypeOK, FirstPlace, Places, frequency, clock
  <2>4. \A u \in Users : Pending(u) \subseteq Pending(u)' /\ \A s \in Pending(u) : call'[s] = call[s]
    BY <1>2, <2>2 DEF TypeOK, Pending
  <2>5. Served'
    BY <1>2, <2>2, <2>4 DEF Served, frequency
  <2>6. QED
    BY <2>3, <2>5 DEF IInv
<1>4. ASSUME NEW t \in Threads, PowerUp(t) \/ PowerDown(t) PROVE IInv'
  <2>1. TypeOK'
    BY <1>2, <1>4, OperateTypeLemma, OpsLemma DEF PowerUp, PowerDown, Places
  <2>2. /\ UNCHANGED frequency /\ at[t] # "decide" /\ at'[t] # "decide"
        /\ \A s \in Threads : s # t => at'[s] = at[s] /\ call'[s] = call[s]
    <3>1. CASE PowerUp(t)
      <4>1. Operate(t, "power up", LowFreqModeDisable, "write")
        BY <3>1 DEF PowerUp
      <4>2. "write" \in Places /\ Len(LowFreqModeDisable) = 6
        BY OpsLemma DEF Places
      <4>3. at[t] = "power up" /\ at'[t] \in {"power up", "write"} /\ UNCHANGED frequency
        BY <1>2, <4>1, <4>2, OperateLemma
      <4>4. \A s \in Threads : s # t => at'[s] = at[s] /\ call'[s] = call[s]
        BY <1>2, <4>1, <4>2, OperateLemma
      <4>5. QED
        BY <4>3, <4>4
    <3>2. CASE PowerDown(t)
      <4>1. Operate(t, "power down", LowFreqModeEnable, "idle")
        BY <3>2 DEF PowerDown
      <4>2. "idle" \in Places /\ Len(LowFreqModeEnable) = 6
        BY OpsLemma DEF Places
      <4>3. at[t] = "power down" /\ at'[t] \in {"power down", "idle"} /\ UNCHANGED frequency
        BY <1>2, <4>1, <4>2, OperateLemma
      <4>4. \A s \in Threads : s # t => at'[s] = at[s] /\ call'[s] = call[s]
        BY <1>2, <4>1, <4>2, OperateLemma
      <4>5. QED
        BY <4>3, <4>4
    <3>3. QED
      BY <1>4, <3>1, <3>2
  <2>3. \A u \in Users : Pending(u)' = Pending(u) /\ \A s \in Pending(u) : call'[s] = call[s]
    BY <2>2 DEF Pending
  <2>4. Served'
    BY <1>2, <2>2, <2>3 DEF Served, frequency
  <2>5. QED
    BY <2>1, <2>4 DEF IInv
<1>5. ASSUME NEW t \in Threads, WriteDemand(t) PROVE IInv'
  <2>1. at[t] = "write" /\ at' = [at EXCEPT ![t] = "decide"]
        /\ sysfreq_per_user' = [sysfreq_per_user EXCEPT ![call[t].user] = call[t].freq]
        /\ UNCHANGED <<top_user, sys_freq, clock, call, op>>
    BY <1>5 DEF WriteDemand, Write, GoTo
  <2>2. call[t].user \in Users /\ call[t].freq \in HAL_CMU_FREQ_T
    BY <1>2 DEF TypeOK
  <2>3. TypeOK'
    BY <1>2, <2>1, <2>2 DEF TypeOK, Places, clock
  <2>4. \A u \in Users : Pending(u) \subseteq Pending(u)'
    BY <1>2, <2>1 DEF TypeOK, Pending
  <2>5. t \in Pending(call[t].user)'
    BY <1>2, <2>1 DEF TypeOK, Pending
  <2>6. sysfreq_per_user'[call[t].user] = call'[t].freq
    BY <1>2, <2>1, <2>2 DEF TypeOK
  <2>7. \A u \in Users : u # call[t].user => sysfreq_per_user'[u] = sysfreq_per_user[u]
    BY <1>2, <2>1, <2>2 DEF TypeOK
  <2>8. Served'
    BY <1>2, <2>1, <2>4, <2>5, <2>6, <2>7 DEF Served
  <2>9. QED
    BY <2>3, <2>8 DEF IInv
<1>6. ASSUME NEW t \in Threads, DecideFreq(t) PROVE IInv'
  <2> DEFINE d == sysfreq_per_user
  <2>1. /\ at[t] = "decide" /\ Decide(d, call[t].user, call[t].freq)
        /\ UNCHANGED <<sysfreq_per_user, clock, op>>
        /\ \E place_ \in {"check", "idle"} : GoTo(t, place_)
    BY <1>6 DEF DecideFreq
  <2>g. PICK place_ \in {"check", "idle"} : GoTo(t, place_)
    BY <2>1
  <2>h. /\ at' \in [Threads -> Places]
        /\ call' \in [Threads -> [user : Users, freq : HAL_CMU_FREQ_T, old_sysfreq : HAL_CMU_FREQ_T]]
        /\ \A s \in Threads : s # t => at'[s] = at[s] /\ call'[s] = call[s]
    BY <1>2, <2>g, GoToLemma DEF Places
  <2>2. call[t].user \in Users /\ call[t].freq \in HAL_CMU_FREQ_T /\ d \in Demands
        /\ sys_freq \in HAL_CMU_FREQ_T /\ top_user \in Users
    BY <1>2 DEF TypeOK, Demands
  <2> DEFINE U == call[t].user
  <2> DEFINE F == call[t].freq
  <2>3. sys_freq' \in HAL_CMU_FREQ_T /\ top_user' \in Users
        /\ (F <= sys_freq' \/ d[U] # F) /\ \A u \in Users : d[u] <= sys_freq => d[u] <= sys_freq'
    <3> HIDE DEF d, U, F
    <3>1. U \in Users /\ F \in HAL_CMU_FREQ_T /\ Decide(d, U, F)
      BY <2>1, <2>2 DEF U, F
    <3>2. QED
      BY <2>2, <3>1, DecideLemma
  <2>4. TypeOK'
    BY <1>2, <2>1, <2>3, <2>h DEF TypeOK, clock
  <2>5. \A u \in Users : \A s \in Pending(u) : s = t \/ (s \in Pending(u)' /\ call'[s] = call[s])
    BY <2>h DEF Pending
  <2>6. \A u \in Users : t \in Pending(u) => u = U
    BY DEF Pending
  <2>7. Served'
    <3>1. SUFFICES ASSUME NEW u \in Users, ~(d[u] <= sys_freq')
                   PROVE  \E s \in Pending(u)' : call'[s].freq = d[u]
      BY <2>1 DEF Served
    <3>2. ~(d[u] <= sys_freq)
      BY <2>3, <3>1
    <3>3. PICK s \in Pending(u) : call[s].freq = d[u]
      BY <1>2, <3>2 DEF Served
    <3>4. s # t
      BY <2>3, <2>6, <3>1, <3>3
    <3>5. QED
      BY <2>1, <2>5, <3>3, <3>4
  <2>8. QED
    BY <2>4, <2>7 DEF IInv
<1>7. ASSUME NEW t \in Threads, Check(t) PROVE IInv'
  <2>1. PICK place_ \in {"power down", "idle"} :
          at[t] = "check" /\ GoTo(t, place_) /\ UNCHANGED <<frequency, clock, op>>
    BY <1>7 DEF Check
  <2>h. /\ at' \in [Threads -> Places] /\ at'[t] = place_
        /\ call' \in [Threads -> [user : Users, freq : HAL_CMU_FREQ_T, old_sysfreq : HAL_CMU_FREQ_T]]
        /\ \A s \in Threads : s # t => at'[s] = at[s] /\ call'[s] = call[s]
    BY <1>2, <2>1, GoToLemma DEF Places
  <2>2. TypeOK'
    BY <1>2, <2>1, <2>h DEF TypeOK, frequency, clock
  <2>3. \A u \in Users : Pending(u)' = Pending(u) /\ \A s \in Pending(u) : call'[s] = call[s]
    BY <2>1, <2>h DEF Pending
  <2>4. Served'
    BY <1>2, <2>1, <2>3 DEF Served, frequency
  <2>5. QED
    BY <2>2, <2>4 DEF IInv
<1>8. ASSUME NEW r \in IrqRequests, Interrupt(r[1], r[2]) PROVE IInv'
  <2> DEFINE d == [sysfreq_per_user EXCEPT ![r[1]] = r[2]]
  <2>1. r[1] \in Users /\ r[2] \in HAL_CMU_FREQ_T
    BY RequestAssumption
  <2>2. sysfreq_per_user' = d /\ Decide(d, r[1], r[2]) /\ UNCHANGED <<clock, at, call, op>>
    BY <1>8 DEF Interrupt, Write
  <2>3. d \in Demands /\ d[r[1]] = r[2] /\ \A u \in Users : u # r[1] => d[u] = sysfreq_per_user[u]
    BY <1>2, <2>1 DEF TypeOK, Demands
  <2>4. sys_freq' \in HAL_CMU_FREQ_T /\ top_user' \in Users
        /\ r[2] <= sys_freq' /\ \A u \in Users : d[u] <= sys_freq => d[u] <= sys_freq'
    <3> HIDE DEF d
    <3>1. sys_freq \in HAL_CMU_FREQ_T /\ top_user \in Users
      BY <1>2 DEF TypeOK
    <3>2. QED
      BY <2>1, <2>2, <2>3, <3>1, DecideLemma
  <2>5. TypeOK'
    <3> HIDE DEF d
    <3>1. QED
      BY <1>2, <2>2, <2>3, <2>4 DEF TypeOK, Demands, clock
  <2>6. \A u \in Users : Pending(u)' = Pending(u)
    BY <2>2 DEF Pending
  <2>7. Served'
    <3> HIDE DEF d
    <3>1. QED
      BY <1>2, <2>2, <2>3, <2>4, <2>6 DEF Served
  <2>8. QED
    BY <2>5, <2>7 DEF IInv
<1>9. ASSUME AudioPll PROVE IInv'
  <2>1. PICK o \in {On("aud", "aud"), Off("aud", "aud")} : PllOp(o)
    BY <1>9 DEF AudioPll
  <2>2. pll_user_map' \in [PLL -> SUBSET PllUser] /\ sys_pll' \in PLL
    BY <1>2, <2>1 DEF TypeOK, PllOp, On, Off, PLL, PllUser
  <2>3. UNCHANGED <<frequency, at, call, op>>
    BY <1>9 DEF AudioPll
  <2>4. QED
    BY <1>2, <2>2, <2>3 DEF IInv, TypeOK, Served, Pending, frequency
<1>10. CASE UNCHANGED vars
  BY <1>2, <1>10 DEF IInv, TypeOK, Served, Pending, vars, frequency, clock
<1>11. QED
  BY <1>1, <1>3, <1>4, <1>5, <1>6, <1>7, <1>8, <1>9, <1>10 DEF Next, ThreadStep
----------------------------------------------------------------------------
LEMMA InitLemma == Init => IInv
<1>1. SUFFICES ASSUME Init PROVE IInv
  OBVIOUS
<1>2. TypeOK
  BY <1>1, InitTypeLemma
<1>3. Served
  BY <1>1 DEF Init, Served, Freq52M
<1>4. QED
  BY <1>2, <1>3 DEF IInv

\* The variables of hal_sysfreq.c, hal_cmu.c and the requests keep their types.
THEOREM TypeTheorem == Spec => []TypeOK
<1>1. IInv => TypeOK
  BY DEF IInv
<1>2. QED
  BY <1>1, InitLemma, NextLemma, PTL DEF Spec

\* No user of hal_sysfreq_req is left below its demand, whatever threads and
\* interrupts come between the write of a demand and the decision on it.
THEOREM ServedTheorem == Spec => []Served
<1>1. IInv => Served
  BY DEF IInv
<1>2. QED
  BY <1>1, InitLemma, NextLemma, PTL DEF Spec
----------------------------------------------------------------------------
(* The PLLs follow the frequency until a call of app_sysfreq_req that        *)
(* switches them meets another one.  In the run of MCSysFreq_pll two such    *)
(* calls meet, and there the clock loses its PLL.                            *)

High == sys_freq > Freq52M
SysHeld == "sys" \in pll_user_map["aud"]
Ready == SysHeld /\ sys_pll = "aud"
Rising(t) == call[t].freq > Freq52M
Low(t) == ~(call[t].old_sysfreq > Freq52M) /\ ~Rising(t)

\* Threads ask for what they may ask for.
Asked ==
  \A t \in Threads : at[t] # "idle" =>
    <<call[t].user, call[t].freq>> \in Requests[t] /\ (~IsApp(t) => at[t] \in {"write", "decide"})

\* The frequency above 52M is that of a user of app_sysfreq_req, what a call
\* has written is still there when it decides, and a call that neither found
\* nor asks for a frequency above 52M has no hold on one.
DemandsAgree ==
  /\ \A u \in Users \ AppUsers : ~(sysfreq_per_user[u] > Freq52M)
  /\ High => top_user \in AppUsers
  /\ \A t \in Threads : InCall(t) /\ at[t] = "decide" => sysfreq_per_user[call[t].user] = call[t].freq
  /\ \A t \in Threads : InCall(t) /\ Low(t) =>
       ~(sysfreq_per_user[call[t].user] > Freq52M) /\ (High => top_user # call[t].user)

\* A thread is switching the PLLs, or the PLLs are on or off for good: on for
\* the frequency or for a call that will raise it or look whether it fell.
Switching(t) == at[t] \in {"power up", "power down"}
Steady == \A t \in Threads : ~Switching(t)
Holds(t) ==
  InCall(t) /\ (call[t].old_sysfreq > Freq52M \/ (Rising(t) /\ at[t] \in {"write", "decide"}))
PllOn == Ready /\ (High \/ \E t \in Threads : Holds(t))
PllOff == ~SysHeld /\ ~High /\ \A t \in Threads : InCall(t) => Low(t)

PllAgrees ==
  /\ \A t \in Threads : ~Switching(t) => op[t] = 1
  /\ \A t \in Threads : Switching(t) => ~High
  /\ \A t \in Threads : at[t] = "power up" =>
       /\ ~(call[t].old_sysfreq > Freq52M) /\ Rising(t)
       /\ op[t] > 1 => SysHeld
       /\ op[t] > 4 => sys_pll = "aud"
  /\ Steady => PllOn \/ PllOff

PInv == Asked /\ DemandsAgree /\ PllAgrees

\* A thread that switches is the only one in a call.
LEMMA SoleLemma ==
  ASSUME IInv, PInv, ~Overlap, NEW t \in Threads, Switching(t)
  PROVE  InCall(t) /\ \A u \in Threads : u # t => ~InCall(u) /\ ~Switching(u)
<1>1. \A u \in Threads : Switching(u) => InCall(u)
  BY DEF PInv, Asked, Switching, InCall
<1>2. call[t].old_sysfreq \in 0..6 /\ call[t].freq \in 0..6
  BY DEF IInv, TypeOK, HAL_CMU_FREQ_T
<1>3. at[t] = "power up" => call[t].old_sysfreq <= Freq52M /\ call[t].freq > Freq52M
  <2>1. at[t] = "power up" => ~(call[t].old_sysfreq > Freq52M) /\ call[t].freq > Freq52M
    BY DEF PInv, PllAgrees, Rising
  <2>2. ~(call[t].old_sysfreq > 3) => call[t].old_sysfreq <= 3
    BY <1>2
  <2>3. QED
    BY <2>1, <2>2 DEF Freq52M
<1>4. Switches(t)
  BY <1>1, <1>3 DEF Switches, Switching
<1>5. QED
  BY <1>1, <1>4 DEF Overlap

\* A demand above 52M that is not met is one that a call is about to decide on.
LEMMA UnservedLemma ==
  ASSUME AsksApart, IInv, PInv, ~High, NEW u \in Users, sysfreq_per_user[u] > Freq52M
  PROVE  \E t \in Threads : InCall(t) /\ at[t] = "decide" /\ Rising(t) /\ call[t].user = u
<1>1. sysfreq_per_user[u] \in 0..6 /\ sys_freq \in 0..6
  BY DEF IInv, TypeOK, HAL_CMU_FREQ_T
<1>2. ~(sysfreq_per_user[u] <= sys_freq)
  BY <1>1 DEF High, Freq52M
<1>3. PICK t \in Pending(u) : call[t].freq = sysfreq_per_user[u]
  BY <1>2 DEF IInv, Served
<1>4. t \in Threads /\ at[t] = "decide" /\ call[t].user = u /\ Rising(t)
  BY <1>3 DEF Pending, Rising
<1>5. IsApp(t)
  <2>1. SUFFICES ASSUME ~IsApp(t) PROVE FALSE
    OBVIOUS
  <2>2. PICK r \in Requests[t] : r = <<call[t].user, call[t].freq>>
    BY <1>4 DEF PInv, Asked
  <2>3. r[1] = call[t].user /\ r[2] = call[t].freq
    BY <2>2
  <2>4. r[2] <= Freq52M
    BY <1>4, <2>1, <2>2, <2>3 DEF AsksApart, IsApp
  <2>5. QED
    BY <1>1, <1>3, <1>4, <2>3, <2>4 DEF Rising, Freq52M
<1>6. QED
  BY <1>4, <1>5 DEF InCall

\* Two threads in a call are two users.
LEMMA TwoUsersLemma ==
  ASSUME AsksApart, PInv, NEW s \in Threads, NEW t \in Threads, s # t, InCall(s), InCall(t)
  PROVE  call[s].user # call[t].user
<1>1. PICK r \in Requests[s] : r = <<call[s].user, call[s].freq>>
  BY DEF PInv, Asked, InCall
<1>2. PICK q \in Requests[t] : q = <<call[t].user, call[t].freq>>
  BY DEF PInv, Asked, InCall
<1>3. r[1] = call[s].user /\ q[1] = call[t].user /\ r[1] \in AppUsers
  BY <1>1, <1>2 DEF InCall, IsApp
<1>4. QED
  BY <1>3 DEF AsksApart

\* Where a frequency above 52M comes from, and when it stays.
LEMMA RaiseLemma ==
  ASSUME IInv, NEW d \in Demands, NEW user \in Users, NEW freq \in HAL_CMU_FREQ_T,
         Decide(d, user, freq)
  PROVE  /\ High' => \/ top_user' = user /\ freq > Freq52M
                     \/ High /\ top_user' = top_user
                     \/ top_user' \in Users /\ d[top_user'] > Freq52M
         /\ freq > Freq52M /\ d[user] = freq => High'
         /\ High /\ ~(freq > Freq52M) /\ top_user # user => High' /\ top_user' = top_user
<1>1. sys_freq \in 0..6 /\ freq \in 0..6
  BY DEF IInv, TypeOK, HAL_CMU_FREQ_T
<1>2. /\ TopDemand(d) \in 0..6 /\ d[user] <= TopDemand(d) /\ d[user] \in 0..6
      /\ TopDemander(d) \in Users /\ d[TopDemander(d)] = TopDemand(d)
  BY TopDemandLemma, TopDemanderLemma DEF HAL_CMU_FREQ_T, Demands
<1>3. CASE ~(freq < sys_freq)
  <2>1. sys_freq' = freq /\ top_user' = user
    BY <1>3 DEF Decide
  <2>2. QED
    BY <1>1, <1>3, <2>1 DEF High, Freq52M
<1>4. CASE freq < sys_freq /\ ~(top_user = user /\ TopDemand(d) # sys_freq)
  <2>1. sys_freq' = sys_freq /\ top_user' = top_user
    BY <1>4 DEF Decide, Lower
  <2>2. QED
    BY <1>1, <1>4, <2>1 DEF High, Freq52M
<1>5. CASE freq < sys_freq /\ top_user = user /\ TopDemand(d) # sys_freq
  <2>1. sys_freq' = (IF TopDemand(d) > Freq26M THEN TopDemand(d) ELSE Freq26M)
        /\ top_user' = TopDemander(d)
    BY <1>5 DEF Decide, Lower
  <2>2. High' <=> TopDemand(d) > Freq52M
    BY <1>2, <2>1 DEF High, Freq52M, Freq26M
  <2>3. freq > Freq52M /\ d[user] = freq => TopDemand(d) > Freq52M
    BY <1>1, <1>2 DEF Freq52M
  <2>4. QED
    BY <1>2, <1>5, <2>1, <2>2, <2>3
<1>6. QED
  BY <1>3, <1>4, <1>5

LEMMA PInitLemma == Init => PInv
<1>1. SUFFICES ASSUME Init PROVE PInv
  OBVIOUS
<1>2. /\ sys_freq = 3 /\ "sys" \notin pll_user_map["aud"]
      /\ \A t \in Threads : op[t] = 1 /\ at[t] = "idle"
  BY <1>1 DEF Init, Freq52M, PLL
<1>3. \A u \in Users : ~(sysfreq_per_user[u] > 3)
  BY <1>1 DEF Init, Freq52M
<1>4. ~High /\ ~SysHeld
  BY <1>2 DEF High, SysHeld, Freq52M
<1>5. Asked /\ DemandsAgree
  BY <1>2, <1>3, <1>4 DEF Asked, DemandsAgree, InCall, Freq52M
<1>6. PllAgrees
  BY <1>2, <1>4 DEF PllAgrees, PllOff, InCall, Switching
<1>7. QED
  BY <1>5, <1>6 DEF PInv

\* A call or a request begins.
LEMMA PBeginLemma ==
  ASSUME AsksApart, IInv, PInv, ~Overlap, ~Overlap',
         NEW t \in Threads, NEW r \in Requests[t], Begin(t, r[1], r[2])
  PROVE  PInv'
<1>1. r[1] \in Users /\ r[2] \in 0..6 /\ sys_freq \in 0..6 /\ r = <<r[1], r[2]>>
  BY RequestAssumption DEF IInv, TypeOK, HAL_CMU_FREQ_T
<1>2. /\ at[t] = "idle" /\ UNCHANGED <<frequency, clock, op>>
      /\ at' = [at EXCEPT ![t] = FirstPlace(r[1], r[2])]
      /\ call' = [call EXCEPT ![t] = [user |-> r[1], freq |-> r[2], old_sysfreq |-> sys_freq]]
  BY DEF Begin
<1>3. /\ at'[t] = FirstPlace(r[1], r[2])
      /\ call'[t].user = r[1] /\ call'[t].freq = r[2] /\ call'[t].old_sysfreq = sys_freq
      /\ \A s \in Threads : s # t => at'[s] = at[s] /\ call'[s] = call[s]
  BY <1>2 DEF IInv, TypeOK
<1>4. /\ (High' <=> High) /\ (SysHeld' <=> SysHeld) /\ sys_pll' = sys_pll /\ op' = op
      /\ (Ready' <=> Ready) /\ sysfreq_per_user' = sysfreq_per_user /\ top_user' = top_user
  BY <1>2 DEF High, Ready, SysHeld, frequency, clock
<1>5. IF r[1] \in AppUsers /\ ~High /\ r[2] > Freq52M THEN at'[t] = "power up" ELSE at'[t] = "write"
  <2>1. ~High <=> sys_freq <= Freq52M
    BY <1>1 DEF High, Freq52M
  <2>2. QED
    BY <1>3, <2>1 DEF FirstPlace
<1>6. /\ InCall(t)' <=> r[1] \in AppUsers
      /\ ~InCall(t)
      /\ Low(t)' <=> ~High /\ ~(r[2] > Freq52M)
      /\ \A s \in Threads : s # t =>
           (InCall(s)' <=> InCall(s)) /\ (Low(s)' <=> Low(s)) /\ (Rising(s)' <=> Rising(s))
  BY <1>2, <1>3, <1>5 DEF InCall, IsApp, Low, Rising, High
<1>7. Asked'
  <2>1. SUFFICES ASSUME NEW s \in Threads, at'[s] # "idle"
                 PROVE  /\ <<call'[s].user, call'[s].freq>> \in Requests[s]
                        /\ call'[s].user \notin AppUsers => at'[s] \in {"write", "decide"}
    BY DEF Asked, IsApp
  <2>2. CASE s = t
    BY <1>1, <1>3, <1>5, <2>2
  <2>3. CASE s # t
    BY <1>3, <2>1, <2>3 DEF PInv, Asked, IsApp
  <2>4. QED
    BY <2>2, <2>3
<1>8. DemandsAgree'
  <2>1. r[1] \in AppUsers /\ ~High => ~(sysfreq_per_user[r[1]] > Freq52M)
    <3>1. SUFFICES ASSUME r[1] \in AppUsers, ~High, sysfreq_per_user[r[1]] > Freq52M PROVE FALSE
      OBVIOUS
    <3>2. PICK s \in Threads : InCall(s) /\ call[s].user = r[1]
      BY <1>1, <3>1, UnservedLemma
    <3>3. PICK q \in Requests[s] : q = <<call[s].user, call[s].freq>>
      BY <3>2 DEF PInv, Asked, InCall
    <3>4. s # t /\ q[1] = r[1]
      BY <1>6, <3>2, <3>3
    <3>5. QED
      BY <3>1, <3>4 DEF AsksApart
  <2>2. \A s \in Threads : InCall(s)' /\ at'[s] = "decide" =>
          sysfreq_per_user'[call'[s].user] = call'[s].freq
    <3>1. SUFFICES ASSUME NEW s \in Threads, InCall(s)', at'[s] = "decide"
                   PROVE  sysfreq_per_user[call'[s].user] = call'[s].freq
      BY <1>4
    <3>2. s # t
      BY <1>5, <3>1
    <3>3. QED
      BY <1>3, <1>6, <3>1, <3>2 DEF PInv, DemandsAgree
  <2>3. \A s \in Threads : InCall(s)' /\ Low(s)' =>
          ~(sysfreq_per_user'[call'[s].user] > Freq52M) /\ (High' => top_user' # call'[s].user)
    <3>1. SUFFICES ASSUME NEW s \in Threads, InCall(s)', Low(s)'
                   PROVE  ~(sysfreq_per_user[call'[s].user] > Freq52M) /\ (High => top_user # call'[s].user)
      BY <1>4
    <3>2. CASE s = t
      BY <1>3, <1>6, <2>1, <3>1, <3>2
    <3>3. CASE s # t
      BY <1>3, <1>6, <3>1, <3>3 DEF PInv, DemandsAgree
    <3>4. QED
      BY <3>2, <3>3
  <2>4. QED
    BY <1>4, <2>2, <2>3 DEF PInv, DemandsAgree
<1>9. PllAgrees'
  <2>1. \A s \in Threads : ~Switching(s)' => op'[s] = 1
    BY <1>2, <1>3, <1>4 DEF PInv, PllAgrees, Switching
  <2>2. \A s \in Threads : Switching(s)' => ~High'
    BY <1>3, <1>4, <1>5 DEF PInv, PllAgrees, Switching
  <2>3. \A s \in Threads : at'[s] = "power up" =>
          /\ ~(call'[s].old_sysfreq > Freq52M) /\ Rising(s)'
          /\ op'[s] > 1 => SysHeld'
          /\ op'[s] > 4 => sys_pll' = "aud"
    <3>1. SUFFICES ASSUME NEW s \in Threads, at'[s] = "power up"
                   PROVE  /\ ~(call'[s].old_sysfreq > Freq52M) /\ Rising(s)'
                          /\ op'[s] > 1 => SysHeld'
                          /\ op'[s] > 4 => sys_pll' = "aud"
      OBVIOUS
    <3>2. CASE s = t
      <4>1. op[t] = 1
        BY <1>2 DEF PInv, PllAgrees, Switching
      <4>2. ~(op'[t] > 1) /\ ~(op'[t] > 4)
        BY <1>4, <4>1
      <4>3. ~High /\ r[2] > Freq52M
        BY <1>5, <3>1, <3>2
      <4>4. QED
        BY <1>3, <3>2, <4>2, <4>3 DEF Rising, High
    <3>3. CASE s # t
      BY <1>3, <1>4, <1>6, <3>1, <3>3 DEF PInv, PllAgrees
    <3>4. QED
      BY <3>2, <3>3
  <2>4. Steady' => (PllOn \/ PllOff)'
    <3>1. SUFFICES ASSUME Steady' PROVE (PllOn \/ PllOff)'
      OBVIOUS
    <3>2. Steady /\ at'[t] = "write"
      BY <1>2, <1>3, <1>5, <3>1 DEF Steady, Switching
    <3>3. CASE PllOn
      <4>1. \A s \in Threads : Holds(s) => Holds(s)'
        BY <1>3, <1>6 DEF Holds
      <4>2. QED
        BY <1>4, <3>3, <4>1 DEF PllOn
    <3>4. CASE PllOff
      <4>1. ~High /\ ~SysHeld /\ \A s \in Threads : InCall(s) => Low(s)
        BY <3>4 DEF PllOff
      <4>2. InCall(t)' => Low(t)'
        BY <1>5, <1>6, <3>2, <4>1
      <4>3. \A s \in Threads : InCall(s)' => Low(s)'
        BY <1>6, <4>1, <4>2
      <4>4. QED
        BY <1>4, <4>1, <4>3 DEF PllOff
    <3>5. QED
      BY <3>2, <3>3, <3>4 DEF PInv, PllAgrees
  <2>5. QED
    BY <2>1, <2>2, <2>3, <2>4 DEF PllAgrees
<1>10. QED
  BY <1>7, <1>8, <1>9 DEF PInv

\* What the operations of LowFreqModeDisable, and the last of LowFreqModeEnable, do.
LEMMA PllOpLemma ==
  ASSUME IInv
  PROVE  /\ PllOp(On("aud", "sys")) => SysHeld' /\ sys_pll' = sys_pll
         /\ PllOp(On("aud", "switch")) => (SysHeld' <=> SysHeld) /\ sys_pll' = sys_pll
         /\ PllOp(On("usb", "switch")) => (SysHeld' <=> SysHeld) /\ sys_pll' = sys_pll
         /\ PllOp(Select("aud")) => (SysHeld' <=> SysHeld) /\ sys_pll' = "aud"
         /\ PllOp(Off("aud", "switch")) => (SysHeld' <=> SysHeld) /\ sys_pll' = sys_pll
         /\ PllOp(Off("usb", "switch")) => (SysHeld' <=> SysHeld) /\ sys_pll' = sys_pll
         /\ PllOp(Off("aud", "sys")) => ~SysHeld'
<1>1. pll_user_map \in [{"aud", "usb"} -> SUBSET PllUser]
  BY DEF IInv, TypeOK, PLL
<1>2. ASSUME NEW pll \in {"aud", "usb"}, NEW user, PllOp(On(pll, user))
      PROVE  /\ pll = "aud" /\ user = "sys" => SysHeld'
             /\ pll # "aud" \/ user # "sys" => (SysHeld' <=> SysHeld)
             /\ sys_pll' = sys_pll
  <2>1. pll_user_map' = [pll_user_map EXCEPT ![pll] = @ \union {user}] /\ sys_pll' = sys_pll
    BY <1>2 DEF PllOp, On
  <2>2. QED
    BY <1>1, <2>1 DEF SysHeld
<1>3. ASSUME NEW pll \in {"aud", "usb"}, NEW user, PllOp(Off(pll, user))
      PROVE  /\ pll = "aud" /\ user = "sys" => ~SysHeld'
             /\ pll # "aud" \/ user # "sys" => (SysHeld' <=> SysHeld)
             /\ sys_pll' = sys_pll
  <2>1. pll_user_map' = [pll_user_map EXCEPT ![pll] = @ \ {user}] /\ sys_pll' = sys_pll
    BY <1>3 DEF PllOp, Off
  <2>2. QED
    BY <1>1, <2>1 DEF SysHeld
<1>4. PllOp(Select("aud")) => (SysHeld' <=> SysHeld) /\ sys_pll' = "aud"
  BY DEF PllOp, Select, SysHeld
<1>5. QED
  BY <1>2, <1>3, <1>4

\* The call that switches the PLLs is alone, and goes through their operations.
LEMMA POperateLemma ==
  ASSUME IInv, PInv, ~Overlap, NEW t \in Threads, PowerUp(t) \/ PowerDown(t)
  PROVE  PInv'
<1> DEFINE up == at[t] = "power up"
<1>2. TypeOK /\ {"write", "idle"} \subseteq Places /\ Len(LowFreqModeDisable) = 6
      /\ Len(LowFreqModeEnable) = 6
  BY OpsLemma DEF IInv, Places
<1>o. op \in [Threads -> 1..6] /\ op[t] \in 1..6 /\ (op[t] # 6 => op[t] < 6)
  BY <1>2 DEF TypeOK
<1>3. /\ Switching(t) /\ UNCHANGED frequency
      /\ up => PllOp(LowFreqModeDisable[op[t]])
      /\ ~up => PllOp(LowFreqModeEnable[op[t]])
      /\ op[t] # 6 => op' = [op EXCEPT ![t] = op[t] + 1] /\ UNCHANGED <<at, call>>
      /\ op[t] = 6 => /\ op' = [op EXCEPT ![t] = 1]
                      /\ up => GoTo(t, "write")
                      /\ ~up => GoTo(t, "idle")
  <2>1. ASSUME NEW here, NEW ops, NEW next \in {"write", "idle"}, Len(ops) = 6, Operate(t, here, ops, next)
        PROVE  /\ at[t] = here /\ UNCHANGED frequency /\ PllOp(ops[op[t]])
               /\ op[t] # 6 => op' = [op EXCEPT ![t] = op[t] + 1] /\ UNCHANGED <<at, call>>
               /\ op[t] = 6 => op' = [op EXCEPT ![t] = 1] /\ GoTo(t, next)
    BY <1>o, <2>1 DEF Operate
  <2>2. CASE PowerUp(t)
    <3>1. Operate(t, "power up", LowFreqModeDisable, "write")
      BY <2>2 DEF PowerUp
    <3>2. up
      BY <3>1 DEF Operate
    <3>3. QED
      BY <1>2, <2>1, <3>1, <3>2 DEF Switching
  <2>3. CASE PowerDown(t)
    <3>1. Operate(t, "power down", LowFreqModeEnable, "idle")
      BY <2>3 DEF PowerDown
    <3>2. at[t] = "power down" /\ ~up
      BY <3>1 DEF Operate
    <3>3. QED
      BY <1>2, <2>1, <3>1, <3>2 DEF Switching
  <2>4. QED
    BY <2>2, <2>3
<1>4. /\ InCall(t) /\ ~High /\ \A s \in Threads : s # t => ~InCall(s) /\ ~Switching(s)
      /\ up => /\ ~(call[t].old_sysfreq > Freq52M) /\ Rising(t)
               /\ op[t] > 1 => SysHeld
               /\ op[t] > 4 => sys_pll = "aud"
  BY <1>3, SoleLemma DEF PInv, PllAgrees
<1>5. /\ \A s \in Threads : s # t => at'[s] = at[s] /\ call'[s] = call[s] /\ op'[s] = op[s]
      /\ op[t] # 6 => op'[t] = op[t] + 1 /\ at'[t] = at[t] /\ call'[t] = call[t]
      /\ op[t] = 6 => /\ op'[t] = 1
                      /\ up => at'[t] = "write" /\ call'[t] = call[t]
                      /\ ~up => at'[t] = "idle"
  <2>1. CASE op[t] # 6
    <3>1. op' = [op EXCEPT ![t] = op[t] + 1] /\ at' = at /\ call' = call
      BY <1>3, <2>1
    <3>2. QED
      BY <1>o, <2>1, <3>1
  <2>2. CASE op[t] = 6
    <3>1. op' = [op EXCEPT ![t] = 1]
      BY <1>3, <2>2
    <3>2. op'[t] = 1 /\ \A s \in Threads : s # t => op'[s] = op[s]
      BY <1>o, <3>1
    <3>3. CASE up
      <4>1. GoTo(t, "write")
        BY <1>3, <2>2, <3>3
      <4>2. at'[t] = "write" /\ call' = call /\ \A s \in Threads : s # t => at'[s] = at[s]
        BY <1>2, <4>1, GoToLemma
      <4>3. QED
        BY <2>2, <3>2, <3>3, <4>2
    <3>4. CASE ~up
      <4>1. GoTo(t, "idle")
        BY <1>3, <2>2, <3>4
      <4>2. at'[t] = "idle" /\ \A s \in Threads : s # t => at'[s] = at[s] /\ call'[s] = call[s]
        BY <1>2, <4>1, GoToLemma
      <4>3. QED
        BY <2>2, <3>2, <3>4, <4>2
    <3>5. QED
      BY <3>3, <3>4
  <2>3. QED
    BY <2>1, <2>2
<1>6. /\ ~High' /\ sysfreq_per_user' = sysfreq_per_user /\ top_user' = top_user
      /\ \A s \in Threads : s # t => ~InCall(s)' /\ ~Switching(s)'
      /\ \A s \in Threads : s # t => (IsApp(s)' <=> IsApp(s))
  BY <1>3, <1>4, <1>5 DEF High, frequency, InCall, IsApp, Switching
<1>7. at'[t] \in {at[t], "write", "idle"} /\ at'[t] # "decide"
      /\ (at'[t] # "idle" => call'[t] = call[t])
  <2>1. at[t] \in {"power up", "power down"}
    BY <1>3 DEF Switching
  <2>2. CASE op[t] # 6
    BY <1>5, <2>1, <2>2
  <2>3. CASE op[t] = 6
    BY <1>5, <2>3
  <2>4. QED
    BY <2>2, <2>3
<1>8. Asked'
  <2>1. SUFFICES ASSUME NEW s \in Threads, at'[s] # "idle"
                 PROVE  /\ <<call'[s].user, call'[s].freq>> \in Requests[s]
                        /\ call'[s].user \notin AppUsers => at'[s] \in {"write", "decide"}
    BY DEF Asked, IsApp
  <2>2. CASE s = t
    BY <1>4, <1>7, <2>1, <2>2 DEF PInv, Asked, InCall, IsApp
  <2>3. CASE s # t
    BY <1>5, <2>1, <2>3 DEF PInv, Asked, IsApp
  <2>4. QED
    BY <2>2, <2>3
<1>9. DemandsAgree'
  <2>1. \A s \in Threads : InCall(s)' /\ at'[s] = "decide" =>
          sysfreq_per_user'[call'[s].user] = call'[s].freq
    BY <1>6, <1>7
  <2>2. \A s \in Threads : InCall(s)' /\ Low(s)' =>
          ~(sysfreq_per_user'[call'[s].user] > Freq52M) /\ (High' => top_user' # call'[s].user)
    <3>1. SUFFICES ASSUME InCall(t)', Low(t)'
                   PROVE  ~(sysfreq_per_user[call'[t].user] > Freq52M)
      BY <1>6
    <3>2. call'[t] = call[t]
      BY <1>7, <3>1 DEF InCall
    <3>3. Low(t)
      BY <3>1, <3>2 DEF Low, Rising
    <3>4. QED
      BY <1>4, <3>2, <3>3 DEF PInv, DemandsAgree
  <2>3. QED
    BY <1>6, <2>1, <2>2 DEF PInv, DemandsAgree
<1>10. PllAgrees'
  <2>1. \A s \in Threads : ~Switching(s)' => op'[s] = 1
    <3>1. ~Switching(t)' => op'[t] = 1
      <4>1. op[t] # 6 => at'[t] = at[t]
        BY <1>5
      <4>2. op[t] # 6 => Switching(t)'
        BY <1>3, <4>1 DEF Switching
      <4>3. QED
        BY <1>5, <4>2
    <3>2. \A s \in Threads : s # t => op[s] = 1
      BY <1>4 DEF PInv, PllAgrees
    <3>3. \A s \in Threads : s # t => op'[s] = op[s]
      BY <1>5
    <3>4. QED
      BY <3>1, <3>2, <3>3
  <2>2. \A s \in Threads : Switching(s)' => ~High'
    BY <1>6
  <2>3. up => /\ op[t] = 1 => SysHeld'
              /\ op[t] > 1 => (SysHeld => SysHeld')
              /\ op[t] = 4 => sys_pll' = "aud"
              /\ op[t] # 4 => sys_pll' = sys_pll
    <3>1. SUFFICES ASSUME up PROVE /\ op[t] = 1 => SysHeld'
                                   /\ op[t] > 1 => (SysHeld => SysHeld')
                                   /\ op[t] = 4 => sys_pll' = "aud"
                                   /\ op[t] # 4 => sys_pll' = sys_pll
      OBVIOUS
    <3>2. PICK o : o = LowFreqModeDisable[op[t]] /\ PllOp(o)
      BY <1>3, <3>1
    <3>3. /\ op[t] = 1 => o = On("aud", "sys")
          /\ op[t] = 2 => o = On("aud", "switch")
          /\ op[t] = 3 => o = On("usb", "switch")
          /\ op[t] = 4 => o = Select("aud")
          /\ op[t] = 5 => o = Off("aud", "switch")
          /\ op[t] = 6 => o = Off("usb", "switch")
      BY <3>2 DEF LowFreqModeDisable
    <3>4. op[t] = 1 \/ op[t] = 2 \/ op[t] = 3 \/ op[t] = 4 \/ op[t] = 5 \/ op[t] = 6
      BY <1>o
    <3>5. /\ o = On("aud", "sys") => SysHeld' /\ sys_pll' = sys_pll
          /\ o \in {On("aud", "switch"), On("usb", "switch"), Off("aud", "switch"), Off("usb", "switch")}
               => (SysHeld' <=> SysHeld) /\ sys_pll' = sys_pll
          /\ o = Select("aud") => (SysHeld' <=> SysHeld) /\ sys_pll' = "aud"
      BY <3>2, PllOpLemma
    <3>6. QED
      BY <3>3, <3>4, <3>5
  <2>4. at'[t] = "power up" =>
          /\ ~(call'[t].old_sysfreq > Freq52M) /\ Rising(t)'
          /\ op'[t] > 1 => SysHeld'
          /\ op'[t] > 4 => sys_pll' = "aud"
    <3>1. SUFFICES ASSUME at'[t] = "power up"
                   PROVE  /\ ~(call'[t].old_sysfreq > Freq52M) /\ Rising(t)'
                          /\ op'[t] > 1 => SysHeld'
                          /\ op'[t] > 4 => sys_pll' = "aud"
      OBVIOUS
    <3>2. op[t] # 6
      BY <1>5, <3>1
    <3>3. at'[t] = at[t] /\ op'[t] = op[t] + 1 /\ call'[t] = call[t]
      BY <1>5, <3>2
    <3>4. up
      BY <3>1, <3>3
    <3>5. op[t] \in 1..6
      BY <1>o
    <3>6. (op[t] = 1 \/ op[t] > 1) /\ (op'[t] > 4 => op[t] = 4 \/ (op[t] > 4 /\ op[t] # 4))
      BY <3>3, <3>5
    <3>7. QED
      BY <1>4, <2>3, <3>3, <3>4, <3>6 DEF Rising
  <2>5. Steady' => (PllOn \/ PllOff)'
    <3>1. SUFFICES ASSUME Steady' PROVE (PllOn \/ PllOff)'
      OBVIOUS
    <3>2. op[t] = 6
      <4>1. op[t] # 6 => at'[t] = at[t]
        BY <1>5
      <4>2. QED
        BY <1>3, <3>1, <4>1 DEF Steady, Switching
    <3>3. CASE up
      <4>1. Ready'
        <5>1. op[t] > 1 /\ op[t] > 4 /\ op[t] # 4
          BY <3>2
        <5>2. QED
          BY <1>4, <2>3, <3>3, <5>1 DEF Ready
      <4>2. Holds(t)'
        BY <1>4, <1>5, <3>2, <3>3 DEF Holds, InCall, IsApp, Rising
      <4>3. QED
        BY <4>1, <4>2 DEF PllOn
    <3>4. CASE ~up
      <4>1. LowFreqModeEnable[6] = Off("aud", "sys")
        BY DEF LowFreqModeEnable
      <4>2. PllOp(Off("aud", "sys"))
        BY <1>3, <3>2, <3>4, <4>1, Zenon
      <4>3. ~SysHeld'
        BY <4>2, PllOpLemma
      <4>4. at'[t] = "idle"
        BY <1>5, <3>2, <3>4
      <4>5. ~InCall(t)'
        BY <4>4 DEF InCall
      <4>6. QED
        BY <1>6, <4>3, <4>5 DEF PllOff
    <3>5. QED
      BY <3>3, <3>4
  <2>6. QED
    BY <1>6, <2>1, <2>2, <2>4, <2>5 DEF PllAgrees, Switching
<1>11. QED
  BY <1>8, <1>9, <1>10 DEF PInv

LEMMA PWriteLemma ==
  ASSUME AsksApart, IInv, PInv, NEW t \in Threads, WriteDemand(t)
  PROVE  PInv'
<1>1. /\ at[t] = "write" /\ GoTo(t, "decide")
      /\ sysfreq_per_user' = [sysfreq_per_user EXCEPT ![call[t].user] = call[t].freq]
      /\ UNCHANGED <<top_user, sys_freq, clock, op>>
  BY DEF WriteDemand, Write
<1>2. TypeOK /\ "decide" \in Places /\ call[t].user \in Users /\ call[t].freq \in 0..6
  BY DEF IInv, TypeOK, Places, HAL_CMU_FREQ_T
<1>3. call' = call /\ at'[t] = "decide" /\ \A s \in Threads : s # t => at'[s] = at[s]
  BY <1>1, <1>2, GoToLemma
<1>4. /\ (High' <=> High) /\ (SysHeld' <=> SysHeld) /\ (Ready' <=> Ready) /\ sys_pll' = sys_pll
      /\ \A s \in Threads : /\ (InCall(s)' <=> InCall(s)) /\ (Low(s)' <=> Low(s))
                            /\ (Rising(s)' <=> Rising(s)) /\ (Switching(s)' <=> Switching(s))
                            /\ (Holds(s)' <=> Holds(s)) /\ (IsApp(s)' <=> IsApp(s))
  <2>1. (High' <=> High) /\ (SysHeld' <=> SysHeld) /\ (Ready' <=> Ready) /\ sys_pll' = sys_pll
    BY <1>1 DEF High, SysHeld, Ready, clock
  <2>2. ASSUME NEW s \in Threads
        PROVE  /\ (InCall(s)' <=> InCall(s)) /\ (Low(s)' <=> Low(s))
               /\ (Rising(s)' <=> Rising(s)) /\ (Switching(s)' <=> Switching(s))
               /\ (Holds(s)' <=> Holds(s)) /\ (IsApp(s)' <=> IsApp(s))
    <3>1. CASE s = t
      BY <1>1, <1>3, <3>1 DEF InCall, IsApp, Low, Rising, Switching, Holds
    <3>2. CASE s # t
      BY <1>3, <3>2 DEF InCall, IsApp, Low, Rising, Switching, Holds
    <3>3. QED
      BY <3>1, <3>2
  <2>3. QED
    BY <2>1, <2>2
<1>5. /\ sysfreq_per_user'[call[t].user] = call[t].freq
      /\ \A u \in Users : u # call[t].user => sysfreq_per_user'[u] = sysfreq_per_user[u]
      /\ \A s \in Threads : call[s].user \in Users
  BY <1>1, <1>2 DEF TypeOK
<1>6. ~IsApp(t) => ~(call[t].freq > Freq52M)
  <2>1. PICK r \in Requests[t] : r = <<call[t].user, call[t].freq>>
    BY <1>1 DEF PInv, Asked
  <2>2. r[1] = call[t].user /\ r[2] = call[t].freq
    BY <2>1
  <2>3. ~IsApp(t) => call[t].freq <= Freq52M
    BY <2>2 DEF AsksApart, IsApp
  <2>4. QED
    BY <1>2, <2>3 DEF Freq52M
<1>7. \A s \in Threads : InCall(s) /\ s # t =>
        sysfreq_per_user'[call[s].user] = sysfreq_per_user[call[s].user]
  <2>1. SUFFICES ASSUME NEW s \in Threads, InCall(s), s # t PROVE call[s].user # call[t].user
    BY <1>5
  <2>2. CASE InCall(t)
    BY <2>1, <2>2, TwoUsersLemma
  <2>3. CASE ~InCall(t)
    BY <1>1, <2>1, <2>3 DEF InCall, IsApp
  <2>4. QED
    BY <2>2, <2>3
<1>8. Asked'
  BY <1>1, <1>3, <1>4 DEF PInv, Asked
<1>9. DemandsAgree'
  <2>1. \A u \in Users \ AppUsers : ~(sysfreq_per_user'[u] > Freq52M)
    BY <1>5, <1>6 DEF PInv, DemandsAgree, IsApp
  <2>2. \A s \in Threads : InCall(s) /\ at'[s] = "decide" => sysfreq_per_user'[call[s].user] = call[s].freq
    BY <1>3, <1>5, <1>7 DEF PInv, DemandsAgree
  <2>3. \A s \in Threads : InCall(s) /\ Low(s) =>
          ~(sysfreq_per_user'[call[s].user] > Freq52M) /\ (High => top_user # call[s].user)
    <3>1. SUFFICES ASSUME NEW s \in Threads, InCall(s), Low(s)
                   PROVE  ~(sysfreq_per_user'[call[s].user] > Freq52M)
      BY DEF PInv, DemandsAgree
    <3>2. CASE s = t
      BY <1>5, <3>1, <3>2 DEF Low, Rising
    <3>3. CASE s # t
      BY <1>7, <3>1, <3>3 DEF PInv, DemandsAgree
    <3>4. QED
      BY <3>2, <3>3
  <2>4. QED
    BY <1>1, <1>3, <1>4, <2>1, <2>2, <2>3 DEF PInv, DemandsAgree
<1>10. PllAgrees'
  <2>1. (Steady' <=> Steady) /\ (PllOn' <=> PllOn) /\ (PllOff' <=> PllOff)
    BY <1>4 DEF Steady, PllOn, PllOff
  <2>2. \A s \in Threads : at'[s] = "power up" => at[s] = "power up"
    BY <1>3
  <2>3. QED
    BY <1>1, <1>3, <1>4, <2>1, <2>2 DEF PInv, PllAgrees
<1>11. QED
  BY <1>8, <1>9, <1>10 DEF PInv

\* A decision on a demand of 52M or less, of a user that does not hold the
\* frequency up, leaves the frequency above 52M alone, or raises it to a demand
\* of a call.
LEMMA LowDecisionLemma ==
  ASSUME AsksApart, IInv, PInv, NEW d \in Demands, NEW user \in Users, NEW freq \in HAL_CMU_FREQ_T,
         ~(freq > Freq52M), High => top_user # user, Decide(d, user, freq),
         \A u \in Users : d[u] = sysfreq_per_user[u] \/ ~(d[u] > Freq52M)
  PROVE  /\ High => High' /\ top_user' = top_user
         /\ ~High /\ High' =>
              /\ top_user' \in Users /\ sysfreq_per_user[top_user'] > Freq52M
              /\ \E t \in Threads : InCall(t) /\ at[t] = "decide" /\ Rising(t)
<1>1. CASE High
  BY <1>1, RaiseLemma
<1>2. CASE ~High
  <2>1. SUFFICES ASSUME High'
                 PROVE  /\ top_user' \in Users /\ sysfreq_per_user[top_user'] > Freq52M
                        /\ \E t \in Threads : InCall(t) /\ at[t] = "decide" /\ Rising(t)
    BY <1>2
  <2>2. top_user' \in Users /\ d[top_user'] > Freq52M
    BY <1>2, <2>1, RaiseLemma
  <2>3. sysfreq_per_user[top_user'] > Freq52M
    BY <2>2
  <2>4. PICK u \in Users : u = top_user' /\ sysfreq_per_user[u] > Freq52M
    BY <2>2, <2>3
  <2>5. \E t \in Threads : InCall(t) /\ at[t] = "decide" /\ Rising(t)
    BY <1>2, <2>4, UnservedLemma
  <2>6. QED
    BY <2>2, <2>3, <2>5
<1>3. QED
  BY <1>1, <1>2

\* The thread that decides, if any, goes on or is done.
Decided(s) ==
  /\ at[s] = "decide" /\ (InCall(s) => Low(s))
  /\ IF InCall(s) THEN at'[s] = "check" /\ call'[s] = call[s] ELSE at'[s] = "idle"

LEMMA LowDecisionKeepsLemma ==
  ASSUME AsksApart, IInv, PInv, ~Overlap,
         NEW d \in Demands, NEW user \in Users, NEW freq \in HAL_CMU_FREQ_T,
         ~(freq > Freq52M), High => top_user # user, Decide(d, user, freq),
         sysfreq_per_user' = d, UNCHANGED <<clock, op>>,
         \A u \in AppUsers : d[u] = sysfreq_per_user[u],
         \A u \in Users \ AppUsers : d[u] = sysfreq_per_user[u] \/ ~(d[u] > Freq52M),
         \A s \in Threads : (at'[s] = at[s] /\ call'[s] = call[s]) \/ Decided(s)
  PROVE  PInv'
<1>1. /\ High => High' /\ top_user' = top_user
      /\ ~High /\ High' =>
           /\ top_user' \in Users /\ sysfreq_per_user[top_user'] > Freq52M
           /\ \E t \in Threads : InCall(t) /\ at[t] = "decide" /\ Rising(t)
  BY LowDecisionLemma
<1>2. ASSUME NEW s \in Threads
      PROVE  /\ InCall(s)' => InCall(s) /\ call'[s] = call[s] /\ (Low(s)' <=> Low(s))
             /\ Switching(s)' <=> Switching(s)
             /\ Holds(s) => Holds(s)'
             /\ at'[s] # "idle" => call'[s] = call[s] /\ at[s] # "idle"
             /\ at'[s] \in {"write", "decide", "power up"} => at'[s] = at[s]
  <2>1. CASE at'[s] = at[s] /\ call'[s] = call[s]
    BY <2>1 DEF InCall, IsApp, Low, Rising, Switching, Holds
  <2>2. CASE Decided(s)
    BY <2>2 DEF Decided, InCall, IsApp, Low, Rising, Switching, Holds
  <2>3. QED
    BY <2>1, <2>2
<1>3. (SysHeld' <=> SysHeld) /\ (Ready' <=> Ready) /\ sys_pll' = sys_pll /\ op' = op
  BY DEF SysHeld, Ready, clock
<1>4. \A s \in Threads : InCall(s) => call[s].user \in AppUsers
  BY DEF InCall, IsApp
<1>5. Asked'
  <2>1. SUFFICES ASSUME NEW s \in Threads, at'[s] # "idle"
                 PROVE  /\ <<call'[s].user, call'[s].freq>> \in Requests[s]
                        /\ call'[s].user \notin AppUsers => at'[s] \in {"write", "decide"}
    BY DEF Asked, IsApp
  <2>2. <<call'[s].user, call'[s].freq>> \in Requests[s]
    BY <1>2, <2>1 DEF PInv, Asked
  <2>3. CASE at'[s] = at[s] /\ call'[s] = call[s]
    BY <2>1, <2>2, <2>3 DEF PInv, Asked, IsApp
  <2>4. CASE Decided(s)
    BY <1>4, <2>1, <2>2, <2>4 DEF Decided
  <2>5. QED
    BY <2>3, <2>4
<1>6. DemandsAgree'
  <2>1. High' => top_user' \in AppUsers
    <3>1. \A u \in Users : u \in AppUsers \/ ~(sysfreq_per_user[u] > Freq52M)
      BY DEF PInv, DemandsAgree
    <3>2. High => top_user \in AppUsers
      BY DEF PInv, DemandsAgree
    <3>3. QED
      BY <1>1, <3>1, <3>2
  <2>2. ASSUME NEW s \in Threads, InCall(s)', at'[s] = "decide"
        PROVE  d[call'[s].user] = call'[s].freq
    <3>1. InCall(s) /\ call'[s] = call[s] /\ at[s] = "decide"
      BY <1>2, <2>2
    <3>2. sysfreq_per_user[call[s].user] = call[s].freq
      BY <3>1 DEF PInv, DemandsAgree
    <3>3. d[call[s].user] = sysfreq_per_user[call[s].user]
      BY <1>4, <3>1
    <3>4. QED
      BY <3>1, <3>2, <3>3
  <2>3. \A s \in Threads : InCall(s)' /\ Low(s)' =>
          ~(d[call'[s].user] > Freq52M) /\ (High' => top_user' # call'[s].user)
    <3>1. SUFFICES ASSUME NEW s \in Threads, InCall(s)', Low(s)'
                   PROVE  ~(d[call[s].user] > Freq52M) /\ (High' => top_user' # call[s].user)
      BY <1>2
    <3>2. InCall(s) /\ Low(s)
      BY <1>2, <3>1
    <3>3. /\ ~(sysfreq_per_user[call[s].user] > Freq52M) /\ (High => top_user # call[s].user)
          /\ d[call[s].user] = sysfreq_per_user[call[s].user]
      BY <1>4, <3>2 DEF PInv, DemandsAgree
    <3>4. QED
      BY <1>1, <3>3
  <2>4. \A u \in Users \ AppUsers : ~(d[u] > Freq52M)
    BY DEF PInv, DemandsAgree
  <2>5. QED
    BY <2>1, <2>2, <2>3, <2>4 DEF DemandsAgree
<1>7. PllAgrees'
  <2>1. \A s \in Threads : ~Switching(s)' => op'[s] = 1
    BY <1>2, <1>3 DEF PInv, PllAgrees
  <2>2. \A s \in Threads : Switching(s)' => ~High'
    <3>1. SUFFICES ASSUME NEW s \in Threads, Switching(s), High' PROVE FALSE
      BY <1>2
    <3>2. ~High
      BY <3>1 DEF PInv, PllAgrees
    <3>3. PICK t \in Threads : InCall(t) /\ at[t] = "decide"
      BY <1>1, <3>1, <3>2
    <3>4. t = s
      BY <3>1, <3>3, SoleLemma
    <3>5. QED
      BY <3>1, <3>3, <3>4 DEF Switching
  <2>3. \A s \in Threads : at'[s] = "power up" =>
          /\ ~(call'[s].old_sysfreq > Freq52M) /\ Rising(s)'
          /\ op'[s] > 1 => SysHeld'
          /\ op'[s] > 4 => sys_pll' = "aud"
    <3>1. \A s \in Threads : at'[s] = "power up" => at[s] = "power up" /\ call'[s] = call[s]
      BY <1>2
    <3>2. QED
      BY <1>3, <3>1 DEF PInv, PllAgrees, Rising
  <2>4. Steady' => (PllOn \/ PllOff)'
    <3>1. SUFFICES ASSUME Steady PROVE (PllOn \/ PllOff)'
      BY <1>2 DEF Steady
    <3>2. CASE PllOn
      BY <1>1, <1>2, <1>3, <3>2 DEF PllOn
    <3>3. CASE PllOff
      <4>1. ~SysHeld /\ ~High /\ \A s \in Threads : InCall(s) => Low(s)
        BY <3>3 DEF PllOff
      <4>2. ~High'
        BY <1>1, <4>1 DEF Low
      <4>3. \A s \in Threads : InCall(s)' => Low(s)'
        BY <1>2, <4>1
      <4>4. QED
        BY <1>3, <4>1, <4>2, <4>3 DEF PllOff
    <3>4. QED
      BY <3>1, <3>2, <3>3 DEF PInv, PllAgrees
  <2>5. QED
    BY <2>1, <2>2, <2>3, <2>4 DEF PllAgrees
<1>8. QED
  BY <1>5, <1>6, <1>7 DEF PInv

\* The decision of a call that found or asks for a frequency above 52M: the
\* PLLs are on, and stay on until the call has looked at the frequency.
LEMMA HighDecisionLemma ==
  ASSUME AsksApart, IInv, PInv, ~Overlap, NEW t \in Threads, InCall(t), ~Low(t),
         at[t] = "decide", Decide(sysfreq_per_user, call[t].user, call[t].freq),
         UNCHANGED <<sysfreq_per_user, clock, op, call>>, at'[t] = "check",
         \A s \in Threads : s # t => at'[s] = at[s]
  PROVE  PInv'
<1>1. /\ call[t].user \in Users /\ call[t].user \in AppUsers /\ call[t].freq \in HAL_CMU_FREQ_T
      /\ sysfreq_per_user \in Demands
      /\ sysfreq_per_user[call[t].user] = call[t].freq
  BY DEF IInv, TypeOK, PInv, DemandsAgree, InCall, IsApp, Demands
<1>2. /\ High' => \/ top_user' = call[t].user
                  \/ High /\ top_user' = top_user
                  \/ top_user' \in Users /\ sysfreq_per_user[top_user'] > Freq52M
      /\ Rising(t) => High'
  BY <1>1, RaiseLemma DEF Rising
<1>3. Steady
  <2>1. SUFFICES ASSUME NEW s \in Threads, Switching(s) PROVE FALSE
    BY DEF Steady
  <2>2. t = s
    BY <2>1, SoleLemma
  <2>3. QED
    BY <2>1, <2>2 DEF Switching
<1>4. Ready
  BY <1>3 DEF PInv, PllAgrees, PllOn, PllOff
<1>5. /\ (SysHeld' <=> SysHeld) /\ (Ready' <=> Ready) /\ sys_pll' = sys_pll /\ op' = op
      /\ \A s \in Threads : (Low(s)' <=> Low(s)) /\ (IsApp(s)' <=> IsApp(s)) /\ (InCall(s)' <=> InCall(s))
  BY DEF SysHeld, Ready, clock, Low, Rising, IsApp, InCall
<1>6. \A s \in Threads : ~Switching(s)'
  BY <1>3 DEF Steady, Switching
<1>7. Asked'
  <2>1. \A s \in Threads : at'[s] # "idle" => at[s] # "idle"
    BY DEF InCall
  <2>2. \A s \in Threads : s = t => IsApp(s)
    BY DEF InCall
  <2>3. QED
    BY <1>5, <2>1, <2>2 DEF PInv, Asked
<1>8. DemandsAgree'
  <2>1. High' => top_user' \in AppUsers
    BY <1>1, <1>2 DEF PInv, DemandsAgree
  <2>2. \A s \in Threads : InCall(s) /\ at'[s] = "decide" => sysfreq_per_user[call[s].user] = call[s].freq
    BY DEF PInv, DemandsAgree
  <2>3. \A s \in Threads : InCall(s) /\ Low(s) =>
          ~(sysfreq_per_user[call[s].user] > Freq52M) /\ (High' => top_user' # call[s].user)
    <3>1. SUFFICES ASSUME NEW s \in Threads, InCall(s), Low(s)
                   PROVE  ~(sysfreq_per_user[call[s].user] > Freq52M) /\ (High' => top_user' # call[s].user)
      OBVIOUS
    <3>2. call[s].user # call[t].user
      BY <3>1, TwoUsersLemma
    <3>3. ~(sysfreq_per_user[call[s].user] > Freq52M) /\ (High => top_user # call[s].user)
      BY <3>1 DEF PInv, DemandsAgree
    <3>4. QED
      BY <1>2, <3>2, <3>3
  <2>4. QED
    BY <1>5, <2>1, <2>2, <2>3 DEF PInv, DemandsAgree
<1>9. PllAgrees'
  <2>1. \A s \in Threads : op'[s] = 1
    BY <1>3, <1>5 DEF PInv, PllAgrees, Steady
  <2>2. \A s \in Threads : at'[s] # "power up"
    BY <1>6 DEF Switching
  <2>3. PllOn'
    <3>1. CASE Rising(t)
      BY <1>2, <1>4, <1>5, <3>1 DEF PllOn
    <3>2. CASE ~Rising(t)
      <4>1. call'[t].old_sysfreq > Freq52M /\ InCall(t)'
        BY <1>5, <3>2 DEF Low
      <4>2. Holds(t)'
        BY <4>1 DEF Holds
      <4>3. QED
        BY <1>4, <1>5, <4>2 DEF PllOn
    <3>3. QED
      BY <3>1, <3>2
  <2>4. QED
    BY <1>6, <2>1, <2>2, <2>3 DEF PllAgrees
<1>10. QED
  BY <1>7, <1>8, <1>9 DEF PInv

LEMMA PDecideLemma ==
  ASSUME AsksApart, IInv, PInv, ~Overlap, NEW t \in Threads, DecideFreq(t)
  PROVE  PInv'
<1>1. /\ at[t] = "decide" /\ Decide(sysfreq_per_user, call[t].user, call[t].freq)
      /\ UNCHANGED <<sysfreq_per_user, clock, op>>
      /\ GoTo(t, IF IsApp(t) THEN "check" ELSE "idle")
  BY DEF DecideFreq
<1>2. TypeOK /\ {"check", "idle"} \subseteq Places /\ (InCall(t) <=> IsApp(t))
  BY <1>1 DEF IInv, Places, InCall
<1>3. /\ InCall(t) => at'[t] = "check" /\ call' = call
      /\ ~InCall(t) => at'[t] = "idle"
      /\ \A s \in Threads : s # t => at'[s] = at[s] /\ call'[s] = call[s]
  <2>1. CASE IsApp(t)
    <3>1. GoTo(t, "check")
      BY <1>1, <2>1
    <3>2. QED
      BY <1>2, <2>1, <3>1, GoToLemma
  <2>2. CASE ~IsApp(t)
    <3>1. GoTo(t, "idle")
      BY <1>1, <2>2
    <3>2. QED
      BY <1>2, <2>2, <3>1, GoToLemma
  <2>3. QED
    BY <2>1, <2>2
<1>4. /\ call[t].user \in Users /\ call[t].freq \in HAL_CMU_FREQ_T /\ sysfreq_per_user \in Demands
  BY DEF IInv, TypeOK, Demands
<1>5. CASE InCall(t) /\ ~Low(t)
  BY <1>1, <1>3, <1>5, HighDecisionLemma
<1>6. CASE InCall(t) => Low(t)
  <2>1. ~(call[t].freq > Freq52M)
    <3>1. CASE InCall(t)
      BY <1>6, <3>1 DEF Low, Rising
    <3>2. CASE ~InCall(t)
      <4>1. PICK r \in Requests[t] : r = <<call[t].user, call[t].freq>>
        BY <1>1 DEF PInv, Asked
      <4>2. r[1] = call[t].user /\ r[2] = call[t].freq
        BY <4>1
      <4>3. call[t].freq <= 3 /\ call[t].freq \in 0..6
        BY <1>2, <1>4, <3>2, <4>2 DEF AsksApart, IsApp, Freq52M, HAL_CMU_FREQ_T
      <4>4. QED
        BY <4>3 DEF Freq52M
    <3>3. QED
      BY <3>1, <3>2
  <2>2. High => top_user # call[t].user
    <3>1. CASE InCall(t)
      BY <1>6, <3>1 DEF PInv, DemandsAgree
    <3>2. CASE ~InCall(t)
      BY <1>2, <3>2 DEF PInv, DemandsAgree, IsApp
    <3>3. QED
      BY <3>1, <3>2
  <2>3. \A s \in Threads : (at'[s] = at[s] /\ call'[s] = call[s]) \/ Decided(s)
    BY <1>1, <1>3, <1>6 DEF Decided
  <2>4. QED
    BY <1>1, <1>4, <2>1, <2>2, <2>3, LowDecisionKeepsLemma
<1>7. QED
  BY <1>5, <1>6

LEMMA PInterruptLemma ==
  ASSUME AsksApart, IInv, PInv, ~Overlap, NEW r \in IrqRequests, Interrupt(r[1], r[2])
  PROVE  PInv'
<1> DEFINE d == [sysfreq_per_user EXCEPT ![r[1]] = r[2]]
<1>1. sysfreq_per_user' = d /\ Decide(d, r[1], r[2]) /\ UNCHANGED <<clock, at, call, op>>
  BY DEF Interrupt, Write
<1>2. r[1] \in Users \ AppUsers /\ r[2] \in HAL_CMU_FREQ_T /\ ~(r[2] > Freq52M)
  <2>1. r[1] \in Users /\ r[2] \in HAL_CMU_FREQ_T /\ r[1] \notin AppUsers /\ r[2] <= Freq52M
    BY RequestAssumption DEF AsksApart
  <2>2. QED
    BY <2>1 DEF HAL_CMU_FREQ_T, Freq52M
<1>3. /\ d \in Demands /\ d[r[1]] = r[2]
      /\ \A u \in Users : u # r[1] => d[u] = sysfreq_per_user[u]
  BY <1>2 DEF IInv, TypeOK, Demands
<1> HIDE DEF d
<1>4. \A u \in AppUsers : d[u] = sysfreq_per_user[u]
  BY <1>2, <1>3, UserAssumption
<1>5. \A u \in Users \ AppUsers : d[u] = sysfreq_per_user[u] \/ ~(d[u] > Freq52M)
  BY <1>2, <1>3
<1>6. High => top_user # r[1]
  BY <1>2 DEF PInv, DemandsAgree
<1>7. QED
  BY <1>1, <1>2, <1>3, <1>4, <1>5, <1>6, LowDecisionKeepsLemma

LEMMA PCheckLemma ==
  ASSUME IInv, PInv, ~Overlap, ~Overlap', NEW t \in Threads, Check(t)
  PROVE  PInv'
<1> DEFINE falls == call[t].old_sysfreq > Freq52M /\ ~High
<1>1. at[t] = "check" /\ UNCHANGED <<frequency, clock, op>>
      /\ GoTo(t, IF call[t].old_sysfreq > Freq52M /\ sys_freq <= Freq52M THEN "power down" ELSE "idle")
  BY DEF Check
<1>2. TypeOK /\ {"power down", "idle"} \subseteq Places /\ (~High <=> sys_freq <= Freq52M)
  <2>1. TypeOK
    BY DEF IInv
  <2>2. sys_freq \in 0..6
    BY <2>1 DEF TypeOK, HAL_CMU_FREQ_T
  <2>3. ~High <=> sys_freq <= Freq52M
    BY <2>2 DEF High, Freq52M
  <2>4. QED
    BY <2>1, <2>3 DEF Places
<1>3. /\ falls => at'[t] = "power down" /\ call' = call
      /\ ~falls => at'[t] = "idle"
      /\ \A s \in Threads : s # t => at'[s] = at[s] /\ call'[s] = call[s]
  <2>1. CASE falls
    <3>1. GoTo(t, "power down")
      BY <1>1, <1>2, <2>1
    <3>2. QED
      BY <1>2, <2>1, <3>1, GoToLemma
  <2>2. CASE ~falls
    <3>1. GoTo(t, "idle")
      BY <1>1, <1>2, <2>2
    <3>2. QED
      BY <1>2, <2>2, <3>1, GoToLemma
  <2>3. QED
    BY <2>1, <2>2
<1>4. InCall(t) /\ IsApp(t) /\ ~Switching(t) /\ op[t] = 1
  BY <1>1 DEF PInv, Asked, InCall, PllAgrees, Switching
<1>5. /\ (High' <=> High) /\ (SysHeld' <=> SysHeld) /\ (Ready' <=> Ready) /\ sys_pll' = sys_pll
      /\ op' = op /\ sysfreq_per_user' = sysfreq_per_user /\ top_user' = top_user
  BY <1>1 DEF High, SysHeld, Ready, frequency, clock
<1>6. ASSUME NEW s \in Threads
      PROVE  /\ s # t => /\ (InCall(s)' <=> InCall(s)) /\ (Low(s)' <=> Low(s))
                         /\ (Switching(s)' <=> Switching(s)) /\ (Holds(s)' <=> Holds(s))
             /\ at'[s] # "idle" => at[s] # "idle" /\ call'[s] = call[s]
             /\ InCall(s)' => InCall(s) /\ call'[s] = call[s] /\ (Low(s)' <=> Low(s))
             /\ at'[s] \in {"decide", "power up"} => at[s] = at'[s]
  <2>1. CASE s = t
    <3>1. at'[t] \in {"power down", "idle"} /\ (at'[t] = "power down" => call' = call)
      BY <1>3
    <3>2. QED
      BY <1>1, <2>1, <3>1 DEF InCall, IsApp, Low, Rising
  <2>2. CASE s # t
    BY <1>3, <2>2 DEF InCall, IsApp, Low, Rising, Switching, Holds
  <2>3. QED
    BY <2>1, <2>2
<1>7. Asked'
  <2>1. SUFFICES ASSUME NEW s \in Threads, at'[s] # "idle"
                 PROVE  /\ <<call'[s].user, call'[s].freq>> \in Requests[s]
                        /\ call'[s].user \notin AppUsers => at'[s] \in {"write", "decide"}
    BY DEF Asked, IsApp
  <2>2. CASE s = t
    BY <1>4, <1>6, <2>1, <2>2 DEF PInv, Asked, IsApp
  <2>3. CASE s # t
    BY <1>3, <2>1, <2>3 DEF PInv, Asked, IsApp
  <2>4. QED
    BY <2>2, <2>3
<1>8. DemandsAgree'
  <2>1. \A s \in Threads : InCall(s)' /\ at'[s] = "decide" => sysfreq_per_user[call'[s].user] = call'[s].freq
    BY <1>6 DEF PInv, DemandsAgree
  <2>2. \A s \in Threads : InCall(s)' /\ Low(s)' =>
          ~(sysfreq_per_user[call'[s].user] > Freq52M) /\ (High => top_user # call'[s].user)
    BY <1>6 DEF PInv, DemandsAgree
  <2>3. QED
    BY <1>5, <2>1, <2>2 DEF PInv, DemandsAgree
<1>9. PllAgrees'
  <2>1. \A s \in Threads : ~Switching(s)' => op'[s] = 1
    BY <1>4, <1>5, <1>6 DEF PInv, PllAgrees
  <2>2. \A s \in Threads : Switching(s)' => ~High'
    <3>1. Switching(t)' => ~High'
      BY <1>3, <1>5 DEF Switching
    <3>2. QED
      BY <1>5, <1>6, <3>1 DEF PInv, PllAgrees
  <2>3. \A s \in Threads : at'[s] = "power up" =>
          /\ ~(call'[s].old_sysfreq > Freq52M) /\ Rising(s)'
          /\ op'[s] > 1 => SysHeld'
          /\ op'[s] > 4 => sys_pll' = "aud"
    <3>1. \A s \in Threads : at'[s] = "power up" => at[s] = "power up" /\ call'[s] = call[s]
      BY <1>6
    <3>2. QED
      BY <1>5, <3>1 DEF PInv, PllAgrees, Rising
  <2>4. Steady' => (PllOn \/ PllOff)'
    <3>1. SUFFICES ASSUME Steady' PROVE (PllOn \/ PllOff)'
      OBVIOUS
    <3>2. at'[t] = "idle" /\ ~falls
      BY <1>3, <3>1 DEF Steady, Switching
    <3>3. Steady
      BY <1>4, <1>6, <3>1 DEF Steady
    <3>4. CASE PllOn
      <4>1. CASE High
        BY <1>5, <3>4, <4>1 DEF PllOn
      <4>2. CASE ~High
        <5>1. PICK s \in Threads : Holds(s)
          BY <3>4, <4>2 DEF PllOn
        <5>2. s # t
          BY <1>1, <3>2, <4>2, <5>1 DEF Holds
        <5>3. Holds(s)'
          BY <1>6, <5>1, <5>2
        <5>4. QED
          BY <1>5, <3>4, <5>3 DEF PllOn
      <4>3. QED
        BY <4>1, <4>2
    <3>5. CASE PllOff
      <4>1. \A s \in Threads : InCall(s)' => Low(s)'
        BY <1>6, <3>5 DEF PllOff
      <4>2. QED
        BY <1>5, <3>5, <4>1 DEF PllOff
    <3>6. QED
      BY <3>3, <3>4, <3>5 DEF PInv, PllAgrees
  <2>5. QED
    BY <2>1, <2>2, <2>3, <2>4 DEF PllAgrees
<1>10. QED
  BY <1>7, <1>8, <1>9 DEF PInv

LEMMA PNextLemma ==
  ASSUME AsksApart
  PROVE  IInv /\ PInv /\ ~Overlap /\ ~Overlap' /\ [Next]_vars => PInv'
<1>1. SUFFICES ASSUME IInv, PInv, ~Overlap, ~Overlap', [Next]_vars PROVE PInv'
  OBVIOUS
<1>2. CASE AudioPll
  <2>1. PICK o \in {On("aud", "aud"), Off("aud", "aud")} : PllOp(o)
    BY <1>2 DEF AudioPll
  <2>2. (SysHeld' <=> SysHeld) /\ sys_pll' = sys_pll
    BY <1>1, <2>1 DEF IInv, TypeOK, PllOp, On, Off, PLL, SysHeld
  <2>3. UNCHANGED <<frequency, at, call, op>>
    BY <1>2 DEF AudioPll
  <2>4. QED
    BY <1>1, <2>2, <2>3 DEF PInv, Asked, DemandsAgree, PllAgrees, Steady, Switching, PllOn, PllOff,
      Holds, InCall, IsApp, Low, Rising, High, Ready, frequency
<1>3. CASE UNCHANGED vars
  BY <1>1, <1>3 DEF PInv, Asked, DemandsAgree, PllAgrees, Steady, Switching, PllOn, PllOff,
    Holds, InCall, IsApp, Low, Rising, High, SysHeld, Ready, vars, frequency, clock
<1>4. CASE \E t \in Threads : ThreadStep(t)
  BY <1>1, <1>4, PBeginLemma, POperateLemma, PWriteLemma, PDecideLemma, PCheckLemma DEF ThreadStep
<1>5. CASE \E r \in IrqRequests : Interrupt(r[1], r[2])
  BY <1>1, <1>5, PInterruptLemma
<1>6. QED
  BY <1>1, <1>2, <1>3, <1>4, <1>5 DEF Next

\* A PLL of the system runs whenever the clock selects it, and stops with the
\* last request (app_sysfreq_req, hal_cmu_low_freq_mode_disable and _enable), for
\* any threads and requests, as long as no call that switches the PLLs meets
\* another call.
THEOREM PllTheorem == ASSUME AsksApart PROVE Spec => PllFollowsClock
<1>1. IInv /\ PInv => PllRuns /\ PllStopped
  <2>1. SUFFICES ASSUME IInv, PInv PROVE PllRuns /\ PllStopped
    OBVIOUS
  <2>2. PllRuns
    <3>1. SUFFICES ASSUME High PROVE Ready
      BY DEF PllRuns, High, Ready, SysHeld
    <3>2. Steady
      BY <2>1, <3>1 DEF PInv, PllAgrees, Steady
    <3>3. QED
      BY <2>1, <3>1, <3>2 DEF PInv, PllAgrees, PllOn, PllOff
  <2>3. PllStopped
    <3>1. SUFFICES ASSUME \A t \in Threads : at[t] = "idle", sys_freq <= Freq52M PROVE ~SysHeld
      BY DEF PllStopped, SysHeld
    <3>2. ~High
      BY <2>1, <3>1 DEF IInv, TypeOK, HAL_CMU_FREQ_T, High, Freq52M
    <3>3. Steady /\ \A t \in Threads : ~Holds(t)
      BY <3>1 DEF Steady, Switching, Holds, InCall
    <3>4. QED
      BY <2>1, <3>2, <3>3 DEF PInv, PllAgrees, PllOn, PllOff
  <2>4. QED
    BY <2>2, <2>3
<1>2. IInv /\ PInv /\ ~Overlap /\ ~Overlap' /\ [Next]_vars => PInv'
  BY PNextLemma
<1>3. QED
  BY <1>1, <1>2, InitLemma, NextLemma, PInitLemma, PTL DEF Spec, PllFollowsClock
----------------------------------------------------------------------------
(* The codec.                                                                *)

Demand == sysfreq_per_user[HAL_SYSFREQ_USER_CODEC]
Held == "aud" \in pll_user_map["aud"]

\* The driver's request of a thread is under way, or done.
Voting(t, before, after) ==
  /\ at[t] \in {"write", "decide", "idle"}
  /\ at[t] # "idle" => call[t].user = HAL_SYSFREQ_USER_CODEC /\ call[t].freq = after
  /\ Demand = IF at[t] = "write" THEN before ELSE after

\* The driver's places: the codec is set up while it is not running, and taken
\* down while it is; the timer counts only with every stream closed.
PlacesAgree ==
  /\ place[app] \in {"none", "analog", "hal", "stream", "close"}
  /\ place[tmr] \in {"none", "asleep", "off", "vote"}
  /\ \A t \in Threads \ {app, tmr} : place[t] = "none"
  /\ place[app] \in {"analog", "hal"} => ~running
  /\ place[tmr] # "none" => running
  /\ timer => place[app] \in {"none", "close"} /\ \A s \in AUD_STREAM_T : ~stream_running[s]

\* The parts that are on, the demand and the hold at every place.
CodecAgrees ==
  /\ running /\ place[tmr] = "none" => on = {"dac", "hal"} /\ Demand = Freq26M /\ Held
  /\ place[tmr] = "asleep" => on = {"dac"} /\ Demand = Freq26M /\ Held
  /\ place[tmr] = "off" => on = {} /\ Demand = Freq26M /\ ~Held
  /\ place[tmr] = "vote" => on = {} /\ ~Held /\ Voting(tmr, Freq26M, 0)
  /\ place[app] = "analog" => on = {} /\ ~Held /\ Voting(app, 0, Freq26M)
  /\ place[app] = "hal" => on = {"dac"} /\ Demand = Freq26M /\ Held
  /\ ~running /\ place[app] \notin {"analog", "hal"} => on = {} /\ Demand = 0 /\ ~Held

\* Only the driver asks for the codec.
OthersAsk ==
  \A t \in Threads : at[t] # "idle" /\ place[t] \notin {"analog", "vote"} =>
    call[t].user # HAL_SYSFREQ_USER_CODEC

CInv == CodecTypeOK /\ PlacesAgree /\ CodecAgrees /\ OthersAsk
----------------------------------------------------------------------------
(* The driver's steps are steps of SysFreq.                                  *)

LEMMA SysFreqStepLemma == [CodecNext]_codecVars => [Next]_vars
<1>1. SUFFICES ASSUME [CodecNext]_codecVars PROVE [Next]_vars
  OBVIOUS
<1>2. app \in Threads /\ tmr \in Threads
  BY ThreadAssumption
<1>3. /\ <<HAL_SYSFREQ_USER_CODEC, Freq26M>> \in Requests[app]
      /\ <<HAL_SYSFREQ_USER_CODEC, 0>> \in Requests[tmr]
  BY CodecAssumption
<1>4. ASSUME NEW t \in Threads, Asks(t) PROVE Next
  <2>1. ThreadStep(t)
    BY <1>4 DEF Asks, ThreadStep
  <2>2. QED
    BY <2>1 DEF Next
<1>5. ASSUME NEW s, codec_best1000_open(s) PROVE [Next]_vars
  <2>1. UNCHANGED vars \/ Begin(app, HAL_SYSFREQ_USER_CODEC, Freq26M)
    BY <1>5 DEF codec_best1000_open, Votes
  <2>2. Begin(app, HAL_SYSFREQ_USER_CODEC, Freq26M) => ThreadStep(app)
    BY <1>3 DEF ThreadStep
  <2>3. QED
    BY <1>2, <2>1, <2>2 DEF Next
<1>6. ASSUME OpenAnalog \/ RealCloseWakes PROVE Next
  <2>1. AudioPll
    BY <1>6 DEF OpenAnalog, RealCloseWakes, AudioPll
  <2>2. QED
    BY <2>1 DEF Next
<1>7. ASSUME RealCloseVotes PROVE Next
  <2>1. Begin(tmr, HAL_SYSFREQ_USER_CODEC, 0)
    BY <1>7 DEF RealCloseVotes, Votes
  <2>2. ThreadStep(tmr)
    BY <1>3, <2>1 DEF ThreadStep
  <2>3. QED
    BY <1>2, <2>2 DEF Next
<1>8. ASSUME \/ \E s \in AUD_STREAM_T : codec_best1000_stream_close(s)
             \/ OpenHal \/ codec_best1000_stream_open \/ codec_best1000_close
             \/ codec_timehandler \/ RealCloseEnds \/ UNCHANGED codecVars
      PROVE  UNCHANGED vars
  BY <1>8 DEF codec_best1000_stream_close, OpenHal, codec_best1000_stream_open, codec_best1000_close,
    codec_timehandler, RealCloseEnds, codecVars
<1>9. ASSUME NEW r \in IrqRequests, Interrupt(r[1], r[2]) PROVE Next
  BY <1>9 DEF Next
<1>10. QED
  BY <1>1, <1>2, <1>4, <1>5, <1>6, <1>7, <1>8, <1>9 DEF CodecNext, AppStep, TimerStep

\* The codec's driver and the threads that it runs in use the frequency and the
\* PLLs only as SysFreq says (hal_sysfreq_req, analog_aud_pll_open and _close).
THEOREM UserTheorem == CodecSpec => Spec
<1>1. CodecInit => Init
  BY DEF CodecInit
<1>2. QED
  BY <1>1, SysFreqStepLemma, PTL DEF CodecSpec, Spec

LEMMA SysFreqTypeLemma == CodecSpec => []IInv
BY UserTheorem, InitLemma, NextLemma, PTL DEF Spec

\* No user is left below its demand while the codec comes and goes.
THEOREM CodecServedTheorem == CodecSpec => []Served
BY UserTheorem, ServedTheorem, PTL

\* The PLLs follow the frequency while the codec comes and goes, and with the
\* codec's own hold on the audio PLL, whatever threads call app_sysfreq_req
\* beside app_thread, as long as no call that switches the PLLs meets another.
THEOREM CodecPllTheorem == ASSUME AsksApart PROVE CodecSpec => PllFollowsClock
BY PllTheorem, UserTheorem
----------------------------------------------------------------------------
(* A request that is not the driver's leaves the driver's view alone.        *)

LEMMA ApartLemma ==
  ASSUME CInv, TypeOK', UNCHANGED driver, NEW t \in Threads, place[t] \notin {"analog", "vote"},
         Demand' = Demand, Held' <=> Held,
         \A s \in Threads : s # t => at'[s] = at[s] /\ call'[s] = call[s],
         at'[t] # "idle" => call'[t].user # HAL_SYSFREQ_USER_CODEC
  PROVE  CInv'
<1>1. CodecTypeOK' /\ PlacesAgree'
  BY DEF CInv, CodecTypeOK, PlacesAgree, driver
<1>2. OthersAsk'
  BY DEF CInv, OthersAsk, driver
<1>3. app \in Threads /\ tmr \in Threads
  BY ThreadAssumption
<1>4. place[tmr] = "vote" => (Voting(tmr, Freq26M, 0) <=> Voting(tmr, Freq26M, 0)')
  <2>1. place[tmr] = "vote" => at'[tmr] = at[tmr] /\ call'[tmr] = call[tmr]
    BY <1>3
  <2>2. QED
    BY <2>1 DEF Voting
<1>5. place[app] = "analog" => (Voting(app, 0, Freq26M) <=> Voting(app, 0, Freq26M)')
  <2>1. place[app] = "analog" => at'[app] = at[app] /\ call'[app] = call[app]
    BY <1>3
  <2>2. QED
    BY <2>1 DEF Voting
<1>6. CodecAgrees'
  BY <1>4, <1>5 DEF CInv, CodecAgrees, driver
<1>7. QED
  BY <1>1, <1>2, <1>6 DEF CInv

\* The operations of the low frequency mode do not touch the codec's hold.
LEMMA HoldLemma ==
  ASSUME TypeOK, NEW t \in Threads, NEW here, NEW next,
         NEW ops, ops \in {LowFreqModeDisable, LowFreqModeEnable}, Operate(t, here, ops, next)
  PROVE  Held' <=> Held
<1>1. op[t] \in 1..6 /\ pll_user_map \in [PLL -> SUBSET PllUser]
  BY DEF TypeOK
<1>2. \A i \in 1..6 : ops[i].user # "aud" /\ ops[i].pll \in PLL
  BY DEF LowFreqModeDisable, LowFreqModeEnable, On, Off, Select, PLL
<1>3. PICK o : o = ops[op[t]]
  OBVIOUS
<1>4. o.user # "aud" /\ o.pll \in PLL /\ PllOp(o)
  BY <1>1, <1>2, <1>3 DEF Operate
<1>5. CASE o.do = "select"
  BY <1>4, <1>5 DEF PllOp, Held
<1>6. CASE o.do # "select"
  BY <1>1, <1>4, <1>6 DEF PllOp, Held, PLL
<1>7. QED
  BY <1>5, <1>6

\* What a step of switching leaves alone.
LEMMA SwitchFrameLemma ==
  ASSUME TypeOK, NEW t \in Threads, PowerUp(t) \/ PowerDown(t)
  PROVE  /\ at[t] \in {"power up", "power down"} /\ UNCHANGED frequency
         /\ at'[t] # "idle" => call'[t] = call[t]
         /\ \A s \in Threads : s # t => at'[s] = at[s] /\ call'[s] = call[s]
<1>1. ASSUME NEW here, NEW ops, NEW next \in {"write", "idle"}, Len(ops) = 6, Operate(t, here, ops, next)
      PROVE  /\ at[t] = here /\ UNCHANGED frequency
             /\ at'[t] # "idle" => call'[t] = call[t]
             /\ \A s \in Threads : s # t => at'[s] = at[s] /\ call'[s] = call[s]
  <2>1. next \in Places
    BY DEF Places
  <2>2. /\ at[t] = here /\ op[t] \in 1..6 /\ UNCHANGED frequency
        /\ op[t] < 6 => UNCHANGED <<at, call>>
        /\ op[t] = 6 => GoTo(t, next)
        /\ \A s \in Threads : s # t => at'[s] = at[s] /\ call'[s] = call[s]
    BY <1>1, <2>1, OperateLemma
  <2>3. CASE op[t] = 6
    <3>1. GoTo(t, next)
      BY <2>2, <2>3
    <3>2. at'[t] = next /\ (next # "idle" => call' = call)
      BY <2>1, <3>1, GoToLemma
    <3>3. QED
      BY <2>2, <3>2
  <2>4. CASE op[t] < 6
    BY <2>2, <2>4
  <2>5. QED
    BY <2>2, <2>3, <2>4
<1>2. QED
  BY <1>1, OpsLemma DEF PowerUp, PowerDown

LEMMA AsksLemma == ASSUME CInv, TypeOK', NEW t \in Threads, Asks(t) PROVE CInv'
<1>t. /\ TypeOK /\ PlacesAgree /\ CodecAgrees /\ OthersAsk
      /\ at \in [Threads -> Places] /\ sysfreq_per_user \in [Users -> HAL_CMU_FREQ_T]
      /\ UNCHANGED driver /\ HAL_SYSFREQ_USER_CODEC \in Users \ AppUsers
  BY CodecAssumption DEF CInv, CodecTypeOK, TypeOK, Asks
<1>v. place[t] \in {"analog", "vote"} => at[t] \in {"write", "decide", "idle"}
        /\ (at[t] # "idle" => call[t].user = HAL_SYSFREQ_USER_CODEC)
  <2>1. place[t] \in {"analog", "vote"} => t = app \/ t = tmr
    BY <1>t DEF PlacesAgree
  <2>2. QED
    BY <1>t, <2>1 DEF CodecAgrees, PlacesAgree, Voting
<1>1. ASSUME NEW r \in Requests[t], place[t] = "none", r[1] # HAL_SYSFREQ_USER_CODEC, Begin(t, r[1], r[2])
      PROVE  CInv'
  <2>1. /\ at' = [at EXCEPT ![t] = FirstPlace(r[1], r[2])] /\ UNCHANGED <<frequency, clock, op>>
        /\ call' = [call EXCEPT ![t] = [user |-> r[1], freq |-> r[2], old_sysfreq |-> sys_freq]]
    BY <1>1 DEF Begin, GoTo
  <2>2. call'[t].user = r[1] /\ \A s \in Threads : s # t => at'[s] = at[s] /\ call'[s] = call[s]
    BY <1>t, <2>1 DEF TypeOK
  <2>3. Demand' = Demand /\ (Held' <=> Held)
    BY <2>1 DEF Demand, Held, frequency, clock
  <2>4. QED
    BY <1>t, <1>1, <2>2, <2>3, ApartLemma
<1>2. ASSUME PowerUp(t) \/ PowerDown(t) PROVE CInv'
  <2>1. /\ at[t] \in {"power up", "power down"} /\ UNCHANGED frequency
        /\ at'[t] # "idle" => call'[t] = call[t]
        /\ \A s \in Threads : s # t => at'[s] = at[s] /\ call'[s] = call[s]
    BY <1>t, <1>2, SwitchFrameLemma
  <2>2. place[t] \notin {"analog", "vote"} /\ call[t].user # HAL_SYSFREQ_USER_CODEC
    BY <1>t, <1>v, <2>1 DEF OthersAsk
  <2>3. Held' <=> Held
    BY <1>t, <1>2, HoldLemma DEF PowerUp, PowerDown
  <2>4. Demand' = Demand
    BY <2>1 DEF Demand, frequency
  <2>5. QED
    BY <1>t, <2>1, <2>2, <2>3, <2>4, ApartLemma
<1>3. ASSUME Check(t) PROVE CInv'
  <2>p. PICK there \in {"power down", "idle"} : GoTo(t, there)
    BY <1>3 DEF Check
  <2>1. /\ at[t] = "check" /\ UNCHANGED <<frequency, clock, op>>
        /\ at'[t] # "idle" => call'[t] = call[t]
        /\ \A s \in Threads : s # t => at'[s] = at[s] /\ call'[s] = call[s]
    BY <1>t, <1>3, <2>p, GoToLemma DEF Check, Places
  <2>2. place[t] \notin {"analog", "vote"} /\ call[t].user # HAL_SYSFREQ_USER_CODEC
    BY <1>t, <1>v, <2>1 DEF OthersAsk
  <2>3. Demand' = Demand /\ (Held' <=> Held)
    BY <2>1 DEF Demand, Held, frequency, clock
  <2>4. QED
    BY <1>t, <2>1, <2>2, <2>3, ApartLemma
<1>4. ASSUME WriteDemand(t) PROVE CInv'
  <2>1. /\ at[t] = "write" /\ at' = [at EXCEPT ![t] = "decide"]
        /\ sysfreq_per_user' = [sysfreq_per_user EXCEPT ![call[t].user] = call[t].freq]
        /\ UNCHANGED <<top_user, sys_freq, clock, call, op>>
    BY <1>4 DEF WriteDemand, Write, GoTo
  <2>2. at'[t] = "decide" /\ \A s \in Threads : s # t => at'[s] = at[s]
    BY <1>t, <2>1
  <2>3. Held' <=> Held
    BY <2>1 DEF Held, clock
  <2>4. CASE call[t].user # HAL_SYSFREQ_USER_CODEC
    <3>1. place[t] \notin {"analog", "vote"}
      BY <1>v, <2>1, <2>4
    <3>2. Demand' = Demand
      BY <1>t, <2>1, <2>4 DEF Demand
    <3>3. QED
      BY <1>t, <2>1, <2>2, <2>3, <2>4, <3>1, <3>2, ApartLemma
  <2>5. CASE call[t].user = HAL_SYSFREQ_USER_CODEC
    <3>1. place[t] \in {"analog", "vote"}
      BY <1>t, <2>1, <2>5 DEF OthersAsk
    <3>2. Demand' = call[t].freq
      BY <1>t, <2>1, <2>5 DEF Demand
    <3>3. OthersAsk'
      BY <1>t, <2>1, <2>2, <3>1 DEF OthersAsk, driver
    <3>4. CodecTypeOK' /\ PlacesAgree'
      BY <1>t DEF CInv, CodecTypeOK, PlacesAgree, driver
    <3>5. CASE t = app
      <4>1. place[app] = "analog" /\ ~running /\ place[tmr] = "none"
        BY <1>t, <3>1, <3>5 DEF PlacesAgree
      <4>2. on = {} /\ ~Held /\ Voting(app, 0, Freq26M)
        BY <1>t, <4>1 DEF CodecAgrees
      <4>3. Voting(app, 0, Freq26M)'
        BY <2>1, <2>2, <3>2, <3>5, <4>2 DEF Voting
      <4>4. CodecAgrees'
        BY <1>t, <2>3, <4>1, <4>2, <4>3 DEF CodecAgrees, driver
      <4>5. QED
        BY <3>3, <3>4, <4>4 DEF CInv
    <3>6. CASE t = tmr
      <4>1. place[tmr] = "vote" /\ running /\ place[app] \notin {"analog", "hal"}
        BY <1>t, <3>1, <3>6 DEF PlacesAgree
      <4>2. on = {} /\ ~Held /\ Voting(tmr, Freq26M, 0)
        BY <1>t, <4>1 DEF CodecAgrees
      <4>3. Voting(tmr, Freq26M, 0)'
        BY <2>1, <2>2, <3>2, <3>6, <4>2 DEF Voting
      <4>4. CodecAgrees'
        BY <1>t, <2>3, <4>1, <4>2, <4>3 DEF CodecAgrees, driver
      <4>5. QED
        BY <3>3, <3>4, <4>4 DEF CInv
    <3>7. t = app \/ t = tmr
      BY <1>t, <3>1 DEF PlacesAgree
    <3>8. QED
      BY <3>5, <3>6, <3>7
  <2>6. QED
    BY <2>4, <2>5
<1>5. ASSUME DecideFreq(t) PROVE CInv'
  <2>1. /\ at[t] = "decide" /\ UNCHANGED <<sysfreq_per_user, clock, op>>
        /\ GoTo(t, IF call[t].user \in AppUsers THEN "check" ELSE "idle")
    BY <1>5 DEF DecideFreq, IsApp
  <2>p. PICK there \in {"check", "idle"} :
          GoTo(t, there) /\ there = IF call[t].user \in AppUsers THEN "check" ELSE "idle"
    BY <2>1
  <2>2. /\ at'[t] = IF call[t].user \in AppUsers THEN "check" ELSE "idle"
        /\ at'[t] # "idle" => call'[t] = call[t]
        /\ \A s \in Threads : s # t => at'[s] = at[s] /\ call'[s] = call[s]
    BY <1>t, <2>p, GoToLemma DEF Places
  <2>3. Demand' = Demand /\ (Held' <=> Held)
    BY <2>1 DEF Demand, Held, clock
  <2>4. CASE place[t] \notin {"analog", "vote"}
    <3>1. call[t].user # HAL_SYSFREQ_USER_CODEC
      BY <1>t, <2>1, <2>4 DEF OthersAsk
    <3>2. QED
      BY <1>t, <2>1, <2>2, <2>3, <2>4, <3>1, ApartLemma
  <2>5. CASE place[t] \in {"analog", "vote"}
    <3>1. call[t].user = HAL_SYSFREQ_USER_CODEC /\ at'[t] = "idle"
      BY <1>t, <1>v, <2>1, <2>2, <2>5
    <3>2. OthersAsk'
      BY <1>t, <2>1, <2>2, <3>1 DEF OthersAsk, driver
    <3>3. CodecTypeOK' /\ PlacesAgree'
      BY <1>t DEF CInv, CodecTypeOK, PlacesAgree, driver
    <3>4. \A before, after : Voting(t, before, after) => Voting(t, before, after)'
      BY <2>1, <2>3, <3>1 DEF Voting
    <3>5. CASE t = app
      <4>1. place[app] = "analog" /\ ~running /\ place[tmr] = "none"
        BY <1>t, <2>5, <3>5 DEF PlacesAgree
      <4>2. on = {} /\ ~Held /\ Voting(app, 0, Freq26M)'
        BY <1>t, <3>4, <3>5, <4>1 DEF CodecAgrees
      <4>3. CodecAgrees'
        BY <1>t, <2>3, <4>1, <4>2 DEF CodecAgrees, driver
      <4>4. QED
        BY <3>2, <3>3, <4>3 DEF CInv
    <3>6. CASE t = tmr
      <4>1. place[tmr] = "vote" /\ running /\ place[app] \notin {"analog", "hal"}
        BY <1>t, <2>5, <3>6 DEF PlacesAgree
      <4>2. on = {} /\ ~Held /\ Voting(tmr, Freq26M, 0)'
        BY <1>t, <3>4, <3>6, <4>1 DEF CodecAgrees
      <4>3. CodecAgrees'
        BY <1>t, <2>3, <4>1, <4>2 DEF CodecAgrees, driver
      <4>4. QED
        BY <3>2, <3>3, <4>3 DEF CInv
    <3>7. t = app \/ t = tmr
      BY <1>t, <2>5 DEF PlacesAgree
    <3>8. QED
      BY <3>5, <3>6, <3>7
  <2>6. QED
    BY <2>4, <2>5
<1>6. QED
  BY <1>1, <1>2, <1>3, <1>4, <1>5 DEF Asks
----------------------------------------------------------------------------
(* The steps of the driver.                                                  *)

\* A thread goes to another place, and the other one stays.
LEMMA MovesLemma ==
  ASSUME CodecTypeOK, NEW t \in Threads, NEW there, Moves(t, there)
  PROVE  place'[t] = there /\ \A s \in Threads : s # t => place'[s] = place[s]
BY DEF CodecTypeOK, Moves

LEMMA OpenLemma ==
  ASSUME CInv, TypeOK', NEW s \in AUD_STREAM_T, codec_best1000_open(s)
  PROVE  CInv'
<1>t. CodecTypeOK /\ PlacesAgree /\ CodecAgrees /\ OthersAsk /\ app \in Threads /\ tmr \in Threads
      /\ app # tmr
  BY ThreadAssumption DEF CInv
<1>1. /\ place[app] = "none" /\ at[app] = "idle" /\ stream' = s /\ timer' = FALSE
      /\ UNCHANGED <<running, stream_running, on>>
  BY DEF codec_best1000_open, Free
<1>2. CASE running
  <2>1. Moves(app, "stream") /\ UNCHANGED vars
    BY <1>2 DEF codec_best1000_open
  <2>2. place'[app] = "stream" /\ (\A t \in Threads : t # app => place'[t] = place[t])
    BY <1>t, <2>1, MovesLemma
  <2>3. CodecTypeOK'
    BY <1>t, <1>1, <2>1 DEF CodecTypeOK, Moves
  <2>4. PlacesAgree'
    BY <1>t, <1>1, <2>2 DEF PlacesAgree
  <2>5. CodecAgrees'
    BY <1>t, <1>1, <1>2, <2>1, <2>2 DEF CodecAgrees, Voting, Demand, Held, vars, frequency, clock
  <2>6. OthersAsk'
    BY <1>t, <1>1, <2>1, <2>2 DEF OthersAsk, vars
  <2>7. QED
    BY <2>3, <2>4, <2>5, <2>6 DEF CInv
<1>3. CASE ~running
  <2>1. Moves(app, "analog") /\ Begin(app, HAL_SYSFREQ_USER_CODEC, Freq26M)
    BY <1>3 DEF codec_best1000_open, Votes
  <2>2. place'[app] = "analog" /\ (\A t \in Threads : t # app => place'[t] = place[t]) /\ place[tmr] = "none"
    BY <1>t, <1>3, <2>1, MovesLemma DEF PlacesAgree
  <2>3. /\ UNCHANGED <<frequency, clock>>
        /\ at' = [at EXCEPT ![app] = "write"]
        /\ call' = [call EXCEPT ![app] =
             [user |-> HAL_SYSFREQ_USER_CODEC, freq |-> Freq26M, old_sysfreq |-> sys_freq]]
    BY <2>1, CodecAssumption DEF Begin, GoTo, FirstPlace
  <2>4. /\ at'[app] = "write" /\ \A t \in Threads : t # app => at'[t] = at[t] /\ call'[t] = call[t]
        /\ call'[app].user = HAL_SYSFREQ_USER_CODEC /\ call'[app].freq = Freq26M
    BY <1>t, <2>3 DEF CodecTypeOK, TypeOK
  <2>5. CodecTypeOK'
    BY <1>t, <1>1, <2>1 DEF CodecTypeOK, Moves
  <2>6. PlacesAgree'
    BY <1>t, <1>1, <1>3, <2>2 DEF PlacesAgree
  <2>7. on = {} /\ Demand = 0 /\ ~Held
    BY <1>t, <1>1, <1>3 DEF CodecAgrees
  <2>8. Demand' = 0 /\ ~Held'
    BY <2>3, <2>7 DEF Demand, Held, frequency, clock
  <2>9. Voting(app, 0, Freq26M)'
    BY <2>4, <2>8 DEF Voting
  <2>10. CodecAgrees'
    BY <1>t, <1>1, <1>3, <2>2, <2>7, <2>8, <2>9 DEF CodecAgrees
  <2>11. OthersAsk'
    BY <1>t, <2>2, <2>4 DEF OthersAsk
  <2>12. QED
    BY <2>5, <2>6, <2>10, <2>11 DEF CInv
<1>4. QED
  BY <1>2, <1>3

LEMMA OpenAnalogLemma == ASSUME CInv, TypeOK', OpenAnalog PROVE CInv'
<1>t. CodecTypeOK /\ PlacesAgree /\ CodecAgrees /\ OthersAsk /\ app \in Threads /\ tmr \in Threads
      /\ app # tmr
  BY ThreadAssumption DEF CInv
<1>1. /\ place[app] = "analog" /\ at[app] = "idle" /\ on' = on \union {"dac"}
      /\ PllOp(On("aud", "aud")) /\ Moves(app, "hal")
      /\ UNCHANGED <<frequency, at, call, op, running, stream_running, timer, stream>>
  BY DEF OpenAnalog
<1>2. place'[app] = "hal" /\ (\A t \in Threads : t # app => place'[t] = place[t])
      /\ place[tmr] = "none" /\ ~running
  BY <1>t, <1>1, MovesLemma DEF PlacesAgree
<1>3. on = {} /\ Demand = Freq26M
  BY <1>t, <1>1 DEF CodecAgrees, Voting
<1>4. Held' /\ Demand' = Freq26M /\ on' = {"dac"}
  BY <1>t, <1>1, <1>3 DEF PllOp, On, Held, Demand, frequency, CodecTypeOK, TypeOK, PLL
<1>5. CodecTypeOK'
  BY <1>t, <1>1, <1>4 DEF CodecTypeOK, Moves
<1>6. PlacesAgree'
  BY <1>t, <1>1, <1>2 DEF PlacesAgree
<1>7. CodecAgrees'
  BY <1>t, <1>1, <1>2, <1>4 DEF CodecAgrees
<1>8. OthersAsk'
  BY <1>t, <1>1, <1>2 DEF OthersAsk
<1>9. QED
  BY <1>5, <1>6, <1>7, <1>8 DEF CInv

\* The steps that change no demand, no hold and no request.
LEMMA AppStepsLemma ==
  ASSUME CInv, TypeOK', \/ OpenHal \/ codec_best1000_stream_open \/ codec_best1000_close
                        \/ \E s \in AUD_STREAM_T : codec_best1000_stream_close(s)
  PROVE  CInv'
<1>t. CodecTypeOK /\ PlacesAgree /\ CodecAgrees /\ OthersAsk /\ app \in Threads /\ tmr \in Threads
      /\ app # tmr
  BY ThreadAssumption DEF CInv
<1>1. CASE OpenHal
  <2>1. /\ place[app] = "hal" /\ on' = on \union {"hal"} /\ running' = TRUE /\ Moves(app, "stream")
        /\ UNCHANGED <<vars, stream_running, timer, stream>>
    BY <1>1 DEF OpenHal
  <2>2. place'[app] = "stream" /\ (\A t \in Threads : t # app => place'[t] = place[t])
        /\ place[tmr] = "none" /\ ~timer
    BY <1>t, <2>1, MovesLemma DEF PlacesAgree
  <2>3. on' = {"dac", "hal"} /\ Demand = Freq26M /\ Held
    BY <1>t, <2>1 DEF CodecAgrees
  <2>4. CodecTypeOK'
    BY <1>t, <2>1, <2>3 DEF CodecTypeOK, Moves
  <2>5. PlacesAgree'
    BY <1>t, <2>1, <2>2 DEF PlacesAgree
  <2>6. Demand' = Demand /\ (Held' <=> Held)
    BY <2>1 DEF Demand, Held, vars, frequency, clock
  <2>7. CodecAgrees'
    BY <1>t, <2>1, <2>2, <2>3, <2>6 DEF CodecAgrees
  <2>8. OthersAsk'
    BY <1>t, <2>1, <2>2 DEF OthersAsk, vars
  <2>9. QED
    BY <2>4, <2>5, <2>7, <2>8 DEF CInv
<1>2. CASE codec_best1000_stream_open
  <2>1. /\ place[app] = "stream" /\ stream_running' = [stream_running EXCEPT ![stream] = TRUE]
        /\ Moves(app, "none") /\ UNCHANGED <<vars, running, timer, on, stream>>
    BY <1>2 DEF codec_best1000_stream_open
  <2>2. place'[app] = "none" /\ (\A t \in Threads : t # app => place'[t] = place[t]) /\ ~timer
    BY <1>t, <2>1, MovesLemma DEF PlacesAgree
  <2>3. CodecTypeOK'
    BY <1>t, <2>1 DEF CodecTypeOK, Moves
  <2>4. PlacesAgree'
    BY <1>t, <2>1, <2>2 DEF PlacesAgree
  <2>5. CodecAgrees'
    BY <1>t, <2>1, <2>2 DEF CodecAgrees, Voting, Demand, Held, vars, frequency, clock
  <2>6. OthersAsk'
    BY <1>t, <2>1, <2>2 DEF OthersAsk, vars
  <2>7. QED
    BY <2>3, <2>4, <2>5, <2>6 DEF CInv
<1>3. CASE codec_best1000_close
  <2>1. /\ place[app] = "close" /\ Moves(app, "none")
        /\ timer' = (timer \/ (running /\ \A s \in AUD_STREAM_T : ~stream_running[s]))
        /\ UNCHANGED <<vars, running, stream_running, on, stream>>
    BY <1>3 DEF codec_best1000_close
  <2>2. place'[app] = "none" /\ (\A t \in Threads : t # app => place'[t] = place[t]) /\ timer' \in BOOLEAN
    BY <1>t, <2>1, MovesLemma
  <2>3. CodecTypeOK'
    BY <1>t, <2>1, <2>2 DEF CodecTypeOK, Moves
  <2>4. PlacesAgree'
    BY <1>t, <2>1, <2>2 DEF PlacesAgree
  <2>5. CodecAgrees'
    BY <1>t, <2>1, <2>2 DEF CodecAgrees, Voting, Demand, Held, vars, frequency, clock
  <2>6. OthersAsk'
    BY <1>t, <2>1, <2>2 DEF OthersAsk, vars
  <2>7. QED
    BY <2>3, <2>4, <2>5, <2>6 DEF CInv
<1>4. ASSUME NEW s \in AUD_STREAM_T, codec_best1000_stream_close(s) PROVE CInv'
  <2>1. /\ place[app] = "none" /\ at[app] = "idle"
        /\ stream_running' = [stream_running EXCEPT ![s] = FALSE]
        /\ Moves(app, "close") /\ UNCHANGED <<vars, running, timer, on, stream>>
    BY <1>4 DEF codec_best1000_stream_close, Free
  <2>2. place'[app] = "close" /\ (\A t \in Threads : t # app => place'[t] = place[t])
    BY <1>t, <2>1, MovesLemma
  <2>3. CodecTypeOK'
    BY <1>t, <2>1 DEF CodecTypeOK, Moves
  <2>4. PlacesAgree'
    BY <1>t, <2>1, <2>2 DEF PlacesAgree, CodecTypeOK
  <2>5. CodecAgrees'
    BY <1>t, <2>1, <2>2 DEF CodecAgrees, Voting, Demand, Held, vars, frequency, clock
  <2>6. OthersAsk'
    BY <1>t, <2>1, <2>2 DEF OthersAsk, vars
  <2>7. QED
    BY <2>3, <2>4, <2>5, <2>6 DEF CInv
<1>5. QED
  BY <1>1, <1>2, <1>3, <1>4

LEMMA TimerStepsLemma ==
  ASSUME CInv, TypeOK', codec_timehandler \/ RealCloseWakes \/ RealCloseVotes \/ RealCloseEnds
  PROVE  CInv'
<1>t. CodecTypeOK /\ PlacesAgree /\ CodecAgrees /\ OthersAsk /\ app \in Threads /\ tmr \in Threads
      /\ app # tmr
  BY ThreadAssumption DEF CInv
<1>1. CASE codec_timehandler
  <2>1. /\ timer /\ place[tmr] = "none" /\ timer' = FALSE
        /\ UNCHANGED <<vars, running, stream_running, stream>>
    BY <1>1 DEF codec_timehandler
  <2>2. UNCHANGED <<frequency, clock, at, call>>
    BY <2>1 DEF vars
  <2>3. CASE running
    <3>1. on' = on \ {"hal"} /\ Moves(tmr, "asleep")
      BY <1>1, <2>3 DEF codec_timehandler
    <3>2. place'[tmr] = "asleep" /\ (\A t \in Threads : t # tmr => place'[t] = place[t])
          /\ place[app] \in {"none", "close"}
      BY <1>t, <2>1, <3>1, MovesLemma DEF PlacesAgree
    <3>3. on' = {"dac"} /\ Demand = Freq26M /\ Held
      BY <1>t, <2>1, <2>3, <3>1 DEF CodecAgrees
    <3>4. CodecTypeOK'
      BY <1>t, <2>1, <3>1, <3>3 DEF CodecTypeOK, Moves
    <3>5. PlacesAgree'
      BY <1>t, <2>1, <2>3, <3>2 DEF PlacesAgree
    <3>6. Demand' = Demand /\ (Held' <=> Held)
      BY <2>2 DEF Demand, Held, frequency, clock
    <3>7. CodecAgrees'
      BY <1>t, <2>1, <2>3, <3>2, <3>3, <3>6 DEF CodecAgrees
    <3>8. OthersAsk'
      BY <1>t, <2>1, <2>2, <3>2 DEF OthersAsk
    <3>9. QED
      BY <3>4, <3>5, <3>7, <3>8 DEF CInv
  <2>4. CASE ~running
    <3>1. UNCHANGED <<on, place>>
      BY <1>1, <2>4 DEF codec_timehandler
    <3>2. CodecTypeOK' /\ PlacesAgree' /\ OthersAsk'
      BY <1>t, <2>1, <2>2, <3>1 DEF CodecTypeOK, PlacesAgree, OthersAsk
    <3>3. CodecAgrees'
      BY <1>t, <2>1, <2>2, <3>1 DEF CodecAgrees, Voting, Demand, Held, frequency, clock
    <3>4. QED
      BY <3>2, <3>3 DEF CInv
  <2>5. QED
    BY <2>3, <2>4
<1>2. CASE RealCloseWakes
  <2>1. /\ place[tmr] = "asleep" /\ Moves(tmr, "off") /\ on' = {} /\ PllOp(Off("aud", "aud"))
        /\ UNCHANGED <<frequency, at, call, op, running, stream_running, timer, stream>>
    BY <1>2 DEF RealCloseWakes
  <2>2. /\ place'[tmr] = "off" /\ (\A t \in Threads : t # tmr => place'[t] = place[t]) /\ running
        /\ place[app] \notin {"analog", "hal"}
    BY <1>t, <2>1, MovesLemma DEF PlacesAgree
  <2>3. ~Held' /\ Demand' = Freq26M
    BY <1>t, <2>1 DEF CodecAgrees, PllOp, Off, Held, Demand, frequency, CodecTypeOK, TypeOK, PLL
  <2>4. CodecTypeOK'
    BY <1>t, <2>1 DEF CodecTypeOK, Moves
  <2>5. PlacesAgree'
    BY <1>t, <2>1, <2>2 DEF PlacesAgree
  <2>6. CodecAgrees'
    BY <1>t, <2>1, <2>2, <2>3 DEF CodecAgrees
  <2>7. OthersAsk'
    BY <1>t, <2>1, <2>2 DEF OthersAsk
  <2>8. QED
    BY <2>4, <2>5, <2>6, <2>7 DEF CInv
<1>3. CASE RealCloseVotes
  <2>1. /\ place[tmr] = "off" /\ Moves(tmr, "vote") /\ Begin(tmr, HAL_SYSFREQ_USER_CODEC, 0)
        /\ UNCHANGED <<running, stream_running, timer, on, stream>>
    BY <1>3 DEF RealCloseVotes, Votes
  <2>2. /\ place'[tmr] = "vote" /\ (\A t \in Threads : t # tmr => place'[t] = place[t]) /\ running
        /\ place[app] \notin {"analog", "hal"}
    BY <1>t, <2>1, MovesLemma DEF PlacesAgree
  <2>3. /\ UNCHANGED <<frequency, clock>>
        /\ at' = [at EXCEPT ![tmr] = "write"]
        /\ call' = [call EXCEPT ![tmr] =
             [user |-> HAL_SYSFREQ_USER_CODEC, freq |-> 0, old_sysfreq |-> sys_freq]]
    BY <2>1, CodecAssumption DEF Begin, GoTo, FirstPlace
  <2>4. /\ at'[tmr] = "write" /\ \A t \in Threads : t # tmr => at'[t] = at[t] /\ call'[t] = call[t]
        /\ call'[tmr].user = HAL_SYSFREQ_USER_CODEC /\ call'[tmr].freq = 0
    BY <1>t, <2>3 DEF CodecTypeOK, TypeOK
  <2>5. CodecTypeOK'
    BY <1>t, <2>1 DEF CodecTypeOK, Moves
  <2>6. PlacesAgree'
    BY <1>t, <2>1, <2>2 DEF PlacesAgree
  <2>7. on = {} /\ Demand' = Freq26M /\ ~Held'
    BY <1>t, <2>1, <2>3 DEF CodecAgrees, Demand, Held, frequency, clock
  <2>8. Voting(tmr, Freq26M, 0)'
    BY <2>4, <2>7 DEF Voting
  <2>9. CodecAgrees'
    BY <1>t, <2>1, <2>2, <2>7, <2>8 DEF CodecAgrees
  <2>10. OthersAsk'
    BY <1>t, <2>2, <2>4 DEF OthersAsk
  <2>11. QED
    BY <2>5, <2>6, <2>9, <2>10 DEF CInv
<1>4. CASE RealCloseEnds
  <2>1. /\ place[tmr] = "vote" /\ at[tmr] = "idle" /\ running' = FALSE /\ Moves(tmr, "none")
        /\ UNCHANGED <<vars, stream_running, timer, on, stream>>
    BY <1>4 DEF RealCloseEnds
  <2>2. /\ place'[tmr] = "none" /\ (\A t \in Threads : t # tmr => place'[t] = place[t])
        /\ place[app] \notin {"analog", "hal"}
    BY <1>t, <2>1, MovesLemma DEF PlacesAgree
  <2>3. on = {} /\ ~Held /\ Demand = 0
    BY <1>t, <2>1 DEF CodecAgrees, Voting
  <2>4. Demand' = Demand /\ (Held' <=> Held)
    BY <2>1 DEF Demand, Held, vars, frequency, clock
  <2>5. CodecTypeOK'
    BY <1>t, <2>1 DEF CodecTypeOK, Moves
  <2>6. PlacesAgree'
    BY <1>t, <2>1, <2>2 DEF PlacesAgree
  <2>7. CodecAgrees'
    BY <1>t, <2>1, <2>2, <2>3, <2>4 DEF CodecAgrees
  <2>8. OthersAsk'
    BY <1>t, <2>1, <2>2 DEF OthersAsk, vars
  <2>9. QED
    BY <2>5, <2>6, <2>7, <2>8 DEF CInv
<1>5. QED
  BY <1>1, <1>2, <1>3, <1>4

LEMMA InterruptLemma ==
  ASSUME CInv, TypeOK', NEW r \in IrqRequests, Interrupt(r[1], r[2]), UNCHANGED driver
  PROVE  CInv'
<1>t. CodecTypeOK /\ PlacesAgree /\ CodecAgrees /\ OthersAsk
  BY DEF CInv
<1>1. /\ sysfreq_per_user' = [sysfreq_per_user EXCEPT ![r[1]] = r[2]]
      /\ UNCHANGED <<clock, at, call, op>>
  BY DEF Interrupt, Write
<1>2. Demand' = Demand /\ (Held' <=> Held)
  BY <1>t, <1>1, CodecAssumption DEF CodecTypeOK, TypeOK, Demand, Held, clock
<1>3. CodecTypeOK' /\ PlacesAgree' /\ OthersAsk'
  BY <1>t, <1>1 DEF CodecTypeOK, PlacesAgree, OthersAsk, driver
<1>4. CodecAgrees'
  BY <1>t, <1>1, <1>2 DEF CodecAgrees, Voting, driver
<1>5. QED
  BY <1>3, <1>4 DEF CInv

LEMMA CodecInitLemma == CodecInit => CInv
<1>1. SUFFICES ASSUME CodecInit PROVE CInv
  OBVIOUS
<1>2. TypeOK
  BY <1>1, InitTypeLemma DEF CodecInit
<1>3. /\ running = FALSE /\ timer = FALSE /\ on = {} /\ stream = "playback"
      /\ place[app] = "none" /\ place[tmr] = "none"
      /\ stream_running = [s \in AUD_STREAM_T |-> FALSE] /\ place = [t \in Threads |-> "none"]
  BY <1>1, ThreadAssumption DEF CodecInit
<1>4. CodecTypeOK /\ PlacesAgree
  BY <1>2, <1>3 DEF CodecTypeOK, PlacesAgree, AUD_STREAM_T
<1>5. Demand = 0 /\ ~Held /\ \A t \in Threads : at[t] = "idle"
  BY <1>1, CodecAssumption DEF CodecInit, Init, Demand, Held, PLL
<1>6. CodecAgrees /\ OthersAsk
  BY <1>3, <1>5 DEF CodecAgrees, OthersAsk
<1>7. QED
  BY <1>4, <1>6 DEF CInv

LEMMA CodecNextLemma == CInv /\ TypeOK' /\ [CodecNext]_codecVars => CInv'
<1>1. SUFFICES ASSUME CInv, TypeOK', [CodecNext]_codecVars PROVE CInv'
  OBVIOUS
<1>2. CASE UNCHANGED codecVars
  BY <1>1, <1>2 DEF CInv, CodecTypeOK, PlacesAgree, CodecAgrees, OthersAsk, Voting, Demand, Held,
    codecVars, driver, vars, frequency, clock
<1>3. CASE AppStep
  BY <1>1, <1>3, AsksLemma, OpenLemma, OpenAnalogLemma, AppStepsLemma, ThreadAssumption DEF AppStep
<1>4. CASE TimerStep
  BY <1>1, <1>4, AsksLemma, TimerStepsLemma, ThreadAssumption DEF TimerStep
<1>5. CASE \E r \in IrqRequests : Interrupt(r[1], r[2]) /\ UNCHANGED driver
  BY <1>1, <1>5, InterruptLemma
<1>6. CASE \E t \in Threads \ {app, tmr} : Asks(t)
  BY <1>1, <1>6, AsksLemma
<1>7. QED
  BY <1>1, <1>2, <1>3, <1>4, <1>5, <1>6 DEF CodecNext

LEMMA CodecInvLemma == CodecSpec => []CInv
<1>1. IInv => TypeOK
  BY DEF IInv
<1>2. QED
  BY <1>1, CodecInitLemma, CodecNextLemma, SysFreqTypeLemma, PTL DEF CodecSpec

\* Every variable of the driver keeps its type (codec_best1000.c).
THEOREM CodecTypeTheorem == CodecSpec => []CodecTypeOK
<1>1. CInv => CodecTypeOK
  BY DEF CInv
<1>2. QED
  BY <1>1, CodecInvLemma, PTL

\* While a part of the codec is on its demand stands and the audio PLL is held,
\* and neither is left behind when it is off (codec_best1000_open and
\* codec_best1000_real_close).
THEOREM VotesFollowCodecTheorem == CodecSpec => []VotesFollowCodec
<1>1. ASSUME CInv PROVE VotesFollowCodec
  <2>1. CodecAgrees /\ PlacesAgree
    BY <1>1 DEF CInv
  <2>2. ~running /\ place[app] \notin {"analog", "hal"} => on = {} /\ GivenBack
    BY <2>1 DEF CodecAgrees, GivenBack, Demand, Held
  <2>3. on # {} => Provided
    <3>1. CASE running
      BY <2>1, <3>1 DEF CodecAgrees, PlacesAgree, Provided, Demand, Held
    <3>2. CASE ~running
      BY <2>1, <3>2 DEF CodecAgrees, PlacesAgree, Provided, Demand, Held
    <3>3. QED
      BY <3>1, <3>2
  <2>4. QED
    BY <2>2, <2>3 DEF VotesFollowCodec
<1>2. QED
  BY <1>1, CodecInvLemma, PTL

\* The delayed close begins only when every stream is closed and none is being
\* opened (codec_timehandler).
THEOREM OffWhenClosedTheorem == CodecSpec => OffWhenClosed
<1> DEFINE Begins == "hal" \in on /\ "hal" \notin on' =>
                       place[app] # "stream" /\ \A s \in AUD_STREAM_T : ~stream_running[s]
<1>1. CInv /\ [CodecNext]_codecVars => [Begins]_codecVars
  <2>1. SUFFICES ASSUME CInv, CodecNext, "hal" \in on, "hal" \notin on'
                 PROVE  place[app] # "stream" /\ \A s \in AUD_STREAM_T : ~stream_running[s]
    OBVIOUS
  <2>2. CASE codec_timehandler
    BY <2>1, <2>2 DEF codec_timehandler, CInv, PlacesAgree
  <2>3. CASE RealCloseWakes
    BY <2>1, <2>3 DEF RealCloseWakes, CInv, CodecAgrees
  <2>4. ASSUME NEW t \in Threads, Asks(t) PROVE FALSE
    BY <2>1, <2>4 DEF Asks, driver
  <2>5. CASE \/ \E s \in AUD_STREAM_T : codec_best1000_open(s) \/ codec_best1000_stream_close(s)
             \/ OpenAnalog \/ OpenHal \/ codec_best1000_stream_open \/ codec_best1000_close
             \/ RealCloseVotes \/ RealCloseEnds
    BY <2>1, <2>5 DEF codec_best1000_open, codec_best1000_stream_close, OpenAnalog, OpenHal,
      codec_best1000_stream_open, codec_best1000_close, RealCloseVotes, RealCloseEnds
  <2>6. CASE \E r \in IrqRequests : Interrupt(r[1], r[2]) /\ UNCHANGED driver
    BY <2>1, <2>6 DEF driver
  <2>7. QED
    BY <2>1, <2>2, <2>3, <2>4, <2>5, <2>6, ThreadAssumption DEF CodecNext, AppStep, TimerStep
<1>2. QED
  BY <1>1, CodecInvLemma, PTL DEF CodecSpec, OffWhenClosed
=============================================================================
