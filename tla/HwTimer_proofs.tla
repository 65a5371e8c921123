--------------------------- MODULE HwTimer_proofs ---------------------------
(* Theorems about HwTimer: the lists and the states of the timers agree, for *)
(* every number of timers, every argument and every interleaving.            *)
EXTENDS HwTimer, WellFoundedInduction, TLAPS

(* What the operators of Lists do to lists without duplicates.               *)

(* Taking the k-th element out of a list without duplicates.                 *)
LEMMA WithoutLemma ==
  ASSUME NEW S, NEW s \in Seq(S), NoDuplicates(s), NEW k \in DOMAIN s
  PROVE  /\ Without(s, k) \in Seq(S)
         /\ NoDuplicates(Without(s, k))
         /\ Range(Without(s, k)) = Range(s) \ {s[k]}
<1> DEFINE w == Without(s, k)
<1>1. w \in Seq(S) /\ Len(w) = Len(s) - 1 /\ DOMAIN w = 1..(Len(s) - 1)
  BY DEF Without
<1>2. \A j \in DOMAIN w : w[j] = IF j < k THEN s[j] ELSE s[j + 1]
  BY DEF Without
<1>3. NoDuplicates(w)
  BY <1>1, <1>2 DEF NoDuplicates
<1>4. Range(w) \subseteq Range(s) \ {s[k]}
  BY <1>1, <1>2 DEF Range, NoDuplicates
<1>5. ASSUME NEW i \in DOMAIN s, s[i] # s[k] PROVE s[i] \in Range(w)
  <2>1. CASE i < k
    BY <2>1, <1>1, <1>2 DEF Range
  <2>2. CASE i > k
    <3>1. i - 1 \in DOMAIN w /\ w[i - 1] = s[i]
      BY <2>2, <1>1, <1>2
    <3> QED BY <3>1 DEF Range
  <2> QED BY <2>1, <2>2, <1>5
<1> QED BY <1>1, <1>3, <1>4, <1>5 DEF Range

(* Putting a new element behind the k-th of a list without duplicates.       *)
LEMMA InsertAfterLemma ==
  ASSUME NEW S, NEW s \in Seq(S), NoDuplicates(s), NEW k \in DOMAIN s,
         NEW t \in S, t \notin Range(s)
  PROVE  /\ InsertAfter(s, k, t) \in Seq(S)
         /\ NoDuplicates(InsertAfter(s, k, t))
         /\ Range(InsertAfter(s, k, t)) = Range(s) \cup {t}
<1> DEFINE w == InsertAfter(s, k, t)
<1>0. k \in Nat /\ 1 <= k /\ k <= Len(s) /\ Len(s) \in Nat /\ DOMAIN s = 1..Len(s)
  OBVIOUS
<1>1. w \in Seq(S) /\ DOMAIN w = 1..(Len(s) + 1)
  BY <1>0 DEF InsertAfter
<1>2. \A j \in DOMAIN w : /\ j <= k => w[j] = s[j]
                          /\ j = k + 1 => w[j] = t
                          /\ j > k + 1 => w[j] = s[j - 1]
  BY <1>0 DEF InsertAfter
<1>3. \A j \in DOMAIN s : s[j] # t
  BY DEF Range
<1>4. NoDuplicates(w)
  <2> SUFFICES ASSUME NEW i \in DOMAIN w, NEW j \in DOMAIN w, w[i] = w[j] PROVE i = j
    BY DEF NoDuplicates
  <2>1. \A m \in DOMAIN w :
          \/ m <= k /\ m \in DOMAIN s /\ w[m] = s[m]
          \/ m = k + 1 /\ w[m] = t
          \/ m > k + 1 /\ m - 1 \in DOMAIN s /\ w[m] = s[m - 1]
    <3> SUFFICES ASSUME NEW m \in DOMAIN w
                 PROVE  \/ m <= k /\ m \in DOMAIN s /\ w[m] = s[m]
                        \/ m = k + 1 /\ w[m] = t
                        \/ m > k + 1 /\ m - 1 \in DOMAIN s /\ w[m] = s[m - 1]
      OBVIOUS
    <3>1. m \in Nat /\ 1 <= m /\ m <= Len(s) + 1
      BY <1>0, <1>1
    <3> HIDE DEF w
    <3> QED BY <3>1, <1>0, <1>2
  <2>2. i \in Nat /\ j \in Nat
    BY <1>0, <1>1
  <2>3. \A p, q \in DOMAIN s : s[p] = s[q] => p = q
    BY DEF NoDuplicates
  <2> HIDE DEF w
  <2> QED BY <1>0, <1>3, <2>1, <2>2, <2>3
<1>5. Range(w) \subseteq Range(s) \cup {t}
  BY <1>0, <1>1, <1>2 DEF Range
<1>6. t \in Range(w)
  BY <1>0, <1>1, <1>2 DEF Range
<1>7. ASSUME NEW i \in DOMAIN s PROVE s[i] \in Range(w)
  <2>1. CASE i <= k
    BY <2>1, <1>0, <1>1, <1>2 DEF Range
  <2>2. CASE i > k
    <3>1. i + 1 \in DOMAIN w /\ w[i + 1] = s[i]
      BY <2>2, <1>0, <1>1, <1>2
    <3> QED BY <3>1 DEF Range
  <2> QED BY <1>0, <2>1, <2>2
<1> QED BY <1>1, <1>4, <1>5, <1>6, <1>7 DEF Range

(* Putting a new element in front of a list without duplicates.              *)
LEMMA PushLemma ==
  ASSUME NEW S, NEW s \in Seq(S), NoDuplicates(s), NEW t \in S, t \notin Range(s)
  PROVE  /\ <<t>> \o s \in Seq(S)
         /\ NoDuplicates(<<t>> \o s)
         /\ Range(<<t>> \o s) = Range(s) \cup {t}
<1> DEFINE w == <<t>> \o s
<1>1. w \in Seq(S) /\ DOMAIN w = 1..(Len(s) + 1) /\ w[1] = t
  OBVIOUS
<1>2. \A j \in DOMAIN w : j > 1 => w[j] = s[j - 1]
  OBVIOUS
<1>3. NoDuplicates(w)
  BY <1>1, <1>2 DEF NoDuplicates, Range
<1>4. Range(w) \subseteq Range(s) \cup {t}
  BY <1>1, <1>2 DEF Range
<1>5. ASSUME NEW i \in DOMAIN s PROVE s[i] \in Range(w)
  <2>1. i + 1 \in DOMAIN w /\ w[i + 1] = s[i]
    BY <1>1, <1>2
  <2> QED BY <2>1 DEF Range
<1>6. t \in Range(w)
  BY <1>1 DEF Range
<1> QED BY <1>1, <1>3, <1>4, <1>5, <1>6 DEF Range

(* Splitting a list without duplicates behind its n-th element.              *)
LEMMA SplitLemma ==
  ASSUME NEW S, NEW s \in Seq(S), NoDuplicates(s), NEW n \in DOMAIN s
  PROVE  LET a == SubSeq(s, 1, n)
             b == SubSeq(s, n + 1, Len(s))
         IN  /\ a \in Seq(S) /\ b \in Seq(S)
             /\ NoDuplicates(a) /\ NoDuplicates(b)
             /\ Range(a) = {s[j] : j \in 1..n}
             /\ Range(b) = Range(s) \ Range(a)
<1> DEFINE a == SubSeq(s, 1, n)
           b == SubSeq(s, n + 1, Len(s))
<1>1. a \in Seq(S) /\ DOMAIN a = 1..n /\ \A j \in 1..n : a[j] = s[j]
  OBVIOUS
<1>2. /\ b \in Seq(S) /\ DOMAIN b = 1..(Len(s) - n)
      /\ \A j \in DOMAIN b : b[j] = s[n + j]
  OBVIOUS
<1>3. NoDuplicates(a) /\ NoDuplicates(b)
  <2>1. \A p, q \in DOMAIN s : s[p] = s[q] => p = q
    BY DEF NoDuplicates
  <2>2. \A j \in DOMAIN a : j \in DOMAIN s /\ j \in Int
    BY <1>1
  <2>3. \A j \in DOMAIN b : n + j \in DOMAIN s /\ j \in Int
    BY <1>2
  <2> HIDE DEF a, b
  <2>4. NoDuplicates(a)
    BY <1>1, <2>1, <2>2 DEF NoDuplicates
  <2>5. NoDuplicates(b)
    BY <1>2, <2>1, <2>3 DEF NoDuplicates
  <2> QED BY <2>4, <2>5
<1>4. Range(a) = {s[j] : j \in 1..n}
  BY <1>1 DEF Range
<1>5. Range(b) \subseteq Range(s) \ Range(a)
  <2> SUFFICES ASSUME NEW j \in DOMAIN b PROVE b[j] \in Range(s) \ Range(a)
    BY DEF Range
  <2>1. n + j \in DOMAIN s /\ \A m \in 1..n : m \in DOMAIN s /\ m # n + j
    BY <1>2
  <2>2. \A m \in 1..n : s[m] # s[n + j]
    BY <2>1 DEF NoDuplicates
  <2> QED BY <1>2, <1>4, <2>1, <2>2 DEF Range
<1>6. ASSUME NEW i \in DOMAIN s, s[i] \notin Range(a) PROVE s[i] \in Range(b)
  <2>1. i > n
    <3>1. i \in Nat /\ i >= 1 /\ n \in Nat
      OBVIOUS
    <3>2. i \notin 1..n
      BY <1>4, <1>6
    <3> QED BY <3>1, <3>2
  <2>2. i - n \in DOMAIN b /\ b[i - n] = s[i]
    BY <2>1, <1>2
  <2> QED BY <2>2 DEF Range
<1>7. Range(b) = Range(s) \ Range(a)
  BY <1>5, <1>6 DEF Range
<1> QED BY <1>1, <1>2, <1>3, <1>4, <1>7

(* Taking the head off a list without duplicates.                            *)
LEMMA PopLemma ==
  ASSUME NEW S, NEW s \in Seq(S), NoDuplicates(s), s # <<>>
  PROVE  /\ Head(s) \in S /\ Head(s) \in Range(s)
         /\ Tail(s) \in Seq(S)
         /\ NoDuplicates(Tail(s))
         /\ Range(Tail(s)) = Range(s) \ {Head(s)}
<1> DEFINE w == Tail(s)
<1>1. /\ w \in Seq(S) /\ DOMAIN w = 1..(Len(s) - 1)
      /\ \A j \in DOMAIN w : w[j] = s[j + 1]
  OBVIOUS
<1>2. 1 \in DOMAIN s /\ Head(s) = s[1] /\ s[1] \in S
  OBVIOUS
<1>3. NoDuplicates(w) /\ Range(w) \subseteq Range(s) \ {s[1]}
  BY <1>1, <1>2 DEF NoDuplicates, Range
<1>4. ASSUME NEW i \in DOMAIN s, s[i] # s[1] PROVE s[i] \in Range(w)
  <2>1. i - 1 \in DOMAIN w /\ w[i - 1] = s[i]
    BY <1>1, <1>4
  <2> QED BY <2>1 DEF Range
<1> QED BY <1>1, <1>2, <1>3, <1>4 DEF Range
----------------------------------------------------------------------------
(* The lists of the timers. *)

ListTypeOK ==
  /\ state \in [Timers -> HWTIMER_STATE_T]
  /\ free \in Seq(Timers) /\ active \in Seq(Timers) /\ fired \in Seq(Timers)
  /\ allocating \subseteq Timers
  /\ handler = "callback" => current \in Timers

\* The handler empties the fired list before it returns, so that the next
\* interrupt, which overwrites the list, loses no timer.
FiredOnlyInHandler == handler \in {"idle", "entered"} => fired = <<>>

ListInv == ListTypeOK /\ ListsMatchStates /\ FiredOnlyInHandler

listvars == <<state, free, active, fired, allocating>>

(* The initial lists: every timer is free.                                   *)
LEMMA ListInit == Init => ListInv
<1> SUFFICES ASSUME Init PROVE ListInv
  OBVIOUS
<1> USE NumAssumption DEF Init, Timers, Nil
<1>1. free \in Seq(Timers) /\ Range(free) = Timers /\ NoDuplicates(free)
  BY DEF Range, NoDuplicates
<1>2. <<>> \in Seq(Timers) /\ Range(<<>>) = {} /\ NoDuplicates(<<>>)
  BY DEF Range, NoDuplicates
<1>3. ListTypeOK
  BY <1>1, <1>2 DEF ListTypeOK, HWTIMER_STATE_T
<1>4. ListsMatchStates
  BY <1>1, <1>2 DEF ListsMatchStates
<1> QED BY <1>3, <1>4 DEF ListInv, FiredOnlyInHandler

(* hwtimer_alloc moves the first free timer to the caller.                   *)
LEMMA ListAllocTake == ListInv /\ AllocTake => ListInv'
<1> SUFFICES ASSUME ListInv, AllocTake PROVE ListInv'
  OBVIOUS
<1> USE DEF ListInv, AllocTake, hw, irq
<1>1. /\ Head(free) \in Timers /\ Head(free) \in Range(free)
      /\ free' \in Seq(Timers) /\ NoDuplicates(free')
      /\ Range(free') = Range(free) \ {Head(free)}
  BY PopLemma DEF ListTypeOK, ListsMatchStates
<1>2. ListTypeOK'
  BY <1>1 DEF ListTypeOK
<1>3. ListsMatchStates'
  BY <1>1 DEF ListsMatchStates
<1> QED BY <1>2, <1>3 DEF FiredOnlyInHandler

(* A timer is linked into one list at most, whatever is done to it.          *)
LEMMA ListAllocInit ==
  ASSUME NEW t \in Timers, ListInv, AllocInit(t) PROVE ListInv'
<1> USE DEF ListInv, AllocInit, hw, irq
<1>1. ListTypeOK'
  BY DEF ListTypeOK, HWTIMER_STATE_T
<1>2. ListsMatchStates'
  BY DEF ListsMatchStates, ListTypeOK
<1> QED BY <1>1, <1>2 DEF FiredOnlyInHandler

LEMMA ListFree ==
  ASSUME NEW t \in Timers, ListInv, hwtimer_free(t) PROVE ListInv'
<1> USE DEF ListInv, hwtimer_free, hw, irq
<1>1. t \notin Range(free) \cup allocating
  BY DEF ListsMatchStates
<1>2. /\ free' \in Seq(Timers) /\ NoDuplicates(free')
      /\ Range(free') = Range(free) \cup {t}
  BY <1>1, PushLemma DEF ListsMatchStates, ListTypeOK
<1>3. ListTypeOK'
  BY <1>2 DEF ListTypeOK, HWTIMER_STATE_T
<1>4. ListsMatchStates'
  BY <1>1, <1>2 DEF ListsMatchStates, ListTypeOK
<1> QED BY <1>3, <1>4 DEF FiredOnlyInHandler

(* Starting a timer links it into the active list and nowhere else.          *)
LEMMA ListStart ==
  ASSUME NEW t \in Timers, NEW n, ListInv,
         StartAlone(t, n) \/ StartFirst(t, n) \/ StartBehind(t, n)
  PROVE  ListInv'
<1> USE DEF ListInv
<1>1. /\ state[t] \in {"ALLOC", "CALLBACK"}
      /\ state' = [state EXCEPT ![t] = "ACTIVE"]
      /\ UNCHANGED <<free, fired, allocating, handler, current>>
  BY DEF StartAlone, StartFirst, StartBehind, Startable, Started, irq
<1>2. t \notin Range(active)
  BY <1>1 DEF ListsMatchStates
<1>3. /\ active' \in Seq(Timers) /\ NoDuplicates(active')
      /\ Range(active') = Range(active) \cup {t}
  <2>1. CASE StartAlone(t, n)
    BY <2>1 DEF StartAlone, NoDuplicates, Range
  <2>2. CASE StartFirst(t, n)
    BY <2>2, <1>2, PushLemma DEF StartFirst, ListsMatchStates, ListTypeOK
  <2>3. CASE StartBehind(t, n)
    <3>1. PICK k \in DOMAIN active : active' = InsertAfter(active, k, t)
      BY <2>3 DEF StartBehind
    <3> QED BY <3>1, <1>2, InsertAfterLemma DEF ListsMatchStates, ListTypeOK
  <2> QED BY <2>1, <2>2, <2>3
<1>4. ListTypeOK'
  BY <1>1, <1>3 DEF ListTypeOK, HWTIMER_STATE_T
<1>5. ListsMatchStates'
  BY <1>1, <1>2, <1>3 DEF ListsMatchStates, ListTypeOK
<1> QED BY <1>1, <1>4, <1>5 DEF FiredOnlyInHandler

(* Stopping a timer unlinks it from the active or the fired list.            *)
LEMMA ListStop ==
  ASSUME NEW t \in Timers, ListInv, hwtimer_stop(t) PROVE ListInv'
<1> USE DEF ListInv
<1>1. /\ state' = [state EXCEPT ![t] = "ALLOC"]
      /\ UNCHANGED <<free, allocating, handler, current>>
  BY DEF hwtimer_stop, StopOnly, StopHead, StopBehind, StopFired, Stopped, irq
<1>2. CASE StopFired(t)
  <2>1. PICK k \in DOMAIN fired : fired[k] = t /\ fired' = Without(fired, k)
    BY <1>2 DEF StopFired
  <2>2. /\ fired' \in Seq(Timers) /\ NoDuplicates(fired')
        /\ Range(fired') = Range(fired) \ {t} /\ t \in Range(fired)
    <3>1. fired \in Seq(Timers) /\ NoDuplicates(fired)
      BY DEF ListsMatchStates, ListTypeOK
    <3>2. t \in Range(fired)
      BY <2>1 DEF Range
    <3> QED BY <2>1, <3>1, <3>2, WithoutLemma
  <2>3. active' = active
    BY <1>2 DEF StopFired
  <2>4. ListTypeOK'
    BY <1>1, <2>2, <2>3 DEF ListTypeOK, HWTIMER_STATE_T
  <2>5. ListsMatchStates'
    BY <1>1, <2>2, <2>3 DEF ListsMatchStates, ListTypeOK
  <2>6. FiredOnlyInHandler'
    BY <1>1, <2>1 DEF FiredOnlyInHandler
  <2> QED BY <2>4, <2>5, <2>6
<1>3. CASE ~StopFired(t)
  <2>1. /\ active' \in Seq(Timers) /\ NoDuplicates(active')
        /\ Range(active') = Range(active) \ {t} /\ t \in Range(active)
        /\ fired' = fired
    <3>1. CASE StopOnly(t)
      BY <3>1 DEF StopOnly, NoDuplicates, Range
    <3>2. CASE StopHead(t)
      BY <3>2, PopLemma DEF StopHead, ListsMatchStates, ListTypeOK
    <3>3. CASE StopBehind(t)
      <4>1. PICK k \in 2..Len(active) : active[k] = t /\ active' = Without(active, k)
        BY <3>3 DEF StopBehind
      <4>2. active \in Seq(Timers) /\ NoDuplicates(active)
        BY DEF ListsMatchStates, ListTypeOK
      <4>3. k \in DOMAIN active
        BY <4>2
      <4>4. t \in Range(active)
        BY <4>1, <4>3 DEF Range
      <4>5. fired' = fired
        BY <3>3 DEF StopBehind
      <4> QED BY <4>1, <4>2, <4>3, <4>4, <4>5, WithoutLemma
    <3> QED BY <1>3, <3>1, <3>2, <3>3 DEF hwtimer_stop
  <2>2. ListTypeOK'
    BY <1>1, <2>1 DEF ListTypeOK, HWTIMER_STATE_T
  <2>3. ListsMatchStates'
    BY <1>1, <2>1 DEF ListsMatchStates, ListTypeOK
  <2> QED BY <1>1, <2>1, <2>2, <2>3 DEF FiredOnlyInHandler
<1> QED BY <1>2, <1>3

(* The handler moves the expired timers to the fired list, which is empty.   *)
LEMMA ListFire == ListInv /\ HandlerFire => ListInv'
<1> SUFFICES ASSUME ListInv, HandlerFire PROVE ListInv'
  OBVIOUS
<1> USE DEF ListInv
<1>1. handler = "entered" /\ handler' = "locked" /\ UNCHANGED <<free, allocating>>
  BY DEF HandlerFire
<1>2. fired = <<>> /\ Range(fired) = {}
  BY <1>1 DEF FiredOnlyInHandler, Range
<1>3. PICK n \in DOMAIN active :
        /\ fired' = SubSeq(active, 1, n)
        /\ active' = SubSeq(active, n + 1, Len(active))
        /\ state' = [t \in Timers |-> IF \E j \in 1..n : active[j] = t
                                      THEN "FIRED" ELSE state[t]]
  BY DEF HandlerFire
<1>4. /\ active' \in Seq(Timers) /\ fired' \in Seq(Timers)
      /\ NoDuplicates(active') /\ NoDuplicates(fired')
      /\ Range(fired') = {active[j] : j \in 1..n}
      /\ Range(active') = Range(active) \ Range(fired')
  BY <1>3, SplitLemma DEF ListsMatchStates, ListTypeOK
<1>5. \A t \in Timers : state'[t] = IF t \in Range(fired') THEN "FIRED" ELSE state[t]
  BY <1>3, <1>4
<1>6. ListTypeOK'
  BY <1>1, <1>3, <1>4 DEF ListTypeOK, HWTIMER_STATE_T
<1>7. Range(fired') \subseteq Range(active)
  BY <1>4 DEF Range, ListTypeOK
<1>8. ListsMatchStates'
  BY <1>1, <1>2, <1>4, <1>5, <1>7 DEF ListsMatchStates, ListTypeOK
<1> QED BY <1>1, <1>6, <1>8 DEF FiredOnlyInHandler

(* The handler takes the next fired timer and calls its callback.            *)
LEMMA ListCallback == ListInv /\ HandlerCallback => ListInv'
<1> SUFFICES ASSUME ListInv, HandlerCallback PROVE ListInv'
  OBVIOUS
<1> USE DEF ListInv, HandlerCallback
<1>1. /\ Head(fired) \in Timers /\ Head(fired) \in Range(fired)
      /\ fired' \in Seq(Timers) /\ NoDuplicates(fired')
      /\ Range(fired') = Range(fired) \ {Head(fired)}
  BY PopLemma DEF ListTypeOK, ListsMatchStates
<1>2. ListTypeOK'
  BY <1>1 DEF ListTypeOK, HWTIMER_STATE_T
<1>3. ListsMatchStates'
  BY <1>1 DEF ListsMatchStates, ListTypeOK
<1> QED BY <1>2, <1>3 DEF FiredOnlyInHandler

(* The callback returns, whatever it has done to its own timer.              *)
LEMMA ListReturn == ListInv /\ HandlerReturn => ListInv'
<1> SUFFICES ASSUME ListInv, HandlerReturn PROVE ListInv'
  OBVIOUS
<1> USE DEF ListInv, HandlerReturn
<1>1. ListTypeOK'
  BY DEF ListTypeOK, HWTIMER_STATE_T
<1>2. ListsMatchStates'
  BY DEF ListsMatchStates, ListTypeOK
<1> QED BY <1>1, <1>2 DEF FiredOnlyInHandler

(* Every step preserves the invariant.                                       *)
LEMMA ListStep == ListInv /\ [Next]_vars => ListInv'
<1> SUFFICES ASSUME ListInv, [Next]_vars PROVE ListInv'
  OBVIOUS
<1>1. CASE Tick
  BY <1>1 DEF ListInv, ListTypeOK, ListsMatchStates, FiredOnlyInHandler, Tick, list, irq
<1>2. CASE HandlerEnter
  BY <1>2 DEF ListInv, ListTypeOK, ListsMatchStates, FiredOnlyInHandler, HandlerEnter, list
<1>3. CASE hwtimer_handler
  <2>1. CASE HandlerSpurious
    BY <2>1 DEF ListInv, ListTypeOK, ListsMatchStates, FiredOnlyInHandler, HandlerSpurious, list
  <2>2. CASE HandlerExit
    BY <2>2 DEF ListInv, ListTypeOK, ListsMatchStates, FiredOnlyInHandler, HandlerExit, list
  <2> QED BY <1>3, <2>1, <2>2, ListFire, ListCallback, ListReturn DEF hwtimer_handler
<1>4. CASE AllocTake
  BY <1>4, ListAllocTake
<1>5. ASSUME NEW t \in Timers, Operation(t) PROVE ListInv'
  <2>1. CASE \E ticks \in Ticks : hwtimer_start(t, ticks)
    <3>1. PICK ticks \in Ticks : hwtimer_start(t, ticks)
      BY <2>1
    <3>2. \E n : StartAlone(t, n) \/ StartFirst(t, n) \/ StartBehind(t, n)
      BY <3>1 DEF hwtimer_start
    <3> QED BY <3>2, ListStart
  <2> QED BY <1>5, <2>1, ListAllocInit, ListFree, ListStop DEF Operation
<1>6. CASE UNCHANGED vars
  BY <1>6 DEF ListInv, ListTypeOK, ListsMatchStates, FiredOnlyInHandler, vars, list, irq
<1> QED BY <1>1, <1>2, <1>3, <1>4, <1>5, <1>6 DEF Next

(* In every reachable state each timer is linked exactly where its state     *)
(* says: the assertions of hwtimer_alloc and hwtimer_stop on the state and   *)
(* the lists cannot fail, and no timer is ever lost.                         *)
THEOREM ListsMatchStatesTheorem == Spec => []ListsMatchStates
<1>1. Init => ListInv
  BY ListInit
<1>2. ListInv /\ [Next]_vars => ListInv'
  BY ListStep
<1>3. ListInv => ListsMatchStates
  BY DEF ListInv
<1> QED BY <1>1, <1>2, <1>3, PTL DEF Spec
----------------------------------------------------------------------------
(* Offsets.  TLAPS knows a recursive function only as a choice among the     *)
(* functions that satisfy its equation; that there is one, and that it is    *)
(* the only one, follows from the least place where it would fail.           *)

LEMMA LeastLemma ==
  ASSUME NEW S, S \subseteq Nat, S # {}
  PROVE  \E x \in S : \A y \in S : x <= y
<1> DEFINE Less == OpToRel(<, Nat)
<1>1. IsWellFoundedOn(Less, Nat)
  BY NatLessThanWellFounded
<1>2. \A x, y \in Nat : x < y => <<x, y>> \in Less
  BY DEF OpToRel
<1>3. \E x \in S : \A y \in S : ~(<<y, x>> \in Less)
  <2> HIDE DEF Less
  <2>1. QED
    BY <1>1, WFMin
<1>4. PICK x \in S : \A y \in S : ~(<<y, x>> \in Less)
  BY <1>3
<1> HIDE DEF Less
<1>5. ASSUME NEW y \in S PROVE x <= y
  <2>1. x \in Nat /\ y \in Nat /\ ~(y < x)
    BY <1>2, <1>4
  <2>2. QED
    BY <2>1
<1>6. QED
  BY <1>5

OffsetOf(a, tm) ==
  CHOOSE o : o = [k \in DOMAIN a |-> IF k = 1 THEN 0 ELSE o[k - 1] + tm[a[k]]]

\* o is the sums of the times tm of the list a, its head's left out.
Sums(o, a, tm) ==
  /\ o \in [DOMAIN a -> Int]
  /\ a # <<>> => o[1] = 0
  /\ \A k \in 2..Len(a) : o[k] = o[k - 1] + tm[a[k]]

LEMMA OffsetIs == Offset = OffsetOf(active, time) /\ Offset' = OffsetOf(active', time')
<1>1. Offset = OffsetOf(active, time)
  BY DEF Offset, OffsetOf
<1>2. Offset' = OffsetOf(active', time')
  BY DEF Offset, OffsetOf
<1>3. QED
  BY <1>1, <1>2

LEMMA SumsExist ==
  ASSUME NEW S, NEW a \in Seq(S), NEW tm \in [S -> Nat]
  PROVE  \E o \in [DOMAIN a -> Nat] : Sums(o, a, tm)
<1> DEFINE Is(n, o) == /\ o \in [1..n -> Nat]
                       /\ n > 0 => o[1] = 0
                       /\ \A k \in 2..n : o[k] = o[k - 1] + tm[a[k]]
<1> DEFINE Bad == {n \in 0..Len(a) : ~\E o : Is(n, o)}
<1>1. Len(a) \in Nat /\ DOMAIN a = 1..Len(a) /\ \A k \in 1..Len(a) : tm[a[k]] \in Nat
  OBVIOUS
<1>2. SUFFICES Bad = {}
  <2>1. SUFFICES ASSUME Bad = {} PROVE \E o \in [DOMAIN a -> Nat] : Sums(o, a, tm)
    BY <1>2
  <2>2. Len(a) \in 0..Len(a)
    BY <1>1
  <2>3. PICK o : Is(Len(a), o)
    BY <2>1, <2>2
  <2>4. a # <<>> => Len(a) > 0
    BY <1>1
  <2>5. QED
    BY <1>1, <2>3, <2>4 DEF Sums
<1>3. SUFFICES ASSUME Bad # {} PROVE FALSE
  OBVIOUS
<1>4. PICK n \in Bad : \A m \in Bad : n <= m
  <2>1. Bad \subseteq Nat
    BY <1>1
  <2> HIDE DEF Bad
  <2>2. QED
    BY <1>3, <2>1, LeastLemma
<1>5. n \in 0..Len(a) /\ ~\E o : Is(n, o)
  OBVIOUS
<1>6. n # 0
  <2>1. Is(0, [k \in 1..0 |-> 0])
    OBVIOUS
  <2>2. QED
    BY <1>5, <2>1
<1>7. PICK o : Is(n - 1, o)
  <2>1. n - 1 \in 0..Len(a) /\ ~(n <= n - 1)
    BY <1>1, <1>5, <1>6
  <2>2. n - 1 \notin Bad
    BY <1>4, <2>1
  <2>3. QED
    BY <2>1, <2>2
<1> DEFINE p == [k \in 1..n |-> IF k < n THEN o[k] ELSE IF n = 1 THEN 0 ELSE o[n - 1] + tm[a[n]]]
<1>8. Is(n, p)
  <2>1. n \in Nat /\ n >= 1 /\ n <= Len(a)
    BY <1>1, <1>5, <1>6
  <2>2. \A k \in 1..(n - 1) : o[k] \in Nat /\ p[k] = o[k]
    BY <1>7, <2>1
  <2>3. p[n] = IF n = 1 THEN 0 ELSE o[n - 1] + tm[a[n]]
    BY <2>1
  <2>4. p[n] \in Nat
    <3>1. CASE n = 1
      BY <2>3, <3>1
    <3>2. CASE n > 1
      <4>0. n - 1 \in 1..(n - 1) /\ n \in 1..Len(a)
        BY <1>1, <2>1, <3>2
      <4>1. o[n - 1] \in Nat /\ tm[a[n]] \in Nat
        BY <1>1, <2>2, <4>0
      <4>2. QED
        BY <2>3, <3>2, <4>1
    <3>3. QED
      BY <2>1, <3>1, <3>2
  <2>5. \A k \in 1..n : p[k] \in Nat
    <3>1. \A k \in 1..n : k = n \/ k \in 1..(n - 1)
      BY <2>1
    <3> HIDE DEF p
    <3>2. QED
      BY <2>2, <2>4, <3>1
  <2>6. p \in [1..n -> Nat]
    BY <2>5
  <2>7. p[1] = 0
    BY <1>7, <2>1, <2>2, <2>3
  <2>8. ASSUME NEW k \in 2..n PROVE p[k] = p[k - 1] + tm[a[k]]
    <3>1. k - 1 \in 1..(n - 1) /\ n # 1
      BY <2>1
    <3>2. p[k - 1] = o[k - 1]
      BY <2>2, <3>1
    <3>3. CASE k = n
      BY <2>3, <3>1, <3>2, <3>3
    <3>4. CASE k # n
      <4>1. k \in 1..(n - 1) /\ k \in 2..(n - 1)
        BY <2>1, <3>4
      <4>2. QED
        BY <1>7, <2>2, <3>2, <4>1
    <3>5. QED
      BY <3>3, <3>4
  <2> HIDE DEF p
  <2>9. QED
    BY <2>6, <2>7, <2>8
<1>9. QED
  BY <1>5, <1>8

LEMMA SumsUnique ==
  ASSUME NEW S, NEW a \in Seq(S), NEW tm, NEW o, NEW p, Sums(o, a, tm), Sums(p, a, tm)
  PROVE  o = p
<1> DEFINE Bad == {k \in DOMAIN a : o[k] # p[k]}
<1>1. Len(a) \in Nat /\ DOMAIN a = 1..Len(a)
  OBVIOUS
<1>2. SUFFICES Bad = {}
  BY DEF Sums
<1>3. SUFFICES ASSUME Bad # {} PROVE FALSE
  OBVIOUS
<1>4. PICK k \in Bad : \A m \in Bad : k <= m
  <2>1. Bad \subseteq Nat
    BY <1>1
  <2> HIDE DEF Bad
  <2>2. QED
    BY <1>3, <2>1, LeastLemma
<1>5. k \in 1..Len(a) /\ o[k] # p[k]
  BY <1>1
<1>6. CASE k = 1
  <2>1. a # <<>>
    BY <1>5
  <2>2. QED
    BY <1>5, <1>6, <2>1 DEF Sums
<1>7. CASE k > 1
  <2>1. k - 1 \in DOMAIN a /\ k \in 2..Len(a) /\ ~(k <= k - 1)
    BY <1>1, <1>5, <1>7
  <2>2. o[k - 1] = p[k - 1]
    BY <1>4, <2>1
  <2>3. QED
    BY <1>5, <2>1, <2>2 DEF Sums
<1>8. QED
  BY <1>5, <1>6, <1>7

\* Offset is the one function of the sums.
LEMMA OffsetLemma ==
  ASSUME NEW S, NEW a \in Seq(S), NEW tm \in [S -> Nat]
  PROVE  /\ OffsetOf(a, tm) \in [DOMAIN a -> Nat]
         /\ Sums(OffsetOf(a, tm), a, tm)
         /\ \A o : Sums(o, a, tm) => OffsetOf(a, tm) = o
<1> DEFINE Is(o) == o = [k \in DOMAIN a |-> IF k = 1 THEN 0 ELSE o[k - 1] + tm[a[k]]]
<1>1. Len(a) \in Nat /\ DOMAIN a = 1..Len(a)
  OBVIOUS
<1>2. ASSUME NEW o, Sums(o, a, tm) PROVE Is(o)
  <2>1. ASSUME NEW k \in DOMAIN a PROVE o[k] = IF k = 1 THEN 0 ELSE o[k - 1] + tm[a[k]]
    <3>1. CASE k = 1
      <4>1. a # <<>>
        BY <3>1
      <4>2. QED
        BY <1>2, <3>1, <4>1 DEF Sums
    <3>2. CASE k # 1
      <4>1. k \in 2..Len(a)
        BY <1>1, <3>2
      <4>2. QED
        BY <1>2, <3>2, <4>1 DEF Sums
    <3>3. QED
      BY <3>1, <3>2
  <2>2. o = [k \in DOMAIN a |-> o[k]]
    BY <1>2 DEF Sums
  <2>3. QED
    BY <2>1, <2>2
<1>3. PICK o \in [DOMAIN a -> Nat] : Sums(o, a, tm)
  BY SumsExist
<1>4. \E q : Is(q)
  BY <1>2, <1>3
<1>5. OffsetOf(a, tm) = CHOOSE q : Is(q)
  BY DEF OffsetOf
<1>6. Is(OffsetOf(a, tm))
  <2> HIDE DEF Is
  <2>1. QED
    BY <1>4, <1>5, Zenon
<1>7. ASSUME NEW q, Is(q) PROVE q = o
  <2>1. DOMAIN q = 1..Len(a) /\ \A k \in DOMAIN a : q[k] = IF k = 1 THEN 0 ELSE q[k - 1] + tm[a[k]]
    BY <1>1, <1>7
  <2> DEFINE Bad == {k \in DOMAIN a : q[k] # o[k]}
  <2>2. SUFFICES Bad = {}
    <3>1. q = [k \in DOMAIN a |-> q[k]]
      BY <1>7, <2>1
    <3>2. o = [k \in DOMAIN a |-> o[k]]
      BY <1>3 DEF Sums
    <3>3. Bad = {} => \A k \in DOMAIN a : q[k] = o[k]
      OBVIOUS
    <3> HIDE DEF Is
    <3>4. QED
      BY <2>2, <3>1, <3>2, <3>3
  <2>3. SUFFICES ASSUME Bad # {} PROVE FALSE
    OBVIOUS
  <2>4. PICK k \in Bad : \A m \in Bad : k <= m
    <3>1. Bad \subseteq Nat
      BY <1>1
    <3> HIDE DEF Bad
    <3>2. QED
      BY <2>3, <3>1, LeastLemma
  <2>5. k \in 1..Len(a) /\ q[k] # o[k]
    BY <1>1
  <2>6. CASE k = 1
    BY <1>2, <1>3, <2>1, <2>5, <2>6
  <2>7. CASE k > 1
    <3>1. k - 1 \in DOMAIN a /\ k \in 2..Len(a) /\ ~(k <= k - 1)
      BY <1>1, <2>5, <2>7
    <3>2. q[k - 1] = o[k - 1]
      BY <2>4, <3>1
    <3>3. q[k] = q[k - 1] + tm[a[k]]
      BY <1>1, <2>1, <2>5, <2>7
    <3>4. QED
      BY <1>3, <2>5, <3>1, <3>2, <3>3 DEF Sums
  <2>8. QED
    BY <2>5, <2>6, <2>7
<1>8. OffsetOf(a, tm) = o
  BY <1>6, <1>7
<1>9. QED
  BY <1>3, <1>8, SumsUnique
----------------------------------------------------------------------------
(* The sums of the lists that the operations make.                           *)

Push(t, a)                 == <<t>> \o a
FrontTimes(tm, a, t, n, d) == [tm EXCEPT ![a[1]] = d, ![t] = n]
FrontSums(o, b, d)         == [k \in DOMAIN b |-> IF k = 1 THEN 0 ELSE d + o[k - 1]]

InsertTimes(S, tm, o, a, k, t, x) ==
  [s \in S |-> IF s = t THEN x - o[k]
               ELSE IF k < Len(a) /\ s = a[k + 1] THEN o[k + 1] - x
               ELSE tm[s]]
InsertSums(o, b, k, x) ==
  [j \in DOMAIN b |-> IF j <= k THEN o[j] ELSE IF j = k + 1 THEN x ELSE o[j - 1]]

SuffixSums(g, b, n) == [j \in DOMAIN b |-> g[n + j] - g[n + 1]]

WithoutTimes(tm, a, k) ==
  IF k < Len(a) THEN [tm EXCEPT ![a[k + 1]] = @ + tm[a[k]], ![a[k]] = 0]
                ELSE [tm EXCEPT ![a[k]] = 0]
WithoutSums(o, b, k) == [j \in DOMAIN b |-> IF j < k THEN o[j] ELSE o[j + 1]]

\* A timer in front of the list, n ticks from now, the old head d ticks behind it.
LEMMA SumsFront ==
  ASSUME NEW S, NEW a \in Seq(S), NoDuplicates(a), a # <<>>, NEW t \in S, t \notin Range(a),
         NEW tm \in [S -> Nat], NEW o, Sums(o, a, tm), NEW n \in Nat, NEW d \in Nat,
         NEW b, b = Push(t, a), NEW new, new = FrontTimes(tm, a, t, n, d)
  PROVE  new \in [S -> Nat] /\ Sums(FrontSums(o, b, d), b, new)
<1> DEFINE q == [k \in DOMAIN b |-> IF k = 1 THEN 0 ELSE d + o[k - 1]]
<1>1. /\ Len(a) \in Nat /\ Len(a) >= 1 /\ DOMAIN a = 1..Len(a) /\ d \in Nat
      /\ Len(b) = Len(a) + 1 /\ DOMAIN b = 1..Len(b) /\ b # <<>>
      /\ b[1] = t /\ \A k \in 2..Len(b) : b[k] = a[k - 1]
  BY DEF Push
<1>2. /\ \A k \in 1..Len(a) : a[k] \in S /\ a[k] # t
      /\ \A k \in 2..Len(a) : a[k] # a[1]
  <2>0. \A k \in DOMAIN a : a[k] \in Range(a)
    BY DEF Range
  <2>1. ASSUME NEW k \in 1..Len(a) PROVE a[k] \in S /\ a[k] # t
    <3>1. k \in DOMAIN a
      BY <1>1
    <3>2. a[k] \in S
      BY <3>1
    <3>3. QED
      BY <2>0, <3>1, <3>2
  <2>2. \A k \in 2..Len(a) : k \in DOMAIN a /\ 1 \in DOMAIN a /\ k # 1
    BY <1>1
  <2>3. \A k \in 2..Len(a) : a[k] # a[1]
    BY <2>2 DEF NoDuplicates
  <2>4. QED
    BY <2>1, <2>3
<1>3. /\ new \in [S -> Nat] /\ new[t] = n /\ new[a[1]] = d
      /\ \A k \in 2..Len(a) : new[a[k]] = tm[a[k]]
  <2>1. 1 \in 1..Len(a) /\ a[1] \in S /\ a[1] # t
    BY <1>1, <1>2
  <2>2. new \in [S -> Nat] /\ new[t] = n /\ new[a[1]] = d
    BY <2>1 DEF FrontTimes
  <2>3. ASSUME NEW k \in 2..Len(a) PROVE new[a[k]] = tm[a[k]]
    <3>1. k \in 1..Len(a)
      BY <1>1
    <3>2. a[k] \in S /\ a[k] # t /\ a[k] # a[1]
      BY <1>2, <3>1
    <3>3. QED
      BY <3>2 DEF FrontTimes
  <2>4. QED
    BY <2>2, <2>3
<1>4. o[1] = 0 /\ (\A k \in 1..Len(a) : o[k] \in Int) /\ \A k \in 2..Len(a) : o[k] = o[k - 1] + tm[a[k]]
  BY <1>1 DEF Sums
<1>5. q \in [DOMAIN b -> Int] /\ q[1] = 0
  <2>1. \A k \in 1..Len(b) : k # 1 => k - 1 \in 1..Len(a)
    BY <1>1
  <2>2. d \in Int /\ DOMAIN b = 1..Len(b) /\ 1 \in 1..Len(b)
    BY <1>1
  <2>3. ASSUME NEW k \in DOMAIN b PROVE q[k] \in Int
    <3>1. k # 1 => o[k - 1] \in Int
      BY <1>4, <2>1, <2>2
    <3>2. QED
      BY <2>2, <3>1
  <2>4. QED
    BY <2>2, <2>3
<1>6. ASSUME NEW k \in 2..Len(b) PROVE q[k] = q[k - 1] + new[b[k]]
  <2>1. k \in DOMAIN b /\ k - 1 \in DOMAIN b /\ k - 1 \in 1..Len(a) /\ k # 1
    BY <1>1
  <2>2. q[k] = d + o[k - 1] /\ b[k] = a[k - 1]
    BY <1>1, <2>1
  <2>3. CASE k = 2
    BY <1>1, <1>3, <1>4, <2>1, <2>2, <2>3
  <2>4. CASE k # 2
    <3>1. k - 1 \in 2..Len(a) /\ q[k - 1] = d + o[(k - 1) - 1] /\ (k - 1) - 1 \in 1..Len(a)
      BY <1>1, <2>1, <2>4
    <3>2. o[k - 1] = o[(k - 1) - 1] + tm[a[k - 1]] /\ tm[a[k - 1]] \in Nat
      BY <1>2, <1>4, <2>1, <3>1
    <3>3. new[b[k]] = tm[a[k - 1]]
      BY <1>3, <2>2, <3>1
    <3>4. d \in Int /\ o[(k - 1) - 1] \in Int
      BY <1>1, <1>4, <3>1
    <3>5. PICK x, y, z \in Int : x = d /\ y = o[(k - 1) - 1] /\ z = tm[a[k - 1]]
      BY <3>2, <3>4
    <3>6. q[k] = x + (y + z) /\ q[k - 1] = x + y /\ new[b[k]] = z
      BY <2>2, <3>1, <3>2, <3>3, <3>5
    <3> HIDE DEF q
    <3>7. QED
      BY <3>6
  <2>5. QED
    BY <2>3, <2>4
<1>7. QED
  BY <1>1, <1>3, <1>5, <1>6 DEF Sums, FrontSums

LEMMA WhereLemma ==
  ASSUME NEW j \in Nat, NEW k \in Nat
  PROVE  j <= k \/ j = k + 1 \/ j = k + 2 \/ j > k + 2
OBVIOUS

\* A timer behind the k-th, x ticks behind the head.
LEMMA SumsInsert ==
  ASSUME NEW S, NEW a \in Seq(S), NoDuplicates(a), NEW t \in S, t \notin Range(a),
         NEW tm \in [S -> Nat], NEW o, Sums(o, a, tm), NEW k \in DOMAIN a, NEW x \in Nat,
         o[k] <= x, k < Len(a) => o[k + 1] >= x,
         NEW b, b = InsertAfter(a, k, t),
         NEW new, new = InsertTimes(S, tm, o, a, k, t, x)
  PROVE  /\ new \in [S -> Nat] /\ b[1] = a[1] /\ new[b[1]] = tm[a[1]]
         /\ Sums(InsertSums(o, b, k, x), b, new)
<1> DEFINE q == [j \in DOMAIN b |-> IF j <= k THEN o[j] ELSE IF j = k + 1 THEN x ELSE o[j - 1]]
<1>1. /\ Len(a) \in Nat /\ k \in Nat /\ k >= 1 /\ k <= Len(a) /\ DOMAIN a = 1..Len(a)
      /\ a # <<>>
  OBVIOUS
<1>2. b \in Seq(S) /\ DOMAIN b = 1..(Len(a) + 1) /\ Len(b) = Len(a) + 1
  BY <1>1 DEF InsertAfter
<1>3. /\ \A j \in 1..k : b[j] = a[j]
      /\ b[k + 1] = t
      /\ \A j \in (k + 2)..(Len(a) + 1) : b[j] = a[j - 1]
  <2>1. ASSUME NEW j \in 1..k PROVE b[j] = a[j]
    BY <1>1 DEF InsertAfter
  <2>2. b[k + 1] = t
    BY <1>1 DEF InsertAfter
  <2>3. ASSUME NEW j \in (k + 2)..(Len(a) + 1) PROVE b[j] = a[j - 1]
    BY <1>1 DEF InsertAfter
  <2>4. QED
    BY <2>1, <2>2, <2>3
<1>4. (\A j \in 1..Len(a) : o[j] \in Int) /\ o[1] = 0 /\ \A j \in 2..Len(a) : o[j] = o[j - 1] + tm[a[j]]
  BY <1>1 DEF Sums
<1>5. \A j \in 1..Len(a) : a[j] \in S /\ a[j] # t /\ tm[a[j]] \in Nat
  BY <1>1 DEF Range
<1>6. \A j \in 1..Len(a) : k < Len(a) /\ a[j] = a[k + 1] => j = k + 1
  <2>1. k < Len(a) => k + 1 \in DOMAIN a
    BY <1>1
  <2>2. QED
    BY <1>1, <2>1 DEF NoDuplicates
<1>7. /\ new[t] = x - o[k]
      /\ k < Len(a) => new[a[k + 1]] = o[k + 1] - x
      /\ \A j \in 1..Len(a) : j # k + 1 => new[a[j]] = tm[a[j]]
  <2>1. k < Len(a) => k + 1 \in 1..Len(a)
    BY <1>1
  <2>2. QED
    BY <1>5, <1>6, <2>1 DEF InsertTimes
<1>8. new \in [S -> Nat]
  <2>1. o[k] \in Int /\ x - o[k] \in Nat
    BY <1>1, <1>4
  <2>2. k < Len(a) => o[k + 1] \in Int /\ o[k + 1] - x \in Nat
    BY <1>1, <1>4
  <2>3. ASSUME NEW s \in S PROVE new[s] \in Nat
    BY <2>1, <2>2 DEF InsertTimes
  <2>4. QED
    BY <2>3 DEF InsertTimes
<1>9. b[1] = a[1] /\ new[b[1]] = tm[a[1]]
  <2>1. 1 \in 1..Len(a) /\ 1 \in 1..k /\ 1 # k + 1
    BY <1>1
  <2>2. QED
    BY <1>3, <1>7, <2>1
<1>10. /\ \A j \in 1..k : q[j] = o[j]
       /\ q[k + 1] = x
       /\ \A j \in (k + 2)..(Len(a) + 1) : q[j] = o[j - 1]
  <2>0. PICK n \in Nat : n = Len(a)
    BY <1>1
  <2>1. /\ \A j \in 1..k : j \in 1..(n + 1) /\ j <= k
        /\ k + 1 \in 1..(n + 1) /\ ~(k + 1 <= k)
        /\ \A j \in (k + 2)..(n + 1) : j \in 1..(n + 1) /\ ~(j <= k) /\ j # k + 1
    <3>1. k \in Nat /\ k >= 1 /\ k <= n
      BY <1>1, <2>0
    <3>2. QED
      BY <3>1
  <2>2. QED
    BY <1>2, <2>0, <2>1
<1>11. q \in [DOMAIN b -> Int]
  <2>1. \A j \in 1..(Len(a) + 1) : j \in 1..k \/ j = k + 1 \/ j \in (k + 2)..(Len(a) + 1)
    BY <1>1
  <2>2. \A j \in 1..k : j \in 1..Len(a)
    BY <1>1
  <2>3. \A j \in (k + 2)..(Len(a) + 1) : j - 1 \in 1..Len(a)
    BY <1>1
  <2>4. \A j \in DOMAIN b : q[j] \in Int
    <3> HIDE DEF q
    <3>1. TAKE j \in DOMAIN b
    <3>2. j \in 1..k \/ j = k + 1 \/ j \in (k + 2)..(Len(a) + 1)
      BY <1>2, <2>1
    <3>3. j \in 1..k => q[j] \in Int
      BY <1>4, <1>10, <2>2
    <3>4. j \in (k + 2)..(Len(a) + 1) => q[j] \in Int
      BY <1>4, <1>10, <2>3
    <3>5. QED
      BY <1>10, <3>2, <3>3, <3>4
  <2>5. QED
    BY <2>4
<1>12. ASSUME NEW j \in 2..Len(b) PROVE q[j] = q[j - 1] + new[b[j]]
  <2> HIDE DEF q
  <2>0. /\ j \in Nat /\ j >= 2 /\ j <= Len(a) + 1 /\ j \in 1..(Len(a) + 1)
        /\ k \in Nat /\ k >= 1 /\ k <= Len(a) /\ Len(a) \in Nat
    BY <1>1, <1>2
  <2>1. CASE j <= k
    <3>1. j \in 2..Len(a) /\ j \in 1..k /\ j - 1 \in 1..k /\ j \in 1..Len(a) /\ j # k + 1
      BY <2>0, <2>1
    <3>2. b[j] = a[j]
      BY <1>3, <3>1
    <3>3. q[j] = o[j] /\ q[j - 1] = o[j - 1] /\ new[b[j]] = tm[a[j]]
      BY <1>7, <1>10, <3>1, <3>2
    <3>4. QED
      BY <1>4, <3>1, <3>3
  <2>2. CASE j = k + 1
    <3>0. k \in 1..k /\ j - 1 = k
      BY <2>0, <2>2
    <3>1. b[j] = t /\ k \in 1..k /\ j - 1 = k
      BY <1>3, <2>2, <3>0
    <3>2. o[k] \in Int
      BY <1>4
    <3>3. q[j] = x /\ q[j - 1] = o[k] /\ new[b[j]] = x - o[k]
      BY <1>7, <1>10, <2>2, <3>1
    <3>4. QED
      BY <3>2, <3>3
  <2>3. CASE j = k + 2
    <3>0. /\ j \in (k + 2)..(Len(a) + 1) /\ j - 1 = k + 1 /\ k < Len(a) /\ k + 1 \in 1..Len(a)
          /\ j > k + 1
      BY <2>0, <2>3
    <3>1. b[j] = a[k + 1] /\ j \in (k + 2)..(Len(a) + 1) /\ j - 1 = k + 1 /\ k < Len(a) /\ k + 1 \in 1..Len(a)
      BY <1>3, <3>0
    <3>2. o[k + 1] \in Int
      BY <1>4, <3>1
    <3>3. q[j] = o[k + 1] /\ q[j - 1] = x /\ new[b[j]] = o[k + 1] - x
      BY <1>7, <1>10, <3>1
    <3>4. QED
      BY <3>2, <3>3
  <2>4. CASE j > k + 2
    <3>0. PICK n \in Nat : n = Len(a) /\ j <= n + 1
      BY <2>0
    <3>1. /\ j \in (k + 2)..(Len(a) + 1) /\ j - 1 \in (k + 2)..(Len(a) + 1)
          /\ j - 1 \in 2..Len(a) /\ j - 1 \in 1..Len(a) /\ j - 1 # k + 1
      <4>1. j \in Nat /\ k \in Nat /\ j > k + 2
        BY <2>0, <2>4
      <4>2. /\ j \in (k + 2)..(n + 1) /\ j - 1 \in (k + 2)..(n + 1)
            /\ j - 1 \in 2..n /\ j - 1 \in 1..n /\ j - 1 # k + 1
        BY <3>0, <4>1
      <4>3. QED
        BY <3>0, <4>2
    <3>2. b[j] = a[j - 1]
      BY <1>3, <3>1
    <3>3. q[j] = o[j - 1] /\ q[j - 1] = o[(j - 1) - 1] /\ new[b[j]] = tm[a[j - 1]]
      BY <1>7, <1>10, <3>1, <3>2
    <3>4. o[j - 1] = o[(j - 1) - 1] + tm[a[j - 1]]
      BY <1>4, <3>1
    <3>5. QED
      BY <3>3, <3>4
  <2>5. j <= k \/ j = k + 1 \/ j = k + 2 \/ j > k + 2
    <3>1. j \in Nat /\ k \in Nat
      BY <2>0
    <3>2. QED
      BY <3>1, WhereLemma
  <2>6. QED
    BY <2>1, <2>2, <2>3, <2>4, <2>5
<1>13. QED
  <2> HIDE DEF q
  <2>1. q[1] = 0
    BY <1>1, <1>4, <1>10
  <2>2. Sums(q, b, new)
    BY <1>11, <1>12, <2>1 DEF Sums
  <2>3. QED
    BY <1>8, <1>9, <2>2 DEF q, InsertSums

\* The list from its n+1-st element on, with times that are differences of g.
LEMMA SumsSuffix ==
  ASSUME NEW S, NEW a \in Seq(S), NEW n \in Nat, n < Len(a),
         NEW b \in Seq(S), Len(b) = Len(a) - n, \A j \in 1..Len(b) : b[j] = a[n + j],
         NEW new, NEW g, \A j \in 1..Len(a) : g[j] \in Int,
         \A j \in (n + 2)..Len(a) : new[a[j]] = g[j] - g[j - 1]
  PROVE  Sums(SuffixSums(g, b, n), b, new)
<1> DEFINE q == [j \in DOMAIN b |-> g[n + j] - g[n + 1]]
<1>1. Len(a) \in Nat /\ Len(b) \in Nat /\ DOMAIN b = 1..Len(b) /\ n + 1 \in 1..Len(a)
  OBVIOUS
<1>2. \A j \in 1..Len(b) : n + j \in 1..Len(a)
  BY <1>1
<1>3. q \in [DOMAIN b -> Int] /\ q[1] = 0
  BY <1>1, <1>2
<1>4. ASSUME NEW j \in 2..Len(b) PROVE q[j] = q[j - 1] + new[b[j]]
  <2>1. /\ j \in 1..Len(b) /\ j - 1 \in 1..Len(b) /\ n + j \in (n + 2)..Len(a)
        /\ (n + j) - 1 = n + (j - 1)
    <3>1. PICK la, lb \in Nat : la = Len(a) /\ lb = Len(b) /\ lb = la - n
      BY <1>1
    <3>2. j \in Nat /\ 2 <= j /\ j <= lb
      BY <3>1
    <3>3. j \in 1..lb /\ j - 1 \in 1..lb /\ n + j \in (n + 2)..la /\ (n + j) - 1 = n + (j - 1)
      BY <3>1, <3>2
    <3>4. QED
      BY <3>1, <3>3
  <2>2. new[b[j]] = g[n + j] - g[n + (j - 1)]
    BY <2>1
  <2>3. q[j] = g[n + j] - g[n + 1] /\ q[j - 1] = g[n + (j - 1)] - g[n + 1]
    BY <1>1, <2>1
  <2>4. g[n + j] \in Int /\ g[n + (j - 1)] \in Int /\ g[n + 1] \in Int
    BY <1>1, <1>2, <2>1
  <2> HIDE DEF q
  <2>5. QED
    BY <2>2, <2>3, <2>4
<1>5. QED
  BY <1>3, <1>4 DEF Sums, SuffixSums

\* The list without its k-th element, whose time goes to the next.
LEMMA SumsWithout ==
  ASSUME NEW S, NEW a \in Seq(S), NoDuplicates(a), NEW tm \in [S -> Nat], NEW o, Sums(o, a, tm),
         NEW k \in 2..Len(a), NEW b, b = Without(a, k),
         NEW new, new = WithoutTimes(tm, a, k)
  PROVE  /\ new \in [S -> Nat] /\ b # <<>> /\ b[1] = a[1] /\ new[b[1]] = tm[a[1]]
         /\ Sums(WithoutSums(o, b, k), b, new)
<1> DEFINE q == [j \in DOMAIN b |-> IF j < k THEN o[j] ELSE o[j + 1]]
<1>1. /\ Len(a) \in Nat /\ k \in Nat /\ k >= 2 /\ k <= Len(a) /\ DOMAIN a = 1..Len(a)
      /\ k \in 1..Len(a) /\ k - 1 \in 1..Len(a) /\ (k < Len(a) => k + 1 \in 1..Len(a))
      /\ a # <<>>
  OBVIOUS
<1>2. b \in Seq(S) /\ DOMAIN b = 1..(Len(a) - 1) /\ Len(b) = Len(a) - 1 /\ b # <<>>
  <2>1. b \in Seq(S) /\ DOMAIN b = 1..(Len(a) - 1) /\ Len(b) = Len(a) - 1
    BY WithoutLemma, <1>1 DEF Without
  <2>2. QED
    BY <1>1, <2>1
<1>3. \A j \in 1..(Len(a) - 1) : b[j] = IF j < k THEN a[j] ELSE a[j + 1]
  BY <1>1 DEF Without
<1>4. (\A j \in 1..Len(a) : o[j] \in Int) /\ o[1] = 0 /\ \A j \in 2..Len(a) : o[j] = o[j - 1] + tm[a[j]]
  BY <1>1 DEF Sums
<1>5. \A j \in 1..Len(a) : a[j] \in S /\ tm[a[j]] \in Nat
  BY <1>1
<1>6. \A i, j \in 1..Len(a) : a[i] = a[j] => i = j
  BY <1>1 DEF NoDuplicates
<1>7. /\ new \in [S -> Nat]
      /\ k < Len(a) => new[a[k + 1]] = tm[a[k + 1]] + tm[a[k]]
      /\ \A j \in 1..Len(a) : j # k /\ j # k + 1 => new[a[j]] = tm[a[j]]
  <2>1. CASE k < Len(a)
    <3>1. new = [tm EXCEPT ![a[k + 1]] = @ + tm[a[k]], ![a[k]] = 0]
      BY <2>1 DEF WithoutTimes
    <3>2. a[k + 1] \in S /\ a[k] \in S /\ a[k + 1] # a[k] /\ tm[a[k + 1]] + tm[a[k]] \in Nat
      BY <1>1, <1>5, <1>6, <2>1
    <3>3. new \in [S -> Nat] /\ new[a[k + 1]] = tm[a[k + 1]] + tm[a[k]]
      BY <3>1, <3>2
    <3>4. \A j \in 1..Len(a) : j # k /\ j # k + 1 => a[j] # a[k] /\ a[j] # a[k + 1]
      BY <1>1, <1>6, <2>1
    <3>5. QED
      BY <1>5, <3>1, <3>3, <3>4
  <2>2. CASE ~(k < Len(a))
    <3>1. new = [tm EXCEPT ![a[k]] = 0]
      BY <2>2 DEF WithoutTimes
    <3>2. \A j \in 1..Len(a) : j # k => a[j] # a[k]
      BY <1>1, <1>6
    <3>3. QED
      BY <1>1, <1>5, <2>2, <3>1, <3>2
  <2>3. QED
    BY <2>1, <2>2
<1>8. b[1] = a[1] /\ new[b[1]] = tm[a[1]]
  BY <1>1, <1>3, <1>7
<1>9. /\ \A j \in 1..(k - 1) : q[j] = o[j]
      /\ \A j \in k..(Len(a) - 1) : q[j] = o[j + 1]
  <2>0. PICK n \in Nat : n = Len(a)
    BY <1>1
  <2>1. k \in Nat /\ k >= 2 /\ k <= n
    BY <1>1, <2>0
  <2>2. /\ \A j \in 1..(k - 1) : j \in 1..(n - 1) /\ j < k
        /\ \A j \in k..(n - 1) : j \in 1..(n - 1) /\ ~(j < k)
    BY <2>1
  <2>3. QED
    BY <1>2, <2>0, <2>2
<1>10. q \in [DOMAIN b -> Int]
  <2>1. \A j \in 1..(Len(a) - 1) : j \in 1..Len(a) /\ j + 1 \in 1..Len(a)
    BY <1>1
  <2>2. QED
    BY <1>2, <1>4, <2>1
<1>11. ASSUME NEW j \in 2..Len(b) PROVE q[j] = q[j - 1] + new[b[j]]
  <2> HIDE DEF q
  <2>0. /\ j \in Nat /\ j >= 2 /\ j <= Len(a) - 1 /\ j \in 1..(Len(a) - 1)
        /\ k \in Nat /\ k >= 2 /\ k <= Len(a) /\ Len(a) \in Nat
    BY <1>1, <1>2
  <2>1. CASE j < k
    <3>1. /\ j \in 1..(k - 1) /\ j - 1 \in 1..(k - 1) /\ j \in 2..Len(a) /\ j \in 1..Len(a)
          /\ j # k /\ j # k + 1 /\ j \in 1..(Len(a) - 1)
      BY <2>0, <2>1
    <3>2. b[j] = a[j]
      BY <1>3, <2>0, <2>1
    <3>3. q[j] = o[j] /\ q[j - 1] = o[j - 1] /\ new[b[j]] = tm[a[j]]
      BY <1>7, <1>9, <3>1, <3>2
    <3>4. QED
      BY <1>4, <3>1, <3>3
  <2>2. CASE j = k
    <3>1. /\ j - 1 \in 1..(k - 1) /\ j \in k..(Len(a) - 1) /\ k < Len(a) /\ k + 1 \in 2..Len(a)
          /\ k \in 2..Len(a) /\ (k + 1) - 1 = k /\ j \in 1..(Len(a) - 1) /\ ~(j < k)
          /\ k - 1 \in 1..Len(a)
      BY <2>0, <2>2
    <3>2. o[k + 1] = o[k] + tm[a[k + 1]] /\ o[k] = o[k - 1] + tm[a[k]]
      BY <1>4, <3>1
    <3>3. b[j] = a[k + 1] /\ q[j] = o[k + 1] /\ q[j - 1] = o[k - 1]
      BY <1>3, <1>9, <2>2, <3>1
    <3>4. new[b[j]] = tm[a[k + 1]] + tm[a[k]]
      BY <1>7, <3>1, <3>3
    <3>5. o[k - 1] \in Int /\ tm[a[k]] \in Int /\ tm[a[k + 1]] \in Int
      BY <1>1, <1>4, <1>5, <3>1
    <3>6. PICK x, y, z \in Int : x = o[k - 1] /\ y = tm[a[k]] /\ z = tm[a[k + 1]]
      BY <3>5
    <3>7. q[j - 1] = x /\ q[j] = (x + y) + z /\ new[b[j]] = z + y
      BY <3>2, <3>3, <3>4, <3>6
    <3>8. QED
      BY <3>7
  <2>3. CASE j > k
    <3>1. /\ j - 1 \in k..(Len(a) - 1) /\ j \in k..(Len(a) - 1) /\ j + 1 \in 2..Len(a)
          /\ j + 1 \in 1..Len(a) /\ (j + 1) - 1 = j /\ (j - 1) + 1 = j
          /\ j + 1 # k /\ j + 1 # k + 1 /\ j \in 1..(Len(a) - 1) /\ ~(j < k)
      BY <2>0, <2>3
    <3>2. o[j + 1] = o[j] + tm[a[j + 1]]
      BY <1>4, <3>1
    <3>3. b[j] = a[j + 1] /\ q[j] = o[j + 1] /\ q[j - 1] = o[j]
      BY <1>3, <1>9, <3>1
    <3>4. new[b[j]] = tm[a[j + 1]]
      BY <1>7, <3>1, <3>3
    <3>5. QED
      BY <3>2, <3>3, <3>4
  <2>4. QED
    BY <2>0, <2>1, <2>2, <2>3
<1>12. QED
  <2> HIDE DEF q
  <2>1. q[1] = 0
    BY <1>1, <1>4, <1>9
  <2>2. Sums(q, b, new)
    BY <1>10, <1>11, <2>1 DEF Sums
  <2>3. QED
    BY <1>2, <1>7, <1>8, <2>2 DEF q, WithoutSums
----------------------------------------------------------------------------
(* What the hardware counts for, and when the timers are planned.            *)

Load(n) == IF n > HAL_TIMER_LOAD_DELTA THEN n - HAL_TIMER_LOAD_DELTA ELSE 1

\* The ticks a timer has left: those requested and those it was postponed by.
Allowed == [t \in Timers |-> due[t] + postponed[t]]
HistoryOK == due \in [Timers -> Nat] /\ postponed \in [Timers -> 0..MaxPostponed]

\* Of the list a with sums o and times tm: the counter v, e ticks after it was
\* started, counts for the head, and the times of every timer add up to at most
\* one tick more than it is allowed (d), counted from the start of the counter.
Timed(a, o, tm, v, e, d) ==
  a # <<>> =>
    /\ v = Monus(Load(tm[a[1]]), e)
    /\ \A k \in DOMAIN a : o[k] + tm[a[1]] <= d[a[k]] + e + HAL_TIMER_LOAD_DELTA

TimeTypeOK ==
  /\ time \in [Timers -> Nat]
  /\ enabled \in BOOLEAN /\ pending \in BOOLEAN /\ nullWrite \in BOOLEAN
  /\ value \in Nat /\ elapsed \in Nat
  /\ handler \in {"idle", "entered", "locked", "callback"}
  /\ current \in Timers \cup {Nil}

TimeInv ==
  /\ TimeTypeOK
  /\ HistoryOK
  /\ HardwareArmed
  /\ Timed(active, Offset, time, value, elapsed, Allowed)

LEMMA AllowedNow ==
  ASSUME HistoryOK
  PROVE  /\ Allowed \in [Timers -> Nat]
         /\ \A t \in Timers : Allowed[t] = due[t] + postponed[t] /\ due[t] \in Nat /\ postponed[t] \in Nat
<1>1. \A t \in Timers : Allowed[t] = due[t] + postponed[t] /\ due[t] \in Nat /\ postponed[t] \in Nat
  BY TicksAssumption DEF HistoryOK, Allowed
<1>2. QED
  BY <1>1 DEF Allowed

LEMMA AllowedThen ==
  ASSUME HistoryOK'
  PROVE  /\ Allowed' \in [Timers -> Nat]
         /\ \A t \in Timers : Allowed'[t] = due'[t] + postponed'[t] /\ due'[t] \in Nat /\ postponed'[t] \in Nat
<1>1. \A t \in Timers : Allowed'[t] = due'[t] + postponed'[t] /\ due'[t] \in Nat /\ postponed'[t] \in Nat
  BY TicksAssumption DEF HistoryOK, Allowed
<1>2. QED
  BY <1>1 DEF Allowed

\* A step that changes the history of the timer t only.
LEMMA AllowedKept ==
  ASSUME HistoryOK, HistoryOK', NEW t, NEW s \in Timers, s # t, NEW n, NEW m,
         due' = [due EXCEPT ![t] = n], postponed' = postponed \/ postponed' = [postponed EXCEPT ![t] = m]
  PROVE  Allowed'[s] = Allowed[s]
<1>1. due'[s] = due[s] /\ postponed'[s] = postponed[s]
  BY DEF HistoryOK
<1>2. QED
  BY <1>1, AllowedNow, AllowedThen

LEMMA HistoryStep == HistoryOK /\ [Next]_vars => HistoryOK'
<1> SUFFICES ASSUME HistoryOK, [Next]_vars PROVE HistoryOK'
  OBVIOUS
<1>1. CASE Tick
  <2>1. postponed' = postponed /\ due' = [t \in Timers |-> Monus(due[t], 1)]
    BY <1>1 DEF Tick
  <2>2. due' \in [Timers -> Nat]
    BY <2>1 DEF HistoryOK, Monus
  <2>3. QED
    BY <2>1, <2>2 DEF HistoryOK
<1>2. CASE HandlerEnter \/ AllocTake \/ UNCHANGED vars
  BY <1>2 DEF HandlerEnter, AllocTake, vars, history, HistoryOK
<1>3. CASE HandlerFire
  <2>1. PICK n \in DOMAIN active :
          /\ due' = [t \in Timers |-> IF \E j \in 1..n : active[j] = t THEN 0 ELSE due[t]]
          /\ postponed' = [t \in Timers |-> IF \E j \in 1..n : active[j] = t THEN 0 ELSE postponed[t]]
    BY <1>3 DEF HandlerFire
  <2>2. 0 \in 0..MaxPostponed
    BY TicksAssumption
  <2>3. QED
    BY <2>1, <2>2 DEF HistoryOK
<1>4. CASE hwtimer_handler /\ ~HandlerFire
  BY <1>4 DEF hwtimer_handler, HandlerSpurious, HandlerCallback, HandlerReturn, HandlerExit, history, HistoryOK
<1>5. ASSUME NEW t \in Timers, Operation(t) PROVE HistoryOK'
  <2>1. CASE AllocInit(t) \/ hwtimer_free(t)
    BY <2>1 DEF AllocInit, hwtimer_free, history, HistoryOK
  <2>2. CASE \E ticks \in Ticks : hwtimer_start(t, ticks)
    <3>1. PICK ticks \in Ticks : Started(t, Clamp(ticks))
      BY <2>2 DEF hwtimer_start, StartAlone, StartFirst, StartBehind
    <3>2. Clamp(ticks) \in Nat
      BY TicksAssumption DEF Clamp, HAL_TIMER_LOAD_DELTA
    <3>3. QED
      BY <3>1, <3>2 DEF Started, HistoryOK
  <2>3. CASE StopHead(t)
    <3>1. /\ due' = [due EXCEPT ![t] = 0]
          /\ postponed' = [s \in Timers |->
                             IF s = t THEN 0
                             ELSE IF state[s] = "ACTIVE" /\ time[t] = 0 /\ value > 0
                             THEN postponed[s] + 1 ELSE postponed[s]]
          /\ \A s \in Timers : postponed'[s] <= MaxPostponed
      BY <2>3 DEF StopHead
    <3>2. due' \in [Timers -> Nat]
      BY <3>1 DEF HistoryOK
    <3>3. \A s \in Timers : postponed'[s] \in Nat
      BY <3>1, TicksAssumption DEF HistoryOK
    <3>4. QED
      BY <3>1, <3>2, <3>3, TicksAssumption DEF HistoryOK
  <2>4. CASE StopOnly(t) \/ StopBehind(t) \/ StopFired(t)
    <3>1. Forget(t) /\ 0 \in 0..MaxPostponed
      BY <2>4, TicksAssumption DEF StopOnly, StopBehind, StopFired
    <3>2. QED
      BY <3>1 DEF Forget, HistoryOK
  <2>5. QED
    BY <1>5, <2>1, <2>2, <2>3, <2>4 DEF Operation, hwtimer_stop
<1>6. QED
  BY <1>1, <1>2, <1>3, <1>4, <1>5 DEF Next

LEMMA LoadLemma ==
  ASSUME NEW n \in Nat
  PROVE  /\ Load(n) \in Nat /\ Load(n) >= 1 /\ Monus(Load(n), 0) = Load(n)
         /\ hal_timer_start(n) => enabled' = TRUE /\ elapsed' = 0 /\ value' = Load(n)
<1>1. Load(n) \in Nat /\ Load(n) >= 1 /\ Monus(Load(n), 0) = Load(n)
  BY DEF Load, Monus, HAL_TIMER_LOAD_DELTA
<1>2. hal_timer_start(n) => enabled' = TRUE /\ elapsed' = 0 /\ value' = Load(n)
  BY DEF hal_timer_start, Load, HAL_TIMER_LOAD_DELTA
<1>3. QED
  BY <1>1, <1>2

\* A timer o ticks behind a head of time h.
LEMMA PlanLemma ==
  ASSUME NEW h \in Nat, NEW e \in Nat, NEW v, v = Monus(Load(h), e), NEW o \in Nat, NEW d \in Nat,
         o + h <= d + e + HAL_TIMER_LOAD_DELTA
  PROVE  /\ v > 0 => v + o <= d + 2
         /\ v > 0 /\ h > 0 => v + o <= d + 1
         /\ h <= e + 1 => Monus(o, Monus(e, h)) <= d + 1 /\ o - Monus(e, h) <= d + 1
BY DEF Monus, Load, HAL_TIMER_LOAD_DELTA

LEMMA CountLemma ==
  ASSUME NEW h \in Nat, NEW e \in Nat, NEW v, v = Monus(Load(h), e)
  PROVE  /\ v \in Nat
         /\ v <= h \/ v <= 1
         /\ v = 0 => h <= e + 1
         /\ h > e + 1 => v > 0
         /\ h <= e + v + 1
         /\ Monus(v, 1) = Monus(Load(h), e + 1)
BY DEF Monus, Load, HAL_TIMER_LOAD_DELTA

LEMMA OffsetNow ==
  ASSUME ListInv, TimeTypeOK
  PROVE  Offset \in [DOMAIN active -> Nat] /\ Sums(Offset, active, time)
<1>1. active \in Seq(Timers) /\ time \in [Timers -> Nat]
  BY DEF ListInv, ListTypeOK, TimeTypeOK
<1>2. QED
  BY <1>1, OffsetIs, OffsetLemma

LEMMA OffsetThen ==
  ASSUME ListInv', time' \in [Timers -> Nat], NEW q, Sums(q, active', time')
  PROVE  Offset' = q
<1>1. active' \in Seq(Timers)
  BY DEF ListInv, ListTypeOK
<1>2. QED
  BY <1>1, OffsetIs, OffsetLemma

\* What the invariant says of the list.
LEMMA ListFacts ==
  ASSUME ListInv, TimeInv
  PROVE  /\ active \in Seq(Timers) /\ NoDuplicates(active)
         /\ Len(active) \in Nat /\ DOMAIN active = 1..Len(active)
         /\ (active # <<>> => 1 \in DOMAIN active /\ Head(active) = active[1])
         /\ time \in [Timers -> Nat] /\ Allowed \in [Timers -> Nat] /\ value \in Nat /\ elapsed \in Nat
         /\ Offset \in [DOMAIN active -> Nat] /\ Sums(Offset, active, time)
         /\ \A k \in DOMAIN active : /\ active[k] \in Timers /\ state[active[k]] = "ACTIVE"
                                     /\ time[active[k]] \in Nat /\ Allowed[active[k]] \in Nat
                                     /\ Offset[k] \in Nat
<1>1. active \in Seq(Timers) /\ NoDuplicates(active)
  BY DEF ListInv, ListTypeOK, ListsMatchStates
<1>2. /\ time \in [Timers -> Nat] /\ Allowed \in [Timers -> Nat] /\ value \in Nat /\ elapsed \in Nat
      /\ Offset \in [DOMAIN active -> Nat] /\ Sums(Offset, active, time)
  BY OffsetNow, AllowedNow DEF TimeInv, TimeTypeOK
<1>3. ASSUME NEW k \in DOMAIN active
      PROVE  /\ active[k] \in Timers /\ state[active[k]] = "ACTIVE"
             /\ time[active[k]] \in Nat /\ Allowed[active[k]] \in Nat /\ Offset[k] \in Nat
  <2>1. active[k] \in Timers /\ active[k] \in Range(active)
    BY <1>1, <1>3 DEF Range
  <2>2. state[active[k]] = "ACTIVE"
    BY <2>1 DEF ListInv, ListsMatchStates
  <2>3. QED
    BY <1>2, <2>1, <2>2
<1>4. /\ Len(active) \in Nat /\ DOMAIN active = 1..Len(active)
      /\ (active # <<>> => 1 \in DOMAIN active /\ Head(active) = active[1])
  BY <1>1
<1>5. QED
  BY <1>1, <1>2, <1>3, <1>4

\* What it says of the k-th timer.
LEMMA TimerFacts ==
  ASSUME ListInv, TimeInv, NEW k \in DOMAIN active
  PROVE  /\ Offset[k] + time[active[1]] <= Allowed[active[k]] + elapsed + 1
         /\ value > 0 => value + Offset[k] <= Allowed[active[k]] + 2
         /\ value > 0 /\ time[active[1]] > 0 => value + Offset[k] <= Allowed[active[k]] + 1
         /\ time[active[1]] <= elapsed + 1 =>
              /\ Monus(Offset[k], Monus(elapsed, time[active[1]])) <= Allowed[active[k]] + 1
              /\ Offset[k] - Monus(elapsed, time[active[1]]) <= Allowed[active[k]] + 1
<1>1. active # <<>> /\ 1 \in DOMAIN active /\ active[1] \in Timers
  BY ListFacts
<1>2. /\ value = Monus(Load(time[active[1]]), elapsed)
      /\ Offset[k] + time[active[1]] <= Allowed[active[k]] + elapsed + HAL_TIMER_LOAD_DELTA
  BY <1>1 DEF TimeInv, Timed
<1>3. /\ time[active[1]] \in Nat /\ elapsed \in Nat /\ Offset[k] \in Nat
      /\ Allowed[active[k]] \in Nat
  BY <1>1, ListFacts
<1>4. /\ value > 0 => value + Offset[k] <= Allowed[active[k]] + 2
      /\ value > 0 /\ time[active[1]] > 0 => value + Offset[k] <= Allowed[active[k]] + 1
      /\ time[active[1]] <= elapsed + 1 =>
           /\ Monus(Offset[k], Monus(elapsed, time[active[1]])) <= Allowed[active[k]] + 1
           /\ Offset[k] - Monus(elapsed, time[active[1]]) <= Allowed[active[k]] + 1
  BY <1>2, <1>3, PlanLemma
<1>5. QED
  BY <1>2, <1>4 DEF HAL_TIMER_LOAD_DELTA

\* And of the counter.
LEMMA HeadFacts ==
  ASSUME ListInv, TimeInv, active # <<>>
  PROVE  /\ active[1] \in Timers /\ time[active[1]] \in Nat
         /\ value = Monus(Load(time[active[1]]), elapsed)
         /\ value <= time[active[1]] \/ value <= 1
         /\ value = 0 => time[active[1]] <= elapsed + 1
         /\ time[active[1]] > elapsed + 1 => value > 0
         /\ time[active[1]] <= elapsed + value + 1
         /\ Monus(value, 1) = Monus(Load(time[active[1]]), elapsed + 1)
         /\ Offset[1] = 0
<1>1. 1 \in DOMAIN active /\ active[1] \in Timers /\ time[active[1]] \in Nat /\ elapsed \in Nat
  BY ListFacts
<1>2. value = Monus(Load(time[active[1]]), elapsed)
  BY DEF TimeInv, Timed
<1>3. Offset[1] = 0
  BY ListFacts DEF Sums
<1>4. QED
  BY <1>1, <1>2, <1>3, CountLemma

\* The invariant implies what the runs check.
LEMMA TimeInvServes ==
  ASSUME ListInv, TimeInv
  PROVE  TypeOK /\ HardwareForHead /\ NeverPlannedLate
<1>1. TypeOK
  BY DEF ListInv, ListTypeOK, TimeInv, TimeTypeOK, HistoryOK, TypeOK
<1>2. CounterForHead
  BY ListFacts, HeadFacts DEF CounterForHead, HAL_TIMER_LOAD_DELTA
<1>3. HardwareForHead
  BY <1>2 DEF HardwareForHead, TimeInv
<1>4. ASSUME NEW k \in DOMAIN active
      PROVE  PlannedIn(k) <= due[active[k]] + 2 * HAL_TIMER_LOAD_DELTA + postponed[active[k]]
  <2>1. active # <<>> /\ Head(active) = active[1] /\ value \in Nat /\ active[k] \in Timers
    BY ListFacts
  <2>2. /\ Allowed[active[k]] = due[active[k]] + postponed[active[k]]
        /\ due[active[k]] \in Nat /\ postponed[active[k]] \in Nat
    BY <2>1, AllowedNow DEF TimeInv
  <2>3. PlannedIn(k) <= Allowed[active[k]] + 2
    <3>1. CASE value > 0
      <4>1. PlannedIn(k) = value + Offset[k]
        BY <3>1 DEF PlannedIn
      <4>2. QED
        BY <3>1, <4>1, TimerFacts
    <3>2. CASE value = 0
      <4>1. PlannedIn(k) = Monus(Offset[k], Monus(elapsed, time[active[1]]))
        BY <2>1, <3>2 DEF PlannedIn
      <4>2. PlannedIn(k) <= Allowed[active[k]] + 1
        BY <2>1, <3>2, <4>1, HeadFacts, TimerFacts
      <4>3. PlannedIn(k) \in Nat
        BY <2>1, <4>1, ListFacts DEF Monus
      <4>4. QED
        BY <2>2, <4>2, <4>3
    <3>3. QED
      BY <2>1, <3>1, <3>2
  <2>4. PlannedIn(k) \in Nat
    BY <2>1, ListFacts DEF PlannedIn, Monus
  <2>5. QED
    BY <2>2, <2>3, <2>4 DEF HAL_TIMER_LOAD_DELTA
<1>5. QED
  BY <1>1, <1>3, <1>4 DEF NeverPlannedLate

LEMMA TimeInit == Init => TimeInv
<1> SUFFICES ASSUME Init PROVE TimeInv
  OBVIOUS
<1>1. TimeTypeOK
  BY DEF Init, TimeTypeOK, Nil
<1>2. HardwareArmed
  BY DEF Init, HardwareArmed
<1>3. Timed(active, Offset, time, value, elapsed, Allowed)
  BY DEF Init, Timed
<1>4. HistoryOK
  BY TicksAssumption DEF Init, HistoryOK
<1>5. QED
  BY <1>1, <1>2, <1>3, <1>4 DEF TimeInv

\* Steps that touch neither the times nor the counter.
LEMMA TimedUnmoved ==
  ASSUME TimeInv, UNCHANGED <<time, active, value, elapsed, Allowed>>
  PROVE  Timed(active', Offset', time', value', elapsed', Allowed')
<1>1. Offset' = Offset
  BY OffsetIs
<1>2. QED
  BY <1>1 DEF TimeInv, Timed

LEMMA TimeTick == ASSUME ListInv, TimeInv, Tick, HistoryOK' PROVE TimeInv'
<1>1. /\ enabled /\ handler # "locked" /\ elapsed' = elapsed + 1 /\ value' = Monus(value, 1)
      /\ pending' = (pending \/ value = 1)
      /\ due' = [t \in Timers |-> Monus(due[t], 1)] /\ postponed' = postponed
      /\ UNCHANGED <<time, active, enabled, handler, current, nullWrite>>
  BY DEF Tick, list, irq
<1>3. TimeTypeOK'
  <2>2. value' \in Nat
    BY <1>1 DEF TimeInv, TimeTypeOK, Monus
  <2>3. elapsed' \in Nat
    BY <1>1 DEF TimeInv, TimeTypeOK
  <2>4. QED
    BY <1>1, <2>2, <2>3 DEF TimeInv, TimeTypeOK
<1>4. HardwareArmed'
  <2>1. value > 1 => value' > 0
    BY <1>1 DEF TimeInv, TimeTypeOK, Monus
  <2>2. value \in Nat => value = 0 \/ value = 1 \/ value > 1
    OBVIOUS
  <2>3. value = 1 => pending'
    BY <1>1, Zenon
  <2>4. value \in Nat
    BY DEF TimeInv, TimeTypeOK
  <2>5. value > 0 => value' > 0 \/ pending'
    BY <2>1, <2>2, <2>3, <2>4
  <2>6. pending => pending'
    BY <1>1, Zenon
  <2>7. QED
    BY <1>1, <2>5, <2>6 DEF TimeInv, HardwareArmed
<1>5. Timed(active', Offset', time', value', elapsed', Allowed')
  <2>1. Offset' = Offset
    BY <1>1, OffsetIs
  <2>2. SUFFICES ASSUME active # <<>>
                 PROVE  /\ value' = Monus(Load(time[active[1]]), elapsed')
                        /\ \A k \in DOMAIN active :
                             Offset[k] + time[active[1]] <= Allowed'[active[k]] + elapsed' + 1
    BY <1>1, <2>1 DEF Timed, HAL_TIMER_LOAD_DELTA
  <2>3. value' = Monus(Load(time[active[1]]), elapsed')
    BY <1>1, <2>2, HeadFacts
  <2>4. ASSUME NEW k \in DOMAIN active
        PROVE  Offset[k] + time[active[1]] <= Allowed'[active[k]] + elapsed' + 1
    <3>1. /\ Offset[k] \in Nat /\ time[active[1]] \in Nat /\ Allowed[active[k]] \in Nat /\ elapsed \in Nat
          /\ active[k] \in Timers
      BY <2>2, ListFacts
    <3>2. due'[active[k]] = Monus(due[active[k]], 1) /\ postponed'[active[k]] = postponed[active[k]]
      BY <1>1, <3>1
    <3>3. Allowed'[active[k]] \in Nat /\ Allowed'[active[k]] + 1 >= Allowed[active[k]]
      BY <3>1, <3>2, AllowedNow, AllowedThen DEF Monus, TimeInv
    <3>4. Offset[k] + time[active[1]] <= Allowed[active[k]] + elapsed + 1
      BY TimerFacts
    <3>5. QED
      BY <1>1, <3>1, <3>3, <3>4
  <2>5. QED
    BY <2>3, <2>4
<1>6. QED
  BY <1>3, <1>4, <1>5 DEF TimeInv

\* Steps that leave the list and the counter alone.
LEMMA TimeQuiet ==
  ASSUME ListInv, TimeInv, HandlerEnter \/ HandlerSpurious \/ HandlerCallback \/ HandlerReturn
                           \/ HandlerExit \/ AllocTake
                           \/ (\E t \in Timers : AllocInit(t) \/ hwtimer_free(t) \/ StopFired(t))
                           \/ UNCHANGED vars,
         HistoryOK'
  PROVE  TimeInv'
<1> USE DEF HandlerEnter, HandlerSpurious, HandlerCallback, HandlerReturn, HandlerExit,
            AllocTake, AllocInit, hwtimer_free, StopFired, Stopped, Forget, list, hw, irq, vars
<1>1. UNCHANGED <<time, active, value, elapsed, enabled, nullWrite>>
  OBVIOUS
<1>2. UNCHANGED <<due, postponed>> \/ \E t \in Timers : StopFired(t) /\ Forget(t)
  <2>1. CASE \E t \in Timers : StopFired(t)
    BY <2>1
  <2>2. CASE ~\E t \in Timers : StopFired(t)
    <3> HIDE DEF StopFired
    <3>1. QED
      BY <2>2 DEF history
  <2>3. QED
    BY <2>1, <2>2
<1>3. TimeTypeOK'
  <2>1. current' \in Timers \cup {Nil}
    <3>1. CASE HandlerCallback
      BY <3>1, PopLemma DEF ListInv, ListTypeOK, ListsMatchStates
    <3>2. CASE ~HandlerCallback
      BY <3>2 DEF TimeInv, TimeTypeOK
    <3>3. QED
      BY <3>1, <3>2
  <2>2. handler' \in {"idle", "entered", "locked", "callback"}
    BY DEF TimeInv, TimeTypeOK
  <2>3. pending' \in BOOLEAN
    BY DEF TimeInv, TimeTypeOK
  <2>4. QED
    BY <1>1, <2>1, <2>2, <2>3 DEF TimeInv, TimeTypeOK
<1>4. HardwareArmed'
  <2>1. CASE HandlerSpurious
    <3>1. active # <<>> => value > 0
      <4>1. ASSUME active # <<>> PROVE value > 0
        <5>1. time[Head(active)] > elapsed + 1
          BY <2>1, <4>1 DEF Early, HAL_TIMER_LOAD_DELTA
        <5>2. Head(active) = active[1]
          BY <4>1, ListFacts
        <5>3. QED
          BY <4>1, <5>1, <5>2, HeadFacts
      <4>2. QED
        BY <4>1
    <3>2. QED
      BY <1>1, <3>1 DEF TimeInv, HardwareArmed
  <2>2. CASE ~HandlerSpurious
    <3>1. handler' = "entered" \/ (pending' = pending /\ handler # "entered") \/ (pending' = pending /\ handler' = handler)
      BY <2>2
    <3>2. QED
      BY <1>1, <3>1 DEF TimeInv, HardwareArmed
  <2>3. QED
    BY <2>1, <2>2
<1>5. Timed(active', Offset', time', value', elapsed', Allowed')
  <2>1. CASE UNCHANGED <<due, postponed>>
    <3>1. Allowed' = Allowed
      BY <2>1 DEF Allowed
    <3>2. QED
      BY <1>1, <3>1, TimedUnmoved
  <2>2. CASE \E t \in Timers : StopFired(t) /\ Forget(t)
    <3>1. PICK t \in Timers : StopFired(t) /\ Forget(t)
      BY <2>2
    <3>2. t \in Range(fired)
      BY <3>1 DEF Range
    <3>3. \A k \in DOMAIN active : active[k] \in Timers /\ active[k] # t
      BY <3>2, ListFacts DEF ListInv, ListsMatchStates
    <3>4. \A k \in DOMAIN active : Allowed'[active[k]] = Allowed[active[k]]
      <4>1. HistoryOK /\ due' = [due EXCEPT ![t] = 0] /\ postponed' = [postponed EXCEPT ![t] = 0]
        BY <3>1 DEF TimeInv
      <4>2. QED
        BY <3>3, <4>1, AllowedKept
    <3>5. Offset' = Offset
      BY <1>1, OffsetIs
    <3>6. QED
      BY <1>1, <3>4, <3>5 DEF TimeInv, Timed
  <2>3. QED
    BY <1>2, <2>1, <2>2
<1>6. QED
  BY <1>3, <1>4, <1>5 DEF TimeInv

\* What every way to start a timer n ticks from now has in common.
LEMMA StartFacts ==
  ASSUME ListInv, TimeInv, NEW t \in Timers, NEW n \in Nat,
         StartAlone(t, n) \/ StartFirst(t, n) \/ StartBehind(t, n), HistoryOK'
  PROVE  /\ t \notin Range(active) /\ Allowed' \in [Timers -> Nat]
         /\ UNCHANGED <<handler, current, nullWrite>>
         /\ Allowed'[t] \in Nat /\ Allowed'[t] >= n
         /\ \A k \in DOMAIN active : active[k] # t /\ Allowed'[active[k]] = Allowed[active[k]]
<1>1. /\ state[t] \in {"ALLOC", "CALLBACK"} /\ due' = [due EXCEPT ![t] = n] /\ postponed' = postponed
      /\ UNCHANGED <<handler, current, nullWrite>>
  BY DEF StartAlone, StartFirst, StartBehind, Startable, Started, irq
<1>2. t \notin Range(active)
  BY <1>1 DEF ListInv, ListsMatchStates
<1>3. ASSUME NEW k \in DOMAIN active PROVE active[k] # t
  BY <1>2 DEF Range
<1>4. HistoryOK
  BY DEF TimeInv
<1>5. Allowed' \in [Timers -> Nat] /\ Allowed'[t] \in Nat /\ Allowed'[t] >= n
  <2>1. due'[t] = n
    BY <1>1, <1>4 DEF HistoryOK
  <2>2. QED
    BY <2>1, AllowedThen
<1>6. \A k \in DOMAIN active : Allowed'[active[k]] = Allowed[active[k]]
  BY <1>1, <1>3, <1>4, ListFacts, AllowedKept
<1>7. QED
  BY <1>1, <1>2, <1>3, <1>5, <1>6

LEMMA TimeStartAlone ==
  ASSUME ListInv, TimeInv, ListInv', NEW t \in Timers, NEW n \in Nat, n >= 1, StartAlone(t, n),
         HistoryOK'
  PROVE  TimeInv'
<1>1. /\ active' = <<t>> /\ time' = [time EXCEPT ![t] = n] /\ pending' = pending
      /\ enabled' = TRUE /\ elapsed' = 0 /\ value' = Load(n)
  BY LoadLemma DEF StartAlone
<1>2. Load(n) \in Nat /\ Load(n) >= 1 /\ Monus(Load(n), 0) = Load(n)
  BY LoadLemma
<1>3. time' \in [Timers -> Nat] /\ time'[t] = n
  BY <1>1 DEF TimeInv, TimeTypeOK
<1>4. Offset' = [k \in {1} |-> 0]
  <2>1. DOMAIN active' = {1} /\ Len(active') = 1
    BY <1>1
  <2>2. Sums([k \in {1} |-> 0], active', time')
    BY <2>1 DEF Sums
  <2>3. QED
    BY <1>3, <2>2, OffsetThen
<1>5. TimeTypeOK'
  BY <1>1, <1>2, <1>3, StartFacts DEF TimeInv, TimeTypeOK
<1>6. HardwareArmed'
  BY <1>1, <1>2 DEF HardwareArmed
<1>7. Timed(active', Offset', time', value', elapsed', Allowed')
  <2>1. \A k \in DOMAIN active' : k = 1 /\ active'[k] = t
    BY <1>1
  <2>2. active'[1] = t /\ Allowed'[t] >= n /\ Allowed'[t] \in Nat
    BY <1>1, StartFacts
  <2>3. QED
    BY <1>1, <1>2, <1>3, <1>4, <2>1, <2>2 DEF Timed, HAL_TIMER_LOAD_DELTA
<1>8. QED
  BY <1>5, <1>6, <1>7 DEF TimeInv

LEMMA TimeStartFirst ==
  ASSUME ListInv, TimeInv, ListInv', NEW t \in Timers, NEW n \in Nat, n >= 1, StartFirst(t, n),
         HistoryOK'
  PROVE  TimeInv'
<1>1. /\ active # <<>> /\ active' = <<t>> \o active
      /\ time' = [time EXCEPT ![active[1]] = value - n, ![t] = n] /\ pending' = FALSE
      /\ enabled' = TRUE /\ elapsed' = 0 /\ value' = Load(n) /\ value > n
  BY LoadLemma, ListFacts DEF StartFirst
<1>2. Load(n) \in Nat /\ Load(n) >= 1 /\ Monus(Load(n), 0) = Load(n)
  BY LoadLemma
<1> DEFINE q == FrontSums(Offset, active', value - n)
<1>3. time' \in [Timers -> Nat] /\ time'[active'[1]] = n /\ Sums(q, active', time')
  <2>1. active \in Seq(Timers) /\ NoDuplicates(active) /\ t \notin Range(active)
    BY ListFacts, StartFacts
  <2>2. time \in [Timers -> Nat] /\ Sums(Offset, active, time) /\ value \in Nat /\ n <= value
    BY <1>1, ListFacts
  <2>3. time' = FrontTimes(time, active, t, n, value - n)
    BY <1>1 DEF FrontTimes
  <2>4. active # <<>> /\ active' = Push(t, active) /\ value - n \in Nat
    BY <1>1, <2>2 DEF Push
  <2> HIDE DEF q
  <2>5. time' \in [Timers -> Nat] /\ Sums(FrontSums(Offset, active', value - n), active', time')
    BY <2>1, <2>2, <2>3, <2>4, SumsFront
  <2>6. active'[1] = t /\ time'[t] = n
    BY <1>1, <2>1, <2>2
  <2>7. QED
    BY <2>5, <2>6 DEF q
<1>4. Offset' = q
  <2> HIDE DEF q
  <2>1. QED
    BY <1>3, OffsetThen
<1>5. TimeTypeOK'
  BY <1>1, <1>2, <1>3, StartFacts DEF TimeInv, TimeTypeOK
<1>6. HardwareArmed'
  BY <1>1, <1>2 DEF HardwareArmed
<1>7. ASSUME NEW k \in DOMAIN active'
      PROVE  q[k] + n <= Allowed'[active'[k]] + 0 + 1
  <2>1. /\ active \in Seq(Timers) /\ k \in 1..(Len(active) + 1) /\ Len(active) \in Nat
        /\ DOMAIN active = 1..Len(active)
    BY <1>1, ListFacts
  <2>2. CASE k = 1
    <3>1. active'[k] = t /\ q[k] = 0
      BY <1>1, <2>2 DEF FrontSums
    <3>2. QED
      BY <3>1, StartFacts
  <2>3. CASE k # 1
    <3>1. k - 1 \in DOMAIN active
      BY <2>1, <2>3
    <3>2. active'[k] = active[k - 1]
      BY <1>1, <2>1, <2>3
    <3>3. q[k] = (value - n) + Offset[k - 1]
      BY <2>3 DEF FrontSums
    <3>4. value + Offset[k - 1] <= Allowed[active[k - 1]] + 1
      <4>1. value > 1 /\ value \in Nat
        BY <1>1, ListFacts
      <4>2. time[active[1]] > 0
        BY <1>1, <4>1, HeadFacts
      <4>3. QED
        BY <3>1, <4>1, <4>2, TimerFacts
    <3>5. /\ Allowed'[active[k - 1]] = Allowed[active[k - 1]] /\ Allowed[active[k - 1]] \in Nat
          /\ Offset[k - 1] \in Nat /\ value \in Nat
      BY <3>1, ListFacts, StartFacts
    <3> HIDE DEF q
    <3>6. QED
      BY <3>2, <3>3, <3>4, <3>5
  <2>4. QED
    BY <2>2, <2>3
<1>8. Timed(active', Offset', time', value', elapsed', Allowed')
  <2> HIDE DEF q
  <2>1. QED
    BY <1>1, <1>2, <1>3, <1>4, <1>7 DEF Timed, HAL_TIMER_LOAD_DELTA
<1>9. QED
  BY <1>5, <1>6, <1>8 DEF TimeInv

LEMMA TimeStartBehind ==
  ASSUME ListInv, TimeInv, ListInv', NEW t \in Timers, NEW n \in Nat, n >= 1, StartBehind(t, n),
         HistoryOK'
  PROVE  TimeInv'
<1>1. active # <<>> /\ value <= n /\ UNCHANGED <<enabled, value, elapsed, pending>>
  BY DEF StartBehind, hw
<1>2. PICK k \in DOMAIN active :
        /\ k > 1 => Offset[k] < n - value
        /\ k < Len(active) => Offset[k + 1] >= n - value
        /\ active' = InsertAfter(active, k, t)
        /\ time' = [s \in Timers |-> IF s = t THEN (n - value) - Offset[k]
                                     ELSE IF k < Len(active) /\ s = active[k + 1]
                                          THEN Offset[k + 1] - (n - value)
                                          ELSE time[s]]
  BY DEF StartBehind
<1> DEFINE x == n - value
           q == InsertSums(Offset, active', k, x)
<1>3. x \in Nat /\ Offset[k] <= x
  <2>1. x \in Nat /\ Offset[k] \in Nat /\ k \in Nat /\ k >= 1
    BY <1>1, ListFacts
  <2>2. k = 1 => Offset[k] = 0
    BY <1>1, HeadFacts
  <2>3. QED
    BY <1>2, <2>1, <2>2
<1>4. /\ time' \in [Timers -> Nat] /\ active'[1] = active[1] /\ time'[active'[1]] = time[active[1]]
      /\ Sums(q, active', time')
  <2>1. active \in Seq(Timers) /\ NoDuplicates(active) /\ t \notin Range(active)
    BY ListFacts, StartFacts
  <2>2. time \in [Timers -> Nat] /\ Sums(Offset, active, time)
    BY ListFacts
  <2>3. k < Len(active) => Offset[k + 1] >= x
    BY <1>2
  <2>4. time' = InsertTimes(Timers, time, Offset, active, k, t, x)
    BY <1>2, Zenon DEF InsertTimes
  <2>5. active' = InsertAfter(active, k, t)
    BY <1>2
  <2> HIDE DEF x, q
  <2>6. /\ time' \in [Timers -> Nat] /\ active'[1] = active[1] /\ time'[active'[1]] = time[active[1]]
        /\ Sums(InsertSums(Offset, active', k, x), active', time')
    BY <1>3, <2>1, <2>2, <2>3, <2>4, <2>5, SumsInsert
  <2>7. QED
    BY <2>6 DEF q
<1>5. Offset' = q
  <2> HIDE DEF q
  <2>1. QED
    BY <1>4, OffsetThen
<1>6. TimeTypeOK'
  BY <1>1, <1>4, StartFacts DEF TimeInv, TimeTypeOK
<1>7. HardwareArmed'
  <2>1. active' # <<>> /\ handler' = handler
    <3>1. active \in Seq(Timers) /\ Len(active) \in Nat
      BY ListFacts
    <3>2. active' # <<>>
      BY <1>2, <3>1 DEF InsertAfter
    <3>3. QED
      BY <3>2, StartFacts
  <2>2. QED
    BY <1>1, <2>1 DEF TimeInv, HardwareArmed
<1>8. ASSUME NEW j \in DOMAIN active'
      PROVE  q[j] + time[active[1]] <= Allowed'[active'[j]] + elapsed + 1
  <2>1. /\ active \in Seq(Timers) /\ Len(active) \in Nat /\ DOMAIN active = 1..Len(active)
        /\ k \in Nat /\ k >= 1 /\ k <= Len(active)
    BY ListFacts
  <2>2. j \in 1..(Len(active) + 1)
    BY <1>2, <2>1 DEF InsertAfter
  <2>3. CASE j <= k
    <3>1. j \in DOMAIN active /\ active'[j] = active[j] /\ q[j] = Offset[j]
      BY <1>2, <2>1, <2>2, <2>3 DEF InsertAfter, InsertSums
    <3>2. Allowed'[active[j]] = Allowed[active[j]]
      BY <3>1, StartFacts
    <3> HIDE DEF q
    <3>3. QED
      BY <3>1, <3>2, TimerFacts
  <2>4. CASE j = k + 1
    <3>1. active'[j] = t /\ q[j] = n - value
      BY <1>2, <2>1, <2>2, <2>4 DEF InsertAfter, InsertSums
    <3>2. Allowed'[t] >= n /\ Allowed'[t] \in Nat
      BY StartFacts
    <3>3. time[active[1]] <= elapsed + value + 1 /\ time[active[1]] \in Nat
      BY <1>1, HeadFacts
    <3>4. elapsed \in Nat /\ value \in Nat
      BY ListFacts
    <3> HIDE DEF q
    <3>5. QED
      BY <3>1, <3>2, <3>3, <3>4
  <2>5. CASE j > k + 1
    <3>1. j - 1 \in DOMAIN active /\ active'[j] = active[j - 1] /\ q[j] = Offset[j - 1]
      BY <1>2, <2>1, <2>2, <2>5 DEF InsertAfter, InsertSums
    <3>2. Allowed'[active[j - 1]] = Allowed[active[j - 1]]
      BY <3>1, StartFacts
    <3> HIDE DEF q
    <3>3. QED
      BY <3>1, <3>2, TimerFacts
  <2>6. QED
    <3>1. j \in Nat
      BY <2>2
    <3>2. QED
      BY <2>1, <2>3, <2>4, <2>5, <3>1
<1>9. Timed(active', Offset', time', value', elapsed', Allowed')
  <2> HIDE DEF q
  <2>1. value = Monus(Load(time[active[1]]), elapsed)
    BY <1>1, HeadFacts
  <2>2. QED
    BY <1>1, <1>4, <1>5, <1>8, <2>1 DEF Timed, HAL_TIMER_LOAD_DELTA
<1>10. QED
  BY <1>6, <1>7, <1>9 DEF TimeInv

LEMMA TimeStopOnly ==
  ASSUME ListInv, TimeInv, ListInv', NEW t \in Timers, StopOnly(t), HistoryOK'
  PROVE  TimeInv'
<1>1. /\ active' = <<>> /\ time' = [time EXCEPT ![t] = 0]
      /\ enabled' = FALSE /\ value' = 0 /\ elapsed' = 0 /\ pending' = FALSE
      /\ UNCHANGED <<handler, current, nullWrite>>
  BY DEF StopOnly, hal_timer_stop, Stopped, irq
<1>2. TimeTypeOK'
  BY <1>1 DEF TimeInv, TimeTypeOK
<1>3. HardwareArmed'
  BY <1>1 DEF HardwareArmed
<1>4. Timed(active', Offset', time', value', elapsed', Allowed')
  BY <1>1 DEF Timed
<1>5. QED
  BY <1>2, <1>3, <1>4 DEF TimeInv

\* Stopping the head: what both cases have in common.
LEMMA StopHeadShape ==
  ASSUME ListInv, TimeInv, NEW t \in Timers, StopHead(t)
  PROVE  \E len \in Nat : /\ len = Len(active) /\ len > 1 /\ DOMAIN active = 1..len
                          /\ Len(active') = len - 1 /\ DOMAIN active' = 1..(len - 1)
                          /\ \A j \in 1..(len - 1) : active'[j] = active[1 + j]
                          /\ \A j \in 2..len : active[j] # t
<1>1. /\ Len(active) > 1 /\ t = active[1] /\ active' = Tail(active)
  BY DEF StopHead
<1>2. active \in Seq(Timers)
  BY ListFacts
<1>3. PICK len \in Nat : len = Len(active) /\ len > 1 /\ DOMAIN active = 1..len
  BY <1>1, <1>2
<1>4. Len(active') = len - 1 /\ DOMAIN active' = 1..(len - 1)
  BY <1>1, <1>2, <1>3
<1>5. \A j \in 1..(len - 1) : active'[j] = active[1 + j]
  BY <1>1, <1>2, <1>3
<1>6. \A j \in 2..len : active[j] # t
  <2>1. 1 \in DOMAIN active /\ \A j \in 2..len : j \in DOMAIN active /\ j # 1
    BY <1>3
  <2>2. NoDuplicates(active)
    BY ListFacts
  <2>3. QED
    BY <1>1, <2>1, <2>2 DEF NoDuplicates
<1>7. QED
  BY <1>3, <1>4, <1>5, <1>6

LEMMA StopHeadFacts ==
  ASSUME ListInv, TimeInv, NEW t \in Timers, StopHead(t)
  PROVE  /\ active # <<>> /\ t = active[1]
         /\ enabled' = TRUE /\ elapsed' = 0 /\ pending' = FALSE
         /\ UNCHANGED <<handler, current, nullWrite>>
         /\ time[t] \in Nat /\ elapsed \in Nat /\ Offset[1] = 0
         /\ (value = 0 => time[t] <= elapsed + 1)
<1>1. /\ Len(active) > 1 /\ t = active[1] /\ pending' = FALSE
      /\ enabled' = TRUE /\ elapsed' = 0
      /\ UNCHANGED <<handler, current, nullWrite>>
  BY DEF StopHead, hal_timer_start, Stopped, irq
<1>2. active # <<>>
  BY <1>1, ListFacts
<1>3. time[t] \in Nat /\ Offset[1] = 0 /\ (value = 0 => time[t] <= elapsed + 1)
  BY <1>1, <1>2, HeadFacts
<1>4. elapsed \in Nat
  BY ListFacts
<1>5. QED
  BY <1>1, <1>2, <1>3, <1>4

\* The new state, if the differences of g are the new times.
LEMMA StopHeadLemma ==
  ASSUME ListInv, TimeInv, ListInv', NEW t \in Timers, StopHead(t),
         HistoryOK', time' \in [Timers -> Nat], NEW g,
         \A j \in DOMAIN active : g[j] \in Int,
         \A j \in 3..Len(active) : time'[active[j]] = g[j] - g[j - 1],
         \A j \in 2..Len(active) : g[j] - g[2] + time'[active[2]] <= Allowed'[active[j]] + 1
  PROVE  TimeInv'
<1>1. PICK len \in Nat : /\ len = Len(active) /\ len > 1 /\ DOMAIN active = 1..len
                         /\ Len(active') = len - 1 /\ DOMAIN active' = 1..(len - 1)
                         /\ \A j \in 1..(len - 1) : active'[j] = active[1 + j]
                         /\ \A j \in 2..len : active[j] # t
  BY StopHeadShape
<1>2. 2 \in DOMAIN active /\ active[2] \in Timers
  <2>1. 2 \in DOMAIN active
    BY <1>1
  <2>2. QED
    BY <2>1, ListFacts
<1>3. /\ enabled' = TRUE /\ elapsed' = 0 /\ pending' = FALSE
      /\ UNCHANGED <<handler, current, nullWrite>>
  BY StopHeadFacts
<1>4. PICK h \in Nat : h = time'[active[2]]
  BY <1>2
<1>5. value' = Load(h) /\ Load(h) \in Nat /\ Load(h) >= 1 /\ Monus(Load(h), 0) = Load(h)
  <2>1. hal_timer_start(time'[active[2]])
    BY DEF StopHead
  <2>2. QED
    BY <1>4, <2>1, LoadLemma
<1> DEFINE q == SuffixSums(g, active', 1)
<1>6. Sums(q, active', time')
  <2>1. active \in Seq(Timers) /\ active' \in Seq(Timers) /\ 1 < Len(active) /\ 1 \in Nat
        /\ Len(active') = Len(active) - 1
    BY <1>1 DEF ListInv, ListTypeOK
  <2>2. \A j \in 1..Len(active') : active'[j] = active[1 + j]
    BY <1>1
  <2>3. \A j \in 1..Len(active) : g[j] \in Int
    BY <1>1
  <2>4. 1 + 2 = 3
    OBVIOUS
  <2>5. \A j \in (1 + 2)..Len(active) : time'[active[j]] = g[j] - g[j - 1]
    BY <2>4
  <2> HIDE DEF q
  <2>6. Sums(SuffixSums(g, active', 1), active', time')
    BY <2>1, <2>2, <2>3, <2>5, SumsSuffix
  <2>7. QED
    BY <2>6 DEF q
<1>7. Offset' = q
  <2> HIDE DEF q
  <2>1. QED
    BY <1>6, OffsetThen
<1>8. TimeTypeOK'
  BY <1>3, <1>5 DEF TimeInv, TimeTypeOK
<1>9. active' # <<>> /\ active'[1] = active[2]
  <2>1. 1 \in 1..(len - 1) /\ 1 + 1 = 2
    BY <1>1
  <2>2. QED
    BY <1>1, <2>1
<1>10. HardwareArmed'
  BY <1>3, <1>5, <1>9 DEF HardwareArmed
<1>11. ASSUME NEW j \in DOMAIN active'
       PROVE  q[j] + h <= Allowed'[active'[j]] + 0 + 1
  <2>1. j \in 1..(len - 1) /\ 1 + j \in 2..len /\ 1 + j \in 1..len /\ 1 + 1 = 2 /\ 2 \in 1..len
    BY <1>1
  <2>2. active'[j] = active[1 + j] /\ q[j] = g[1 + j] - g[2]
    BY <1>1, <2>1 DEF SuffixSums
  <2>3. active[1 + j] \in Timers
    BY <1>1, <2>1, ListFacts
  <2>4. Allowed'[active[1 + j]] \in Nat /\ g[1 + j] \in Int /\ g[2] \in Int
    BY <1>1, <2>1, <2>3, AllowedThen
  <2>5. g[1 + j] - g[2] + h <= Allowed'[active[1 + j]] + 1
    BY <1>1, <1>4, <2>1
  <2> HIDE DEF q
  <2>6. QED
    BY <2>2, <2>4, <2>5
<1>12. Timed(active', Offset', time', value', elapsed', Allowed')
  <2> HIDE DEF q
  <2>1. QED
    BY <1>3, <1>4, <1>5, <1>7, <1>9, <1>11 DEF Timed, HAL_TIMER_LOAD_DELTA
<1>13. QED
  BY <1>8, <1>10, <1>12 DEF TimeInv

\* The head still counts: the next timer inherits what is left of its time.
LEMMA TimeStopHeadRunning ==
  ASSUME ListInv, TimeInv, ListInv', NEW t \in Timers, StopHead(t), value > 0, HistoryOK'
  PROVE  TimeInv'
<1>1. PICK len \in Nat : /\ len = Len(active) /\ len > 1 /\ DOMAIN active = 1..len
                         /\ \A j \in 2..len : active[j] # t
  BY StopHeadShape
<1>2. 2 \in 1..len /\ 2 \in 2..len /\ 2 - 1 = 1
  BY <1>1
<1>3. \A j \in 1..len : /\ active[j] \in Timers /\ state[active[j]] = "ACTIVE"
                        /\ time[active[j]] \in Nat /\ Allowed[active[j]] \in Nat /\ Offset[j] \in Nat
  BY <1>1, ListFacts
<1>4. \A j \in 2..len : Offset[j] = Offset[j - 1] + time[active[j]]
  BY <1>1, ListFacts DEF Sums
<1>5. value \in Nat /\ value # 0 /\ time \in [Timers -> Nat]
  BY ListFacts
<1>6. /\ time' = [time EXCEPT ![active[2]] = @ + value, ![t] = 0]
      /\ t = active[1]
  BY <1>5 DEF StopHead
<1>7. active[2] \in Timers /\ active[2] # t /\ time[active[2]] + value \in Nat
  BY <1>1, <1>2, <1>3, <1>5
<1>8. /\ time' \in [Timers -> Nat]
      /\ time'[active[2]] = time[active[2]] + value
  BY <1>5, <1>6, <1>7
<1>9. ASSUME NEW j \in 3..len PROVE time'[active[j]] = Offset[j] - Offset[j - 1]
  <2>1. j \in 1..len /\ j \in 2..len /\ j - 1 \in 1..len /\ j # 2
    BY <1>1
  <2>2. active[j] # t /\ active[j] \in Timers
    BY <1>1, <1>3, <2>1
  <2>3. active[j] # active[2]
    BY <1>1, <1>2, <2>1, ListFacts DEF NoDuplicates
  <2>4. time'[active[j]] = time[active[j]]
    BY <1>5, <1>6, <2>2, <2>3
  <2>5. Offset[j] \in Nat /\ Offset[j - 1] \in Nat /\ time[active[j]] \in Nat
    BY <1>3, <2>1
  <2>6. Offset[j] = Offset[j - 1] + time[active[j]]
    BY <1>4, <2>1
  <2>7. QED
    BY <2>4, <2>5, <2>6
<1>10. Offset[2] = time[active[2]]
  <2>1. Offset[1] = 0
    BY StopHeadFacts
  <2>2. Offset[2] = Offset[1] + time[active[2]]
    BY <1>2, <1>4
  <2>3. QED
    BY <1>2, <1>3, <2>1, <2>2
<1>11. ASSUME NEW j \in 2..len
       PROVE  Offset[j] - Offset[2] + time'[active[2]] <= Allowed'[active[j]] + 1
  <2>1. j \in 1..len /\ active[j] \in Timers /\ active[j] # t /\ state[active[j]] = "ACTIVE"
    BY <1>1, <1>3
  <2>2. /\ due'[active[j]] = due[active[j]]
        /\ postponed'[active[j]] = postponed[active[j]] + (IF time[t] = 0 THEN 1 ELSE 0)
    BY <1>5, <2>1, AllowedNow DEF StopHead, TimeInv, HistoryOK
  <2>3. value + Offset[j] <= Allowed'[active[j]] + 1
    <3>1. /\ Allowed[active[j]] = due[active[j]] + postponed[active[j]] /\ due[active[j]] \in Nat
          /\ postponed[active[j]] \in Nat
          /\ Allowed'[active[j]] = due'[active[j]] + postponed'[active[j]]
      BY <2>1, AllowedNow, AllowedThen DEF TimeInv
    <3>2. time[t] \in Nat
      BY StopHeadFacts
    <3>3. /\ value + Offset[j] <= Allowed[active[j]] + 2
          /\ time[t] > 0 => value + Offset[j] <= Allowed[active[j]] + 1
      BY <1>1, <1>6, <2>1, TimerFacts
    <3>4. Offset[j] \in Nat
      BY <1>3, <2>1
    <3>5. QED
      BY <1>5, <2>2, <3>1, <3>2, <3>3, <3>4
  <2>4. Allowed'[active[j]] \in Nat /\ Offset[j] \in Nat /\ time[active[2]] \in Nat
    BY <1>2, <1>3, <2>1, AllowedThen
  <2>5. PICK d, o, h \in Nat : d = Allowed'[active[j]] /\ o = Offset[j] /\ h = time[active[2]]
    BY <2>4
  <2>6. o - h + (h + value) <= d + 1
    BY <1>5, <2>3, <2>5
  <2>7. QED
    BY <1>8, <1>10, <2>5, <2>6
<1>12. /\ \A j \in DOMAIN active : Offset[j] \in Int
       /\ \A j \in 3..Len(active) : time'[active[j]] = Offset[j] - Offset[j - 1]
       /\ \A j \in 2..Len(active) :
            Offset[j] - Offset[2] + time'[active[2]] <= Allowed'[active[j]] + 1
  BY <1>1, <1>3, <1>9, <1>11
<1>13. QED
  BY <1>8, <1>12, StopHeadLemma

\* Consuming ticks: every offset shrinks by them, down to zero.
LEMMA ConsumeLemma ==
  ASSUME ListInv, TimeInv, NEW x \in Nat
  PROVE  /\ Consume(x) \in [Timers -> Nat]
         /\ \A k \in 2..Len(active) :
              Consume(x)[active[k]] = Monus(Offset[k], x) - Monus(Offset[k - 1], x)
<1>1. ASSUME NEW k \in 2..Len(active)
      PROVE  /\ k \in DOMAIN active /\ k - 1 \in DOMAIN active
             /\ Monus(Offset[k], x) - Monus(Offset[k - 1], x) \in Nat
  <2>1. k \in DOMAIN active /\ k - 1 \in DOMAIN active
    BY ListFacts
  <2>2. /\ Offset[k] \in Nat /\ Offset[k - 1] \in Nat /\ time[active[k]] \in Nat
        /\ Offset[k] = Offset[k - 1] + time[active[k]]
    BY <2>1, ListFacts DEF Sums
  <2>3. Monus(Offset[k], x) - Monus(Offset[k - 1], x) \in Nat
    BY <2>2 DEF Monus
  <2>4. QED
    BY <2>1, <2>3
<1>2. \A k, m \in 2..Len(active) : active[k] = active[m] => k = m
  BY <1>1, ListFacts DEF NoDuplicates
<1>3. ASSUME NEW s \in Timers PROVE Consume(x)[s] \in Nat
  <2>1. CASE \E k \in 2..Len(active) : s = active[k]
    <3> DEFINE m == CHOOSE k \in 2..Len(active) : s = active[k]
    <3>1. m \in 2..Len(active)
      BY <2>1
    <3>2. Consume(x)[s] = Monus(Offset[m], x) - Monus(Offset[m - 1], x)
      BY <2>1 DEF Consume
    <3> HIDE DEF m
    <3>3. QED
      BY <1>1, <3>1, <3>2
  <2>2. CASE ~\E k \in 2..Len(active) : s = active[k]
    BY <2>2 DEF Consume
  <2>3. QED
    BY <2>1, <2>2
<1>4. Consume(x) \in [Timers -> Nat]
  <2>1. Consume(x) = [s \in Timers |-> Consume(x)[s]]
    BY DEF Consume
  <2> HIDE DEF Consume
  <2>2. QED
    BY <1>3, <2>1
<1>5. ASSUME NEW k \in 2..Len(active)
      PROVE  Consume(x)[active[k]] = Monus(Offset[k], x) - Monus(Offset[k - 1], x)
  <2> DEFINE m == CHOOSE j \in 2..Len(active) : active[k] = active[j]
  <2>1. m \in 2..Len(active) /\ active[k] = active[m]
    OBVIOUS
  <2>2. m = k
    <3> HIDE DEF m
    <3>1. QED
      BY <1>2, <2>1
  <2>3. active[k] \in Timers
    BY <1>1, ListFacts
  <2>4. Consume(x)[active[k]] = Monus(Offset[m], x) - Monus(Offset[m - 1], x)
    BY <2>3 DEF Consume
  <2> HIDE DEF m
  <2>5. QED
    BY <2>2, <2>4
<1>6. QED
  BY <1>4, <1>5

\* The head has expired: the ticks since then are taken from the others.
LEMMA TimeStopHeadExpired ==
  ASSUME ListInv, TimeInv, ListInv', NEW t \in Timers, StopHead(t), value = 0, HistoryOK'
  PROVE  TimeInv'
<1>1. PICK len \in Nat : /\ len = Len(active) /\ len > 1 /\ DOMAIN active = 1..len
                         /\ \A j \in 2..len : active[j] # t
  BY StopHeadShape
<1>2. 1 \in 1..len /\ 2 \in 1..len /\ 2 \in 2..len /\ 2 - 1 = 1
  BY <1>1
<1>3. \A j \in 1..len : /\ active[j] \in Timers /\ state[active[j]] = "ACTIVE"
                        /\ Allowed[active[j]] \in Nat /\ Offset[j] \in Nat
  BY <1>1, ListFacts
<1>5. PICK x \in Nat : x = Monus(elapsed, time[t])
  <2>1. time[t] \in Nat /\ elapsed \in Nat
    BY StopHeadFacts
  <2>2. Monus(elapsed, time[t]) \in Nat
    BY <2>1 DEF Monus
  <2>3. QED
    BY <2>2
<1>6. time' = Consume(x)
  BY <1>5 DEF StopHead
<1>7. time' \in [Timers -> Nat]
  BY <1>6, ConsumeLemma
<1> DEFINE g == [j \in DOMAIN active |-> Monus(Offset[j], x)]
<1>8. \A j \in 1..len : g[j] = Monus(Offset[j], x) /\ g[j] \in Nat
  <2>1. ASSUME NEW j \in 1..len PROVE Monus(Offset[j], x) \in Nat
    BY <1>3 DEF Monus
  <2>2. QED
    BY <1>1, <2>1
<1> HIDE DEF g
<1>9. ASSUME NEW j \in 2..len PROVE time'[active[j]] = g[j] - g[j - 1]
  <2>1. j \in 1..len /\ j - 1 \in 1..len /\ j \in 2..Len(active)
    BY <1>1
  <2>2. Consume(x)[active[j]] = Monus(Offset[j], x) - Monus(Offset[j - 1], x)
    BY <2>1, ConsumeLemma
  <2>3. QED
    BY <1>6, <1>8, <2>1, <2>2
<1>10. time'[active[2]] = g[2]
  <2>1. g[1] = 0
    <3>1. Offset[1] = 0
      BY StopHeadFacts
    <3>2. g[1] = Monus(0, x)
      BY <1>2, <1>8, <3>1
    <3>3. QED
      BY <3>2 DEF Monus
  <2>2. time'[active[2]] = g[2] - g[1] /\ g[2] \in Nat
    BY <1>2, <1>8, <1>9
  <2>3. QED
    BY <2>1, <2>2
<1>11. ASSUME NEW j \in 2..len
       PROVE  g[j] - g[2] + time'[active[2]] <= Allowed'[active[j]] + 1
  <2>1. j \in 1..len /\ active[j] \in Timers /\ active[j] # t
    BY <1>1, <1>3
  <2>2. Allowed'[active[j]] = Allowed[active[j]]
    <3>1. due'[active[j]] = due[active[j]] /\ postponed'[active[j]] = postponed[active[j]]
      BY <2>1 DEF StopHead, TimeInv, HistoryOK
    <3>2. QED
      BY <2>1, <3>1, AllowedNow, AllowedThen DEF TimeInv
  <2>3. g[j] <= Allowed[active[j]] + 1
    <3>1. time[active[1]] <= elapsed + 1 /\ x = Monus(elapsed, time[active[1]])
      BY <1>5, StopHeadFacts
    <3>2. Monus(Offset[j], x) <= Allowed[active[j]] + 1
      BY <1>1, <2>1, <3>1, TimerFacts
    <3>3. QED
      BY <1>8, <2>1, <3>2
  <2>4. Allowed[active[j]] \in Nat /\ g[j] \in Nat /\ g[2] \in Nat
    BY <1>2, <1>3, <1>8, <2>1
  <2>5. QED
    BY <1>10, <2>2, <2>3, <2>4
<1>12. /\ \A j \in DOMAIN active : g[j] \in Int
       /\ \A j \in 3..Len(active) : time'[active[j]] = g[j] - g[j - 1]
       /\ \A j \in 2..Len(active) : g[j] - g[2] + time'[active[2]] <= Allowed'[active[j]] + 1
  <2>1. \A j \in 3..len : j \in 2..len
    BY <1>1
  <2>2. \A j \in 1..len : g[j] \in Int
    BY <1>8
  <2>3. QED
    BY <1>1, <1>9, <1>11, <2>1, <2>2
<1>13. QED
  BY <1>7, <1>12, StopHeadLemma

LEMMA TimeStopBehind ==
  ASSUME ListInv, TimeInv, ListInv', NEW t \in Timers, StopBehind(t), HistoryOK'
  PROVE  TimeInv'
<1>1. PICK k \in 2..Len(active) :
        /\ active[k] = t /\ active' = Without(active, k)
        /\ time' = IF k < Len(active)
                   THEN [time EXCEPT ![active[k + 1]] = @ + time[t], ![t] = 0]
                   ELSE [time EXCEPT ![t] = 0]
        /\ nullWrite' = (nullWrite \/ k = Len(active))
  BY DEF StopBehind
<1>2. /\ due' = [due EXCEPT ![t] = 0] /\ postponed' = [postponed EXCEPT ![t] = 0]
      /\ UNCHANGED <<enabled, value, elapsed, pending, handler, current>>
  BY DEF StopBehind, Stopped, Forget, hw, irq
<1> DEFINE q == WithoutSums(Offset, active', k)
<1>3. /\ time' \in [Timers -> Nat] /\ active' # <<>> /\ active'[1] = active[1]
      /\ time'[active'[1]] = time[active[1]]
      /\ Sums(q, active', time')
  <2>1. active \in Seq(Timers) /\ NoDuplicates(active) /\ time \in [Timers -> Nat] /\ Sums(Offset, active, time)
    BY ListFacts
  <2>2. time' = WithoutTimes(time, active, k)
    BY <1>1 DEF WithoutTimes
  <2>3. active' = Without(active, k)
    BY <1>1
  <2> HIDE DEF q
  <2>4. /\ time' \in [Timers -> Nat] /\ active' # <<>> /\ active'[1] = active[1]
        /\ time'[active'[1]] = time[active[1]]
        /\ Sums(WithoutSums(Offset, active', k), active', time')
    BY <2>1, <2>2, <2>3, SumsWithout
  <2>5. QED
    BY <2>4 DEF q
<1>4. Offset' = q
  <2> HIDE DEF q
  <2>1. QED
    BY <1>3, OffsetThen
<1>5. PICK len \in Nat : /\ len = Len(active) /\ DOMAIN active = 1..len
                         /\ k \in 2..len /\ DOMAIN active' = 1..(len - 1)
                         /\ \A j \in 1..(len - 1) : active'[j] = IF j < k THEN active[j] ELSE active[j + 1]
  <2>1. PICK len \in Nat : len = Len(active) /\ DOMAIN active = 1..len
    BY ListFacts
  <2>2. k \in 2..len /\ DOMAIN active' = 1..(len - 1)
    BY <1>1, <2>1 DEF Without
  <2>3. \A j \in 1..(len - 1) : active'[j] = IF j < k THEN active[j] ELSE active[j + 1]
    BY <1>1, <2>1 DEF Without
  <2>4. QED
    BY <2>1, <2>2, <2>3
<1>6. 1 \in 1..len /\ active # <<>>
  BY <1>5
<1>7. TimeTypeOK'
  <2>2. nullWrite' \in BOOLEAN
    BY <1>1, Zenon DEF TimeInv, TimeTypeOK
  <2>3. QED
    BY <1>2, <1>3, <2>2 DEF TimeInv, TimeTypeOK
<1>8. HardwareArmed'
  BY <1>2, <1>3, <1>6 DEF TimeInv, HardwareArmed
<1>9. ASSUME NEW i \in 1..len, i # k
      PROVE  Offset[i] + time[active[1]] <= Allowed'[active[i]] + elapsed + 1
  <2>1. active[i] # t /\ active[i] \in Timers
    <3>1. k \in DOMAIN active /\ i \in DOMAIN active
      BY <1>5
    <3>2. QED
      BY <1>1, <1>9, <3>1, ListFacts DEF NoDuplicates
  <2>2. Allowed'[active[i]] = Allowed[active[i]]
    BY <1>2, <2>1, AllowedKept DEF TimeInv
  <2>3. QED
    BY <1>5, <2>2, TimerFacts
<1>10. ASSUME NEW j \in DOMAIN active'
       PROVE  q[j] + time[active[1]] <= Allowed'[active'[j]] + elapsed + 1
  <2>1. j \in Nat /\ k \in Nat /\ j \in 1..(len - 1)
    BY <1>5
  <2>2. CASE j < k
    <3>1. j \in 1..len /\ j # k
      BY <1>5, <2>1, <2>2
    <3>2. q[j] = Offset[j] /\ active'[j] = active[j]
      BY <1>5, <2>1, <2>2 DEF WithoutSums
    <3> HIDE DEF q
    <3>3. QED
      BY <1>9, <3>1, <3>2
  <2>3. CASE ~(j < k)
    <3>1. j + 1 \in 1..len /\ j + 1 # k
      BY <1>5, <2>1, <2>3
    <3>2. q[j] = Offset[j + 1] /\ active'[j] = active[j + 1]
      BY <1>5, <2>1, <2>3 DEF WithoutSums
    <3> HIDE DEF q
    <3>3. QED
      BY <1>9, <3>1, <3>2
  <2>4. QED
    BY <2>2, <2>3
<1>11. Timed(active', Offset', time', value', elapsed', Allowed')
  <2> HIDE DEF q
  <2>1. value = Monus(Load(time[active[1]]), elapsed)
    BY <1>6, HeadFacts
  <2>2. QED
    BY <1>2, <1>3, <1>4, <1>10, <2>1 DEF Timed, HAL_TIMER_LOAD_DELTA
<1>12. QED
  BY <1>7, <1>8, <1>11 DEF TimeInv

\* All active timers have expired, or n of them and the hardware is started
\* for the next.
LEMMA TimeFire ==
  ASSUME ListInv, TimeInv, ListInv', HandlerFire, HistoryOK'
  PROVE  TimeInv'
<1>1. /\ handler = "entered" /\ active # <<>> /\ ~Early
      /\ handler' = "locked" /\ UNCHANGED <<current, nullWrite>>
  BY DEF HandlerFire
<1>2. /\ Head(active) = active[1] /\ active[1] \in Timers /\ time[active[1]] \in Nat
      /\ elapsed \in Nat
  BY <1>1, ListFacts
<1>3. time[active[1]] <= elapsed + 1
  BY <1>1, <1>2 DEF Early, HAL_TIMER_LOAD_DELTA
<1>4. PICK x \in Nat : x = Monus(elapsed, time[active[1]])
  <2>1. Monus(elapsed, time[active[1]]) \in Nat
    BY <1>2 DEF Monus
  <2>2. QED
    BY <2>1
<1>5. PICK n \in DOMAIN active :
        /\ n < Len(active) => Offset[n + 1] > x
        /\ active' = SubSeq(active, n + 1, Len(active))
        /\ time' = [t \in Timers |->
                      IF n < Len(active) /\ t = active[n + 1] THEN Offset[n + 1] - x
                      ELSE IF \E j \in 1..n : active[j] = t THEN 0 ELSE time[t]]
        /\ due' = [t \in Timers |-> IF \E j \in 1..n : active[j] = t THEN 0 ELSE due[t]]
        /\ postponed' = [t \in Timers |-> IF \E j \in 1..n : active[j] = t THEN 0 ELSE postponed[t]]
        /\ IF n < Len(active)
           THEN hal_timer_start(time'[active[n + 1]]) /\ UNCHANGED pending
           ELSE hal_timer_stop
  BY <1>2, <1>4 DEF HandlerFire
<1>6. PICK len \in Nat : len = Len(active) /\ DOMAIN active = 1..len
  BY ListFacts
<1>7. n \in Nat /\ n >= 1 /\ n <= len /\ (n < len => n + 1 \in 1..len)
  BY <1>6
<1>8. \A j \in 1..len : /\ active[j] \in Timers /\ time[active[j]] \in Nat
                        /\ Allowed[active[j]] \in Nat /\ Offset[j] \in Nat
  BY <1>6, ListFacts
<1>9. \A i, j \in 1..len : active[i] = active[j] => i = j
  BY <1>6, ListFacts DEF NoDuplicates
<1>10. \A j \in (n + 1)..len : Allowed'[active[j]] = Allowed[active[j]]
  <2>2. ASSUME NEW j \in (n + 1)..len PROVE active[j] \in Timers /\ ~\E i \in 1..n : active[i] = active[j]
    <3>1. j \in 1..len /\ \A i \in 1..n : i \in 1..len /\ i # j
      BY <1>7
    <3>2. QED
      BY <1>8, <1>9, <3>1
  <2>3. ASSUME NEW j \in (n + 1)..len
        PROVE  due'[active[j]] = due[active[j]] /\ postponed'[active[j]] = postponed[active[j]]
    BY <1>5, <2>2
  <2>4. QED
    BY <2>2, <2>3, AllowedNow, AllowedThen DEF TimeInv
<1>11. time' \in [Timers -> Nat]
  <2>1. n < len => Offset[n + 1] - x \in Nat
    BY <1>5, <1>6, <1>7, <1>8
  <2>2. time \in [Timers -> Nat]
    BY ListFacts
  <2>3. QED
    BY <1>5, <1>6, <2>1, <2>2
<1>12. CASE n = len
  <2>1. /\ enabled' = FALSE /\ value' = 0 /\ elapsed' = 0 /\ pending' = FALSE
    BY <1>5, <1>6, <1>12 DEF hal_timer_stop
  <2>2. active' = <<>>
    BY <1>5, <1>6, <1>7, <1>12, ListFacts
  <2>3. TimeTypeOK'
    BY <1>1, <1>10, <1>11, <2>1 DEF TimeInv, TimeTypeOK
  <2>4. HardwareArmed'
    BY <2>1, <2>2 DEF HardwareArmed
  <2>5. Timed(active', Offset', time', value', elapsed', Allowed')
    BY <2>2 DEF Timed
  <2>6. QED
    BY <2>3, <2>4, <2>5 DEF TimeInv
<1>13. CASE n < len
  <2>1. n + 1 \in 1..len /\ n + 1 \in (n + 1)..len
    BY <1>7, <1>13
  <2>2. PICK h \in Nat : h = Offset[n + 1] - x /\ h >= 1 /\ time'[active[n + 1]] = h
    <3>1. Offset[n + 1] - x \in Nat /\ Offset[n + 1] - x >= 1
      BY <1>5, <1>6, <1>8, <1>13, <2>1
    <3>2. time'[active[n + 1]] = Offset[n + 1] - x
      BY <1>5, <1>6, <1>8, <1>13, <2>1
    <3>3. QED
      BY <3>1, <3>2
  <2>3. /\ enabled' = TRUE /\ elapsed' = 0 /\ value' = Load(h) /\ pending' = pending
        /\ Load(h) \in Nat /\ Load(h) >= 1 /\ Monus(Load(h), 0) = Load(h)
    <3>1. hal_timer_start(h) /\ pending' = pending
      BY <1>5, <1>6, <1>13, <2>2
    <3>2. QED
      BY <3>1, LoadLemma
  <2>4. /\ active' \in Seq(Timers) /\ Len(active') = len - n /\ DOMAIN active' = 1..(len - n)
        /\ \A j \in 1..(len - n) : active'[j] = active[n + j]
    <3>1. active \in Seq(Timers)
      BY ListFacts
    <3>2. QED
      BY <1>5, <1>6, <1>7, <1>13, <3>1
  <2> DEFINE q == SuffixSums(Offset, active', n)
  <2>5. Sums(q, active', time')
    <3>1. active \in Seq(Timers) /\ n \in Nat /\ n < Len(active)
      BY <1>6, <1>7, <1>13, ListFacts
    <3>2. Len(active') = Len(active) - n /\ \A j \in 1..Len(active') : active'[j] = active[n + j]
      BY <1>6, <2>4
    <3>3. \A j \in 1..Len(active) : Offset[j] \in Int
      BY <1>6, <1>8
    <3>4. ASSUME NEW j \in (n + 2)..len PROVE time'[active[j]] = Offset[j] - Offset[j - 1]
      <4>1. /\ j \in 1..len /\ j \in 2..len /\ j - 1 \in 1..len /\ j # n + 1
            /\ \A i \in 1..n : i \in 1..len /\ i # j
        BY <1>7
      <4>2. active[j] \in Timers /\ active[j] # active[n + 1] /\ ~\E i \in 1..n : active[i] = active[j]
        BY <1>8, <1>9, <2>1, <4>1
      <4>3. time'[active[j]] = time[active[j]]
        BY <1>5, <4>2
      <4>4. Offset[j] = Offset[j - 1] + time[active[j]]
        BY <1>6, <4>1, ListFacts DEF Sums
      <4>5. Offset[j] \in Nat /\ Offset[j - 1] \in Nat /\ time[active[j]] \in Nat
        BY <1>8, <4>1
      <4>6. QED
        BY <4>3, <4>4, <4>5
    <3>5. \A j \in (n + 2)..Len(active) : time'[active[j]] = Offset[j] - Offset[j - 1]
      BY <1>6, <3>4
    <3> HIDE DEF q
    <3>6. Sums(SuffixSums(Offset, active', n), active', time')
      BY <2>4, <3>1, <3>2, <3>3, <3>5, SumsSuffix
    <3>7. QED
      BY <3>6 DEF q
  <2>6. Offset' = q
    <3> HIDE DEF q
    <3>1. QED
      BY <1>11, <2>5, OffsetThen
  <2>7. active' # <<>> /\ active'[1] = active[n + 1]
    <3>1. 1 \in 1..(len - n)
      BY <1>7, <1>13
    <3>2. QED
      BY <2>4, <3>1
  <2>8. TimeTypeOK'
    BY <1>1, <1>10, <1>11, <2>3 DEF TimeInv, TimeTypeOK
  <2>9. HardwareArmed'
    BY <2>3, <2>7 DEF HardwareArmed
  <2>10. ASSUME NEW j \in DOMAIN active'
         PROVE  q[j] + h <= Allowed'[active'[j]] + 0 + 1
    <3>1. j \in 1..(len - n) /\ n + j \in 1..len /\ n + j \in (n + 1)..len
      BY <1>7, <2>4
    <3>2. active'[j] = active[n + j] /\ q[j] = Offset[n + j] - Offset[n + 1]
      BY <2>4, <3>1 DEF SuffixSums
    <3>3. Offset[n + j] - x <= Allowed[active[n + j]] + 1
      BY <1>3, <1>4, <1>6, <3>1, TimerFacts
    <3>4. PICK o, p, d \in Nat : o = Offset[n + j] /\ p = Offset[n + 1] /\ d = Allowed[active[n + j]]
      BY <1>8, <2>1, <3>1
    <3>5. Allowed'[active[n + j]] = d
      BY <1>10, <3>1, <3>4
    <3>6. q[j] = o - p /\ h = p - x /\ h >= 1 /\ o - x <= d + 1
      BY <2>2, <3>2, <3>3, <3>4
    <3> HIDE DEF q
    <3>7. (o - p) + (p - x) <= d + 0 + 1
      BY <3>6
    <3>8. QED
      BY <3>2, <3>5, <3>6, <3>7
  <2>11. Timed(active', Offset', time', value', elapsed', Allowed')
    <3> HIDE DEF q
    <3>1. QED
      BY <2>2, <2>3, <2>6, <2>7, <2>10 DEF Timed, HAL_TIMER_LOAD_DELTA
  <2>12. QED
    BY <2>8, <2>9, <2>11 DEF TimeInv
<1>14. QED
  BY <1>7, <1>12, <1>13

(* Every step preserves the invariant.                                       *)
LEMMA TimeStep == ListInv /\ TimeInv /\ [Next]_vars => TimeInv'
<1> SUFFICES ASSUME ListInv, TimeInv, [Next]_vars PROVE TimeInv'
  OBVIOUS
<1>0. ListInv' /\ HistoryOK'
  BY ListStep, HistoryStep DEF TimeInv
<1>1. CASE Tick
  BY <1>0, <1>1, TimeTick
<1>2. CASE HandlerEnter \/ AllocTake \/ UNCHANGED vars
  BY <1>0, <1>2, TimeQuiet
<1>3. CASE hwtimer_handler
  BY <1>0, <1>3, TimeQuiet, TimeFire DEF hwtimer_handler
<1>4. ASSUME NEW t \in Timers, Operation(t) PROVE TimeInv'
  <2>1. CASE AllocInit(t) \/ hwtimer_free(t) \/ StopFired(t)
    BY <1>0, <2>1, TimeQuiet
  <2>2. CASE \E ticks \in Ticks : hwtimer_start(t, ticks)
    <3>1. PICK ticks \in Ticks : hwtimer_start(t, ticks)
      BY <2>2
    <3>2. Clamp(ticks) \in Nat /\ Clamp(ticks) >= 1
      BY TicksAssumption DEF Clamp, HAL_TIMER_LOAD_DELTA
    <3>3. StartAlone(t, Clamp(ticks)) \/ StartFirst(t, Clamp(ticks)) \/ StartBehind(t, Clamp(ticks))
      BY <3>1 DEF hwtimer_start
    <3>4. QED
      BY <1>0, <3>2, <3>3, TimeStartAlone, TimeStartFirst, TimeStartBehind
  <2>3. CASE StopHead(t)
    <3>1. value > 0 \/ value = 0
      BY ListFacts
    <3>2. QED
      BY <1>0, <2>3, <3>1, TimeStopHeadRunning, TimeStopHeadExpired
  <2>4. CASE StopOnly(t) \/ StopBehind(t)
    BY <1>0, <2>4, TimeStopOnly, TimeStopBehind
  <2>5. QED
    BY <1>4, <2>1, <2>2, <2>3, <2>4 DEF Operation, hwtimer_stop
<1>5. QED
  BY <1>1, <1>2, <1>3, <1>4 DEF Next

LEMMA TimeInvariance == Spec => [](ListInv /\ TimeInv)
<1>1. Init => ListInv /\ TimeInv
  BY ListInit, TimeInit
<1>2. ListInv /\ TimeInv /\ [Next]_vars => (ListInv /\ TimeInv)'
  BY ListStep, TimeStep
<1> QED BY <1>1, <1>2, PTL DEF Spec

(* Every variable keeps its type: whatever is started, stopped and fired, no *)
(* time that hwtimer_list.c computes as a difference goes below zero, where  *)
(* its unsigned arithmetic would wrap.                                       *)
THEOREM TypeTheorem == Spec => []TypeOK
<1>1. ListInv /\ TimeInv => TypeOK
  BY TimeInvServes
<1> QED BY <1>1, TimeInvariance, PTL

(* While a timer is active the hardware counts for the head of the list and  *)
(* its interrupt is still to come: none of the four "collapsed" assertions   *)
(* of hwtimer_list.c on the counter and the list can fail.                   *)
THEOREM HardwareTheorem == Spec => []HardwareForHead
<1>1. ListInv /\ TimeInv => HardwareForHead
  BY TimeInvServes
<1> QED BY <1>1, TimeInvariance, PTL

(* For every number of timers, all arguments and every interleaving, no      *)
(* timer is planned later than two ticks, and one for every stop of a head    *)
(* with nothing left before its first tick, after the expiry asked for.       *)
THEOREM PlannedTheorem == Spec => []NeverPlannedLate
<1>1. ListInv /\ TimeInv => NeverPlannedLate
  BY TimeInvServes
<1> QED BY <1>1, TimeInvariance, PTL
=============================================================================
