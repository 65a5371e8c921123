------------------------- MODULE AudioFlinger_proofs -------------------------
(* Theorems about the audio flinger, for any streams, sessions and scripts:  *)
(* interrupts find their stream and keep its index in step with the DMA, and *)
(* no handler touches the half in transfer or a closed stream's buffer.      *)
EXTENDS AudioFlinger, WellFoundedInduction, FiniteSetTheorems, TLAPS

Opened(s) == status[s] # "OPEN_CLOSE"
Started(s) == status[s] = "STREAM_START_STOP"
Has(script, op, s) == \E i \in 1..Len(script) : script[i].op = op /\ script[i].s = s

\* The application's calls to come, and what they say of the streams.
CallTypes ==
  /\ calls \in Seq(Requests) /\ session \in Sessions \cup {NULL}
  /\ calls # <<>> => session \in Sessions
CallsAgree ==
  /\ InOrder(calls)
  /\ \A s \in Streams : Started(s) => Has(calls, "stop", s)
  /\ \A s \in Streams : Opened(s) => Has(calls, "close", s)
  /\ \A s, t \in Streams : Has(calls, "open", t) => ~Started(s)
  /\ \A s \in Streams : Has(calls, "start", s) => ~Started(s) /\ pp_index[s] = 0

\* Where the threads are and who has the lock.
PlacesAgree ==
  /\ at = "opening" <=> mutex = "app"
  /\ at = "opening" => calls # <<>> /\ Head(calls).op = "open" /\ ~Opened(Head(calls).s)
  /\ at \in {"waiting", "signalled", "timeout"} =>
       calls # <<>> /\ Head(calls).op = "stop" /\ Head(calls).s = Output /\ Started(Output)
  /\ af = "handler" <=> mutex = "af"
  /\ HandlerOwnsBuffer

\* Each open stream has a channel of its own, and a closed one starts at PING.
ChannelsAgree ==
  /\ \A s \in Streams : Opened(s) => ch[s] \in chan_enabled
  /\ \A s, t \in Streams : Opened(s) /\ Opened(t) /\ ch[s] = ch[t] => s = t
  /\ \A c \in chan_enabled : \E s \in Streams : Opened(s) /\ ch[s] = c
  /\ \A s \in Streams : ~Opened(s) =>
       pp_index[s] = 0 /\ (ch[s] # NoChannel => at = "opening" /\ Head(calls).s = s)

\* A channel runs for the stream that has it, with the stream's index in step.
DmaAgrees ==
  /\ \A c \in Channels : dma[c].run => Started(dma[c].stream) /\ ch[dma[c].stream] = c
  /\ \A c \in tc : dma[c].run
  /\ InStep /\ ~halted

\* While af_thread keeps pace, a stream whose interrupt is pending has been
\* processed, and the handler's half is not in transfer.
HandlersAgree ==
  ~late =>
    /\ \A s \in Streams : Started(s) /\ ch[s] \in tc => s \notin signals \cup todo
    /\ af = "handler" /\ Started(Min(todo)) => half = 1 - dma[ch[Min(todo)]].half

\* The parts of TypeOK.
RoleTypes ==
  /\ status \in [Streams -> {"OPEN_CLOSE", "STREAM_OPEN_CLOSE", "STREAM_START_STOP"}]
  /\ handler \in [Streams -> Sessions \cup {NULL}] /\ pp_index \in [Streams -> {0, 1}]
  /\ ch \in [Streams -> Channels \cup {NoChannel}]
HalTypes ==
  /\ chan_enabled \subseteq Channels /\ tc \subseteq Channels
  /\ dma \in [Channels -> [run : BOOLEAN, stream : Streams, half : {0, 1}]]
ThreadTypes ==
  /\ signals \subseteq Streams /\ todo \subseteq Streams /\ half \in {0, 1}
  /\ af \in {"wait", "scan", "handler", "stop_process"} /\ (af # "wait" => todo # {})
  /\ mutex \in {"free", "app", "af"}
FadeTypes ==
  /\ stop_on_process \in BOOLEAN /\ stop_process_cnt \in 0..MaxCount /\ need_fadeout \in Nat
  /\ stop_signal \in BOOLEAN /\ faded \in 0..MaxFaded
  /\ content \in [{0, 1} -> {"sound", "fading", "zero"}]
FlagTypes ==
  /\ late \in BOOLEAN /\ halted \in BOOLEAN
  /\ at \in {"call", "opening", "waiting", "signalled", "timeout"}

IInv ==
  TypeOK /\ CallTypes /\ CallsAgree /\ PlacesAgree /\ ChannelsAgree /\ DmaAgrees /\ HandlersAgree
----------------------------------------------------------------------------
(* First numbers, calls and channels.                                        *)

\* A set of natural numbers has a first one.
LEMMA MinLemma ==
  ASSUME NEW S, S \subseteq Nat, S # {}
  PROVE  Min(S) \in S /\ \A x \in S : Min(S) <= x
<1> DEFINE Less == OpToRel(<, Nat)
           Is(x) == \A y \in S : x <= y
<1>1. IsWellFoundedOn(Less, Nat)
  BY NatLessThanWellFounded
<1>2. \A x, y \in Nat : x < y => <<x, y>> \in Less
  BY DEF OpToRel
<1>3. \E x \in S : \A y \in S : ~(<<y, x>> \in Less)
  <2> HIDE DEF Less
  <2>1. QED
    BY <1>1, WFMin
<1>4. \E x \in S : \A y \in S : x <= y
  <2>1. PICK x \in S : \A y \in S : ~(<<y, x>> \in Less)
    BY <1>3
  <2> HIDE DEF Less
  <2>2. ASSUME NEW y \in S PROVE x <= y
    <3>1. x \in Nat /\ y \in Nat /\ ~(y < x)
      BY <1>2, <2>1
    <3>2. QED
      BY <3>1
  <2>3. QED
    BY <2>2
<1>5. Min(S) = CHOOSE x \in S : Is(x)
  BY DEF Min
<1>6. Min(S) \in S /\ Is(Min(S))
  <2>1. \E x \in S : Is(x)
    BY <1>4
  <2> HIDE DEF Is
  <2>2. QED
    BY <1>5, <2>1, Zenon
<1>7. QED
  BY <1>6

LEMMA TailLemma ==
  ASSUME NEW S, NEW s \in Seq(S), s # <<>>
  PROVE  /\ Len(s) \in Nat /\ Len(s) >= 1 /\ Head(s) = s[1] /\ Head(s) \in S
         /\ Tail(s) \in Seq(S) /\ Len(Tail(s)) = Len(s) - 1
         /\ \A i \in 1..(Len(s) - 1) : Tail(s)[i] = s[i + 1]
OBVIOUS

\* What a call that returns leaves of a script in order.
LEMMA ReturnLemma ==
  ASSUME NEW script \in Seq(Requests), script # <<>>, InOrder(script)
  PROVE  /\ Tail(script) \in Seq(Requests) /\ InOrder(Tail(script)) /\ Head(script) \in Requests
         /\ \A op, s : Has(Tail(script), op, s) => Has(script, op, s)
         /\ \A op, s : Has(script, op, s) /\ (op # Head(script).op \/ s # Head(script).s)
              => Has(Tail(script), op, s)
         /\ Head(script).op = "open" => Has(Tail(script), "close", Head(script).s)
         /\ Head(script).op = "start" =>
              /\ Has(Tail(script), "stop", Head(script).s)
              /\ ~Has(Tail(script), "start", Head(script).s)
              /\ \A s : ~Has(Tail(script), "open", s)
         /\ Has(script, Head(script).op, Head(script).s)
<1>1. PICK rest \in Seq(Requests) : rest = Tail(script)
  BY TailLemma
<1>2. PICK n \in Nat : n = Len(script) /\ n >= 1 /\ Len(rest) = n - 1
  BY <1>1, TailLemma
<1>3. /\ Head(script) = script[1] /\ Head(script) \in Requests
      /\ \A i \in 1..(n - 1) : rest[i] = script[i + 1]
  BY <1>1, <1>2, TailLemma
<1>4. /\ \A i \in 1..(n - 1) : i + 1 \in 1..n
      /\ \A i \in 1..n : i > 1 => i - 1 \in 1..(n - 1) /\ (i - 1) + 1 = i
      /\ 1 \in 1..n
  BY <1>2
<1>5. \A op, s : Has(rest, op, s) => Has(script, op, s)
  BY <1>2, <1>3, <1>4 DEF Has
<1>6. \A i \in 1..n : i > 1 => rest[i - 1] = script[i]
  BY <1>3, <1>4
<1>7. \A op, s : (\E j \in 1..n : j > 1 /\ script[j].op = op /\ script[j].s = s) => Has(rest, op, s)
  BY <1>2, <1>4, <1>6 DEF Has
<1>8. \A op, s : Has(rest, op, s) => \E j \in 1..n : j > 1 /\ script[j].op = op /\ script[j].s = s
  BY <1>2, <1>3, <1>4 DEF Has
<1>9. ASSUME NEW op, NEW s, Has(script, op, s), op # Head(script).op \/ s # Head(script).s
      PROVE  Has(rest, op, s)
  <2>1. PICK i \in 1..n : script[i].op = op /\ script[i].s = s
    BY <1>2, <1>9 DEF Has
  <2>2. i > 1
    BY <1>2, <1>3, <1>9, <2>1
  <2>3. QED
    BY <1>7, <2>1, <2>2
<1>10. Head(script).op = "open" => Has(rest, "close", Head(script).s)
  BY <1>2, <1>3, <1>4, <1>7 DEF InOrder
<1>11. Head(script).op = "start" =>
         /\ Has(rest, "stop", Head(script).s) /\ ~Has(rest, "start", Head(script).s)
         /\ \A s : ~Has(rest, "open", s)
  BY <1>2, <1>3, <1>4, <1>7, <1>8 DEF InOrder
<1>12. ASSUME NEW i \in 1..(n - 1)
       PROVE  /\ rest[i] = script[i + 1] /\ i + 1 \in 1..n
              /\ \A op : (\E j \in 1..n : j > i + 1 /\ script[j].op = op /\ script[j].s = rest[i].s)
                         <=> \E j \in 1..(n - 1) : j > i /\ rest[j].op = op /\ rest[j].s = rest[i].s
              /\ (\A j \in 1..n : j > i + 1 => script[j].op # "open")
                    => \A j \in 1..(n - 1) : j > i => rest[j].op # "open"
  <2>1. rest[i] = script[i + 1] /\ i + 1 \in 1..n /\ i \in Nat
    BY <1>3, <1>4
  <2>2. ASSUME NEW op, NEW j \in 1..n, j > i + 1, script[j].op = op, script[j].s = rest[i].s
        PROVE  \E k \in 1..(n - 1) : k > i /\ rest[k].op = op /\ rest[k].s = rest[i].s
    <3>1. j - 1 \in 1..(n - 1) /\ j - 1 > i /\ rest[j - 1] = script[j]
      BY <1>2, <1>4, <1>6, <2>1, <2>2
    <3>2. QED
      BY <2>2, <3>1
  <2>3. ASSUME NEW op, NEW j \in 1..(n - 1), j > i, rest[j].op = op, rest[j].s = rest[i].s
        PROVE  \E k \in 1..n : k > i + 1 /\ script[k].op = op /\ script[k].s = rest[i].s
    <3>1. j + 1 \in 1..n /\ j + 1 > i + 1 /\ rest[j] = script[j + 1]
      BY <1>2, <1>3, <1>4, <2>1, <2>3
    <3>2. QED
      BY <2>3, <3>1
  <2>4. ASSUME NEW j \in 1..(n - 1), j > i
        PROVE  j + 1 \in 1..n /\ j + 1 > i + 1 /\ rest[j] = script[j + 1]
    BY <1>2, <1>3, <1>4, <2>1, <2>4
  <2>5. QED
    BY <2>1, <2>2, <2>3, <2>4
<1>13. InOrder(rest)
  <2>1. ASSUME NEW i \in 1..(n - 1)
        PROVE  /\ rest[i].op = "start" =>
                    /\ \E j \in 1..(n - 1) : j > i /\ rest[j].op = "stop" /\ rest[j].s = rest[i].s
                    /\ ~\E j \in 1..(n - 1) : j > i /\ rest[j].op = "start" /\ rest[j].s = rest[i].s
                    /\ \A j \in 1..(n - 1) : j > i => rest[j].op # "open"
               /\ rest[i].op = "open" =>
                    \E j \in 1..(n - 1) : j > i /\ rest[j].op = "close" /\ rest[j].s = rest[i].s
    <3> DEFINE InScript(op) == \E j \in 1..n : j > i + 1 /\ script[j].op = op /\ script[j].s = rest[i].s
               InRest(op) == \E j \in 1..(n - 1) : j > i /\ rest[j].op = op /\ rest[j].s = rest[i].s
               NoneInScript == \A j \in 1..n : j > i + 1 => script[j].op # "open"
               NoneInRest == \A j \in 1..(n - 1) : j > i => rest[j].op # "open"
    <3>1. rest[i] = script[i + 1] /\ i + 1 \in 1..n /\ (NoneInScript => NoneInRest)
      BY <1>12
    <3>2. \A op : InScript(op) <=> InRest(op)
      BY <1>12
    <3>3. /\ rest[i].op = "start" => InScript("stop") /\ ~InScript("start") /\ NoneInScript
          /\ rest[i].op = "open" => InScript("close")
      BY <1>2, <3>1 DEF InOrder
    <3>4. /\ rest[i].op = "start" => InRest("stop") /\ ~InRest("start") /\ NoneInRest
          /\ rest[i].op = "open" => InRest("close")
      <4> HIDE DEF InScript, InRest, NoneInScript, NoneInRest
      <4>1. QED
        BY <3>1, <3>2, <3>3
    <3>5. QED
      BY <3>4
  <2>2. QED
    BY <1>2, <2>1 DEF InOrder
<1>14. Has(script, Head(script).op, Head(script).s)
  BY <1>2, <1>3, <1>4 DEF Has
<1>15. QED
  BY <1>1, <1>3, <1>5, <1>9, <1>10, <1>11, <1>13, <1>14

\* While a stream is closed a channel is free (hal_dma_get_chan finds one).
LEMMA FreeChannelLemma ==
  ASSUME NEW open \in SUBSET Streams, NEW s \in Streams \ open,
         NEW taken \in SUBSET Channels, NEW c \in [Streams -> Channels \cup {NoChannel}],
         \A k \in taken : \E t \in open : c[t] = k
  PROVE  \E k \in Channels : k \notin taken
<1>1. SUFFICES ASSUME \A k \in Channels : k \in taken PROVE FALSE
  OBVIOUS
<1> DEFINE others == Streams \ {s}
           f == [k \in Channels |-> CHOOSE t \in others : c[t] = k]
<1>2. \A k \in Channels : \E t \in others : c[t] = k
  BY <1>1
<1>3. f \in [Channels -> others] /\ \A k \in Channels : c[f[k]] = k
  BY <1>2
<1>4. IsFiniteSet(others) /\ Cardinality(others) = Cardinality(Streams) - 1
  BY StreamAssumption, FS_RemoveElement
<1>5. Cardinality(Streams) \in Nat
  BY StreamAssumption, FS_CardinalityType
<1>6. IsFiniteSet(Channels) /\ Cardinality(Channels) = Cardinality(Streams)
  <2>1. 0 \in Int /\ Cardinality(Streams) - 1 \in Int
    BY <1>5
  <2>2. /\ IsFiniteSet(Channels)
        /\ Cardinality(Channels) =
             IF 0 > Cardinality(Streams) - 1 THEN 0 ELSE Cardinality(Streams) - 1 - 0 + 1
    BY <2>1, FS_Interval DEF Channels
  <2>3. QED
    BY <1>5, <2>2
<1>7. Cardinality(others) < Cardinality(Channels)
  BY <1>4, <1>5, <1>6
<1>8. \E x, y \in Channels : x # y /\ f[x] = f[y]
  <2> HIDE DEF f, others
  <2>1. QED
    BY <1>3, <1>4, <1>6, <1>7, FS_PigeonHole
<1>9. QED
  <2> HIDE DEF f
  <2>1. QED
    BY <1>3, <1>8
----------------------------------------------------------------------------
(* The application's calls.                                                  *)

LEMMA ConstantsLemma ==
  /\ Streams \subseteq Nat /\ Output \in Streams /\ NULL \notin Sessions
  /\ Channels \subseteq Nat /\ NoChannel \notin Channels /\ 0 \in Channels
<1>1. Cardinality(Streams) \in Nat /\ Cardinality(Streams) <= NoChannel
  BY StreamAssumption, FS_CardinalityType
<1>2. Cardinality(Streams) # 0
  BY StreamAssumption, FS_EmptySet
<1>3. QED
  BY <1>1, <1>2, StreamAssumption DEF Channels, NoChannel

LEMMA TypePartsLemma == TypeOK <=> RoleTypes /\ HalTypes /\ ThreadTypes /\ FadeTypes /\ FlagTypes
BY DEF TypeOK, RoleTypes, HalTypes, ThreadTypes, FadeTypes, FlagTypes

LEMMA InitLemma == Init => IInv
<1>1. SUFFICES ASSUME Init PROVE IInv
  OBVIOUS
<1>2. TypeOK
  <2>1. RoleTypes
    BY <1>1 DEF Init, RoleTypes
  <2>2. HalTypes
    BY <1>1, ConstantsLemma DEF Init, HalTypes, Idle
  <2>3. ThreadTypes /\ FlagTypes
    BY <1>1 DEF Init, ThreadTypes, FlagTypes
  <2>4. FadeTypes
    BY <1>1 DEF Init, FadeTypes, MaxCount, MaxFaded
  <2>5. QED
    BY <2>1, <2>2, <2>3, <2>4, TypePartsLemma
<1>3. calls = <<>> /\ Len(calls) = 0 /\ CallTypes
  BY <1>1 DEF Init, CallTypes
<1>4. CallsAgree
  BY <1>1, <1>3 DEF Init, CallsAgree, InOrder, Has, Started, Opened
<1>5. PlacesAgree /\ ChannelsAgree /\ HandlersAgree
  BY <1>1, <1>3 DEF Init, PlacesAgree, ChannelsAgree, HandlersAgree, HandlerOwnsBuffer, Opened, Started
<1>6. DmaAgrees
  BY <1>1 DEF Init, DmaAgrees, InStep, Idle, Started
<1>7. QED
  BY <1>2, <1>3, <1>4, <1>5, <1>6 DEF IInv

\* What does not depend on af_thread and the fade-out.
LEMMA FrameLemma ==
  ASSUME IInv, UNCHANGED <<session, calls, roles, hal, halted>>, at' = "opening" <=> at = "opening"
  PROVE  CallTypes' /\ CallsAgree' /\ ChannelsAgree' /\ DmaAgrees'
<1>1. /\ session' = session /\ calls' = calls /\ status' = status /\ pp_index' = pp_index /\ ch' = ch
      /\ handler' = handler /\ chan_enabled' = chan_enabled /\ dma' = dma /\ tc' = tc /\ halted' = halted
  BY DEF roles, hal
<1>2. CallTypes' /\ CallsAgree'
  BY <1>1 DEF IInv, CallTypes, CallsAgree, Started, Opened
<1>3. ChannelsAgree'
  BY <1>1 DEF IInv, ChannelsAgree, Opened
<1>4. DmaAgrees'
  BY <1>1 DEF IInv, DmaAgrees, InStep, Started
<1>5. QED
  BY <1>2, <1>3, <1>4

LEMMA BeginsLemma == IInv /\ (\E name \in Sessions : Begins(name)) => IInv'
<1>1. SUFFICES ASSUME IInv, NEW name \in Sessions, Begins(name) PROVE IInv'
  OBVIOUS
<1>2. calls = <<>> /\ calls' = Script[name] /\ session' = name
  BY <1>1 DEF Begins
<1>3. /\ at' = at /\ status' = status /\ pp_index' = pp_index /\ ch' = ch /\ handler' = handler
      /\ mutex' = mutex /\ chan_enabled' = chan_enabled /\ dma' = dma /\ tc' = tc
      /\ signals' = signals /\ todo' = todo /\ af' = af /\ half' = half /\ late' = late /\ halted' = halted
      /\ UNCHANGED fade /\ content' = content
  BY <1>1 DEF Begins, roles, hal, thread
<1>4. \A op, s : ~Has(calls, op, s)
  BY <1>2 DEF Has
<1>5. \A s \in Streams : ~Started(s) /\ ~Opened(s)
  BY <1>1, <1>4 DEF IInv, CallsAgree
<1>6. \A s \in Streams : pp_index[s] = 0
  BY <1>1, <1>5 DEF IInv, ChannelsAgree
<1>7. TypeOK'
  BY <1>1, <1>3 DEF IInv, TypeOK, fade
<1>8. CallTypes'
  BY <1>2, StreamAssumption DEF CallTypes
<1>9. CallsAgree'
  <2>1. InOrder(calls')
    BY <1>2, StreamAssumption
  <2>2. \A s \in Streams : ~Started(s)' /\ ~Opened(s)'
    BY <1>3, <1>5 DEF Started, Opened
  <2>3. QED
    BY <1>3, <1>6, <2>1, <2>2 DEF CallsAgree
<1>10. at = "call" \/ at \notin {"opening", "waiting", "signalled", "timeout"}
  BY <1>1, <1>2 DEF IInv, PlacesAgree
<1>11. PlacesAgree'
  BY <1>1, <1>3, <1>10 DEF IInv, PlacesAgree, HandlerOwnsBuffer
<1>12. ChannelsAgree'
  BY <1>1, <1>3, <1>10 DEF IInv, ChannelsAgree, Opened
<1>13. DmaAgrees' /\ HandlersAgree'
  BY <1>1, <1>3 DEF IInv, DmaAgrees, InStep, HandlersAgree, Started
<1>14. QED
  BY <1>7, <1>8, <1>9, <1>11, <1>12, <1>13 DEF IInv

\* The call under way, and the calls to come when it returns.
LEMMA CallLemma ==
  ASSUME IInv, NEW op, NEW s, Calls(op, s)
  PROVE  /\ calls # <<>> /\ Head(calls).op = op /\ Head(calls).s = s /\ s \in Streams
         /\ Has(calls, op, s)
         /\ Tail(calls) \in Seq(Requests) /\ InOrder(Tail(calls))
         /\ \A o, t : Has(Tail(calls), o, t) => Has(calls, o, t)
         /\ \A o, t : Has(calls, o, t) /\ (o # op \/ t # s) => Has(Tail(calls), o, t)
         /\ op = "open" => Has(Tail(calls), "close", s)
         /\ op = "start" => /\ Has(Tail(calls), "stop", s) /\ ~Has(Tail(calls), "start", s)
                            /\ \A t : ~Has(Tail(calls), "open", t)
<1>1. calls # <<>> /\ Head(calls).op = op /\ Head(calls).s = s /\ calls \in Seq(Requests) /\ InOrder(calls)
  BY DEF Calls, IInv, CallTypes, CallsAgree
<1>2. Head(calls) \in Requests
  BY <1>1, TailLemma
<1>3. s \in Streams
  BY <1>1, <1>2 DEF Requests
<1>4. QED
  BY <1>1, <1>3, ReturnLemma

LEMMA ReturnTypesLemma == IInv /\ calls # <<>> /\ Returns => CallTypes'
<1>1. SUFFICES ASSUME IInv, calls # <<>>, Returns PROVE CallTypes'
  OBVIOUS
<1>2. calls \in Seq(Requests) /\ session \in Sessions /\ calls' = Tail(calls) /\ session' = session
  BY <1>1 DEF IInv, CallTypes, Returns
<1>3. Tail(calls) \in Seq(Requests)
  BY <1>1, <1>2, TailLemma
<1>4. QED
  BY <1>2, <1>3 DEF CallTypes

\* Before a stream is opened no stream runs and no interrupt is pending.
LEMMA NoneRunsLemma ==
  ASSUME IInv, NEW s, Calls("open", s)
  PROVE  /\ \A t \in Streams : ~Started(t)
         /\ \A c \in Channels : ~dma[c].run
         /\ tc = {}
<1>1. Has(calls, "open", s) /\ s \in Streams
  BY CallLemma
<1>2. \A t \in Streams : ~Started(t)
  BY <1>1 DEF IInv, CallsAgree
<1>3. \A c \in Channels : dma[c].stream \in Streams
  BY DEF IInv, TypeOK
<1>4. \A c \in Channels : ~dma[c].run
  BY <1>2, <1>3 DEF IInv, DmaAgrees
<1>5. tc = {}
  BY <1>4 DEF IInv, DmaAgrees, TypeOK
<1>6. QED
  BY <1>2, <1>4, <1>5

LEMMA OpenBeginsLemma == IInv /\ (\E s \in Streams : OpenBegins(s)) => IInv'
<1>1. SUFFICES ASSUME IInv, NEW s \in Streams, OpenBegins(s) PROVE IInv'
  OBVIOUS
<1>2. /\ Calls("open", s) /\ at = "call" /\ mutex = "free" /\ ~Opened(s)
      /\ at' = "opening" /\ mutex' = "app" /\ ch' = [ch EXCEPT ![s] = 0]
  BY <1>1 DEF OpenBegins, Locked, Opened
<1>3. /\ session' = session /\ calls' = calls /\ status' = status /\ pp_index' = pp_index
      /\ handler' = handler /\ chan_enabled' = chan_enabled /\ dma' = dma /\ tc' = tc
      /\ signals' = signals /\ todo' = todo /\ af' = af /\ half' = half /\ late' = late /\ halted' = halted
      /\ UNCHANGED fade /\ content' = content
  BY <1>1 DEF OpenBegins, hal, thread
<1>4. /\ calls # <<>> /\ Head(calls).op = "open" /\ Head(calls).s = s
      /\ (\A t \in Streams : ~Started(t)) /\ (\A c \in Channels : ~dma[c].run) /\ tc = {}
  BY <1>1, <1>2, CallLemma, NoneRunsLemma
<1>5. ch \in [Streams -> Channels \cup {NoChannel}] /\ ch' \in [Streams -> Channels \cup {NoChannel}]
  BY <1>1, <1>2, ConstantsLemma DEF IInv, TypeOK
<1>6. TypeOK'
  BY <1>1, <1>2, <1>3, <1>5 DEF IInv, TypeOK, fade
<1>7. CallTypes' /\ CallsAgree'
  BY <1>1, <1>3 DEF IInv, CallTypes, CallsAgree, Started, Opened
<1>8. PlacesAgree'
  BY <1>1, <1>2, <1>3, <1>4 DEF IInv, PlacesAgree, HandlerOwnsBuffer, Opened
<1>9. ChannelsAgree'
  <2>1. \A t \in Streams : Opened(t)' = Opened(t) /\ (t # s => ch'[t] = ch[t])
    BY <1>2, <1>3, <1>5 DEF Opened
  <2>2. \A t \in Streams : Opened(t) => t # s
    BY <1>2
  <2>3. \A t \in Streams : ~Opened(t) => pp_index[t] = 0 /\ ch[t] = NoChannel
    BY <1>1, <1>2 DEF IInv, ChannelsAgree
  <2>4. \A t \in Streams : Opened(t)' => ch'[t] \in chan_enabled'
    BY <1>1, <1>3, <2>1, <2>2 DEF IInv, ChannelsAgree
  <2>5. \A t, u \in Streams : Opened(t)' /\ Opened(u)' /\ ch'[t] = ch'[u] => t = u
    BY <1>1, <2>1, <2>2 DEF IInv, ChannelsAgree
  <2>6. \A c \in chan_enabled' : \E t \in Streams : Opened(t)' /\ ch'[t] = c
    BY <1>1, <1>3, <2>1, <2>2 DEF IInv, ChannelsAgree
  <2>7. \A t \in Streams : ~Opened(t)' =>
          pp_index'[t] = 0 /\ (ch'[t] # NoChannel => at' = "opening" /\ Head(calls').s = t)
    BY <1>2, <1>3, <1>4, <2>1, <2>3
  <2>8. QED
    BY <2>4, <2>5, <2>6, <2>7 DEF ChannelsAgree
<1>10. DmaAgrees'
  BY <1>1, <1>3, <1>4 DEF IInv, DmaAgrees, InStep, Started, TypeOK
<1>11. HandlersAgree'
  BY <1>1, <1>2, <1>3, <1>4 DEF IInv, PlacesAgree, HandlersAgree, Started
<1>12. QED
  BY <1>6, <1>7, <1>8, <1>9, <1>10, <1>11 DEF IInv

LEMMA GetChanLemma ==
  ASSUME IInv, NEW s, Calls("open", s), ~Opened(s)
  PROVE  GetChan \in Channels /\ GetChan \notin chan_enabled
<1>1. s \in Streams /\ \A c \in Channels : ~dma[c].run
  BY CallLemma, NoneRunsLemma
<1> DEFINE open == {t \in Streams : Opened(t)}
           unused == {c \in Channels : c \notin chan_enabled /\ ~dma[c].run}
<1>2. /\ chan_enabled \in SUBSET Channels /\ ch \in [Streams -> Channels \cup {NoChannel}]
      /\ \A k \in chan_enabled : \E t \in open : ch[t] = k
  BY DEF IInv, TypeOK, ChannelsAgree
<1>3. s \in Streams \ open /\ open \in SUBSET Streams
  BY <1>1
<1>4. \E k \in Channels : k \notin chan_enabled
  <2> HIDE DEF open
  <2>1. QED
    BY <1>2, <1>3, FreeChannelLemma
<1>5. unused # {} /\ unused \subseteq Nat
  BY <1>1, <1>4, ConstantsLemma
<1>6. Min(unused) \in unused
  <2> HIDE DEF unused
  <2>1. QED
    BY <1>5, MinLemma
<1>7. QED
  BY <1>6 DEF GetChan

LEMMA OpenEndsLemma == IInv /\ (\E s \in Streams : OpenEnds(s)) => IInv'
<1>1. SUFFICES ASSUME IInv, NEW s \in Streams, OpenEnds(s) PROVE IInv'
  OBVIOUS
<1>2. PICK k : k = GetChan
  OBVIOUS
<1>3. /\ Calls("open", s) /\ at = "opening" /\ Returns
      /\ ch' = [ch EXCEPT ![s] = k] /\ chan_enabled' = chan_enabled \cup {k}
      /\ handler' = [handler EXCEPT ![s] = session]
      /\ status' = [status EXCEPT ![s] = "STREAM_OPEN_CLOSE"]
      /\ mutex' = "free" /\ Cleared(s)
  BY <1>1, <1>2 DEF OpenEnds
<1>4. /\ pp_index' = pp_index /\ dma' = dma /\ tc' = tc
      /\ signals' = signals /\ todo' = todo /\ af' = af /\ half' = half /\ late' = late /\ halted' = halted
      /\ UNCHANGED fade
  BY <1>1 DEF OpenEnds, thread
<1>5. /\ calls # <<>> /\ Head(calls).op = "open" /\ Head(calls).s = s
      /\ (\A t \in Streams : ~Started(t)) /\ (\A c \in Channels : ~dma[c].run) /\ tc = {}
  BY <1>1, <1>3, CallLemma, NoneRunsLemma
<1>6. ~Opened(s) /\ mutex = "app" /\ af # "handler"
  BY <1>1, <1>3, <1>5 DEF IInv, PlacesAgree
<1>7. k \in Channels /\ k \notin chan_enabled
  BY <1>1, <1>2, <1>3, <1>6, GetChanLemma
<1>8. calls' = Tail(calls) /\ at' = "call" /\ session' = session /\ session \in Sessions
  BY <1>1, <1>3, <1>5 DEF Returns, IInv, CallTypes
<1>9. /\ status \in [Streams -> {"OPEN_CLOSE", "STREAM_OPEN_CLOSE", "STREAM_START_STOP"}]
      /\ ch \in [Streams -> Channels \cup {NoChannel}]
  BY <1>1 DEF IInv, TypeOK
<1>10. TypeOK'
  <2>1. RoleTypes'
    BY <1>1, <1>3, <1>4, <1>7, <1>8 DEF IInv, TypeOK, RoleTypes
  <2>2. HalTypes' /\ ThreadTypes' /\ FlagTypes'
    BY <1>1, <1>3, <1>4, <1>7, <1>8 DEF IInv, TypeOK, HalTypes, ThreadTypes, FlagTypes
  <2>3. FadeTypes'
    BY <1>1, <1>3, <1>4 DEF IInv, TypeOK, FadeTypes, Cleared, fade
  <2>4. QED
    BY <2>1, <2>2, <2>3 DEF TypeOK, RoleTypes, HalTypes, ThreadTypes, FlagTypes, FadeTypes
<1>11. CallTypes'
  BY <1>1, <1>3, <1>5, ReturnTypesLemma
<1>12. \A t \in Streams : /\ ~Started(t)' /\ (Opened(t)' <=> t = s \/ Opened(t))
                          /\ (t # s => ch'[t] = ch[t]) /\ ch'[s] = k
  BY <1>3, <1>5, <1>9 DEF Started, Opened
<1>13. CallsAgree'
  <2>1. /\ InOrder(calls') /\ Has(calls', "close", s)
        /\ \A o, t : Has(calls', o, t) => Has(calls, o, t)
        /\ \A o, t : Has(calls, o, t) /\ o # "open" => Has(calls', o, t)
    BY <1>1, <1>3, <1>8, CallLemma
  <2>2. \A t \in Streams : Opened(t)' => Has(calls', "close", t)
    BY <1>1, <1>12, <2>1 DEF IInv, CallsAgree
  <2>3. \A t \in Streams : Has(calls', "start", t) => pp_index'[t] = 0
    BY <1>1, <1>4, <2>1 DEF IInv, CallsAgree
  <2>4. QED
    BY <1>12, <2>1, <2>2, <2>3 DEF CallsAgree
<1>14. PlacesAgree'
  BY <1>3, <1>4, <1>6, <1>8 DEF PlacesAgree, HandlerOwnsBuffer
<1>15. ChannelsAgree'
  <2>1. \A t \in Streams : Opened(t)' => ch'[t] \in chan_enabled'
    BY <1>1, <1>3, <1>12 DEF IInv, ChannelsAgree
  <2>2. \A t, u \in Streams : Opened(t)' /\ Opened(u)' /\ ch'[t] = ch'[u] => t = u
    BY <1>1, <1>7, <1>12 DEF IInv, ChannelsAgree
  <2>3. \A c \in chan_enabled' : \E t \in Streams : Opened(t)' /\ ch'[t] = c
    BY <1>1, <1>3, <1>6, <1>12 DEF IInv, ChannelsAgree
  <2>4. \A t \in Streams : ~Opened(t)' => pp_index'[t] = 0 /\ ch'[t] = NoChannel
    BY <1>1, <1>4, <1>5, <1>12 DEF IInv, ChannelsAgree
  <2>5. QED
    BY <2>1, <2>2, <2>3, <2>4 DEF ChannelsAgree
<1>16. DmaAgrees'
  <2>1. \A c \in Channels : ~dma'[c].run
    BY <1>4, <1>5
  <2>2. InStep'
    <3>1. \A t \in Streams : status'[t] # "STREAM_START_STOP"
      BY <1>12 DEF Started
    <3>2. \A t \in Streams : status'[t] = "OPEN_CLOSE" => pp_index'[t] = 0
      BY <1>1, <1>4, <1>12 DEF IInv, ChannelsAgree, Opened
    <3>3. QED
      BY <3>1, <3>2 DEF InStep
  <2>3. QED
    BY <1>1, <1>4, <1>5, <2>1, <2>2 DEF IInv, DmaAgrees
<1>17. HandlersAgree'
  BY <1>4, <1>6, <1>12 DEF HandlersAgree
<1>18. QED
  BY <1>10, <1>11, <1>13, <1>14, <1>15, <1>16, <1>17 DEF IInv

LEMMA StartLemma == IInv /\ (\E s \in Streams : Start(s)) => IInv'
<1>1. SUFFICES ASSUME IInv, NEW s \in Streams, Start(s) PROVE IInv'
  OBVIOUS
<1>2. PICK k : k = ch[s]
  OBVIOUS
<1>3. /\ Calls("start", s) /\ at = "call" /\ mutex = "free" /\ Returns /\ Opened(s)
      /\ dma' = [dma EXCEPT ![k] = [run |-> TRUE, stream |-> s, half |-> 0]]
      /\ tc' = tc \ {k} /\ status' = [status EXCEPT ![s] = "STREAM_START_STOP"]
  BY <1>1, <1>2 DEF Start, Locked, Opened
<1>4. /\ handler' = handler /\ pp_index' = pp_index /\ ch' = ch /\ mutex' = mutex
      /\ chan_enabled' = chan_enabled /\ content' = content /\ UNCHANGED fade
      /\ signals' = signals /\ todo' = todo /\ af' = af /\ half' = half /\ late' = late /\ halted' = halted
  BY <1>1 DEF Start, thread
<1>5. /\ calls # <<>> /\ InOrder(Tail(calls)) /\ Has(calls, "start", s)
      /\ \A o, t : Has(Tail(calls), o, t) => Has(calls, o, t)
      /\ \A o, t : Has(calls, o, t) /\ o # "start" => Has(Tail(calls), o, t)
      /\ Has(Tail(calls), "stop", s) /\ ~Has(Tail(calls), "start", s)
      /\ \A t : ~Has(Tail(calls), "open", t)
  BY <1>1, <1>3, CallLemma
<1>6. calls' = Tail(calls) /\ at' = "call" /\ session' = session
  BY <1>3 DEF Returns
<1>7. /\ status \in [Streams -> {"OPEN_CLOSE", "STREAM_OPEN_CLOSE", "STREAM_START_STOP"}]
      /\ dma \in [Channels -> [run : BOOLEAN, stream : Streams, half : {0, 1}]]
      /\ tc \subseteq Channels /\ chan_enabled \subseteq Channels
  BY <1>1 DEF IInv, TypeOK
<1>8. k \in Channels /\ k \in chan_enabled
  BY <1>1, <1>2, <1>3, <1>7 DEF IInv, ChannelsAgree
<1>9. ~Started(s) /\ pp_index[s] = 0 /\ af # "handler"
  BY <1>1, <1>3, <1>5 DEF IInv, CallsAgree, PlacesAgree
<1>10. /\ \A t \in Streams : (Started(t)' <=> t = s \/ Started(t)) /\ (Opened(t)' <=> Opened(t))
       /\ \A t \in Streams : Opened(t) /\ t # s => ch[t] # k
       /\ dma'[k] = [run |-> TRUE, stream |-> s, half |-> 0]
       /\ \A c \in Channels : c # k => dma'[c] = dma[c]
  BY <1>1, <1>2, <1>3, <1>7, <1>8 DEF Started, Opened, IInv, ChannelsAgree
<1>11. TypeOK'
  <2>1. RoleTypes'
    BY <1>1, <1>3, <1>4 DEF IInv, TypeOK, RoleTypes
  <2>2. HalTypes'
    BY <1>1, <1>3, <1>4, <1>7, <1>8 DEF HalTypes
  <2>3. ThreadTypes' /\ FlagTypes' /\ FadeTypes'
    BY <1>1, <1>4, <1>6 DEF IInv, TypeOK, ThreadTypes, FlagTypes, FadeTypes, fade
  <2>4. QED
    BY <2>1, <2>2, <2>3 DEF TypeOK, RoleTypes, HalTypes, ThreadTypes, FlagTypes, FadeTypes
<1>12. CallTypes'
  BY <1>1, <1>3, <1>5, ReturnTypesLemma
<1>13. CallsAgree'
  <2>1. \A t \in Streams : Started(t)' => Has(calls', "stop", t)
    BY <1>1, <1>5, <1>6, <1>10 DEF IInv, CallsAgree
  <2>2. \A t \in Streams : Opened(t)' => Has(calls', "close", t)
    BY <1>1, <1>5, <1>6, <1>10 DEF IInv, CallsAgree
  <2>3. \A t \in Streams : Has(calls', "start", t) => ~Started(t)' /\ pp_index'[t] = 0
    BY <1>1, <1>4, <1>5, <1>6, <1>10 DEF IInv, CallsAgree
  <2>4. QED
    BY <1>5, <1>6, <2>1, <2>2, <2>3 DEF CallsAgree
<1>14. PlacesAgree'
  BY <1>3, <1>4, <1>6, <1>9 DEF PlacesAgree, HandlerOwnsBuffer
<1>15. ChannelsAgree'
  <2>1. \A t \in Streams : ~Opened(t) => pp_index[t] = 0 /\ ch[t] = NoChannel
    BY <1>1, <1>3 DEF IInv, ChannelsAgree
  <2>2. QED
    BY <1>1, <1>4, <1>10, <2>1 DEF IInv, ChannelsAgree
<1>16. DmaAgrees'
  <2>1. \A c \in Channels : dma'[c].run => status'[dma'[c].stream] = "STREAM_START_STOP" /\ ch'[dma'[c].stream] = c
    <3>1. dma'[k].stream = s /\ status'[s] = "STREAM_START_STOP" /\ ch'[s] = k
      BY <1>2, <1>3, <1>4, <1>7, <1>10
    <3>2. ASSUME NEW c \in Channels, c # k, dma'[c].run
          PROVE  status'[dma'[c].stream] = "STREAM_START_STOP" /\ ch'[dma'[c].stream] = c
      <4>1. dma'[c] = dma[c] /\ dma[c].stream \in Streams
        BY <1>7, <1>10, <3>2
      <4>2. Started(dma[c].stream) /\ ch[dma[c].stream] = c
        BY <1>1, <3>2, <4>1 DEF IInv, DmaAgrees
      <4>3. QED
        BY <1>3, <1>4, <1>7, <4>1, <4>2 DEF Started
    <3>3. QED
      BY <3>1, <3>2
  <2>2. \A c \in tc' : dma'[c].run
    BY <1>1, <1>3, <1>7, <1>10 DEF IInv, DmaAgrees
  <2>3. InStep'
    <3>1. ASSUME NEW t \in Streams, Started(t)'
          PROVE  /\ dma'[ch'[t]].run /\ dma'[ch'[t]].stream = t
                 /\ pp_index'[t] = IF ch'[t] \in tc' THEN 1 - dma'[ch'[t]].half ELSE dma'[ch'[t]].half
      <4>1. CASE t = s
        BY <1>2, <1>3, <1>4, <1>9, <1>10, <4>1
      <4>2. CASE t # s
        <5>1. Started(t) /\ ch[t] # k /\ ch[t] \in Channels
          BY <1>1, <1>7, <1>10, <3>1, <4>2 DEF Started, Opened, IInv, ChannelsAgree
        <5>2. /\ dma[ch[t]].run /\ dma[ch[t]].stream = t
              /\ pp_index[t] = IF ch[t] \in tc THEN 1 - dma[ch[t]].half ELSE dma[ch[t]].half
          BY <1>1, <5>1 DEF IInv, DmaAgrees, InStep, Started
        <5>3. dma'[ch[t]] = dma[ch[t]] /\ (ch[t] \in tc' <=> ch[t] \in tc)
          BY <1>3, <1>10, <5>1
        <5>4. QED
          BY <1>4, <5>2, <5>3
      <4>3. QED
        BY <4>1, <4>2
    <3>2. \A t \in Streams : status'[t] = "OPEN_CLOSE" => pp_index'[t] = 0
      BY <1>1, <1>4, <1>10 DEF IInv, ChannelsAgree, Opened
    <3>3. QED
      BY <3>1, <3>2 DEF InStep, Started
  <2>4. QED
    BY <1>1, <1>4, <2>1, <2>2, <2>3 DEF IInv, DmaAgrees, Started
<1>17. HandlersAgree'
  <2>1. k \notin tc' /\ tc' \subseteq tc
    BY <1>3
  <2>2. QED
    BY <1>1, <1>2, <1>4, <1>9, <1>10, <2>1 DEF IInv, HandlersAgree
<1>18. QED
  BY <1>11, <1>12, <1>13, <1>14, <1>15, <1>16, <1>17 DEF IInv

\* A channel that is cancelled: the streams that have others keep theirs.
Cancelled(s, state) ==
  /\ ch[s] \in Channels /\ tc' \subseteq tc
  /\ dma' \in [Channels -> [run : BOOLEAN, stream : Streams, half : {0, 1}]]
  /\ ~dma'[ch[s]].run /\ \A c \in Channels : c # ch[s] => dma'[c] = dma[c]
  /\ \A t \in Streams : status'[t] = IF t = s THEN state ELSE status[t]
  /\ \A t \in Streams : status'[t] = "STREAM_START_STOP" => Started(t) /\ t # s
  /\ \A t \in Streams : Opened(t) /\ t # s => ch[t] # ch[s] /\ ch[t] \in Channels
  /\ \A c \in Channels : dma'[c].run =>
       c # ch[s] /\ dma[c].run /\ dma'[c].stream # s /\ Started(dma'[c].stream) /\ ch[dma'[c].stream] = c
  /\ \A c \in tc' : dma'[c].run
  /\ \A t \in Streams : status'[t] = "STREAM_START_STOP" => (ch[t] \in tc' <=> ch[t] \in tc)

LEMMA CancelLemma ==
  ASSUME IInv, NEW s \in Streams, Opened(s), hal_dma_cancel(ch[s]),
         NEW state \in {"OPEN_CLOSE", "STREAM_OPEN_CLOSE"}, status' = [status EXCEPT ![s] = state]
  PROVE  Cancelled(s, state)
<1>1. /\ status \in [Streams -> {"OPEN_CLOSE", "STREAM_OPEN_CLOSE", "STREAM_START_STOP"}]
      /\ dma \in [Channels -> [run : BOOLEAN, stream : Streams, half : {0, 1}]]
      /\ tc \subseteq Channels /\ chan_enabled \subseteq Channels
  BY DEF IInv, TypeOK
<1>2. ch[s] \in Channels /\ HalTypes
  BY <1>1 DEF IInv, ChannelsAgree, HalTypes
<1>3. PICK k \in Channels : k = ch[s]
  BY <1>2
<1>4. dma' = [dma EXCEPT ![k].run = FALSE] /\ tc' = tc \ {k}
  BY <1>3 DEF hal_dma_cancel
<1>5. /\ dma' \in [Channels -> [run : BOOLEAN, stream : Streams, half : {0, 1}]]
      /\ ~dma'[k].run /\ \A c \in Channels : c # k => dma'[c] = dma[c]
  BY <1>1, <1>4
<1>6. \A t \in Streams : status'[t] = IF t = s THEN state ELSE status[t]
  BY <1>1
<1>7. \A t \in Streams : status'[t] = "STREAM_START_STOP" => Started(t) /\ t # s
  BY <1>6 DEF Started
<1>8. \A t \in Streams : Opened(t) /\ t # s => ch[t] # k /\ ch[t] \in Channels
  BY <1>1, <1>3 DEF IInv, ChannelsAgree
<1>9. \A c \in Channels : dma'[c].run =>
        c # k /\ dma[c].run /\ dma'[c].stream # s /\ Started(dma'[c].stream) /\ ch[dma'[c].stream] = c
  BY <1>3, <1>5 DEF IInv, DmaAgrees
<1>10. \A c \in tc' : dma'[c].run
  BY <1>1, <1>4, <1>5 DEF IInv, DmaAgrees
<1>11. \A t \in Streams : status'[t] = "STREAM_START_STOP" => (ch[t] \in tc' <=> ch[t] \in tc)
  BY <1>4, <1>7, <1>8 DEF Started, Opened
<1>12. QED
  BY <1>2, <1>3, <1>4, <1>5, <1>6, <1>7, <1>8, <1>9, <1>10, <1>11 DEF Cancelled

LEMMA CancelInStepLemma ==
  ASSUME IInv, NEW s \in Streams, Opened(s), hal_dma_cancel(ch[s]),
         NEW state \in {"OPEN_CLOSE", "STREAM_OPEN_CLOSE"}, status' = [status EXCEPT ![s] = state],
         \A t \in Streams : t # s => ch'[t] = ch[t] /\ pp_index'[t] = pp_index[t],
         state = "OPEN_CLOSE" => pp_index'[s] = 0, halted' = halted
  PROVE  DmaAgrees'
<1>0. Cancelled(s, state)
  BY CancelLemma
<1>1. /\ \A c \in Channels : c # ch[s] => dma'[c] = dma[c]
      /\ \A t \in Streams : status'[t] = IF t = s THEN state ELSE status[t]
      /\ \A t \in Streams : status'[t] = "STREAM_START_STOP" => Started(t) /\ t # s
      /\ \A t \in Streams : Opened(t) /\ t # s => ch[t] # ch[s] /\ ch[t] \in Channels
      /\ \A t \in Streams : status'[t] = "STREAM_START_STOP" => (ch[t] \in tc' <=> ch[t] \in tc)
      /\ \A c \in tc' : dma'[c].run
      /\ dma' \in [Channels -> [run : BOOLEAN, stream : Streams, half : {0, 1}]]
  BY <1>0 DEF Cancelled
<1>2. \A c \in Channels : dma'[c].run =>
        c # ch[s] /\ dma[c].run /\ dma'[c].stream # s /\ Started(dma'[c].stream) /\ ch[dma'[c].stream] = c
  BY <1>0 DEF Cancelled
<1>3. \A c \in Channels : dma'[c].run =>
        status'[dma'[c].stream] = "STREAM_START_STOP" /\ ch'[dma'[c].stream] = c
  <2>1. \A c \in Channels : dma'[c].stream \in Streams
    BY <1>1
  <2>2. QED
    BY <1>1, <1>2, <2>1 DEF Started
<1>4. ASSUME NEW t \in Streams, status'[t] = "STREAM_START_STOP"
      PROVE  /\ dma'[ch'[t]].run /\ dma'[ch'[t]].stream = t
             /\ pp_index'[t] = IF ch'[t] \in tc' THEN 1 - dma'[ch'[t]].half ELSE dma'[ch'[t]].half
  <2>1. Started(t) /\ t # s
    BY <1>1, <1>4
  <2>2. Opened(t) /\ ch[t] # ch[s] /\ ch[t] \in Channels
    BY <1>1, <2>1 DEF Started, Opened
  <2>3. ch'[t] = ch[t] /\ pp_index'[t] = pp_index[t] /\ dma'[ch[t]] = dma[ch[t]]
        /\ (ch[t] \in tc' <=> ch[t] \in tc)
    BY <1>1, <1>4, <2>1, <2>2
  <2>4. /\ dma[ch[t]].run /\ dma[ch[t]].stream = t
        /\ pp_index[t] = IF ch[t] \in tc THEN 1 - dma[ch[t]].half ELSE dma[ch[t]].half
    BY <2>1 DEF IInv, DmaAgrees, InStep, Started
  <2>5. QED
    BY <2>3, <2>4
<1>5. \A t \in Streams : status'[t] = "OPEN_CLOSE" => pp_index'[t] = 0
  BY <1>1 DEF IInv, ChannelsAgree, Opened
<1>6. InStep'
  BY <1>4, <1>5 DEF InStep, Started
<1>7. QED
  BY <1>1, <1>3, <1>6 DEF IInv, DmaAgrees, Started

\* The stop of a stream, faded or not.
StopsNow(s) ==
  /\ Calls("stop", s) /\ Started(s) /\ mutex = "free" /\ Returns
  /\ hal_dma_cancel(ch[s]) /\ status' = [status EXCEPT ![s] = "STREAM_OPEN_CLOSE"]
  /\ UNCHANGED <<handler, pp_index, ch, mutex, chan_enabled, thread, content, late, halted>>

LEMMA StopsLemma == IInv /\ (\E s \in Streams : StopsNow(s)) /\ FadeTypes' => IInv'
<1>1. SUFFICES ASSUME IInv, NEW s \in Streams, StopsNow(s), FadeTypes' PROVE IInv'
  OBVIOUS
<1>2. /\ Calls("stop", s) /\ Started(s) /\ Opened(s) /\ mutex = "free" /\ Returns
      /\ hal_dma_cancel(ch[s]) /\ status' = [status EXCEPT ![s] = "STREAM_OPEN_CLOSE"]
  BY <1>1 DEF StopsNow, Started, Opened
<1>3. /\ handler' = handler /\ pp_index' = pp_index /\ ch' = ch /\ mutex' = mutex
      /\ chan_enabled' = chan_enabled /\ content' = content
      /\ signals' = signals /\ todo' = todo /\ af' = af /\ half' = half /\ late' = late /\ halted' = halted
  BY <1>1 DEF StopsNow, thread
<1>4. calls' = Tail(calls) /\ at' = "call" /\ session' = session
  BY <1>2 DEF Returns
<1>5. /\ calls # <<>> /\ InOrder(Tail(calls))
      /\ \A o, t : Has(Tail(calls), o, t) => Has(calls, o, t)
      /\ \A o, t : Has(calls, o, t) /\ (o # "stop" \/ t # s) => Has(Tail(calls), o, t)
  BY <1>1, <1>2, CallLemma
<1>6. /\ tc' \subseteq tc /\ dma' \in [Channels -> [run : BOOLEAN, stream : Streams, half : {0, 1}]]
      /\ \A t \in Streams : status'[t] = IF t = s THEN "STREAM_OPEN_CLOSE" ELSE status[t]
      /\ \A t \in Streams : status'[t] = "STREAM_START_STOP" => Started(t) /\ t # s
  <2>1. Cancelled(s, "STREAM_OPEN_CLOSE")
    BY <1>1, <1>2, CancelLemma
  <2>2. QED
    BY <2>1 DEF Cancelled
<1>7. af # "handler" /\ at # "opening"
  BY <1>1, <1>2 DEF IInv, PlacesAgree
<1>8. TypeOK'
  <2>1. RoleTypes'
    BY <1>1, <1>2, <1>3 DEF IInv, TypeOK, RoleTypes
  <2>2. HalTypes' /\ ThreadTypes' /\ FlagTypes'
    BY <1>1, <1>3, <1>4, <1>6 DEF IInv, TypeOK, HalTypes, ThreadTypes, FlagTypes
  <2>3. QED
    BY <1>1, <2>1, <2>2 DEF TypeOK, RoleTypes, HalTypes, ThreadTypes, FlagTypes, FadeTypes
<1>9. CallTypes'
  BY <1>1, <1>2, <1>5, ReturnTypesLemma
<1>10. \A t \in Streams : Opened(t)' <=> Opened(t)
  BY <1>2, <1>6 DEF Opened
<1>11. CallsAgree'
  <2>1. \A t \in Streams : Started(t)' => Has(calls', "stop", t)
    BY <1>1, <1>4, <1>5, <1>6 DEF IInv, CallsAgree, Started
  <2>2. \A t \in Streams : Opened(t)' => Has(calls', "close", t)
    BY <1>1, <1>4, <1>5, <1>10 DEF IInv, CallsAgree
  <2>3. \A t \in Streams : Has(calls', "start", t) => ~Started(t)' /\ pp_index'[t] = 0
    BY <1>1, <1>3, <1>4, <1>5, <1>6 DEF IInv, CallsAgree, Started
  <2>4. \A t, u \in Streams : Has(calls', "open", u) => ~Started(t)'
    BY <1>1, <1>4, <1>5, <1>6 DEF IInv, CallsAgree, Started
  <2>5. QED
    BY <1>4, <1>5, <2>1, <2>2, <2>3, <2>4 DEF CallsAgree
<1>12. PlacesAgree'
  BY <1>2, <1>3, <1>4, <1>7 DEF PlacesAgree, HandlerOwnsBuffer
<1>13. ChannelsAgree'
  <2>1. \A t \in Streams : ~Opened(t) => pp_index[t] = 0 /\ ch[t] = NoChannel
    BY <1>1, <1>7 DEF IInv, ChannelsAgree
  <2>2. QED
    BY <1>1, <1>3, <1>10, <2>1 DEF IInv, ChannelsAgree
<1>14. DmaAgrees'
  BY <1>1, <1>2, <1>3, CancelInStepLemma
<1>15. HandlersAgree'
  BY <1>1, <1>3, <1>6, <1>7 DEF IInv, HandlersAgree, Started
<1>16. QED
  BY <1>8, <1>9, <1>11, <1>12, <1>13, <1>14, <1>15 DEF IInv

LEMMA StopLemma == IInv /\ (\E s \in Streams : Stop(s)) => IInv'
<1>1. SUFFICES ASSUME IInv, NEW s \in Streams, Stop(s) PROVE IInv'
  OBVIOUS
<1>2. StopsNow(s) /\ UNCHANGED fade
  BY <1>1 DEF Stop, StopsNow, Locked, Started
<1>3. FadeTypes'
  BY <1>1, <1>2 DEF StopsNow, IInv, TypeOK, FadeTypes, fade
<1>4. QED
  BY <1>1, <1>2, <1>3, StopsLemma

LEMMA StopFinishedLemma == IInv /\ StopFinished => IInv'
<1>1. SUFFICES ASSUME IInv, StopFinished PROVE IInv'
  OBVIOUS
<1>2. calls # <<>> /\ Head(calls).op = "stop" /\ Head(calls).s = Output /\ Started(Output)
  BY <1>1 DEF StopFinished, IInv, PlacesAgree
<1>3. StopsNow(Output)
  BY <1>1, <1>2 DEF StopFinished, StopsNow, Calls
<1>4. FadeTypes'
  <2>1. /\ stop_on_process' = FALSE /\ stop_process_cnt' = 0 /\ faded' = 0 /\ need_fadeout' = need_fadeout
        /\ stop_signal' = stop_signal /\ content' = content
    BY <1>1 DEF StopFinished
  <2>2. need_fadeout \in Nat /\ stop_signal \in BOOLEAN /\ content \in [{0, 1} -> {"sound", "fading", "zero"}]
    BY <1>1 DEF IInv, TypeOK
  <2>3. stop_on_process' \in BOOLEAN /\ stop_signal' \in BOOLEAN
    BY <2>1, <2>2, Zenon
  <2>4. stop_process_cnt' \in 0..MaxCount /\ faded' \in 0..MaxFaded
    BY <2>1 DEF MaxCount, MaxFaded
  <2>5. need_fadeout' \in Nat /\ content' \in [{0, 1} -> {"sound", "fading", "zero"}]
    BY <2>1, <2>2
  <2>6. QED
    BY <2>3, <2>4, <2>5, Zenon DEF FadeTypes
<1>5. QED
  BY <1>1, <1>3, <1>4, ConstantsLemma, StopsLemma

LEMMA CloseLemma == IInv /\ (\E s \in Streams : Close(s)) => IInv'
<1>1. SUFFICES ASSUME IInv, NEW s \in Streams, Close(s) PROVE IInv'
  OBVIOUS
<1>2. /\ Calls("close", s) /\ Opened(s) /\ ~Started(s) /\ mutex = "free" /\ Returns
      /\ hal_dma_cancel(ch[s]) /\ status' = [status EXCEPT ![s] = "OPEN_CLOSE"]
      /\ chan_enabled' = chan_enabled \ {ch[s]} /\ handler' = [handler EXCEPT ![s] = NULL]
      /\ pp_index' = [pp_index EXCEPT ![s] = 0] /\ ch' = [ch EXCEPT ![s] = NoChannel] /\ Cleared(s)
  BY <1>1 DEF Close, Locked, Opened, Started
<1>3. /\ mutex' = mutex /\ signals' = signals /\ todo' = todo /\ af' = af /\ half' = half
      /\ late' = late /\ halted' = halted /\ UNCHANGED fade
  BY <1>1 DEF Close, thread
<1>4. calls' = Tail(calls) /\ at' = "call" /\ session' = session
  BY <1>2 DEF Returns
<1>5. /\ calls # <<>> /\ InOrder(Tail(calls))
      /\ \A o, t : Has(Tail(calls), o, t) => Has(calls, o, t)
      /\ \A o, t : Has(calls, o, t) /\ (o # "close" \/ t # s) => Has(Tail(calls), o, t)
  BY <1>1, <1>2, CallLemma
<1>6. /\ tc' \subseteq tc /\ dma' \in [Channels -> [run : BOOLEAN, stream : Streams, half : {0, 1}]]
      /\ \A t \in Streams : status'[t] = IF t = s THEN "OPEN_CLOSE" ELSE status[t]
      /\ \A t \in Streams : status'[t] = "STREAM_START_STOP" => Started(t) /\ t # s
      /\ \A t \in Streams : Opened(t) /\ t # s => ch[t] # ch[s] /\ ch[t] \in Channels
      /\ \A t \in Streams : status'[t] = "STREAM_START_STOP" => (ch[t] \in tc' <=> ch[t] \in tc)
  <2>1. Cancelled(s, "OPEN_CLOSE")
    BY <1>1, <1>2, CancelLemma
  <2>2. QED
    BY <2>1 DEF Cancelled
<1>7. af # "handler" /\ at # "opening"
  BY <1>1, <1>2 DEF IInv, PlacesAgree
<1>8. /\ pp_index \in [Streams -> {0, 1}] /\ ch \in [Streams -> Channels \cup {NoChannel}]
      /\ handler \in [Streams -> Sessions \cup {NULL}] /\ chan_enabled \subseteq Channels
  BY <1>1 DEF IInv, TypeOK
<1>9. \A t \in Streams : /\ t # s => ch'[t] = ch[t] /\ pp_index'[t] = pp_index[t] /\ (Opened(t)' <=> Opened(t))
                         /\ ch'[s] = NoChannel /\ pp_index'[s] = 0 /\ ~Opened(s)'
  BY <1>2, <1>6, <1>8 DEF Opened
<1>10. TypeOK'
  <2>1. RoleTypes'
    BY <1>1, <1>2, <1>8 DEF IInv, TypeOK, RoleTypes
  <2>2. HalTypes' /\ ThreadTypes' /\ FlagTypes'
    BY <1>1, <1>2, <1>3, <1>4, <1>6 DEF IInv, TypeOK, HalTypes, ThreadTypes, FlagTypes
  <2>3. FadeTypes'
    BY <1>1, <1>2, <1>3 DEF IInv, TypeOK, FadeTypes, Cleared, fade
  <2>4. QED
    BY <2>1, <2>2, <2>3 DEF TypeOK, RoleTypes, HalTypes, ThreadTypes, FlagTypes, FadeTypes
<1>11. CallTypes'
  BY <1>1, <1>2, <1>5, ReturnTypesLemma
<1>12. CallsAgree'
  <2>1. \A t \in Streams : Started(t)' => Has(calls', "stop", t)
    BY <1>1, <1>4, <1>5, <1>6 DEF IInv, CallsAgree, Started
  <2>2. \A t \in Streams : Opened(t)' => Has(calls', "close", t)
    BY <1>1, <1>4, <1>5, <1>9 DEF IInv, CallsAgree
  <2>3. \A t \in Streams : Has(calls', "start", t) => ~Started(t)' /\ pp_index'[t] = 0
    BY <1>1, <1>4, <1>5, <1>6, <1>9 DEF IInv, CallsAgree, Started
  <2>4. \A t, u \in Streams : Has(calls', "open", u) => ~Started(t)'
    BY <1>1, <1>4, <1>5, <1>6 DEF IInv, CallsAgree, Started
  <2>5. QED
    BY <1>4, <1>5, <2>1, <2>2, <2>3, <2>4 DEF CallsAgree
<1>13. PlacesAgree'
  BY <1>2, <1>3, <1>4, <1>7 DEF PlacesAgree, HandlerOwnsBuffer
<1>14. ChannelsAgree'
  <2>1. \A t \in Streams : ~Opened(t) => pp_index[t] = 0 /\ ch[t] = NoChannel
    BY <1>1, <1>7 DEF IInv, ChannelsAgree
  <2>2. \A t \in Streams : Opened(t)' => t # s /\ Opened(t) /\ ch'[t] = ch[t] /\ ch'[t] \in chan_enabled'
    BY <1>1, <1>2, <1>6, <1>9 DEF IInv, ChannelsAgree
  <2>3. \A t, u \in Streams : Opened(t)' /\ Opened(u)' /\ ch'[t] = ch'[u] => t = u
    BY <1>1, <2>2 DEF IInv, ChannelsAgree
  <2>4. \A c \in chan_enabled' : \E t \in Streams : Opened(t)' /\ ch'[t] = c
    BY <1>1, <1>2, <1>9 DEF IInv, ChannelsAgree
  <2>5. \A t \in Streams : ~Opened(t)' => pp_index'[t] = 0 /\ ch'[t] = NoChannel
    BY <1>9, <2>1
  <2>6. QED
    BY <2>2, <2>3, <2>4, <2>5 DEF ChannelsAgree
<1>15. DmaAgrees'
  BY <1>1, <1>2, <1>3, <1>9, CancelInStepLemma
<1>16. HandlersAgree'
  BY <1>1, <1>3, <1>6, <1>7, <1>9 DEF IInv, HandlersAgree, Started
<1>17. QED
  BY <1>10, <1>11, <1>12, <1>13, <1>14, <1>15, <1>16 DEF IInv

\* What waits for the fade-out changes only its own variables.
LEMMA WaitLemma ==
  ASSUME IInv, UNCHANGED <<session, calls, roles, mutex, hal, thread, content, late, halted>>,
         at # "opening", at' \notin {"call", "opening"}, at' \in {"waiting", "signalled", "timeout"},
         calls # <<>>, Head(calls).op = "stop", Head(calls).s = Output, Started(Output), FadeTypes'
  PROVE  IInv'
<1>1. /\ session' = session /\ calls' = calls /\ status' = status /\ pp_index' = pp_index /\ ch' = ch
      /\ handler' = handler /\ chan_enabled' = chan_enabled /\ dma' = dma /\ tc' = tc /\ halted' = halted
      /\ mutex' = mutex /\ signals' = signals /\ todo' = todo /\ af' = af /\ half' = half /\ late' = late
  BY DEF roles, hal, thread
<1>2. CallTypes' /\ CallsAgree' /\ ChannelsAgree' /\ DmaAgrees'
  BY <1>1, FrameLemma
<1>3. TypeOK'
  BY <1>1 DEF IInv, TypeOK, FadeTypes
<1>4. PlacesAgree'
  BY <1>1 DEF IInv, PlacesAgree, HandlerOwnsBuffer, Started
<1>5. HandlersAgree'
  BY <1>1 DEF IInv, HandlersAgree, Started
<1>6. QED
  BY <1>2, <1>3, <1>4, <1>5 DEF IInv

LEMMA StopWaitsLemma == IInv /\ (StopRequested \/ StopSignalled \/ StopTimeout) => IInv'
<1>1. ASSUME IInv, StopRequested PROVE IInv'
  <2>1. /\ Calls("stop", Output) /\ at = "call" /\ Started(Output) /\ at' = "waiting"
        /\ need_fadeout' = FadeCalls[session] /\ stop_on_process' = TRUE /\ stop_signal' = FALSE
        /\ stop_process_cnt' = stop_process_cnt /\ faded' = faded /\ content' = content
        /\ UNCHANGED <<session, calls, roles, mutex, hal, thread, content, late, halted>>
    BY <1>1 DEF StopRequested, Locked, Started
  <2>2. calls # <<>> /\ Head(calls).op = "stop" /\ Head(calls).s = Output /\ session \in Sessions
    BY <1>1, <2>1 DEF Calls, IInv, CallTypes
  <2>3. FadeTypes'
    <3>1. stop_on_process' \in BOOLEAN /\ stop_signal' \in BOOLEAN
      BY <2>1, Zenon
    <3>2. need_fadeout' \in Nat
      BY <2>1, <2>2, StreamAssumption
    <3>3. /\ stop_process_cnt' \in 0..MaxCount /\ faded' \in 0..MaxFaded
          /\ content' \in [{0, 1} -> {"sound", "fading", "zero"}]
      BY <1>1, <2>1 DEF IInv, TypeOK
    <3>4. QED
      BY <3>1, <3>2, <3>3, Zenon DEF FadeTypes
  <2>4. QED
    BY <1>1, <2>1, <2>2, <2>3, WaitLemma
<1>2. ASSUME IInv, StopSignalled \/ StopTimeout PROVE IInv'
  <2>1. /\ at = "waiting" /\ at' \in {"signalled", "timeout"}
        /\ stop_on_process' = stop_on_process /\ stop_process_cnt' = stop_process_cnt
        /\ need_fadeout' = need_fadeout /\ faded' = faded /\ content' = content
        /\ stop_signal' = stop_signal \/ stop_signal' = FALSE
        /\ UNCHANGED <<session, calls, roles, mutex, hal, thread, content, late, halted>>
    BY <1>2 DEF StopSignalled, StopTimeout, fade
  <2>2. calls # <<>> /\ Head(calls).op = "stop" /\ Head(calls).s = Output /\ Started(Output)
    BY <1>2, <2>1 DEF IInv, PlacesAgree
  <2>3. FadeTypes'
    <3>1. stop_on_process' \in BOOLEAN /\ stop_signal' \in BOOLEAN
      <4>1. stop_on_process \in BOOLEAN /\ stop_signal \in BOOLEAN
        BY <1>2 DEF IInv, TypeOK
      <4>2. QED
        BY <2>1, <4>1, Zenon
    <3>2. /\ need_fadeout' \in Nat /\ stop_process_cnt' \in 0..MaxCount /\ faded' \in 0..MaxFaded
          /\ content' \in [{0, 1} -> {"sound", "fading", "zero"}]
      BY <1>2, <2>1 DEF IInv, TypeOK
    <3>3. QED
      BY <3>1, <3>2, Zenon DEF FadeTypes
  <2>4. QED
    BY <1>2, <2>1, <2>2, <2>3, WaitLemma
<1>3. QED
  BY <1>1, <1>2
----------------------------------------------------------------------------
(* The DMA and its interrupt.                                                *)

\* The interrupt that is pending is for a stream that runs, and finds it.
LEMMA IrqFindsLemma ==
  ASSUME IInv, NEW c \in tc
  PROVE  /\ c \in Channels /\ dma[c].stream \in Streams /\ Started(dma[c].stream)
         /\ ch[dma[c].stream] = c /\ dma[c].run
         /\ RolesOf(c) = {dma[c].stream} /\ Min(RolesOf(c)) = dma[c].stream
<1>1. c \in Channels /\ dma[c].stream \in Streams /\ dma[c].run
  BY DEF IInv, TypeOK, DmaAgrees
<1>2. PICK s \in Streams : s = dma[c].stream
  BY <1>1
<1>3. Started(s) /\ Opened(s) /\ ch[s] = c
  BY <1>1, <1>2 DEF IInv, DmaAgrees, Started, Opened
<1>4. at # "opening"
  <2>1. Has(calls, "open", Head(calls).s) /\ Head(calls).s \in Streams => FALSE
    BY <1>3 DEF IInv, CallsAgree
  <2>2. ASSUME at = "opening" PROVE FALSE
    <3>1. Calls("open", Head(calls).s)
      BY <2>2 DEF Calls, IInv, PlacesAgree, DmaAgrees
    <3>2. QED
      BY <2>1, <3>1, CallLemma
  <2>3. QED
    BY <2>2
<1>5. \A t \in Streams : ch[t] = c => t = s
  <2>1. c # NoChannel
    BY <1>1, ConstantsLemma
  <2>2. \A t \in Streams : ~Opened(t) => ch[t] = NoChannel
    BY <1>4 DEF IInv, ChannelsAgree
  <2>3. QED
    BY <1>3, <2>1, <2>2 DEF IInv, ChannelsAgree
<1>6. RolesOf(c) = {s}
  BY <1>3, <1>5 DEF RolesOf
<1>7. Min({s}) = s
  <2>1. {s} \subseteq Nat /\ {s} # {}
    BY ConstantsLemma
  <2>2. Min({s}) \in {s}
    BY <2>1, MinLemma
  <2>3. QED
    BY <2>2
<1>8. QED
  BY <1>1, <1>2, <1>3, <1>6, <1>7

LEMMA HalfEndsLemma == IInv /\ (\E c \in Channels : HalfEnds(c)) => IInv'
<1>1. SUFFICES ASSUME IInv, NEW c \in Channels, HalfEnds(c) PROVE IInv'
  OBVIOUS
<1>2. PICK s : s = dma[c].stream
  OBVIOUS
<1>3. /\ dma[c].run /\ c \notin tc
      /\ dma' = [dma EXCEPT ![c].half = 1 - dma[c].half] /\ tc' = tc \cup {c}
      /\ late' = (late \/ ~Processed(s))
  BY <1>1, <1>2 DEF HalfEnds
<1>4. /\ session' = session /\ calls' = calls /\ at' = at /\ status' = status /\ handler' = handler
      /\ pp_index' = pp_index /\ ch' = ch /\ mutex' = mutex /\ chan_enabled' = chan_enabled
      /\ signals' = signals /\ todo' = todo /\ af' = af /\ half' = half /\ halted' = halted
      /\ content' = content /\ UNCHANGED fade
  BY <1>1 DEF HalfEnds, application, roles, thread
<1>5. /\ dma \in [Channels -> [run : BOOLEAN, stream : Streams, half : {0, 1}]]
      /\ tc \subseteq Channels /\ todo \subseteq Streams
      /\ ch \in [Streams -> Channels \cup {NoChannel}] /\ late \in BOOLEAN
  BY <1>1 DEF IInv, TypeOK
<1>6. /\ s \in Streams /\ Started(s) /\ Opened(s) /\ ch[s] = c
      /\ \A t \in Streams : Opened(t) /\ t # s => ch[t] # c
  BY <1>1, <1>2, <1>3, <1>5 DEF IInv, DmaAgrees, ChannelsAgree, Started, Opened
<1>7. /\ dma' \in [Channels -> [run : BOOLEAN, stream : Streams, half : {0, 1}]]
      /\ \A d \in Channels : d # c => dma'[d] = dma[d]
      /\ \A d \in Channels : dma'[d].run = dma[d].run /\ dma'[d].stream = dma[d].stream
      /\ dma'[c].half = 1 - dma[c].half /\ dma[c].half \in {0, 1}
  <2>1. dma[c].half \in {0, 1} /\ 1 - dma[c].half \in {0, 1}
    BY <1>5
  <2>2. PICK h \in {0, 1} : h = 1 - dma[c].half
    BY <2>1
  <2>3. dma' = [dma EXCEPT ![c].half = h]
    BY <1>3, <2>2
  <2>4. QED
    BY <1>5, <2>1, <2>2, <2>3
<1>8. TypeOK'
  <2>1. RoleTypes'
    BY <1>1, <1>4 DEF IInv, TypeOK, RoleTypes
  <2>2. HalTypes'
    BY <1>1, <1>3, <1>4, <1>7 DEF IInv, TypeOK, HalTypes
  <2>3. ThreadTypes' /\ FadeTypes'
    BY <1>1, <1>4 DEF IInv, TypeOK, ThreadTypes, FadeTypes, fade
  <2>4. FlagTypes'
    <3>1. late' \in BOOLEAN
      BY <1>3, Zenon
    <3>2. QED
      BY <1>1, <1>4, <3>1 DEF IInv, TypeOK, FlagTypes
  <2>5. QED
    BY <2>1, <2>2, <2>3, <2>4 DEF TypeOK, RoleTypes, HalTypes, ThreadTypes, FlagTypes, FadeTypes
<1>9. CallTypes' /\ CallsAgree' /\ PlacesAgree' /\ ChannelsAgree'
  <2>1. CallTypes' /\ CallsAgree'
    BY <1>1, <1>4 DEF IInv, CallTypes, CallsAgree, Started, Opened
  <2>2. PlacesAgree'
    BY <1>1, <1>4 DEF IInv, PlacesAgree, HandlerOwnsBuffer, Started, Opened
  <2>3. ChannelsAgree'
    BY <1>1, <1>4 DEF IInv, ChannelsAgree, Opened
  <2>4. QED
    BY <2>1, <2>2, <2>3
<1>10. DmaAgrees'
  <2>1. \A d \in Channels : dma'[d].run =>
          status'[dma'[d].stream] = "STREAM_START_STOP" /\ ch'[dma'[d].stream] = d
    BY <1>1, <1>4, <1>7 DEF IInv, DmaAgrees, Started
  <2>2. \A d \in tc' : dma'[d].run
    BY <1>1, <1>3, <1>5, <1>7 DEF IInv, DmaAgrees
  <2>3. ASSUME NEW t \in Streams, status'[t] = "STREAM_START_STOP"
        PROVE  /\ dma'[ch'[t]].run /\ dma'[ch'[t]].stream = t
               /\ pp_index'[t] = IF ch'[t] \in tc' THEN 1 - dma'[ch'[t]].half ELSE dma'[ch'[t]].half
    <3>1. Started(t) /\ Opened(t)
      BY <1>4, <2>3 DEF Started, Opened
    <3>2. /\ dma[ch[t]].run /\ dma[ch[t]].stream = t
          /\ pp_index[t] = IF ch[t] \in tc THEN 1 - dma[ch[t]].half ELSE dma[ch[t]].half
      BY <1>1, <3>1 DEF IInv, DmaAgrees, InStep, Started
    <3>3. CASE t = s
      <4>1. pp_index[s] = dma[c].half /\ 1 - (1 - dma[c].half) = dma[c].half
        BY <1>3, <1>6, <1>7, <3>2, <3>3
      <4>2. QED
        BY <1>3, <1>4, <1>6, <1>7, <3>2, <3>3, <4>1
    <3>4. CASE t # s
      <4>1. ch[t] # c /\ ch[t] \in Channels
        BY <1>1, <1>5, <1>6, <3>1, <3>4, ConstantsLemma DEF IInv, ChannelsAgree, TypeOK
      <4>2. dma'[ch[t]] = dma[ch[t]] /\ (ch[t] \in tc' <=> ch[t] \in tc)
        BY <1>3, <1>7, <4>1
      <4>3. QED
        BY <1>4, <3>2, <4>2
    <3>5. QED
      BY <3>3, <3>4
  <2>4. InStep'
    BY <1>1, <1>4, <2>3 DEF IInv, DmaAgrees, InStep
  <2>5. QED
    BY <1>1, <1>4, <2>1, <2>2, <2>4 DEF IInv, DmaAgrees, Started
<1>11. HandlersAgree'
  <2>1. SUFFICES ASSUME ~late' PROVE
          /\ \A t \in Streams : status'[t] = "STREAM_START_STOP" /\ ch'[t] \in tc' => t \notin signals' \cup todo'
          /\ af' = "handler" /\ status'[Min(todo')] = "STREAM_START_STOP" =>
               half' = 1 - dma'[ch'[Min(todo')]].half
    BY DEF HandlersAgree, Started
  <2>2. ~late /\ s \notin signals \cup todo
    BY <1>3, <2>1 DEF Processed
  <2>3. \A t \in Streams : Started(t) /\ ch[t] \in tc' => t \notin signals \cup todo
    BY <1>1, <1>3, <1>6, <2>2 DEF IInv, HandlersAgree, Started, Opened
  <2>4. ASSUME af = "handler", Started(Min(todo)) PROVE half = 1 - dma'[ch[Min(todo)]].half
    <3>1. Min(todo) \in todo /\ Min(todo) \in Streams
      <4>1. todo # {} /\ todo \subseteq Nat
        BY <1>1, <1>5, <2>4, ConstantsLemma DEF IInv, TypeOK
      <4>2. QED
        BY <1>5, <4>1, MinLemma
    <3>2. Min(todo) # s /\ ch[Min(todo)] # c /\ ch[Min(todo)] \in Channels
      <4>1. Opened(Min(todo)) /\ Min(todo) # s
        BY <2>2, <2>4, <3>1 DEF Started, Opened
      <4>2. QED
        BY <1>1, <1>6, <3>1, <4>1 DEF IInv, TypeOK, ChannelsAgree
    <3>3. QED
      BY <1>1, <1>7, <2>2, <2>4, <3>2 DEF IInv, HandlersAgree
  <2>5. QED
    BY <1>4, <2>3, <2>4 DEF Started
<1>12. QED
  BY <1>8, <1>9, <1>10, <1>11 DEF IInv

LEMMA IrqLemma == IInv /\ (\E c \in Channels : af_dma_irq_handler(c)) => IInv'
<1>1. SUFFICES ASSUME IInv, NEW c \in Channels, af_dma_irq_handler(c) PROVE IInv'
  OBVIOUS
<1>2. PICK s : s = dma[c].stream
  OBVIOUS
<1>3. c \in tc /\ tc' = tc \ {c}
  BY <1>1 DEF af_dma_irq_handler
<1>4. /\ s \in Streams /\ Started(s) /\ ch[s] = c /\ dma[c].run
      /\ RolesOf(c) = {s} /\ Min(RolesOf(c)) = s
  BY <1>1, <1>2, <1>3, IrqFindsLemma
<1>5. RolesOf(c) # {}
  BY <1>4
<1>6. /\ pp_index' = [pp_index EXCEPT ![s] = PP_PINGPANG(pp_index[s])]
      /\ signals' = signals \cup {s} /\ halted' = halted
  BY <1>1, <1>4, <1>5 DEF af_dma_irq_handler
<1>7. /\ session' = session /\ calls' = calls /\ at' = at /\ status' = status /\ handler' = handler
      /\ ch' = ch /\ mutex' = mutex /\ chan_enabled' = chan_enabled /\ dma' = dma
      /\ todo' = todo /\ af' = af /\ half' = half /\ late' = late
      /\ content' = content /\ UNCHANGED fade
  BY <1>1 DEF af_dma_irq_handler, application
<1>8. pp_index \in [Streams -> {0, 1}] /\ tc \subseteq Channels
  BY <1>1 DEF IInv, TypeOK
<1>9. /\ pp_index' \in [Streams -> {0, 1}] /\ pp_index'[s] = 1 - pp_index[s]
      /\ \A t \in Streams : t # s => pp_index'[t] = pp_index[t]
  <2>1. PICK i \in {0, 1} : i = PP_PINGPANG(pp_index[s]) /\ i = 1 - pp_index[s]
    BY <1>4, <1>8 DEF PP_PINGPANG
  <2>2. pp_index' = [pp_index EXCEPT ![s] = i]
    BY <1>6, <2>1
  <2>3. QED
    BY <1>4, <1>8, <2>1, <2>2
<1>10. TypeOK'
  <2>1. RoleTypes'
    BY <1>1, <1>7, <1>9 DEF IInv, TypeOK, RoleTypes
  <2>2. HalTypes' /\ ThreadTypes' /\ FlagTypes'
    BY <1>1, <1>3, <1>4, <1>6, <1>7 DEF IInv, TypeOK, HalTypes, ThreadTypes, FlagTypes
  <2>3. FadeTypes'
    BY <1>1, <1>7 DEF IInv, TypeOK, FadeTypes, fade
  <2>4. QED
    BY <2>1, <2>2, <2>3 DEF TypeOK, RoleTypes, HalTypes, ThreadTypes, FlagTypes, FadeTypes
<1>11. CallTypes' /\ CallsAgree'
  <2>1. CallTypes'
    BY <1>1, <1>7 DEF IInv, CallTypes
  <2>2. \A t \in Streams : Has(calls', "start", t) => ~Started(t)' /\ pp_index'[t] = 0
    BY <1>1, <1>4, <1>7, <1>9 DEF IInv, CallsAgree, Started
  <2>3. QED
    BY <1>1, <1>7, <2>1, <2>2 DEF IInv, CallsAgree, Started, Opened
<1>12. PlacesAgree'
  BY <1>1, <1>7 DEF IInv, PlacesAgree, HandlerOwnsBuffer, Started, Opened
<1>13. ChannelsAgree'
  <2>1. \A t \in Streams : ~Opened(t) => pp_index'[t] = pp_index[t]
    BY <1>4, <1>9 DEF Started, Opened
  <2>2. QED
    BY <1>1, <1>7, <2>1 DEF IInv, ChannelsAgree, Opened
<1>14. DmaAgrees'
  <2>1. \A d \in tc' : dma'[d].run
    BY <1>1, <1>3, <1>7 DEF IInv, DmaAgrees
  <2>2. ASSUME NEW t \in Streams, status'[t] = "STREAM_START_STOP"
        PROVE  /\ dma'[ch'[t]].run /\ dma'[ch'[t]].stream = t
               /\ pp_index'[t] = IF ch'[t] \in tc' THEN 1 - dma'[ch'[t]].half ELSE dma'[ch'[t]].half
    <3>1. /\ dma[ch[t]].run /\ dma[ch[t]].stream = t
          /\ pp_index[t] = IF ch[t] \in tc THEN 1 - dma[ch[t]].half ELSE dma[ch[t]].half
      BY <1>1, <1>7, <2>2 DEF IInv, DmaAgrees, InStep
    <3>2. CASE t = s
      <4>1. dma[c].half \in {0, 1}
        BY <1>1 DEF IInv, TypeOK
      <4>2. pp_index[s] = 1 - dma[c].half
        BY <1>3, <1>4, <3>1, <3>2
      <4>3. pp_index'[s] = dma[c].half
        BY <1>9, <4>1, <4>2
      <4>4. QED
        BY <1>3, <1>4, <1>7, <3>1, <3>2, <4>3
    <3>3. CASE t # s
      <4>1. ch[t] # c
        BY <1>2, <3>1, <3>3
      <4>2. QED
        BY <1>3, <1>7, <1>9, <3>1, <3>3, <4>1
    <3>4. QED
      BY <3>2, <3>3
  <2>3. \A t \in Streams : status'[t] = "OPEN_CLOSE" => pp_index'[t] = 0
    BY <1>1, <1>4, <1>7, <1>9 DEF IInv, ChannelsAgree, Opened, Started
  <2>4. InStep'
    BY <2>2, <2>3 DEF InStep
  <2>5. QED
    BY <1>1, <1>6, <1>7, <2>1, <2>4 DEF IInv, DmaAgrees, Started
<1>15. HandlersAgree'
  <2>1. ~late => \A t \in Streams : Started(t) /\ ch[t] \in tc' => t \notin signals' \cup todo
    BY <1>1, <1>3, <1>4, <1>6 DEF IInv, HandlersAgree
  <2>2. QED
    BY <1>1, <1>7, <2>1 DEF IInv, HandlersAgree, Started
<1>16. QED
  BY <1>10, <1>11, <1>12, <1>13, <1>14, <1>15 DEF IInv
----------------------------------------------------------------------------
(* af_thread.                                                                *)

LEMMA TodoLemma ==
  ASSUME IInv, af # "wait"
  PROVE  Min(todo) \in todo /\ Min(todo) \in Streams
<1>1. todo # {} /\ todo \subseteq Streams /\ todo \subseteq Nat
  BY ConstantsLemma DEF IInv, TypeOK
<1>2. QED
  BY <1>1, MinLemma

LEMMA SignalWaitLemma == IInv /\ SignalWait => IInv'
<1>1. SUFFICES ASSUME IInv, SignalWait PROVE IInv'
  OBVIOUS
<1>2. /\ af = "wait" /\ signals # {} /\ todo' = signals /\ signals' = {} /\ af' = "scan"
      /\ session' = session /\ calls' = calls /\ at' = at /\ status' = status /\ handler' = handler
      /\ pp_index' = pp_index /\ ch' = ch /\ mutex' = mutex /\ chan_enabled' = chan_enabled
      /\ dma' = dma /\ tc' = tc /\ half' = half /\ late' = late /\ halted' = halted
      /\ content' = content /\ UNCHANGED fade
  BY <1>1 DEF SignalWait, application, roles, hal
<1>3. CallTypes' /\ CallsAgree' /\ ChannelsAgree' /\ DmaAgrees'
  BY <1>1, <1>2, FrameLemma DEF roles, hal
<1>4. TypeOK'
  BY <1>1, <1>2 DEF IInv, TypeOK, fade
<1>5. PlacesAgree'
  BY <1>1, <1>2 DEF IInv, PlacesAgree, HandlerOwnsBuffer, Started, Opened
<1>6. HandlersAgree'
  BY <1>1, <1>2 DEF IInv, HandlersAgree, Started
<1>7. QED
  BY <1>3, <1>4, <1>5, <1>6 DEF IInv

LEMMA HandlerCalledLemma == IInv /\ HandlerCalled => IInv'
<1>1. SUFFICES ASSUME IInv, HandlerCalled PROVE IInv'
  OBVIOUS
<1>2. PICK s : s = Min(todo)
  OBVIOUS
<1>3. /\ af = "scan" /\ mutex = "free" /\ half' = PP_PINGPANG(pp_index[s])
      /\ IF handler[s] # NULL THEN mutex' = "af" /\ af' = "handler" ELSE af' = "stop_process" /\ mutex' = mutex
      /\ session' = session /\ calls' = calls /\ at' = at /\ status' = status /\ handler' = handler
      /\ pp_index' = pp_index /\ ch' = ch /\ chan_enabled' = chan_enabled
      /\ dma' = dma /\ tc' = tc /\ signals' = signals /\ todo' = todo /\ late' = late /\ halted' = halted
      /\ content' = content /\ UNCHANGED fade
  BY <1>1, <1>2 DEF HandlerCalled, HalfToProcess, application, roles, hal
<1>4. s \in todo /\ s \in Streams
  BY <1>1, <1>2, <1>3, TodoLemma
<1>5. half' = 1 - pp_index[s] /\ half' \in {0, 1}
  BY <1>1, <1>3, <1>4 DEF IInv, TypeOK, PP_PINGPANG
<1>6. CallTypes' /\ CallsAgree' /\ ChannelsAgree' /\ DmaAgrees'
  BY <1>1, <1>3, FrameLemma DEF roles, hal
<1>7. TypeOK'
  BY <1>1, <1>3, <1>5 DEF IInv, TypeOK, fade
<1>8. PlacesAgree'
  BY <1>1, <1>2, <1>3 DEF IInv, PlacesAgree, HandlerOwnsBuffer, Started, Opened
<1>9. HandlersAgree'
  <2>1. ASSUME ~late, Started(s) PROVE half' = 1 - dma[ch[s]].half
    <3>1. ch[s] \notin tc
      BY <1>1, <1>4, <2>1 DEF IInv, HandlersAgree
    <3>2. QED
      BY <1>1, <1>4, <1>5, <2>1, <3>1 DEF IInv, DmaAgrees, InStep, Started
  <2>2. QED
    BY <1>1, <1>2, <1>3, <2>1 DEF IInv, HandlersAgree, Started
<1>10. QED
  BY <1>6, <1>7, <1>8, <1>9 DEF IInv

LEMMA HandlerReturnsLemma == IInv /\ HandlerReturns => IInv'
<1>1. SUFFICES ASSUME IInv, HandlerReturns PROVE IInv'
  OBVIOUS
<1>2. PICK s : s = Min(todo)
  OBVIOUS
<1>3. /\ af = "handler" /\ half' = PP_PINGPANG(pp_index[s]) /\ mutex' = "free" /\ af' = "stop_process"
      /\ content' = (IF s = Output THEN [content EXCEPT ![half] = "sound"] ELSE content)
      /\ session' = session /\ calls' = calls /\ at' = at /\ status' = status /\ handler' = handler
      /\ pp_index' = pp_index /\ ch' = ch /\ chan_enabled' = chan_enabled
      /\ dma' = dma /\ tc' = tc /\ signals' = signals /\ todo' = todo /\ late' = late /\ halted' = halted
      /\ UNCHANGED fade
  BY <1>1, <1>2 DEF HandlerReturns, HalfToProcess, application, roles, hal
<1>4. s \in todo /\ s \in Streams
  BY <1>1, <1>2, <1>3, TodoLemma
<1>5. half' \in {0, 1}
  BY <1>1, <1>3, <1>4 DEF IInv, TypeOK, PP_PINGPANG
<1>6. content' \in [{0, 1} -> {"sound", "fading", "zero"}]
  BY <1>1, <1>3 DEF IInv, TypeOK
<1>7. CallTypes' /\ CallsAgree' /\ ChannelsAgree' /\ DmaAgrees'
  BY <1>1, <1>3, FrameLemma DEF roles, hal
<1>8. TypeOK'
  BY <1>1, <1>3, <1>5, <1>6 DEF IInv, TypeOK, fade
<1>9. PlacesAgree'
  BY <1>1, <1>3 DEF IInv, PlacesAgree, HandlerOwnsBuffer, Started, Opened
<1>10. HandlersAgree'
  BY <1>1, <1>3 DEF IInv, HandlersAgree, Started
<1>11. QED
  BY <1>7, <1>8, <1>9, <1>10 DEF IInv

LEMMA StopProcessLemma == IInv /\ StopProcess => IInv'
<1>1. SUFFICES ASSUME IInv, StopProcess PROVE IInv'
  OBVIOUS
<1>2. /\ af = "stop_process" /\ mutex = "free" /\ todo' = todo \ {Min(todo)}
      /\ af' = IF todo' = {} THEN "wait" ELSE "scan"
      /\ session' = session /\ calls' = calls /\ at' = at /\ status' = status /\ handler' = handler
      /\ pp_index' = pp_index /\ ch' = ch /\ mutex' = mutex /\ chan_enabled' = chan_enabled
      /\ dma' = dma /\ tc' = tc /\ signals' = signals /\ half' = half /\ late' = late /\ halted' = halted
      /\ stop_on_process' = stop_on_process
  BY <1>1 DEF StopProcess, application, roles, hal
<1>3. CallTypes' /\ CallsAgree' /\ ChannelsAgree' /\ DmaAgrees'
  BY <1>1, <1>2, FrameLemma DEF roles, hal
<1>4. FadeTypes'
  <2>1. /\ stop_process_cnt \in 0..4 /\ need_fadeout \in Nat /\ half \in {0, 1} /\ faded \in 0..MaxFaded
        /\ content \in [{0, 1} -> {"sound", "fading", "zero"}]
    BY <1>1 DEF IInv, TypeOK, MaxCount
  <2>2. stop_on_process \in BOOLEAN /\ stop_signal \in BOOLEAN
    BY <1>1 DEF IInv, TypeOK
  <2>3. stop_process_cnt' \in 0..MaxCount
    BY <1>1, <2>1 DEF StopProcess, Faded, MaxCount
  <2>4. need_fadeout' \in Nat
    BY <1>1, <2>1 DEF StopProcess
  <2>5. content' \in [{0, 1} -> {"sound", "fading", "zero"}]
    BY <1>1, <2>1 DEF StopProcess
  <2>6. stop_signal' \in BOOLEAN
    <3>1. stop_signal' = (stop_signal \/ Faded) \/ stop_signal' = stop_signal
      BY <1>1, Zenon DEF StopProcess
    <3>2. QED
      BY <2>2, <3>1, Zenon
  <2>7. faded' \in 0..MaxFaded
    <3>1. \/ faded' = faded
          \/ faded < MaxFaded /\ faded' = faded + 1
      BY <1>1 DEF StopProcess
    <3>2. QED
      BY <2>1, <3>1 DEF MaxFaded
  <2>8. QED
    BY <1>2, <2>2, <2>3, <2>4, <2>5, <2>6, <2>7, Zenon DEF FadeTypes
<1>5. TypeOK'
  BY <1>1, <1>2, <1>4 DEF IInv, TypeOK, FadeTypes
<1>6. PlacesAgree'
  BY <1>1, <1>2 DEF IInv, PlacesAgree, HandlerOwnsBuffer, Started, Opened
<1>7. HandlersAgree'
  BY <1>1, <1>2 DEF IInv, HandlersAgree, Started
<1>8. QED
  BY <1>3, <1>4, <1>5, <1>6, <1>7 DEF IInv
----------------------------------------------------------------------------
(* The fade-out of a stop.                                                   *)

Stopping == at \in {"waiting", "signalled", "timeout"}
Quiet(h) == content[h] # "sound"
Silent == Quiet(0) /\ Quiet(1)
Playing == dma[ch[Output]].half
Pending == signals \cup todo
Others == Pending \ {Output}

\* The calls are counted only while the application waits, and a stream is
\* signalled again only when it has been processed.
FadeAgrees ==
  /\ IF Stopping THEN stop_on_process
     ELSE ~stop_on_process /\ stop_process_cnt = 0 /\ faded = 0
  /\ af = "wait" => todo = {}
  /\ ~late => signals \cap todo = {}

\* The half that is faded next is not the one in transfer, unless the handler
\* filled it before the stream was closed and its buffer cleared.
HalfAgrees ==
  ~late /\ af = "stop_process" /\ Min(todo) = Output =>
    half = 1 - pp_index[Output] \/ Silent

\* The stages of a fade: the first call for the output fades the half to come;
\* then the output plays it, and the next call fades the other.
Fading == ~late /\ at \in {"waiting", "signalled"}
OtherHalfFaded == Quiet(1 - Playing) /\ Output \notin Pending /\ ch[Output] \notin tc
PlayingFaded == Quiet(Playing) /\ (ch[Output] \in tc \/ Output \in Pending \/ Quiet(1 - Playing))
StagesAgree == Fading => faded = 0 \/ (faded = 1 /\ OtherHalfFaded) \/ PlayingFaded

\* When the output runs alone, the signals that are left of closed streams are
\* too few to reach the fifth call before its second.
FewCounted ==
  at = "waiting" /\ ~stop_signal /\ stop_process_cnt + Cardinality(Others) <= 3 + faded
AloneAgrees == Fading /\ chan_enabled = {ch[Output]} => FewCounted \/ PlayingFaded

FadeInv == FadeAgrees /\ HalfAgrees /\ StagesAgree

\* A stop is of a stream that runs, on a channel of its own.
LEMMA PlaysLemma ==
  ASSUME IInv, Stopping
  PROVE  /\ ch[Output] \in Channels /\ Playing \in {0, 1} /\ pp_index[Output] \in {0, 1}
         /\ Started(Output) /\ calls # <<>> /\ at # "opening"
         /\ dma[ch[Output]].stream = Output /\ ch[Output] \in chan_enabled
         /\ ch[Output] \notin tc => pp_index[Output] = Playing
         /\ ~late /\ ch[Output] \in tc => Output \notin Pending
         /\ chan_enabled = {ch[Output]} =>
              \A c \in Channels : dma[c].run => c = ch[Output] /\ dma[c].stream = Output
<1>1. Output \in Streams
  BY ConstantsLemma
<1>2. Started(Output) /\ Opened(Output) /\ calls # <<>> /\ at # "opening"
  BY DEF Stopping, IInv, PlacesAgree, Started, Opened
<1>3. ch[Output] \in Channels
  BY <1>1, <1>2 DEF IInv, TypeOK, ChannelsAgree
<1>4. Playing \in {0, 1} /\ pp_index[Output] \in {0, 1}
  BY <1>1, <1>3 DEF IInv, TypeOK, Playing
<1>5. /\ ch[Output] \notin tc => pp_index[Output] = Playing
      /\ dma[ch[Output]].stream = Output
  BY <1>1, <1>2 DEF IInv, DmaAgrees, InStep, Started, Playing
<1>6. ~late /\ ch[Output] \in tc => Output \notin Pending
  BY <1>1, <1>2 DEF IInv, HandlersAgree, Pending
<1>7. ASSUME chan_enabled = {ch[Output]}, NEW c \in Channels, dma[c].run
      PROVE  c = ch[Output] /\ dma[c].stream = Output
  <2>1. dma[c].stream \in Streams
    BY DEF IInv, TypeOK
  <2>2. Started(dma[c].stream) /\ ch[dma[c].stream] = c
    BY <1>7 DEF IInv, DmaAgrees
  <2>3. c \in chan_enabled
    BY <2>1, <2>2 DEF IInv, ChannelsAgree, Started, Opened
  <2>4. QED
    BY <1>1, <1>2, <1>7, <2>1, <2>2, <2>3 DEF IInv, ChannelsAgree, Started, Opened
<1>8. ch[Output] \in chan_enabled
  BY <1>1, <1>2 DEF IInv, ChannelsAgree
<1>9. QED
  BY <1>2, <1>3, <1>4, <1>5, <1>6, <1>7, <1>8

\* How many other streams are still to be processed.
LEMMA OthersLemma ==
  ASSUME IInv
  PROVE  /\ Cardinality(Others) \in Nat /\ (FewStreams => Cardinality(Others) <= 3)
         /\ \A s \in Others : Cardinality(Others) >= 1 /\ Cardinality(Others \ {s}) = Cardinality(Others) - 1
<1>1. IsFiniteSet(Streams) /\ Output \in Streams
  BY StreamAssumption
<1>2. Others \in SUBSET (Streams \ {Output})
  BY DEF IInv, TypeOK, Others, Pending
<1>3. /\ IsFiniteSet(Streams \ {Output})
      /\ Cardinality(Streams \ {Output}) = Cardinality(Streams) - 1
  BY <1>1, FS_RemoveElement
<1>4. IsFiniteSet(Others) /\ Cardinality(Others) <= Cardinality(Streams \ {Output})
  BY <1>2, <1>3, FS_Subset
<1>5. /\ Cardinality(Others) \in Nat /\ Cardinality(Streams) \in Nat
      /\ Cardinality(Streams \ {Output}) \in Nat
  BY <1>1, <1>3, <1>4, FS_CardinalityType
<1>6. FewStreams => Cardinality(Others) <= 3
  BY <1>3, <1>4, <1>5 DEF FewStreams
<1>7. ASSUME NEW s \in Others
      PROVE  Cardinality(Others) >= 1 /\ Cardinality(Others \ {s}) = Cardinality(Others) - 1
  <2>1. /\ IsFiniteSet(Others \ {s})
        /\ Cardinality(Others \ {s}) = Cardinality(Others) - 1
    BY <1>4, FS_RemoveElement
  <2>2. Cardinality(Others \ {s}) \in Nat
    BY <2>1, FS_CardinalityType
  <2>3. QED
    BY <1>5, <2>1, <2>2
<1>8. QED
  BY <1>5, <1>6, <1>7

LEMMA FadeInitLemma == Init => FadeInv
BY DEF Init, FadeInv, FadeAgrees, HalfAgrees, StagesAgree, Fading, Stopping

\* What the output's buffer plays stays faded once it is.
StaysFaded == Fading /\ Fading' /\ PlayingFaded => PlayingFaded'

\* A call that waits for nothing leaves the fade alone; where it resets the
\* output's index it clears its buffer.
LEMMA CallKeepsFadeLemma ==
  ASSUME FadeInv, ~Stopping, ~Stopping',
         UNCHANGED <<thread, late, stop_on_process, stop_process_cnt, faded>>,
         content' = content \/ Silent', pp_index'[Output] = pp_index[Output] \/ Silent'
  PROVE  FadeInv' /\ ~Fading'
<1>1. /\ signals' = signals /\ todo' = todo /\ af' = af /\ half' = half /\ late' = late
      /\ stop_on_process' = stop_on_process /\ stop_process_cnt' = stop_process_cnt /\ faded' = faded
  BY DEF thread
<1>2. FadeAgrees'
  BY <1>1 DEF FadeInv, FadeAgrees
<1>3. HalfAgrees'
  BY <1>1 DEF FadeInv, HalfAgrees, Silent, Quiet
<1>4. ~Fading'
  BY DEF Fading, Stopping
<1>5. QED
  BY <1>2, <1>3, <1>4 DEF FadeInv, StagesAgree

LEMMA CallsFadeLemma ==
  ASSUME IInv, FadeInv,
         \/ \E name \in Sessions : Begins(name)
         \/ \E s \in Streams : OpenBegins(s) \/ OpenEnds(s) \/ Start(s) \/ Stop(s) \/ Close(s)
  PROVE  FadeInv' /\ ~Fading'
<1>1. ASSUME NEW name \in Sessions, Begins(name) PROVE FadeInv' /\ ~Fading'
  <2>1. /\ ~Stopping /\ at' = at /\ content' = content /\ pp_index' = pp_index
        /\ UNCHANGED <<thread, late, stop_on_process, stop_process_cnt, faded>>
    BY <1>1, PlaysLemma DEF Begins, roles, fade
  <2>2. QED
    BY <2>1, CallKeepsFadeLemma DEF Stopping
<1>2. ASSUME NEW s \in Streams, OpenBegins(s) \/ OpenEnds(s) \/ Start(s) \/ Stop(s) \/ Close(s)
      PROVE  FadeInv' /\ ~Fading'
  <2>1. at \in {"call", "opening"} /\ at' \in {"call", "opening"}
    BY <1>2 DEF OpenBegins, OpenEnds, Start, Stop, Close, Locked, Returns
  <2>2. UNCHANGED <<thread, late, stop_on_process, stop_process_cnt, faded>>
    BY <1>2 DEF OpenBegins, OpenEnds, Start, Stop, Close, fade
  <2>3. content' = content \/ Silent'
    BY <1>2 DEF OpenBegins, OpenEnds, Start, Stop, Close, Cleared, Silent, Quiet
  <2>4. pp_index'[Output] = pp_index[Output] \/ Silent'
    <3>1. ASSUME Close(s), s # Output PROVE pp_index'[Output] = pp_index[Output]
      <4>1. pp_index' = [pp_index EXCEPT ![s] = 0] /\ pp_index \in [Streams -> {0, 1}]
        BY <3>1 DEF Close, IInv, TypeOK
      <4>2. QED
        BY <3>1, <4>1, ConstantsLemma
    <3>2. ASSUME Close(Output) PROVE Silent'
      BY <3>2 DEF Close, Cleared, Silent, Quiet
    <3>3. ASSUME ~Close(s) PROVE pp_index' = pp_index
      BY <1>2, <3>3 DEF OpenBegins, OpenEnds, Start, Stop
    <3>4. QED
      BY <3>1, <3>2, <3>3
  <2>5. QED
    BY <2>1, <2>2, <2>3, <2>4, CallKeepsFadeLemma DEF Stopping
<1>3. QED
  BY <1>1, <1>2

\* A step that leaves what the output plays, and its signal, as they are.
LEMMA StageLemma ==
  ASSUME FadeInv, UNCHANGED <<faded, content, ch>>, Fading' => Fading, Playing' = Playing,
         Output \in Pending' <=> Output \in Pending, ch[Output] \in tc' <=> ch[Output] \in tc
  PROVE  StagesAgree' /\ StaysFaded
<1>1. (OtherHalfFaded' <=> OtherHalfFaded) /\ (PlayingFaded' <=> PlayingFaded)
  BY DEF OtherHalfFaded, PlayingFaded, Quiet
<1>2. QED
  BY <1>1 DEF FadeInv, StagesAgree, StaysFaded

\* A stop begins with no call counted.
LEMMA StopRequestedFadeLemma == IInv /\ FadeInv /\ StopRequested => FadeInv' /\ ~Fading
<1>1. SUFFICES ASSUME IInv, FadeInv, StopRequested PROVE FadeInv' /\ ~Fading
  OBVIOUS
<1>2. /\ at = "call" /\ at' = "waiting" /\ stop_on_process' = TRUE /\ stop_signal' = FALSE
      /\ stop_process_cnt' = stop_process_cnt /\ content' = content /\ pp_index' = pp_index
      /\ signals' = signals /\ todo' = todo /\ af' = af /\ half' = half /\ late' = late
      /\ faded' = faded
  BY <1>1 DEF StopRequested, Locked, thread, roles
<1>3. FadeAgrees'
  BY <1>1, <1>2 DEF FadeInv, FadeAgrees, Stopping
<1>4. HalfAgrees'
  BY <1>1, <1>2 DEF FadeInv, HalfAgrees, Silent, Quiet
<1>5. faded' = 0 /\ ~Fading
  BY <1>1, <1>2 DEF FadeInv, FadeAgrees, Stopping, Fading
<1>6. QED
  BY <1>3, <1>4, <1>5 DEF FadeInv, StagesAgree

LEMMA StopWakesFadeLemma == IInv /\ FadeInv /\ (StopSignalled \/ StopTimeout) => FadeInv' /\ StaysFaded
<1>1. SUFFICES ASSUME IInv, FadeInv, StopSignalled \/ StopTimeout PROVE FadeInv' /\ StaysFaded
  OBVIOUS
<1>2. /\ at = "waiting" /\ at' \in {"signalled", "timeout"}
      /\ stop_on_process' = stop_on_process /\ stop_process_cnt' = stop_process_cnt
      /\ faded' = faded /\ content' = content /\ pp_index' = pp_index /\ ch' = ch
      /\ dma' = dma /\ tc' = tc
      /\ signals' = signals /\ todo' = todo /\ af' = af /\ half' = half /\ late' = late
  BY <1>1 DEF StopSignalled, StopTimeout, thread, roles, hal, fade
<1>3. FadeAgrees' /\ HalfAgrees'
  BY <1>1, <1>2 DEF FadeInv, FadeAgrees, HalfAgrees, Silent, Quiet, Stopping
<1>4. StagesAgree' /\ StaysFaded
  <2>1. (Fading' => Fading) /\ Playing' = Playing /\ Pending' = Pending
    BY <1>2 DEF Fading, Playing, Pending
  <2>2. QED
    BY <1>1, <1>2, <2>1, StageLemma
<1>5. QED
  BY <1>3, <1>4 DEF FadeInv

LEMMA StopFinishedFadeLemma == IInv /\ FadeInv /\ StopFinished => FadeInv' /\ ~Fading'
<1>1. SUFFICES ASSUME IInv, FadeInv, StopFinished PROVE FadeInv' /\ ~Fading'
  OBVIOUS
<1>2. /\ at' = "call" /\ stop_on_process' = FALSE /\ stop_process_cnt' = 0 /\ faded' = 0
      /\ content' = content /\ pp_index' = pp_index
      /\ signals' = signals /\ todo' = todo /\ af' = af /\ half' = half /\ late' = late
  BY <1>1 DEF StopFinished, Returns, thread
<1>3. FadeAgrees' /\ HalfAgrees'
  BY <1>1, <1>2 DEF FadeInv, FadeAgrees, HalfAgrees, Silent, Quiet, Stopping
<1>4. QED
  BY <1>2, <1>3 DEF FadeInv, StagesAgree, Fading

\* The half that ends is processed before the next one, or af_thread is late.
LEMMA HalfEndsFadeLemma ==
  IInv /\ FadeInv /\ (\E c \in Channels : HalfEnds(c)) => FadeInv' /\ StaysFaded
<1>1. SUFFICES ASSUME IInv, FadeInv, NEW c \in Channels, HalfEnds(c) PROVE FadeInv' /\ StaysFaded
  OBVIOUS
<1>2. /\ dma[c].run /\ c \notin tc /\ dma' = [dma EXCEPT ![c].half = 1 - @] /\ tc' = tc \cup {c}
      /\ (~late' => ~late /\ Processed(dma[c].stream))
      /\ at' = at /\ fade' = fade /\ faded' = faded /\ content' = content
      /\ pp_index' = pp_index /\ ch' = ch
      /\ signals' = signals /\ todo' = todo /\ af' = af /\ half' = half
  BY <1>1 DEF HalfEnds, application, roles, thread, fade
<1>3. FadeAgrees' /\ HalfAgrees'
  BY <1>1, <1>2 DEF FadeInv, FadeAgrees, HalfAgrees, Silent, Quiet, Stopping, fade
<1>4. dma \in [Channels -> [run : BOOLEAN, stream : Streams, half : {0, 1}]]
  BY <1>1 DEF IInv, TypeOK
<1>5. SUFFICES ASSUME Fading' PROVE StagesAgree' /\ StaysFaded
  BY <1>3 DEF FadeInv, StagesAgree, StaysFaded
<1>6. Fading /\ Stopping
  BY <1>2, <1>5 DEF Fading, Stopping
<1>7. ch[Output] \in Channels /\ Playing \in {0, 1} /\ dma[ch[Output]].stream = Output
  BY <1>1, <1>6, PlaysLemma
<1>8. CASE c # ch[Output]
  <2>1. dma'[ch[Output]] = dma[ch[Output]]
    BY <1>2, <1>4, <1>7, <1>8
  <2>2. Playing' = Playing /\ Pending' = Pending
    BY <1>2, <2>1 DEF Playing, Pending
  <2>3. QED
    BY <1>1, <1>2, <1>6, <1>8, <2>2, StageLemma
<1>9. CASE c = ch[Output]
  <2>1. Output \notin Pending
    BY <1>2, <1>5, <1>7, <1>9 DEF Fading, Processed, Pending
  <2>2. Playing' = 1 - Playing /\ ch'[Output] \in tc'
    <3>1. dma'[c].half = 1 - dma[c].half
      BY <1>2, <1>4
    <3>2. QED
      BY <1>2, <1>9, <3>1 DEF Playing
  <2>3. ASSUME OtherHalfFaded \/ PlayingFaded PROVE PlayingFaded'
    <3>1. Quiet(1 - Playing)
      BY <1>2, <1>9, <2>1, <2>3 DEF OtherHalfFaded, PlayingFaded
    <3>2. content'[Playing'] # "sound"
      BY <1>2, <2>2, <3>1 DEF Quiet
    <3>3. QED
      BY <2>2, <3>2 DEF PlayingFaded, Quiet
  <2>4. QED
    BY <1>1, <1>2, <1>6, <2>3 DEF FadeInv, StagesAgree, StaysFaded
<1>10. QED
  BY <1>8, <1>9

LEMMA IrqFadeLemma ==
  IInv /\ FadeInv /\ (\E c \in Channels : af_dma_irq_handler(c)) => FadeInv' /\ StaysFaded
<1>1. SUFFICES ASSUME IInv, FadeInv, NEW c \in Channels, af_dma_irq_handler(c)
               PROVE  FadeInv' /\ StaysFaded
  OBVIOUS
<1>2. PICK s : s = dma[c].stream
  OBVIOUS
<1>3. c \in tc /\ tc' = tc \ {c}
  BY <1>1 DEF af_dma_irq_handler
<1>4. /\ s \in Streams /\ Started(s) /\ ch[s] = c /\ dma[c].run
      /\ RolesOf(c) = {s} /\ Min(RolesOf(c)) = s
  BY <1>1, <1>2, <1>3, IrqFindsLemma
<1>5. RolesOf(c) # {}
  BY <1>4
<1>6. /\ pp_index' = [pp_index EXCEPT ![s] = PP_PINGPANG(pp_index[s])]
      /\ signals' = signals \cup {s}
      /\ at' = at /\ fade' = fade /\ faded' = faded /\ content' = content /\ ch' = ch
      /\ dma' = dma /\ todo' = todo /\ af' = af /\ half' = half /\ late' = late
  BY <1>1, <1>4, <1>5 DEF af_dma_irq_handler, application, fade
<1>7. ~late => s \notin Pending
  BY <1>1, <1>3, <1>4 DEF IInv, HandlersAgree, Pending
<1>8. FadeAgrees'
  BY <1>1, <1>6, <1>7 DEF FadeInv, FadeAgrees, Stopping, fade, Pending
<1>9. HalfAgrees'
  <2>1. SUFFICES ASSUME ~late, af = "stop_process", Min(todo) = Output
                 PROVE  pp_index'[Output] = pp_index[Output]
    BY <1>1, <1>6 DEF FadeInv, HalfAgrees, Silent, Quiet
  <2>2. Output \in Streams /\ Output # s
    BY <1>1, <1>7, <2>1, TodoLemma DEF Pending
  <2>3. pp_index \in [Streams -> {0, 1}]
    BY <1>1 DEF IInv, TypeOK
  <2>4. QED
    BY <1>6, <2>2, <2>3
<1>10. StagesAgree' /\ StaysFaded
  <2>1. SUFFICES ASSUME Fading' PROVE StagesAgree' /\ StaysFaded
    BY DEF StagesAgree, StaysFaded
  <2>2. Fading /\ Stopping /\ Playing' = Playing
    BY <1>6, <2>1 DEF Fading, Stopping, Playing
  <2>3. CASE c # ch[Output]
    <3>1. s # Output
      BY <1>4, <2>3
    <3>2. (Output \in Pending' <=> Output \in Pending) /\ (ch[Output] \in tc' <=> ch[Output] \in tc)
      BY <1>3, <1>6, <2>3, <3>1 DEF Pending
    <3>3. QED
      BY <1>1, <1>6, <2>2, <3>2, StageLemma
  <2>4. CASE c = ch[Output]
    <3>1. s = Output
      BY <1>1, <1>2, <2>2, <2>4, PlaysLemma
    <3>2. Output \in Pending' /\ ~OtherHalfFaded
      BY <1>3, <1>6, <2>4, <3>1 DEF Pending, OtherHalfFaded
    <3>3. PlayingFaded => PlayingFaded'
      BY <1>6, <2>2, <3>2 DEF PlayingFaded, Quiet
    <3>4. QED
      BY <1>1, <1>6, <2>2, <3>2, <3>3 DEF FadeInv, StagesAgree, StaysFaded
  <2>5. QED
    BY <2>3, <2>4
<1>11. QED
  BY <1>8, <1>9, <1>10 DEF FadeInv

LEMMA SignalWaitFadeLemma == IInv /\ FadeInv /\ SignalWait => FadeInv' /\ StaysFaded /\ Pending' = Pending
<1>1. SUFFICES ASSUME IInv, FadeInv, SignalWait PROVE FadeInv' /\ StaysFaded /\ Pending' = Pending
  OBVIOUS
<1>2. /\ af = "wait" /\ todo' = signals /\ signals' = {} /\ af' = "scan"
      /\ at' = at /\ fade' = fade /\ faded' = faded /\ content' = content /\ ch' = ch
      /\ dma' = dma /\ tc' = tc /\ late' = late
  BY <1>1 DEF SignalWait, application, roles, hal, fade
<1>3. Pending' = Pending
  BY <1>1, <1>2 DEF FadeInv, FadeAgrees, Pending
<1>4. FadeAgrees' /\ HalfAgrees'
  BY <1>1, <1>2 DEF FadeInv, FadeAgrees, HalfAgrees, Stopping, fade
<1>5. (Fading' => Fading) /\ Playing' = Playing
  BY <1>2 DEF Fading, Playing
<1>6. QED
  BY <1>1, <1>2, <1>3, <1>4, <1>5, StageLemma DEF FadeInv

LEMMA HandlerCalledFadeLemma ==
  IInv /\ FadeInv /\ HandlerCalled => FadeInv' /\ StaysFaded /\ Pending' = Pending
<1>1. SUFFICES ASSUME IInv, FadeInv, HandlerCalled PROVE FadeInv' /\ StaysFaded /\ Pending' = Pending
  OBVIOUS
<1>2. /\ af = "scan" /\ half' = 1 - pp_index[Min(todo)] /\ af' \in {"handler", "stop_process"}
      /\ at' = at /\ fade' = fade /\ faded' = faded /\ content' = content /\ ch' = ch
      /\ pp_index' = pp_index /\ dma' = dma /\ tc' = tc /\ late' = late
      /\ signals' = signals /\ todo' = todo
  BY <1>1 DEF HandlerCalled, HalfToProcess, PP_PINGPANG, application, roles, hal, fade
<1>3. Pending' = Pending
  BY <1>2 DEF Pending
<1>4. FadeAgrees'
  BY <1>1, <1>2 DEF FadeInv, FadeAgrees, Stopping, fade
<1>5. HalfAgrees'
  BY <1>2 DEF HalfAgrees
<1>6. (Fading' => Fading) /\ Playing' = Playing
  BY <1>2 DEF Fading, Playing
<1>7. QED
  BY <1>1, <1>2, <1>3, <1>4, <1>5, <1>6, StageLemma DEF FadeInv

\* The handler fills the half that is not in transfer: what plays stays faded.
LEMMA HandlerReturnsFadeLemma ==
  IInv /\ FadeInv /\ HandlerReturns => FadeInv' /\ StaysFaded /\ Pending' = Pending
<1>1. SUFFICES ASSUME IInv, FadeInv, HandlerReturns PROVE FadeInv' /\ StaysFaded /\ Pending' = Pending
  OBVIOUS
<1>2. /\ af = "handler" /\ half' = 1 - pp_index[Min(todo)] /\ af' = "stop_process"
      /\ content' = IF Min(todo) = Output THEN [content EXCEPT ![half] = "sound"] ELSE content
      /\ at' = at /\ fade' = fade /\ faded' = faded /\ ch' = ch
      /\ pp_index' = pp_index /\ dma' = dma /\ tc' = tc /\ late' = late
      /\ signals' = signals /\ todo' = todo
  BY <1>1 DEF HandlerReturns, HalfToProcess, PP_PINGPANG, application, roles, hal, fade
<1>3. Pending' = Pending /\ (Fading' => Fading) /\ Playing' = Playing
  BY <1>2 DEF Pending, Fading, Playing
<1>4. FadeAgrees'
  BY <1>1, <1>2 DEF FadeInv, FadeAgrees, Stopping, fade
<1>5. HalfAgrees'
  BY <1>2 DEF HalfAgrees
<1>6. StagesAgree' /\ StaysFaded
  <2>1. CASE Min(todo) # Output
    BY <1>1, <1>2, <1>3, <2>1, StageLemma
  <2>2. CASE Min(todo) = Output
    <3>1. SUFFICES ASSUME Fading PROVE StagesAgree' /\ StaysFaded
      BY <1>3 DEF StagesAgree, StaysFaded
    <3>2. Output \in Pending /\ Stopping
      BY <1>1, <1>2, <2>2, <3>1, TodoLemma DEF Fading, Stopping, Pending
    <3>3. half = 1 - Playing /\ Playing \in {0, 1}
      BY <1>1, <1>2, <2>2, <3>1, <3>2, PlaysLemma DEF IInv, HandlersAgree, Fading, Playing
    <3>4. ASSUME PlayingFaded PROVE PlayingFaded'
      <4>1. content \in [{0, 1} -> {"sound", "fading", "zero"}]
        BY <1>1 DEF IInv, TypeOK
      <4>2. content'[Playing] = content[Playing]
        BY <1>2, <2>2, <3>3, <4>1
      <4>3. QED
        BY <1>3, <3>2, <3>4, <4>2 DEF PlayingFaded, Quiet
    <3>5. QED
      BY <1>1, <1>2, <3>1, <3>2, <3>4 DEF FadeInv, StagesAgree, StaysFaded, OtherHalfFaded
  <2>3. QED
    BY <2>1, <2>2
<1>7. QED
  BY <1>3, <1>4, <1>5, <1>6 DEF FadeInv

\* The call for the output fades the half to come; the others only count.
LEMMA StopProcessFadeLemma == IInv /\ FadeInv /\ StopProcess => FadeInv' /\ StaysFaded
<1>1. SUFFICES ASSUME IInv, FadeInv, StopProcess PROVE FadeInv' /\ StaysFaded
  OBVIOUS
<1>2. PICK s : s = Min(todo)
  OBVIOUS
<1>3. /\ af = "stop_process" /\ todo' = todo \ {s} /\ af' = (IF todo' = {} THEN "wait" ELSE "scan")
      /\ at' = at /\ ch' = ch
      /\ pp_index' = pp_index /\ dma' = dma /\ tc' = tc /\ late' = late /\ signals' = signals
      /\ stop_on_process' = stop_on_process
      /\ (~stop_on_process => stop_process_cnt' = stop_process_cnt /\ faded' = faded)
  BY <1>1, <1>2 DEF StopProcess, application, roles, hal
<1>4. s \in todo /\ s \in Streams
  BY <1>1, <1>2, <1>3, TodoLemma
<1>5. FadeAgrees'
  BY <1>1, <1>3 DEF FadeInv, FadeAgrees, Stopping
<1>6. HalfAgrees'
  BY <1>3 DEF HalfAgrees
<1>7. SUFFICES ASSUME Fading' PROVE StagesAgree' /\ StaysFaded
  BY <1>5, <1>6 DEF FadeInv, StagesAgree, StaysFaded
<1>8. Fading /\ Stopping /\ stop_on_process /\ ~late /\ Playing' = Playing
  BY <1>1, <1>3, <1>7 DEF Fading, Stopping, FadeInv, FadeAgrees, Playing
<1>9. Pending' = Pending \ {s} /\ s \in Pending
  BY <1>1, <1>3, <1>4, <1>8 DEF FadeInv, FadeAgrees, Pending
<1>10. /\ content' = IF s # Output THEN content
                     ELSE [content EXCEPT ![half] = IF need_fadeout = 0 THEN "zero" ELSE "fading"]
       /\ faded' = IF s = Output /\ faded < MaxFaded THEN faded + 1 ELSE faded
  BY <1>1, <1>2, <1>8 DEF StopProcess
<1>11. /\ content \in [{0, 1} -> {"sound", "fading", "zero"}] /\ half \in {0, 1}
       /\ Playing \in {0, 1}
  BY <1>1, <1>8, PlaysLemma DEF IInv, TypeOK
<1>12. CASE s = Output
  <2>1. Output \notin Pending' /\ ch'[Output] \notin tc'
    BY <1>1, <1>3, <1>8, <1>9, <1>12, PlaysLemma
  <2>2. half = 1 - Playing \/ Silent
    BY <1>1, <1>2, <1>3, <1>8, <1>12, <2>1, PlaysLemma DEF FadeInv, HalfAgrees
  <2>3. /\ content'[half] # "sound"
        /\ \A h \in {0, 1} : content[h] # "sound" => content'[h] # "sound"
    BY <1>10, <1>11, <1>12
  <2>4. Quiet(1 - Playing)' /\ (Quiet(Playing) => Quiet(Playing)')
    <3>1. content'[1 - Playing] # "sound" /\ (content[Playing] # "sound" => content'[Playing] # "sound")
      BY <1>11, <2>2, <2>3 DEF Silent, Quiet
    <3>2. QED
      BY <1>8, <3>1 DEF Quiet
  <2>5. OtherHalfFaded' /\ (PlayingFaded => PlayingFaded')
    BY <2>1, <2>4 DEF OtherHalfFaded, PlayingFaded
  <2>6. faded = 0 => faded' = 1
    BY <1>10, <1>12 DEF MaxFaded
  <2>7. QED
    BY <1>1, <1>8, <1>9, <1>12, <2>5, <2>6 DEF FadeInv, StagesAgree, StaysFaded, OtherHalfFaded
<1>13. CASE s # Output
  <2>1. (Output \in Pending' <=> Output \in Pending) /\ faded' = faded /\ content' = content
    BY <1>9, <1>10, <1>13
  <2>2. QED
    BY <1>1, <1>3, <1>8, <2>1, StageLemma
<1>14. QED
  BY <1>12, <1>13

LEMMA UnchangedFadeLemma ==
  FadeInv /\ UNCHANGED vars => FadeInv' /\ StaysFaded /\ Pending' = Pending
<1>1. SUFFICES ASSUME FadeInv, UNCHANGED vars PROVE FadeInv' /\ StaysFaded /\ Pending' = Pending
  OBVIOUS
<1>2. /\ UNCHANGED <<at, fade, faded, content, ch, dma, tc, late>> /\ pp_index' = pp_index
      /\ signals' = signals /\ todo' = todo /\ af' = af /\ half' = half
  BY <1>1 DEF vars, application, roles, hal, thread, fade
<1>3. Pending' = Pending /\ Playing' = Playing /\ (Fading' => Fading)
  BY <1>2 DEF Pending, Playing, Fading
<1>4. FadeAgrees' /\ HalfAgrees'
  BY <1>1, <1>2 DEF FadeInv, FadeAgrees, HalfAgrees, Stopping, Silent, Quiet, fade
<1>5. QED
  BY <1>1, <1>2, <1>3, <1>4, StageLemma DEF FadeInv

LEMMA FadeStepLemma == IInv /\ FadeInv /\ [Next]_vars => FadeInv'
<1>1. SUFFICES ASSUME IInv, FadeInv, [Next]_vars PROVE FadeInv'
  OBVIOUS
<1>2. CASE Application
  BY <1>1, <1>2, CallsFadeLemma, StopRequestedFadeLemma, StopWakesFadeLemma, StopFinishedFadeLemma
     DEF Application
<1>3. CASE Dma
  BY <1>1, <1>3, HalfEndsFadeLemma, IrqFadeLemma DEF Dma
<1>4. CASE af_thread
  BY <1>1, <1>4, SignalWaitFadeLemma, HandlerCalledFadeLemma, HandlerReturnsFadeLemma,
     StopProcessFadeLemma DEF af_thread
<1>5. CASE UNCHANGED vars
  BY <1>1, <1>5, UnchangedFadeLemma
<1>6. QED
  BY <1>1, <1>2, <1>3, <1>4, <1>5 DEF Next
----------------------------------------------------------------------------
(* The count of an output that runs alone, for the few streams of the players. *)

\* A step that counts nothing.
LEMMA CountLemma ==
  ASSUME AloneAgrees, StaysFaded, UNCHANGED <<at, late, fade, ch, chan_enabled>>, Others' = Others
  PROVE  AloneAgrees'
<1>1. Fading' <=> Fading
  BY DEF Fading
<1>2. FewCounted' <=> FewCounted
  BY DEF FewCounted, fade
<1>3. QED
  BY <1>1, <1>2 DEF AloneAgrees, StaysFaded

\* Only the output's own interrupts come while it runs alone.
LEMMA DmaAloneLemma == IInv /\ FadeInv /\ AloneAgrees /\ Dma => AloneAgrees'
<1>1. SUFFICES ASSUME IInv, FadeInv, AloneAgrees, NEW c \in Channels, HalfEnds(c) \/ af_dma_irq_handler(c),
                      Fading', chan_enabled' = {ch'[Output]}
               PROVE  AloneAgrees'
  BY DEF Dma, AloneAgrees
<1>2. StaysFaded
  BY <1>1, HalfEndsFadeLemma, IrqFadeLemma
<1>3. CASE HalfEnds(c)
  <2>1. /\ at' = at /\ fade' = fade /\ ch' = ch /\ chan_enabled' = chan_enabled
        /\ signals' = signals /\ todo' = todo /\ (~late' => late' = late)
    BY <1>1, <1>3 DEF HalfEnds, application, roles, thread, IInv, TypeOK
  <2>2. Others' = Others /\ late' = late
    BY <1>1, <2>1 DEF Others, Pending, Fading
  <2>3. QED
    BY <1>1, <1>2, <2>1, <2>2, CountLemma
<1>4. CASE af_dma_irq_handler(c)
  <2>1. /\ at' = at /\ fade' = fade /\ ch' = ch /\ chan_enabled' = chan_enabled
        /\ late' = late /\ todo' = todo /\ c \in tc
    BY <1>4 DEF af_dma_irq_handler, application
  <2>2. RolesOf(c) = {dma[c].stream} /\ Min(RolesOf(c)) = dma[c].stream /\ dma[c].run
    BY <1>1, <2>1, IrqFindsLemma
  <2>3. Stopping /\ chan_enabled = {ch[Output]}
    BY <1>1, <2>1 DEF Fading, Stopping
  <2>4. dma[c].stream = Output
    BY <1>1, <2>2, <2>3, PlaysLemma
  <2>5. signals' = signals \cup {Output}
    BY <1>4, <2>2, <2>4 DEF af_dma_irq_handler
  <2>6. Others' = Others
    BY <2>1, <2>5 DEF Others, Pending
  <2>7. QED
    BY <1>1, <1>2, <2>1, <2>6, CountLemma
<1>5. QED
  BY <1>1, <1>3, <1>4

\* The calls counted and those still to come are at most three before the
\* first for the output, and one more after it.
LEMMA StopProcessAloneLemma == IInv /\ FadeInv /\ AloneAgrees /\ StopProcess => AloneAgrees'
<1>1. SUFFICES ASSUME IInv, FadeInv, AloneAgrees, StopProcess, Fading', chan_enabled' = {ch'[Output]}
               PROVE  FewCounted' \/ PlayingFaded'
  BY DEF AloneAgrees
<1>2. PICK s : s = Min(todo)
  OBVIOUS
<1>3. /\ af = "stop_process" /\ todo' = todo \ {s} /\ at' = at /\ late' = late /\ ch' = ch
      /\ chan_enabled' = chan_enabled /\ signals' = signals
  BY <1>1, <1>2 DEF StopProcess, application, roles, hal
<1>4. Fading /\ chan_enabled = {ch[Output]} /\ ~late /\ stop_on_process
  BY <1>1, <1>3 DEF Fading, FadeInv, FadeAgrees, Stopping
<1>5. s \in todo /\ s \in Streams
  BY <1>1, <1>2, <1>3, TodoLemma
<1>6. Pending' = Pending \ {s} /\ s \in Pending
  BY <1>1, <1>3, <1>4, <1>5 DEF FadeInv, FadeAgrees, Pending
<1>7. CASE PlayingFaded
  BY <1>1, <1>4, <1>7, StopProcessFadeLemma DEF StaysFaded
<1>8. CASE ~PlayingFaded
  <2>1. /\ at = "waiting" /\ ~stop_signal /\ stop_process_cnt + Cardinality(Others) <= 3 + faded
        /\ faded = 0 \/ (faded = 1 /\ Output \notin Pending)
    BY <1>1, <1>4, <1>8 DEF AloneAgrees, FewCounted, FadeInv, StagesAgree, OtherHalfFaded
  <2>2. stop_process_cnt \in Nat /\ Cardinality(Others) \in Nat
    BY <1>1, OthersLemma DEF IInv, TypeOK, MaxCount
  <2>3. /\ stop_signal' = (stop_signal \/ Faded)
        /\ stop_process_cnt' = IF Faded THEN MaxCount ELSE stop_process_cnt + 1
        /\ faded' = IF s = Output /\ faded < MaxFaded THEN faded + 1 ELSE faded
    BY <1>1, <1>2, <1>4 DEF StopProcess
  <2>4. ASSUME stop_process_cnt <= 3
        PROVE  stop_process_cnt' = stop_process_cnt + 1 /\ ~stop_signal'
    <3>1. ~Faded
      BY <2>2, <2>4 DEF Faded
    <3>2. ~stop_signal
      BY <2>1
    <3>3. ~stop_signal'
      BY <2>3, <3>1, <3>2, Zenon
    <3>4. QED
      BY <2>3, <3>1, <3>3
  <2>5. CASE s = Output
    <3>1. faded = 0 /\ Others' = Others
      BY <1>6, <2>1, <2>5 DEF Others
    <3>2. stop_process_cnt <= 3 /\ faded' = 1
      BY <2>1, <2>2, <2>3, <2>5, <3>1 DEF MaxFaded
    <3>3. stop_process_cnt' + Cardinality(Others') <= 3 + faded'
      BY <2>1, <2>2, <2>4, <3>1, <3>2
    <3>4. QED
      BY <1>3, <2>1, <2>4, <3>2, <3>3 DEF FewCounted
  <2>6. CASE s # Output
    <3>1. Others' = Others \ {s} /\ s \in Others /\ faded' = faded
      BY <1>6, <2>3, <2>6 DEF Others
    <3>2. Cardinality(Others) >= 1 /\ Cardinality(Others') = Cardinality(Others) - 1
      BY <1>1, <3>1, OthersLemma
    <3>3. stop_process_cnt <= 3
      BY <2>1, <2>2, <3>2
    <3>4. stop_process_cnt' + Cardinality(Others') <= 3 + faded'
      BY <2>1, <2>2, <2>4, <3>1, <3>2, <3>3
    <3>5. QED
      BY <1>3, <2>1, <2>4, <3>3, <3>4 DEF FewCounted
  <2>7. QED
    BY <2>5, <2>6
<1>9. QED
  BY <1>7, <1>8

LEMMA ApplicationAloneLemma ==
  FewStreams /\ IInv /\ FadeInv /\ AloneAgrees /\ Application => AloneAgrees'
<1>1. SUFFICES ASSUME FewStreams, IInv, FadeInv, AloneAgrees, Application,
                      Fading', chan_enabled' = {ch'[Output]}
               PROVE  FewCounted' \/ PlayingFaded'
  BY DEF AloneAgrees
<1>2. CASE StopRequested
  <2>1. /\ at = "call" /\ at' = "waiting" /\ stop_signal' = FALSE
        /\ stop_process_cnt' = stop_process_cnt /\ faded' = faded
        /\ signals' = signals /\ todo' = todo
    BY <1>2 DEF StopRequested, Locked, thread
  <2>2. stop_process_cnt = 0 /\ faded = 0
    BY <1>1, <2>1 DEF FadeInv, FadeAgrees, Stopping
  <2>3. Others' = Others /\ Cardinality(Others) \in Nat /\ Cardinality(Others) <= 3
    BY <1>1, <2>1, OthersLemma DEF Others, Pending
  <2>4. QED
    BY <2>1, <2>2, <2>3 DEF FewCounted
<1>3. CASE StopSignalled
  <2>1. /\ at = "waiting" /\ stop_signal /\ late' = late /\ ch' = ch /\ chan_enabled' = chan_enabled
    BY <1>3 DEF StopSignalled, roles, hal
  <2>2. Fading /\ chan_enabled = {ch[Output]} /\ ~FewCounted
    BY <1>1, <2>1 DEF Fading, FewCounted
  <2>3. PlayingFaded
    BY <1>1, <2>2 DEF AloneAgrees
  <2>4. QED
    BY <1>1, <1>3, <2>2, <2>3, StopWakesFadeLemma DEF StaysFaded
<1>4. CASE StopTimeout
  BY <1>1, <1>4 DEF StopTimeout, Fading
<1>5. QED
  BY <1>1, <1>2, <1>3, <1>4, CallsFadeLemma, StopFinishedFadeLemma DEF Application

LEMMA AloneStepLemma ==
  FewStreams /\ IInv /\ FadeInv /\ AloneAgrees /\ [Next]_vars => AloneAgrees'
<1>1. SUFFICES ASSUME FewStreams, IInv, FadeInv, AloneAgrees, [Next]_vars PROVE AloneAgrees'
  OBVIOUS
<1>2. CASE SignalWait \/ HandlerCalled \/ HandlerReturns \/ UNCHANGED vars
  <2>1. StaysFaded /\ Pending' = Pending
    BY <1>1, <1>2, SignalWaitFadeLemma, HandlerCalledFadeLemma, HandlerReturnsFadeLemma,
       UnchangedFadeLemma
  <2>2. UNCHANGED <<at, late, fade, ch, chan_enabled>>
    BY <1>2 DEF SignalWait, HandlerCalled, HandlerReturns, vars, application, roles, hal
  <2>3. QED
    BY <1>1, <2>1, <2>2, CountLemma DEF Others
<1>3. QED
  BY <1>1, <1>2, ApplicationAloneLemma, DmaAloneLemma, StopProcessAloneLemma DEF Next, af_thread
----------------------------------------------------------------------------
(* The theorems.                                                             *)

LEMMA StepLemma == IInv /\ [Next]_vars => IInv'
<1>1. ASSUME IInv, Application PROVE IInv'
  BY <1>1, BeginsLemma, OpenBeginsLemma, OpenEndsLemma, StartLemma, StopLemma, CloseLemma,
     StopWaitsLemma, StopFinishedLemma DEF Application
<1>2. ASSUME IInv, Dma PROVE IInv'
  BY <1>2, HalfEndsLemma, IrqLemma DEF Dma
<1>3. ASSUME IInv, af_thread PROVE IInv'
  BY <1>3, SignalWaitLemma, HandlerCalledLemma, HandlerReturnsLemma, StopProcessLemma DEF af_thread
<1>4. ASSUME IInv, UNCHANGED vars PROVE IInv'
  <2>1. /\ UNCHANGED <<session, calls, roles, hal, halted>> /\ UNCHANGED fade
        /\ at' = at /\ status' = status /\ handler' = handler /\ pp_index' = pp_index /\ ch' = ch
        /\ calls' = calls /\ chan_enabled' = chan_enabled /\ dma' = dma /\ tc' = tc
        /\ mutex' = mutex /\ signals' = signals /\ todo' = todo /\ af' = af /\ half' = half
        /\ late' = late /\ halted' = halted /\ content' = content
    BY <1>4 DEF vars, application, roles, hal, thread
  <2>2. CallTypes' /\ CallsAgree' /\ ChannelsAgree' /\ DmaAgrees'
    BY <1>4, <2>1, FrameLemma
  <2>3. TypeOK'
    BY <1>4, <2>1 DEF IInv, TypeOK, fade
  <2>4. PlacesAgree'
    BY <1>4, <2>1 DEF IInv, PlacesAgree, HandlerOwnsBuffer, Started, Opened
  <2>5. HandlersAgree'
    BY <1>4, <2>1 DEF IInv, HandlersAgree, Started
  <2>6. QED
    BY <2>2, <2>3, <2>4, <2>5 DEF IInv
<1>5. QED
  BY <1>1, <1>2, <1>3, <1>4 DEF Next

LEMMA InvariantLemma == Spec => []IInv
<1>1. QED
  BY InitLemma, StepLemma, PTL DEF Spec

\* Every variable keeps its type (audioflinger.c, hal_dma.c).
THEOREM TypeTheorem == Spec => []TypeOK
<1>1. IInv => TypeOK
  BY DEF IInv
<1>2. QED
  BY <1>1, InvariantLemma, PTL

\* Every interrupt of the audio DMA finds the stream whose transfer raised it,
\* and the index of a stream that runs is in step with its DMA, however the
\* application's calls, the interrupts and af_thread are interleaved.
THEOREM IrqsInStepTheorem == Spec => []IrqsInStep
<1>1. IInv => IrqsInStep
  <2>1. SUFFICES ASSUME IInv PROVE IrqsInStep
    OBVIOUS
  <2>2. \A c \in tc : RolesOf(c) # {} /\ Min(RolesOf(c)) = dma[c].stream
    BY <2>1, IrqFindsLemma
  <2>3. QED
    BY <2>1, <2>2 DEF IInv, DmaAgrees, IrqsInStep, IrqFindsStream
<1>2. QED
  BY <1>1, InvariantLemma, PTL

\* A handler is called only for an open stream, which stays open until it
\* returns, and if af_thread keeps pace it fills the half not in transfer.
THEOREM HandlerKeepsClearTheorem == Spec => []HandlerKeepsClear
<1>1. IInv => HandlerKeepsClear
  <2>1. SUFFICES ASSUME IInv PROVE HandlerKeepsClear
    OBVIOUS
  <2>2. HandlerOwnsBuffer
    BY <2>1 DEF IInv, PlacesAgree
  <2>3. ASSUME ~late, af = "handler", Started(Min(todo)) PROVE dma[ch[Min(todo)]].half # half
    <3>1. Min(todo) \in Streams /\ half = 1 - dma[ch[Min(todo)]].half
      BY <2>1, <2>3, TodoLemma DEF IInv, HandlersAgree
    <3>2. ch[Min(todo)] \in Channels
      BY <2>1, <2>3, <3>1 DEF IInv, TypeOK, ChannelsAgree, Opened, Started
    <3>3. dma[ch[Min(todo)]].half \in {0, 1}
      BY <2>1, <3>2 DEF IInv, TypeOK
    <3>4. QED
      BY <3>1, <3>3
  <2>4. QED
    BY <2>2, <2>3 DEF HandlerKeepsClear, HalfIsFree, Started
<1>2. QED
  BY <1>1, InvariantLemma, PTL

LEMMA FadeLemma == Spec => []FadeInv
<1>1. QED
  BY FadeInitLemma, FadeStepLemma, InvariantLemma, PTL DEF Spec

\* For any number of streams, running or closed, of whatever players, and as
\* long as af_thread keeps pace: a stop of which two counted calls were the
\* output's own does not end while the output plays a half that was not faded.
THEOREM FadedIsQuietTheorem == Spec => []FadedIsQuiet
<1>1. FadeInv => FadedIsQuiet
  BY DEF FadeInv, StagesAgree, Fading, PlayingFaded, Quiet, Playing, FadedIsQuiet, MaxFaded
<1>2. QED
  BY <1>1, FadeLemma, PTL

\* With the few streams the players have, the same holds of every stop of an
\* output that runs alone, though the signals left of streams closed before are
\* counted too.
THEOREM StopIsQuietTheorem ==
  ASSUME FewStreams
  PROVE  Spec => []StopIsQuiet
<1>1. FadeInv /\ AloneAgrees => StopIsQuiet
  BY DEF FadeInv, StagesAgree, AloneAgrees, FewCounted, Fading, PlayingFaded, Quiet, Playing,
         StopIsQuiet, FadedIsQuiet, AloneIsQuiet, MaxFaded
<1>2. IInv /\ FadeInv /\ AloneAgrees /\ [Next]_vars => AloneAgrees'
  BY AloneStepLemma
<1>3. Init => AloneAgrees
  BY DEF Init, AloneAgrees, Fading
<1>4. QED
  BY <1>1, <1>2, <1>3, FadeLemma, InvariantLemma, PTL DEF Spec
=============================================================================
