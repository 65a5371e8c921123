-------------------------- MODULE A2dpPlay_proofs --------------------------
(* Theorems about the player of music (a2dpplay.cpp), for every size of the  *)
(* queue, of packets and of half buffers, and every number of waits: it uses *)
(* the queue as a queue, keeps sessions apart, and loses no packet while the *)
(* player keeps pace.                                                        *)
EXTENDS A2dpPlay, CQueue_proofs

\* The queue's own invariant, the types, and what the Bluetooth thread holds.
BtTypes ==
  /\ at \in {"idle", "caching", "cached", "recheck", "flowing", "ask", "clear", "waiting", "after"}
  /\ packet \in [n : {0} \cup Lengths, age : {"fresh", "stray"}] /\ cnt \in 0..MaxWait
FlagTypes ==
  /\ tid \in BOOLEAN /\ needSync \in BOOLEAN /\ signal \in BOOLEAN
  /\ heard \in BOOLEAN /\ excused \in BOOLEAN
RunTypes == run \in [put : BOOLEAN, get : BOOLEAN]
PlayerTypes ==
  /\ status \in {"cacheing", "ok"}
  /\ player \in {"off", "init", "ready", "closed", "on", "stopped", "deinit"}
  /\ faults \in 0..MaxFaults /\ carry \in 0..(Half - 1)
A2dpTypes == BtTypes /\ FlagTypes /\ RunTypes /\ PlayerTypes

Holds ==
  /\ at \in {"idle", "cached", "recheck"} => ~Storing
  /\ at \in {"caching", "flowing"} => Storing
  /\ at = "caching" => status = "cacheing"

QInv == IInv /\ A2dpTypes /\ Holds

\* The steps that use the queue, each by one call, and those that do not.
Puts == CacheAdd \/ Flow
Takes == Decode \/ \E good \in 0..(Half - 1) : DecodeFailed(good) \/ DecodeStopped(good)
Others ==
  \/ \E n \in Lengths : Arrive(n)
  \/ CacheOk \/ Recheck \/ Ask \/ Clear \/ Signalled \/ Timeout \/ After \/ Skip
  \/ InitBegins \/ InitEnds \/ OpenStream \/ Deinit \/ DeinitEnds \/ CloseStream

LEMMA StepsLemma == A2dpNext => Puts \/ Takes \/ Others \/ InitQueue
BY DEF A2dpNext, BtThread, MoreData, AppThread, Puts, Takes, Others

LEMMA FramesLemma ==
  ASSUME NEW n \in Nat, NEW age
  PROVE  /\ Len(Frames(n, age)) = n
         /\ \A i \in 1..n : Frames(n, age)[i] = age
BY DEF Frames

LEMMA PutsLemma ==
  ASSUME QInv, Puts
  PROVE  /\ packet.n \in Lengths /\ packet.age \in {"fresh", "stray"}
         /\ Frames(packet.n, packet.age) \in Chunks
         /\ EnCQueue(Frames(packet.n, packet.age))
<1>1. Storing /\ EnCQueue(Frames(packet.n, packet.age))
  BY DEF QInv, Holds, Puts, CacheAdd, Flow
<1>2. packet.n \in Lengths /\ packet.age \in {"fresh", "stray"}
  BY <1>1 DEF QInv, A2dpTypes, BtTypes, Storing
<1>3. QED
  BY <1>1, <1>2, A2dpAssumption

LEMMA TakesLemma ==
  ASSUME QInv, Takes
  PROVE  \E n \in Wanted : n <= len /\ DeCQueue(n, FALSE)
<1>1. /\ len \in Nat /\ Half \in Nat \ {0} /\ 0..(2 * Half) \subseteq Wanted
      /\ carry \in 0..(Half - 1)
  BY A2dpAssumption, SizeAssumption DEF QInv, IInv, TypeOK, A2dpTypes, PlayerTypes
<1>2. CASE Decode
  <2>1. CASE len < Half - carry
    <3>1. DeCQueue(len, FALSE)
      BY <1>2, <2>1 DEF Decode
    <3>2. len \in Wanted /\ len <= len
      BY <1>1, <2>1
    <3>3. QED
      BY <3>1, <3>2
  <2>2. CASE ~(len < Half - carry)
    <3>1. DeCQueue(Half - carry, FALSE)
      BY <1>2, <2>2 DEF Decode
    <3>2. Half - carry \in Wanted /\ Half - carry <= len
      BY <1>1, <2>2
    <3>3. QED
      BY <3>1, <3>2
  <2>3. QED
    BY <2>1, <2>2
<1>3. ASSUME NEW good \in 0..(Half - 1), DecodeFailed(good)
      PROVE  \E n \in Wanted : n <= len /\ DeCQueue(n, FALSE)
  <2>1. good + 1 \in 0..(2 * Half) /\ good + 1 + Half \in 0..(2 * Half)
    BY <1>1
  <2>2. CASE len < good + 1 + Half
    <3>1. DeCQueue(len, FALSE)
      BY <1>3, <2>2 DEF DecodeFailed
    <3>2. len \in Wanted /\ len <= len
      BY <1>1, <2>1, <2>2
    <3>3. QED
      BY <3>1, <3>2
  <2>3. CASE ~(len < good + 1 + Half)
    <3>1. DeCQueue(good + 1 + Half, FALSE)
      BY <1>3, <2>3 DEF DecodeFailed
    <3>2. good + 1 + Half \in Wanted /\ good + 1 + Half <= len
      BY <1>1, <2>1, <2>3
    <3>3. QED
      BY <3>1, <3>2
  <2>4. QED
    BY <2>2, <2>3
<1>4. ASSUME NEW good \in 0..(Half - 1), DecodeStopped(good)
      PROVE  \E n \in Wanted : n <= len /\ DeCQueue(n, FALSE)
  <2>1. DeCQueue(good + 1, FALSE) /\ good < len
    BY <1>4 DEF DecodeStopped
  <2>2. good + 1 \in Wanted /\ good + 1 <= len
    BY <1>1, <2>1
  <2>3. QED
    BY <2>1, <2>2
<1>5. QED
  BY <1>2, <1>3, <1>4 DEF Takes
----------------------------------------------------------------------------
LEMMA QueueStepLemma ==
  ASSUME QInv, A2dpNext
  PROVE  IInv' /\ [F!Next]_(F!fifo)
<1>1. CASE Puts
  <2>1. EnCQueue(Frames(packet.n, packet.age)) /\ Frames(packet.n, packet.age) \in Chunks
    BY <1>1, PutsLemma
  <2>2. IInv' /\ F!Put(Frames(packet.n, packet.age))
    BY <2>1, EnCQueueLemma DEF QInv
  <2>3. QED
    BY <2>1, <2>2 DEF F!Next
<1>2. CASE Takes
  <2>1. PICK n \in Wanted : DeCQueue(n, FALSE)
    BY <1>2, TakesLemma
  <2>2. IInv' /\ F!Take(n, FALSE)
    BY <2>1, DeCQueueLemma DEF QInv
  <2>3. QED
    BY <2>2 DEF F!Next
<1>3. CASE InitQueue
  <2>1. InitCQueue /\ base' \in [Cells -> Items]
    BY <1>3, A2dpAssumption DEF InitQueue
  <2>2. QED
    BY <2>1, InitCQueueLemma DEF F!Next
<1>4. CASE Others
  <2>1. UNCHANGED vars
    BY <1>4 DEF Others, Arrive, CacheOk, Recheck, Ask, Clear, Signalled, Timeout, After, Skip,
                InitBegins, InitEnds, OpenStream, Deinit, DeinitEnds, CloseStream
  <2>2. QED
    BY <2>1, UnchangedLemma DEF QInv
<1>5. QED
  BY <1>1, <1>2, <1>3, <1>4, StepsLemma

LEMMA A2dpInitLemma == A2dpInit => QInv /\ Init
<1>1. SUFFICES ASSUME A2dpInit PROVE QInv /\ Init
  OBVIOUS
<1>2. Init
  BY <1>1, A2dpAssumption DEF A2dpInit, Init
<1>3. A2dpTypes
  <2>1. BtTypes /\ PlayerTypes
    BY <1>1, A2dpAssumption DEF A2dpInit, BtTypes, PlayerTypes, None
  <2>2. FlagTypes
    BY <1>1 DEF A2dpInit, FlagTypes
  <2>3. RunTypes
    BY <1>1 DEF A2dpInit, RunTypes
  <2>4. QED
    BY <2>1, <2>2, <2>3 DEF A2dpTypes
<1>4. Holds
  BY <1>1 DEF A2dpInit, Holds, None, Storing
<1>5. QED
  BY <1>2, <1>3, <1>4, InitLemma DEF QInv


LEMMA BtTypesLemma ==
  ASSUME QInv, A2dpNext
  PROVE  BtTypes' /\ Holds'
<1>1. /\ BtTypes /\ Holds /\ PlayerTypes /\ MaxWait \in Nat /\ Lengths \subseteq Nat \ {0}
      /\ None \in [n : {0} \cup Lengths, age : {"fresh", "stray"}] /\ None.n = 0
  BY A2dpAssumption DEF QInv, A2dpTypes, None
<1>2. ASSUME NEW n \in Lengths, Arrive(n) PROVE BtTypes' /\ Holds'
  BY <1>1, <1>2 DEF Arrive, BtTypes, Holds, PlayerTypes, Storing, bt
<1>3. CASE CacheAdd
  BY <1>1, <1>3 DEF CacheAdd, BtTypes, Holds, Storing
<1>4. CASE CacheOk \/ Recheck
  BY <1>1, <1>4 DEF CacheOk, Recheck, BtTypes, Holds, Storing
<1>5. CASE Flow
  BY <1>1, <1>5 DEF Flow, BtTypes, Holds, Storing
<1>6. CASE Ask \/ Clear \/ Signalled \/ Timeout
  BY <1>1, <1>6 DEF Ask, Clear, Signalled, Timeout, BtTypes, Holds, Storing
<1>7. CASE After
  BY <1>1, <1>7 DEF After, BtTypes, Holds, Storing
<1>8. CASE Skip \/ Takes
  <2>2. UNCHANGED bt
    BY <1>8 DEF Skip, Takes, Decode, DecodeFailed, DecodeStopped, Decoded
  <2>3. status = "cacheing" => status' = "cacheing"
    BY <1>8 DEF Skip, Takes, Decode, DecodeFailed, DecodeStopped
  <2>4. QED
    BY <1>1, <2>2, <2>3 DEF bt, BtTypes, Holds, Storing
<1>9. CASE InitQueue
  BY <1>1, <1>9 DEF InitQueue, BtTypes, Holds, Storing
<1>10. CASE InitBegins \/ InitEnds \/ OpenStream \/ Deinit \/ DeinitEnds \/ CloseStream
  BY <1>1, <1>10 DEF InitBegins, InitEnds, OpenStream, Deinit, DeinitEnds, CloseStream,
                     bt, BtTypes, Holds, Storing
<1>11. QED
  BY <1>2, <1>3, <1>4, <1>5, <1>6, <1>7, <1>8, <1>9, <1>10, StepsLemma DEF Others, Puts

LEMMA FlagTypesLemma ==
  ASSUME QInv, A2dpNext
  PROVE  FlagTypes'
<1>1. FlagTypes /\ Storing \in BOOLEAN
  BY DEF QInv, A2dpTypes, Storing
<1>2. ASSUME NEW n \in Lengths, Arrive(n) PROVE FlagTypes'
  BY <1>1, <1>2, Zenon DEF Arrive, FlagTypes, sync
<1>3. CASE Puts
  BY <1>1, <1>3, Zenon DEF Puts, CacheAdd, Flow, FlagTypes, sync, ghosts
<1>4. CASE CacheOk \/ Recheck \/ Ask \/ Clear \/ Signalled \/ Timeout \/ After
  BY <1>1, <1>4, Zenon DEF CacheOk, Recheck, Ask, Clear, Signalled, Timeout, After, FlagTypes, sync, ghosts
<1>5. CASE Skip
  BY <1>1, <1>5, Zenon DEF Skip, Calls, Set, FlagTypes
<1>6. CASE Decode
  BY <1>1, <1>6, Zenon DEF Decode, Decoded, Calls, Set, FlagTypes
<1>7. ASSUME NEW good \in 0..(Half - 1), DecodeFailed(good) PROVE FlagTypes'
  BY <1>1, <1>7, Zenon DEF DecodeFailed, Decoded, Calls, Set, FlagTypes
<1>8. ASSUME NEW good \in 0..(Half - 1), DecodeStopped(good) PROVE FlagTypes'
  BY <1>1, <1>8, Zenon DEF DecodeStopped, Decoded, Calls, Set, FlagTypes
<1>9. CASE InitBegins \/ InitQueue \/ InitEnds \/ OpenStream
  BY <1>1, <1>9, Zenon DEF InitBegins, InitQueue, InitEnds, OpenStream, FlagTypes, sync, ghosts
<1>10. CASE Deinit \/ DeinitEnds \/ CloseStream
  BY <1>1, <1>10, Zenon DEF Deinit, DeinitEnds, CloseStream, FlagTypes, sync, ghosts
<1>11. QED
  BY <1>2, <1>3, <1>4, <1>5, <1>6, <1>7, <1>8, <1>9, <1>10, StepsLemma DEF Others, Takes

LEMMA CarryLemma ==
  ASSUME QInv, Takes
  PROVE  carry' \in 0..(Half - 1)
<1>1. len \in Nat /\ Half \in Nat \ {0} /\ carry \in 0..(Half - 1)
  BY A2dpAssumption, SizeAssumption DEF QInv, IInv, TypeOK, A2dpTypes, PlayerTypes
<1>2. CASE Decode
  <2>1. \/ len < Half - carry /\ carry' = carry + len
        \/ carry' = 0
    BY <1>2 DEF Decode
  <2>2. QED
    BY <1>1, <2>1
<1>3. ASSUME NEW good \in 0..(Half - 1), DecodeFailed(good) PROVE carry' \in 0..(Half - 1)
  <2>1. /\ good < len
        /\ \/ len < good + 1 + Half /\ carry' = len - (good + 1)
           \/ carry' = 0
    BY <1>3 DEF DecodeFailed
  <2>2. QED
    BY <1>1, <2>1
<1>4. ASSUME NEW good \in 0..(Half - 1), DecodeStopped(good) PROVE carry' \in 0..(Half - 1)
  <2>1. carry + good < Half /\ carry' = carry + good
    BY <1>4 DEF DecodeStopped
  <2>2. QED
    BY <1>1, <2>1
<1>5. QED
  BY <1>2, <1>3, <1>4 DEF Takes

LEMMA PlayerTypesLemma ==
  ASSUME QInv, A2dpNext
  PROVE  RunTypes' /\ PlayerTypes'
<1>1. RunTypes /\ PlayerTypes /\ MaxFaults \in Nat /\ Half \in Nat \ {0} /\ 0 \in 0..(Half - 1)
  BY A2dpAssumption DEF QInv, A2dpTypes
<1>2. ASSUME NEW n \in Lengths, Arrive(n) PROVE RunTypes' /\ PlayerTypes'
  BY <1>1, <1>2 DEF Arrive, RunTypes, PlayerTypes
<1>3. CASE Puts
  BY <1>1, <1>3 DEF Puts, CacheAdd, Flow, RunTypes, PlayerTypes, ghosts
<1>4. CASE CacheOk \/ Recheck \/ Ask \/ Clear \/ Signalled \/ Timeout \/ After
  BY <1>1, <1>4 DEF CacheOk, Recheck, Ask, Clear, Signalled, Timeout, After, RunTypes, PlayerTypes, ghosts
<1>5. CASE Skip \/ Takes
  <2>1. run' = [run EXCEPT !.get = TRUE] /\ UNCHANGED player
    BY <1>5 DEF Skip, Takes, Decode, DecodeFailed, DecodeStopped, Decoded, Calls
  <2>2. RunTypes'
    BY <1>1, <2>1 DEF RunTypes
  <2>3. status' \in {"cacheing", "ok"}
    BY <1>1, <1>5 DEF Skip, Takes, Decode, DecodeFailed, DecodeStopped, Decoded, PlayerTypes
  <2>7. carry' \in 0..(Half - 1)
    BY <1>1, <1>5, CarryLemma DEF Skip, PlayerTypes
  <2>4. CASE UNCHANGED faults
    BY <1>1, <2>1, <2>2, <2>3, <2>4, <2>7 DEF PlayerTypes
  <2>5. CASE faults < MaxFaults /\ faults' = faults + 1
    BY <1>1, <2>1, <2>2, <2>3, <2>5, <2>7 DEF PlayerTypes
  <2>6. QED
    BY <1>5, <2>4, <2>5 DEF Skip, Takes, Decode, DecodeFailed, DecodeStopped
<1>6. CASE AppThread \/ CloseStream
  <2>1. [put |-> FALSE, get |-> FALSE] \in [put : BOOLEAN, get : BOOLEAN]
    OBVIOUS
  <2>2. RunTypes'
    BY <1>1, <1>6, <2>1, Zenon DEF AppThread, InitBegins, InitQueue, InitEnds, OpenStream, Deinit,
       DeinitEnds, CloseStream, RunTypes
  <2>3. PlayerTypes'
    BY <1>1, <1>6, Zenon DEF AppThread, InitBegins, InitQueue, InitEnds, OpenStream, Deinit,
       DeinitEnds, CloseStream, PlayerTypes, ghosts
  <2>4. QED
    BY <2>2, <2>3
<1>7. QED
  BY <1>2, <1>3, <1>4, <1>5, <1>6, StepsLemma DEF Others, AppThread

LEMMA QInvLemma == QInv /\ [A2dpNext]_A2dpVars => QInv' /\ [F!Next]_(F!fifo)
<1>1. CASE QInv /\ A2dpNext
  BY <1>1, QueueStepLemma, BtTypesLemma, FlagTypesLemma, PlayerTypesLemma DEF QInv, A2dpTypes
<1>2. CASE QInv /\ UNCHANGED A2dpVars
  <2>1. UNCHANGED vars /\ IInv
    BY <1>2 DEF A2dpVars, QInv
  <2>2. IInv' /\ UNCHANGED F!fifo
    BY <2>1, UnchangedLemma
  <2>3. A2dpTypes' /\ Holds'
    BY <1>2 DEF A2dpVars, bt, sync, ghosts, QInv, A2dpTypes, BtTypes, FlagTypes, RunTypes,
                PlayerTypes, Holds, Storing
  <2>4. QED
    BY <2>2, <2>3 DEF QInv
<1>3. QED
  BY <1>1, <1>2
----------------------------------------------------------------------------
\* Places, flags and the threads' progress keep their types (a2dpplay.cpp).
THEOREM A2dpTypeTheorem == A2dpSpec => []A2dpTypeOK
<1>1. QInv => A2dpTypeOK
  BY DEF QInv, IInv, A2dpTypes, BtTypes, FlagTypes, RunTypes, PlayerTypes, A2dpTypeOK
<1>2. QED
  BY <1>1, A2dpInitLemma, QInvLemma, PTL DEF A2dpSpec

\* The three threads together use the circular buffer as a queue of frames: none
\* is lost, repeated or reordered between store_sbc_buffer and the decoder.
THEOREM A2dpFifoTheorem == A2dpSpec => IsFifo
<1>1. QED
  BY A2dpInitLemma, InitLemma, QInvLemma, PTL DEF A2dpSpec, IsFifo, F!Spec
----------------------------------------------------------------------------
\* While a stray packet is still to be stored nothing of the session is queued.
StrayInv ==
  /\ StrayFirst
  /\ Storing /\ packet.age = "stray" => len = 0

LEMMA ContentsTypeLemma ==
  ASSUME IInv
  PROVE  Contents \in Seq(Items) /\ Len(Contents) = len /\ len \in Nat
BY ContentsLemma, ContentsStateLemma, SizeAssumption DEF IInv, TypeOK

LEMMA ContentsPrimeLemma ==
  ASSUME IInv'
  PROVE  Contents' \in Seq(Items) /\ Len(Contents') = len' /\ len' \in Nat
BY NewContentsLemma, SizeAssumption DEF IInv, TypeOK

LEMMA StrayPutsLemma ==
  ASSUME QInv, StrayInv, Puts
  PROVE  StrayInv'
<1>1. /\ EnCQueue(Frames(packet.n, packet.age)) /\ Frames(packet.n, packet.age) \in Chunks
      /\ packet.n \in Lengths /\ packet.n \in Nat /\ packet.age \in {"fresh", "stray"}
  BY PutsLemma, A2dpAssumption
<1>2. IInv' /\ F!Put(Frames(packet.n, packet.age))
  BY <1>1, EnCQueueLemma DEF QInv
<1>3. Contents \in Seq(Items) /\ Len(Contents) = len /\ len \in Nat
  BY ContentsTypeLemma DEF QInv
<1>4. Contents' \in Seq(Items) /\ Len(Contents') = len' /\ len' \in Nat
  BY <1>2, ContentsPrimeLemma
<1>5. /\ Len(Frames(packet.n, packet.age)) = packet.n
      /\ \A i \in 1..packet.n : Frames(packet.n, packet.age)[i] = packet.age
      /\ Frames(packet.n, packet.age) \in Seq(Items)
  BY <1>1, FramesLemma, ChunkAssumption
<1>6. PICK k \in Lengths, j \in 0..len :
        j <= k /\ \A i \in 1..len : Contents[i] = IF i <= j THEN "stray" ELSE "fresh"
  BY DEF StrayInv, StrayFirst
<1>7. k \in Nat
  BY <1>6, A2dpAssumption
<1>8. CASE UNCHANGED Contents
  <2>1. len' = len
    BY <1>3, <1>4, <1>8
  <2>2. StrayFirst'
    BY <1>6, <1>8, <2>1 DEF StrayFirst
  <2>3. packet' = packet \/ packet' = None
    BY DEF Puts, CacheAdd, Flow
  <2>4. (Storing /\ packet.age = "stray" => len = 0)'
    BY <2>1, <2>3 DEF StrayInv, None, Storing
  <2>5. QED
    BY <2>2, <2>4 DEF StrayInv
<1>9. CASE Contents' = Contents \o Frames(packet.n, packet.age) /\ ret' = "ok"
  <2>1. packet' = None
    BY <1>9 DEF Puts, CacheAdd, Flow
  <2>2. /\ len' = len + packet.n
        /\ \A i \in 1..len' : Contents'[i] = IF i <= len THEN Contents[i] ELSE packet.age
    BY <1>1, <1>3, <1>4, <1>5, <1>9
  <2>3. CASE packet.age = "stray"
    <3>1. len = 0
      BY <1>1, <2>3, A2dpAssumption DEF StrayInv, Storing
    <3>2. /\ packet.n \in 0..len' /\ packet.n <= packet.n
          /\ \A i \in 1..len' : Contents'[i] = IF i <= packet.n THEN "stray" ELSE "fresh"
      BY <1>1, <2>2, <2>3, <3>1
    <3>3. StrayFirst'
      BY <1>1, <3>2 DEF StrayFirst
    <3>4. QED
      BY <2>1, <3>3 DEF StrayInv, Storing, None
  <2>4. CASE packet.age = "fresh"
    <3>1. j \in 0..len' /\ \A i \in 1..len' : Contents'[i] = IF i <= j THEN "stray" ELSE "fresh"
      BY <1>1, <1>3, <1>6, <1>7, <2>2, <2>4
    <3>2. StrayFirst'
      BY <1>6, <3>1 DEF StrayFirst
    <3>3. QED
      BY <2>1, <3>2 DEF StrayInv, Storing, None
  <2>5. QED
    BY <1>1, <2>3, <2>4
<1>10. QED
  BY <1>2, <1>8, <1>9 DEF F!Put, F!Refuse

LEMMA StrayTakesLemma ==
  ASSUME QInv, StrayInv, Takes
  PROVE  StrayInv'
<1>1. PICK n \in Wanted : n <= len /\ DeCQueue(n, FALSE)
  BY TakesLemma
<1>2. IInv' /\ F!Take(n, FALSE) /\ n \in Nat
  BY <1>1, DeCQueueLemma, ChunkAssumption DEF QInv
<1>3. Contents \in Seq(Items) /\ Len(Contents) = len /\ len \in Nat
  BY ContentsTypeLemma DEF QInv
<1>4. Contents' \in Seq(Items) /\ Len(Contents') = len' /\ len' \in Nat
  BY <1>2, ContentsPrimeLemma
<1>5. Contents' = SubSeq(Contents, n + 1, len)
  BY <1>1, <1>2, <1>3 DEF F!Take
<1>6. len' = len - n /\ \A i \in 1..len' : Contents'[i] = Contents[i + n]
  BY <1>1, <1>2, <1>3, <1>4, <1>5
<1>7. PICK k \in Lengths, j \in 0..len :
        j <= k /\ \A i \in 1..len : Contents[i] = IF i <= j THEN "stray" ELSE "fresh"
  BY DEF StrayInv, StrayFirst
<1>8. k \in Nat
  BY <1>7, A2dpAssumption
<1>9. DEFINE m == IF j <= n THEN 0 ELSE j - n
<1>10. m \in 0..len' /\ m <= k
  BY <1>1, <1>2, <1>3, <1>6, <1>7, <1>8
<1>11. \A i \in 1..len' : Contents'[i] = IF i <= m THEN "stray" ELSE "fresh"
  BY <1>1, <1>2, <1>3, <1>6, <1>7, <1>8
<1>12. StrayFirst'
  <2> HIDE DEF m
  <2> QED
    BY <1>7, <1>10, <1>11 DEF StrayFirst
<1>13. UNCHANGED packet
  BY DEF Takes, Decode, DecodeFailed, DecodeStopped, Decoded, bt
<1>14. len = 0 => len' = 0
  BY <1>1, <1>2, <1>4, <1>6
<1>15. QED
  BY <1>12, <1>13, <1>14 DEF StrayInv, Storing

LEMMA StrayNextLemma == QInv /\ StrayInv /\ [A2dpNext]_A2dpVars => StrayInv'
<1>1. SUFFICES ASSUME QInv, StrayInv, A2dpNext \/ UNCHANGED A2dpVars PROVE StrayInv'
  OBVIOUS
<1>2. PICK k \in Lengths, j \in 0..len :
        j <= k /\ \A i \in 1..len : Contents[i] = IF i <= j THEN "stray" ELSE "fresh"
  BY <1>1 DEF StrayInv, StrayFirst
<1>3. CASE InitQueue
  <2>1. len' = 0 /\ k \in Nat
    BY <1>2, <1>3, A2dpAssumption DEF InitQueue, InitCQueue
  <2>2. 0 <= k /\ 0 \in 0..len' /\ \A i \in 1..len' : Contents'[i] = IF i <= 0 THEN "stray" ELSE "fresh"
    BY <2>1
  <2>3. QED
    BY <1>2, <2>1, <2>2 DEF StrayInv, StrayFirst
<1>4. CASE Others \/ UNCHANGED A2dpVars
  <2>1. UNCHANGED vars
    BY <1>4 DEF A2dpVars, Others, Arrive, CacheOk, Recheck, Ask, Clear, Signalled, Timeout, After, Skip,
                InitBegins, InitEnds, OpenStream, Deinit, DeinitEnds, CloseStream
  <2>2. UNCHANGED <<Contents, len>>
    BY <2>1 DEF vars, Contents
  <2>3. packet' = packet \/ packet'.age = "fresh"
    BY <1>4 DEF A2dpVars, Others, Arrive, CacheOk, Recheck, Ask, Clear, Signalled, Timeout, After, Skip,
                InitBegins, InitEnds, OpenStream, Deinit, DeinitEnds, CloseStream, bt, None
  <2>4. StrayFirst'
    BY <1>1, <2>2 DEF StrayInv, StrayFirst
  <2>5. QED
    BY <1>1, <2>2, <2>3, <2>4 DEF StrayInv, Storing
<1>5. QED
  BY <1>1, <1>3, <1>4, StepsLemma, StrayPutsLemma, StrayTakesLemma

LEMMA StrayInitLemma == A2dpInit /\ Lengths # {} => StrayInv
<1>1. SUFFICES ASSUME A2dpInit, NEW k \in Lengths PROVE StrayInv
  OBVIOUS
<1>2. len = 0 /\ k \in Nat /\ packet = None
  BY <1>1, A2dpAssumption DEF A2dpInit
<1>3. 0 <= k /\ 0 \in 0..len /\ \A i \in 1..len : Contents[i] = IF i <= 0 THEN "stray" ELSE "fresh"
  BY <1>2
<1>4. QED
  BY <1>2, <1>3 DEF StrayInv, StrayFirst, Storing, None

\* Of an earlier session there is at most one packet, ahead of all the frames of
\* this one, however the threads interleave with stops and starts (a2dpplay.cpp).
THEOREM StrayTheorem == A2dpSpec => []StrayFirst
<1>1. StrayInv => StrayFirst
  BY DEF StrayInv
<1>2. A2dpInit => StrayInv
  BY StrayInitLemma, A2dpAssumption
<1>3. QED
  BY <1>1, <1>2, A2dpInitLemma, QInvLemma, StrayNextLemma, PTL DEF A2dpSpec
----------------------------------------------------------------------------
(* What the waits of a packet free: a half buffer each, less what the first of *)
(* them found counted in dataLen.                                              *)
Freed(k) == k * Half

LEMMA FreedLemma ==
  /\ Freed(0) = 0 /\ \A k \in Nat : Freed(k) \in Nat /\ Freed(k + 1) = Freed(k) + Half
  /\ \A n \in Lengths : n + Half <= Freed(MaxWait) + 1
BY A2dpAssumption, RoomAssumption DEF Freed

Room(k) == Size - len - carry + Half > Freed(k) \/ Size - len >= packet.n

\* The end of the caching leaves at least half of the queue free, and so does
\* its beginning.
CachingRoom ==
  status = "cacheing" /\ player \notin {"off", "init"} /\ at # "cached" =>
    IF Storing /\ at # "caching" THEN len = 0 ELSE 2 * len <= Size

WaitsRoom ==
  Storing /\ at # "caching" =>
    /\ Room(cnt)
    /\ at = "after" => Room(cnt + 1)
    /\ at = "waiting" /\ signal => Room(cnt + 1)
    /\ at \in {"clear", "waiting"} /\ ~needSync => Room(cnt + 1)
    /\ at = "clear" => tid
    /\ at # "flowing" => cnt < MaxWait

RoomParts ==
  /\ CachingRoom /\ WaitsRoom
  /\ at = "caching" => 2 * len <= Size
  /\ player = "ready" => len = 0 /\ ~Storing

RoomInv == excused \/ RoomParts

LEMMA LengthsLemma ==
  ASSUME QInv
  PROVE  /\ len \in 0..Size /\ Size \in Nat \ {0} /\ Half \in Nat \ {0} /\ cnt \in Nat
         /\ packet.n \in Nat /\ 2 * packet.n <= Size
         /\ Storing => packet.n + Half <= Freed(MaxWait) + 1
         /\ MaxWait \in Nat /\ cnt <= MaxWait /\ carry \in 0..(Half - 1)
<1>1. packet.n \in Lengths \/ packet.n = 0
  BY DEF QInv, A2dpTypes, BtTypes
<1>2. /\ packet.n \in Nat /\ 2 * packet.n <= Size
      /\ Storing => packet.n + Half <= Freed(MaxWait) + 1
  <2>1. Lengths \subseteq Nat /\ Size \in Nat
    BY A2dpAssumption, SizeAssumption
  <2>2. \A n \in Lengths : n + Half <= Freed(MaxWait) + 1 /\ 2 * n <= Size
    BY FreedLemma, RoomAssumption
  <2>3. CASE packet.n \in Lengths
    BY <2>1, <2>2, <2>3
  <2>4. CASE packet.n = 0
    BY <2>1, <2>4 DEF Storing
  <2>5. QED
    BY <1>1, <2>3, <2>4
<1>3. QED
  BY <1>2, A2dpAssumption, SizeAssumption
  DEF QInv, IInv, TypeOK, A2dpTypes, BtTypes, PlayerTypes

LEMMA PutsLengthLemma ==
  ASSUME QInv, Puts
  PROVE  \/ ret' = "err" /\ len' = len /\ Size - len < packet.n
         \/ ret' = "ok" /\ len' = len + packet.n
<1>1. /\ EnCQueue(Frames(packet.n, packet.age)) /\ Len(Frames(packet.n, packet.age)) = packet.n
  BY PutsLemma, LengthsLemma, FramesLemma
<1>2. QED
  BY <1>1 DEF EnCQueue, Refuse, AvailableOfCQueue

\* A call that is no fault frees a half buffer but for what dataLen counted, or
\* all there is; either way it has answered the request for a signal.
LEMMA TakesLengthLemma ==
  ASSUME QInv, Takes, ~excused'
  PROVE  /\ UNCHANGED <<at, packet, cnt, player, tid>> /\ (excused => ~Storing)
         /\ status = "ok" /\ player = "on" /\ len' \in Nat /\ carry' \in 0..(Half - 1)
         /\ \/ status' = "ok" /\ len' + carry' + Half <= len + carry /\ len' <= len /\ ~excused
            \/ status' = "cacheing" /\ len' = 0
<1>1. len \in Nat /\ Half \in Nat \ {0} /\ carry \in 0..(Half - 1)
  BY LengthsLemma
<1>2. /\ UNCHANGED <<at, packet, cnt, player, tid>> /\ (excused => ~Storing)
      /\ status = "ok" /\ player = "on" /\ carry' \in 0..(Half - 1)
  BY CarryLemma DEF Takes, Decode, DecodeFailed, DecodeStopped, Decoded, Calls, Set, bt
<1>3. ASSUME NEW n \in Nat, n <= len, DeCQueue(n, FALSE) PROVE len' = len - n
  BY <1>1, <1>3 DEF DeCQueue
<1>4. CASE Decode
  <2>1. CASE len < Half - carry
    <3>1. DeCQueue(len, FALSE) /\ status' = "cacheing"
      BY <1>4, <2>1, Zenon DEF Decode, Decoded
    <3>2. len \in Nat /\ len <= len
      BY <1>1
    <3>3. len' = len - len
      BY <1>3, <3>1, <3>2
    <3>4. QED
      BY <1>1, <1>2, <3>1, <3>3
  <2>2. CASE ~(len < Half - carry)
    <3>1. DeCQueue(Half - carry, FALSE) /\ status' = "ok" /\ carry' = 0 /\ excused' = excused
      BY <1>4, <2>2, Zenon DEF Decode, Decoded
    <3>2. Half - carry \in Nat /\ Half - carry <= len
      BY <1>1, <2>2
    <3>3. len' = len - (Half - carry)
      BY <1>3, <3>1, <3>2
    <3>4. QED
      BY <1>1, <1>2, <3>1, <3>2, <3>3
  <2>3. QED
    BY <2>1, <2>2
<1>5. ASSUME NEW good \in 0..(Half - 1), DecodeFailed(good)
      PROVE  /\ len' \in Nat
             /\ \/ status' = "ok" /\ len' + carry' + Half <= len + carry /\ len' <= len /\ ~excused
                \/ status' = "cacheing" /\ len' = 0
  <2>1. CASE len < good + 1 + Half
    <3>1. DeCQueue(len, FALSE) /\ status' = "cacheing"
      BY <1>5, <2>1, Zenon DEF DecodeFailed, Decoded
    <3>2. len \in Nat /\ len <= len
      BY <1>1
    <3>3. len' = len - len
      BY <1>3, <3>1, <3>2
    <3>4. QED
      BY <1>1, <3>1, <3>3
  <2>2. CASE ~(len < good + 1 + Half)
    <3>1. /\ DeCQueue(good + 1 + Half, FALSE) /\ status' = "ok" /\ carry' = 0
          /\ excused' = excused
      BY <1>5, <2>2, Zenon DEF DecodeFailed, Decoded
    <3>2. good + 1 + Half \in Nat /\ good + 1 + Half <= len
      BY <1>1, <2>2
    <3>3. len' = len - (good + 1 + Half)
      BY <1>3, <3>1, <3>2
    <3>4. QED
      BY <1>1, <3>1, <3>2, <3>3
  <2>3. QED
    BY <2>1, <2>2
<1>6. ASSUME NEW good \in 0..(Half - 1), DecodeStopped(good) PROVE FALSE
  BY <1>6 DEF DecodeStopped
<1>7. QED
  BY <1>2, <1>4, <1>5, <1>6 DEF Takes

LEMMA MoreRoom ==
  ASSUME NEW s \in Int, NEW l \in Int, NEW m \in Int, NEW c \in Int, NEW d \in Int,
         NEW h \in Nat, NEW f \in Int, NEW p \in Int,
         m + d + h <= l + c, m <= l, s - l - c + h > f \/ s - l >= p
  PROVE  (s - m - d + h > f + h \/ s - m >= p) /\ (s - m - d + h > f \/ s - m >= p)
OBVIOUS

LEMMA RoomTakesLemma ==
  ASSUME QInv, RoomInv, Takes
  PROVE  RoomInv'
<1>1. SUFFICES ASSUME ~excused' PROVE RoomParts'
  BY DEF RoomInv
<1>2. /\ UNCHANGED <<at, packet, cnt, player, tid>> /\ (excused => ~Storing)
      /\ status = "ok" /\ player = "on" /\ len' \in Nat /\ carry' \in 0..(Half - 1)
      /\ \/ status' = "ok" /\ len' + carry' + Half <= len + carry /\ len' <= len /\ ~excused
         \/ status' = "cacheing" /\ len' = 0
  BY <1>1, TakesLengthLemma
<1>3. /\ len \in 0..Size /\ Size \in Nat \ {0} /\ Half \in Nat \ {0} /\ cnt \in Nat
      /\ packet.n \in Nat /\ 2 * packet.n <= Size /\ carry \in 0..(Half - 1)
  BY LengthsLemma
<1>4. /\ Freed(cnt) \in Nat /\ Freed(cnt + 1) = Freed(cnt) + Half
      /\ Freed(cnt') = Freed(cnt) /\ Freed(cnt' + 1) = Freed(cnt) + Half
  BY <1>2, <1>3, FreedLemma
<1>5. at # "caching"
  BY <1>2 DEF QInv, Holds
<1>6. CachingRoom'
  BY <1>2, <1>3 DEF CachingRoom
<1>7. WaitsRoom'
  <2>1. SUFFICES ASSUME Storing
                 PROVE  /\ Room(cnt)' /\ Room(cnt + 1)'
                        /\ at = "clear" => tid
                        /\ at # "flowing" => cnt < MaxWait
    BY <1>2 DEF WaitsRoom, Storing
  <2>2. /\ Room(cnt) /\ (at = "clear" => tid) /\ (at # "flowing" => cnt < MaxWait)
    BY <1>2, <1>5, <2>1 DEF RoomInv, RoomParts, WaitsRoom
  <2>3. /\ Size - len' - carry' + Half > Freed(cnt') \/ Size - len' >= packet'.n
        /\ Size - len' - carry' + Half > Freed(cnt' + 1) \/ Size - len' >= packet'.n
    <3>1. cnt' = cnt /\ packet' = packet
      BY <1>2
    <3>2. Freed(cnt') = Freed(cnt) /\ Freed(cnt' + 1) = Freed(cnt) + Half
      BY <1>4
    <3>3. CASE len' = 0
      BY <1>3, <3>1, <3>3
    <3>4. CASE len' + carry' + Half <= len + carry /\ len' <= len
      <4>1. Size - len - carry + Half > Freed(cnt) \/ Size - len >= packet.n
        BY <2>2 DEF Room
      <4>2. /\ Size \in Int /\ len \in Int /\ len' \in Int /\ carry \in Int /\ carry' \in Int
            /\ Half \in Nat /\ Freed(cnt) \in Int /\ packet.n \in Int
        BY <1>2, <1>3, <1>4
      <4>3. /\ Size - len' - carry' + Half > Freed(cnt) + Half \/ Size - len' >= packet.n
            /\ Size - len' - carry' + Half > Freed(cnt) \/ Size - len' >= packet.n
        BY <3>4, <4>1, <4>2, MoreRoom
      <4>4. QED
        BY <3>1, <3>2, <4>3
    <3>5. QED
      BY <1>2, <3>3, <3>4
  <2>4. Room(cnt)' /\ Room(cnt + 1)'
    BY <2>3 DEF Room
  <2>5. QED
    BY <2>2, <2>4
<1>8. QED
  BY <1>2, <1>5, <1>6, <1>7 DEF RoomParts

LEMMA HalfLemma ==
  ASSUME NEW s \in Nat, NEW l \in Nat, ~(l > s \div 2)
  PROVE  2 * l <= s
<1>1. s \div 2 \in Nat /\ s - 2 * (s \div 2) >= 0
  OBVIOUS
<1>2. QED
  BY <1>1

LEMMA RoomPutsLemma ==
  ASSUME QInv, RoomInv, Puts
  PROVE  RoomInv'
<1>1. SUFFICES ASSUME RoomParts, UNCHANGED <<cnt, tid, needSync, signal, status, carry, player>>
               PROVE  RoomParts'
  BY DEF RoomInv, Puts, CacheAdd, Flow, sync, ghosts
<1>2. /\ len \in 0..Size /\ Size \in Nat \ {0} /\ cnt \in Nat /\ MaxWait \in Nat /\ cnt <= MaxWait
      /\ packet.n \in Nat /\ 2 * packet.n <= Size /\ carry \in 0..(Half - 1)
      /\ Half \in Nat \ {0} /\ (Storing => packet.n + Half <= Freed(MaxWait) + 1)
  BY LengthsLemma
<1>3. Storing /\ player # "ready" /\ (player' = "ready" => FALSE)
  BY <1>1 DEF QInv, Holds, Puts, CacheAdd, Flow, RoomParts
<1>4. \/ ret' = "err" /\ len' = len /\ Size - len < packet.n
      \/ ret' = "ok" /\ len' = len + packet.n
  BY PutsLengthLemma
<1>5. CASE CacheAdd
  <2>1. at' \in {"cached", "idle"} /\ ~Storing' /\ (at' = "idle" => ~Enough(len', ret'))
    BY <1>5 DEF CacheAdd, None, Storing
  <2>2. at' = "idle" => 2 * len' <= Size
    <3>1. ~Enough(len', ret') => ~(len' > Size \div 2)
      BY DEF Enough
    <3>2. len' \in Nat
      BY <1>2, <1>4
    <3>3. ~(len' > Size \div 2) => 2 * len' <= Size
      BY <1>2, <3>2, HalfLemma
    <3>4. QED
      BY <2>1, <3>1, <3>3
  <2>3. QED
    BY <1>3, <2>1, <2>2 DEF RoomParts, CachingRoom, WaitsRoom
<1>6. CASE Flow /\ ret' = "ok"
  <2>1. at = "flowing" /\ at' = "idle" /\ ~Storing' /\ len' = len + packet.n
    BY <1>4, <1>6 DEF Flow, None, Storing
  <2>2. status = "cacheing" /\ player \notin {"off", "init"} => len = 0
    BY <1>1, <1>3, <2>1 DEF RoomParts, CachingRoom
  <2>3. len = 0 => 2 * len' <= Size
    BY <1>2, <2>1
  <2>4. QED
    BY <1>1, <1>3, <2>1, <2>2, <2>3 DEF RoomParts, CachingRoom, WaitsRoom
<1>7. CASE Flow /\ ret' # "ok"
  <2>1. at = "flowing" /\ at' = "ask" /\ packet' = packet /\ len' = len /\ Size - len < packet.n
    BY <1>4, <1>7 DEF Flow
  <2>2. Room(cnt)
    BY <1>1, <1>3, <2>1 DEF RoomParts, WaitsRoom
  <2>3. Room(cnt)'
    BY <1>1, <2>1, <2>2 DEF Room
  <2>4. cnt < MaxWait
    <3>1. cnt # MaxWait
      <4>1. SUFFICES ASSUME cnt = MaxWait PROVE FALSE
        OBVIOUS
      <4>2. Size - len - carry + Half > Freed(MaxWait) \/ Size - len >= packet.n
        BY <2>2, <4>1 DEF Room
      <4>3. Freed(MaxWait) \in Nat
        BY <1>2, FreedLemma
      <4>4. QED
        BY <1>2, <1>3, <2>1, <4>2, <4>3
    <3>2. QED
      BY <1>2, <3>1
  <2>5. CachingRoom'
    BY <1>1, <1>3, <2>1 DEF RoomParts, CachingRoom, Storing
  <2>6. WaitsRoom'
    BY <1>1, <2>1, <2>3, <2>4 DEF WaitsRoom
  <2>7. QED
    BY <1>3, <2>1, <2>5, <2>6 DEF RoomParts
<1>8. QED
  BY <1>5, <1>6, <1>7 DEF Puts

(* The Bluetooth thread between its calls of the queue. *)
LEMMA RoomWaitsLemma ==
  ASSUME QInv, RoomInv, CacheOk \/ Recheck \/ Ask \/ Clear \/ Signalled \/ Timeout \/ After
  PROVE  RoomInv'
<1>1. SUFFICES ASSUME RoomParts, ~excused' PROVE RoomParts'
  BY DEF RoomInv, CacheOk, Recheck, Ask, Clear, Signalled, Timeout, After, ghosts
<1>2. /\ len \in 0..Size /\ Size \in Nat \ {0} /\ cnt \in Nat /\ MaxWait \in Nat /\ cnt <= MaxWait
      /\ packet.n \in Nat
  BY LengthsLemma
<1>3. len' = len /\ carry' = carry /\ player' = player
  BY DEF CacheOk, Recheck, Ask, Clear, Signalled, Timeout, After, vars
<1>4. player = "ready" => len' = 0 /\ ~Storing
  BY <1>1, <1>3 DEF RoomParts
<1>5. CASE CacheOk
  <2>1. ~Storing /\ packet' = packet /\ status' = "ok" /\ at' = "recheck"
    BY <1>5 DEF CacheOk, QInv, Holds
  <2>2. QED
    BY <1>3, <1>4, <2>1 DEF RoomParts, CachingRoom, WaitsRoom, Storing
<1>9. CASE Recheck
  <2>1. ~Storing /\ packet' = packet /\ status' = status /\ at = "recheck" /\ at' \in {"ask", "idle"}
    BY <1>9 DEF Recheck, QInv, Holds
  <2>2. QED
    BY <1>1, <1>3, <1>4, <2>1 DEF RoomParts, CachingRoom, WaitsRoom, Storing
<1>6. CASE Ask \/ Clear \/ Signalled \/ (Timeout /\ ~needSync)
  <2>1. /\ packet' = packet /\ cnt' = cnt /\ status' = status /\ at \in {"ask", "clear", "waiting"}
        /\ at' \in {"clear", "waiting", "after"} /\ (at' = "clear" => tid' /\ needSync')
        /\ at' = "waiting" => ~signal' /\ (~needSync' => at = "clear" /\ ~needSync)
        /\ at' = "after" =>
             (at = "waiting" /\ signal) \/ (at = "clear" /\ ~tid) \/ (at = "waiting" /\ ~needSync)
    BY <1>6 DEF Ask, Clear, Signalled, Timeout, sync, QInv, A2dpTypes, FlagTypes
  <2>2. CachingRoom'
    BY <1>1, <1>3, <2>1 DEF RoomParts, CachingRoom, Storing
  <2>3. WaitsRoom'
    <3>1. SUFFICES ASSUME Storing
                   PROVE  /\ Room(cnt)' /\ (at' = "after" => Room(cnt + 1)') /\ cnt < MaxWait
                          /\ at' = "waiting" /\ ~needSync' => Room(cnt + 1)'
      BY <2>1 DEF WaitsRoom, Storing
    <3>2. /\ Room(cnt) /\ (at = "waiting" /\ signal => Room(cnt + 1))
          /\ (at \in {"clear", "waiting"} /\ ~needSync => Room(cnt + 1))
          /\ (at = "clear" => tid) /\ cnt < MaxWait
      BY <1>1, <2>1, <3>1 DEF RoomParts, WaitsRoom
    <3>3. Room(cnt)' = Room(cnt) /\ Room(cnt + 1)' = Room(cnt + 1)
      BY <1>3, <2>1 DEF Room
    <3>4. QED
      BY <2>1, <3>2, <3>3
  <2>4. QED
    BY <1>3, <1>4, <2>1, <2>2, <2>3 DEF RoomParts, Storing
<1>7. CASE After
  <2>1. at = "after" /\ status' = status /\ at' \in {"idle", "flowing"}
    BY <1>7 DEF After
  <2>2. Storing' => Storing /\ packet' = packet /\ cnt' = cnt + 1 /\ at' = "flowing"
    BY <1>7 DEF After, Storing, None
  <2>3. Storing => Room(cnt + 1)
    BY <1>1, <2>1 DEF RoomParts, WaitsRoom
  <2>4. Storing' => Room(cnt)'
    BY <1>3, <2>2, <2>3 DEF Room
  <2>5. WaitsRoom'
    BY <2>1, <2>2, <2>4 DEF WaitsRoom
  <2>6. CachingRoom'
    <3>1. status = "cacheing" /\ player \notin {"off", "init"} => IF Storing THEN len = 0 ELSE 2 * len <= Size
      BY <1>1, <2>1 DEF RoomParts, CachingRoom
    <3>2. len = 0 => 2 * len <= Size
      BY <1>2
    <3>3. QED
      BY <1>3, <2>1, <2>2, <3>1, <3>2 DEF CachingRoom
  <2>7. QED
    BY <1>3, <1>4, <2>1, <2>2, <2>5, <2>6 DEF RoomParts
<1>8. QED
  BY <1>1, <1>5, <1>6, <1>7, <1>9 DEF Timeout

LEMMA RoomArriveLemma ==
  ASSUME QInv, RoomInv, NEW n \in Lengths, Arrive(n)
  PROVE  RoomInv'
<1>1. SUFFICES ASSUME ~excused' PROVE RoomParts'
  BY DEF RoomInv
<1>2. at = "idle" /\ ~Storing /\ player \in {"on", "stopped", "deinit"}
  BY DEF Arrive, QInv, Holds
<1>3. /\ len' = len /\ carry' = carry /\ status' = status /\ player' = player
      /\ signal' = signal /\ tid' = tid /\ needSync' = needSync
  BY DEF Arrive, vars, sync
<1>4. CASE ~run.get
  <2>1. UNCHANGED <<at, packet, cnt, excused>>
    BY <1>4 DEF Arrive, bt
  <2>2. QED
    BY <1>1, <1>2, <1>3, <2>1 DEF RoomInv, RoomParts, CachingRoom, WaitsRoom, Storing, Room
<1>5. CASE run.get /\ status = "cacheing"
  <2>1. at' = "caching" /\ ~excused
    BY <1>1, <1>5 DEF Arrive
  <2>2. 2 * len <= Size
    BY <1>2, <1>5, <2>1 DEF RoomInv, RoomParts, CachingRoom
  <2>3. QED
    BY <1>2, <1>3, <2>1, <2>2 DEF RoomParts, CachingRoom, WaitsRoom
<1>6. CASE run.get /\ status # "cacheing"
  <2>1. at' = "flowing" /\ cnt' = 0
    BY <1>6 DEF Arrive
  <2>2. Size - len' - carry' + Half > Freed(cnt')
    <3>1. Freed(cnt') = 0
      BY <2>1, FreedLemma
    <3>2. QED
      BY <1>3, <3>1, LengthsLemma
  <2>3. Room(cnt)'
    BY <2>2 DEF Room
  <2>4. QED
    BY <1>2, <1>3, <1>6, <2>1, <2>3 DEF RoomParts, CachingRoom, WaitsRoom
<1>7. QED
  BY <1>4, <1>5, <1>6

LEMMA CarryRoom ==
  ASSUME NEW s \in Int, NEW l \in Int, NEW c \in Nat, NEW d \in {0, c}, NEW h \in Nat,
         NEW f \in Int, s - l - c + h > f
  PROVE  s - l - d + h > f
OBVIOUS

(* The steps of app_thread, and a call of af_thread that takes nothing. *)
LEMMA RoomPlayerLemma ==
  ASSUME QInv, RoomInv,
         Skip \/ InitBegins \/ InitQueue \/ InitEnds \/ OpenStream \/ Deinit \/ DeinitEnds \/ CloseStream
  PROVE  RoomInv'
<1>1. SUFFICES ASSUME ~excused' PROVE RoomParts'
  BY DEF RoomInv
<1>2. /\ len \in 0..Size /\ Size \in Nat \ {0} /\ packet.n \in Nat /\ 2 * packet.n <= Size
      /\ Half \in Nat \ {0} /\ carry \in 0..(Half - 1)
  BY LengthsLemma
<1>3. CASE Skip
  <2>1. /\ RoomParts /\ status = "cacheing" /\ player = "on"
        /\ UNCHANGED <<at, packet, cnt, len, carry, status, player, tid>>
    BY <1>1, <1>3 DEF Skip, Calls, Set, RoomInv, vars, bt
  <2>2. CachingRoom'
    BY <2>1 DEF RoomParts, CachingRoom, Storing
  <2>3. WaitsRoom'
    <3>1. SUFFICES ASSUME Storing, at # "caching" PROVE WaitsRoom'
      BY <2>1 DEF WaitsRoom, Storing
    <3>2. at # "cached"
      BY <3>1 DEF QInv, Holds
    <3>3. len' = 0 /\ packet' = packet
      BY <2>1, <3>1, <3>2 DEF RoomParts, CachingRoom
    <3>4. Room(cnt)' /\ Room(cnt + 1)'
      BY <1>2, <3>3 DEF Room
    <3>5. QED
      BY <2>1, <3>1, <3>4 DEF RoomParts, WaitsRoom
  <2>4. QED
    BY <2>1, <2>2, <2>3 DEF RoomParts, Storing
<1>4. CASE InitBegins \/ Deinit
  BY <1>1, <1>4 DEF InitBegins, Deinit
<1>5. CASE InitQueue
  <2>1. len' = 0 /\ ~Storing /\ packet'.n = packet.n /\ at' = at /\ at # "caching"
    BY <1>1, <1>5 DEF InitQueue, InitCQueue, QInv, Holds, A2dpTypes, BtTypes
  <2>2. ~Storing' /\ 2 * len' <= Size
    BY <1>2, <2>1 DEF Storing
  <2>3. QED
    BY <2>1, <2>2 DEF RoomParts, CachingRoom, WaitsRoom
<1>6. CASE InitEnds
  <2>1. RoomParts /\ player = "ready" /\ player' = "closed" /\ UNCHANGED <<at, packet, len>>
    BY <1>1, <1>6 DEF InitEnds, RoomInv, vars, bt, ghosts
  <2>2. len' = 0 /\ ~Storing'
    BY <2>1 DEF RoomParts, Storing
  <2>3. 2 * len' <= Size
    BY <1>2, <2>2
  <2>4. QED
    BY <2>1, <2>2, <2>3 DEF RoomParts, CachingRoom, WaitsRoom
<1>7. CASE OpenStream \/ CloseStream \/ DeinitEnds
  <2>1. /\ RoomParts /\ UNCHANGED <<at, packet, cnt, len, tid, needSync, signal>>
        /\ player' # "ready" /\ carry' \in {0, carry}
        /\ \/ player' = "off"
           \/ player \notin {"off", "init"} /\ status' = status
    BY <1>1, <1>7 DEF OpenStream, CloseStream, DeinitEnds, RoomInv, vars, bt, sync, ghosts
  <2>2. CachingRoom'
    BY <2>1 DEF RoomParts, CachingRoom, Storing
  <2>3. WaitsRoom'
    <3>1. SUFFICES ASSUME Storing, at # "caching" PROVE WaitsRoom'
      BY <2>1 DEF WaitsRoom, Storing
    <3>2. Freed(cnt) \in Nat /\ Freed(cnt + 1) \in Nat
      BY LengthsLemma, FreedLemma
    <3>3. (Room(cnt) => Room(cnt)') /\ (Room(cnt + 1) => Room(cnt + 1)')
      BY <1>2, <2>1, <3>2, CarryRoom DEF Room, Freed
    <3>4. QED
      BY <2>1, <3>1, <3>3 DEF RoomParts, WaitsRoom
  <2>4. QED
    BY <2>1, <2>2, <2>3 DEF RoomParts
<1>8. QED
  BY <1>3, <1>4, <1>5, <1>6, <1>7

LEMMA RoomNextLemma == QInv /\ RoomInv /\ [A2dpNext]_A2dpVars => RoomInv'
<1>1. SUFFICES ASSUME QInv, RoomInv, A2dpNext \/ UNCHANGED A2dpVars PROVE RoomInv'
  OBVIOUS
<1>2. CASE UNCHANGED A2dpVars
  BY <1>1, <1>2 DEF A2dpVars, vars, bt, sync, ghosts, RoomInv, RoomParts, CachingRoom, WaitsRoom,
                    Storing, Room
<1>3. CASE Others
  BY <1>1, <1>3, RoomArriveLemma, RoomWaitsLemma, RoomPlayerLemma DEF Others
<1>4. CASE InitQueue
  BY <1>1, <1>4, RoomPlayerLemma
<1>5. QED
  BY <1>1, <1>2, <1>3, <1>4, StepsLemma, RoomPutsLemma, RoomTakesLemma

LEMMA RoomInitLemma == A2dpInit => RoomInv
BY DEF A2dpInit, RoomInv, RoomParts, CachingRoom, WaitsRoom, Storing, None

LEMMA RoomLoss ==
  ASSUME QInv, RoomInv, Drops
  PROVE  excused
<1>1. CASE CacheAdd /\ ret' = "err"
  <2>1. Size - len < packet.n /\ at = "caching"
    BY <1>1, PutsLengthLemma, LengthsLemma DEF Puts, CacheAdd
  <2>2. ~(2 * len <= Size)
    BY <2>1, LengthsLemma
  <2>3. QED
    BY <2>1, <2>2 DEF RoomInv, RoomParts
<1>2. CASE After /\ Storing /\ cnt = MaxWait
  <2>1. at = "after" /\ ~(cnt < MaxWait)
    BY <1>2, LengthsLemma DEF After
  <2>2. QED
    BY <1>2, <2>1 DEF RoomInv, RoomParts, WaitsRoom
<1>3. QED
  BY <1>1, <1>2 DEF Drops

\* A packet for which the player was called in each of its waits finds its room,
\* whether or not the call's signal reached the wait: store_sbc_buffer loses none
\* ("cache overflow").
THEOREM LossTheorem == A2dpSpec => LossIsExcused
<1>1. QInv /\ RoomInv /\ [A2dpNext]_A2dpVars => [Drops => excused]_A2dpVars
  BY RoomLoss
<1>2. QED
  BY <1>1, A2dpInitLemma, RoomInitLemma, QInvLemma, RoomNextLemma, PTL DEF A2dpSpec, LossIsExcused
=============================================================================
