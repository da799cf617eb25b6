----------------------------- MODULE ClientProofs -----------------------------
(***************************************************************************)
(* Proofs about the parts of the C++ client: its queues (MsgQueue), the    *)
(* table of nodes (Descriptions) and the composition of both with streams  *)
(* and devices (Discovery).                                                *)
(***************************************************************************)
EXTENDS MsgQueue, Discovery, WellFoundedInduction, TLAPS

-----------------------------------------------------------------------------
(* MsgQueue, for any capacity of the queue and any number of messages,     *)
(* steps, starts and stops.                                                *)

(* A queue of numbers stays one when an element is appended or the first   *)
(* is removed.                                                             *)
LEMMA SeqFacts ==
  ASSUME NEW S, NEW q \in Seq(S)
  PROVE  /\ \A x \in S : Append(q, x) \in Seq(S)
         /\ q # <<>> => Head(q) \in S /\ Tail(q) \in Seq(S)
         /\ Len(q) \in Nat
  OBVIOUS

LEMMA SeqGrows ==
  ASSUME NEW n \in Nat, NEW q \in Seq(1..n)
  PROVE  q \in Seq(1..(n + 1))
<1>1. 1..n \subseteq 1..(n + 1)
  OBVIOUS
<1>2. \A i \in 1..Len(q) : q[i] \in 1..(n + 1)
  BY <1>1
<1>3. QED
  BY <1>2

(* Type correctness is not inductive alone: start() could otherwise spawn  *)
(* a second thread while the first still holds a message.  What excludes   *)
(* it is that a stopped queue has no thread once stop() has returned.      *)
Base == QTypeOK /\ StoppedMeansJoined

LEMMA BaseInvariant == QSpec => []Base
<1> USE MaxPutsAssumption DEF QTypeOK, ProcStates, CtlStates, Carrying, NoMsg
<1>1. QInit => Base
  <2> SUFFICES ASSUME QInit PROVE QTypeOK
    BY DEF QInit, Base, StoppedMeansJoined
  <2>1. queue \in Seq(1..puts)
    BY DEF QInit
  <2>2. keepFrom \in 0..MaxPuts /\ puts \in 0..MaxPuts
    BY DEF QInit
  <2>3. held # NoMsg <=> proc \in Carrying
    BY DEF QInit
  <2>4. last \in 0..puts /\ held \in 0..puts /\ starts \in Nat /\ stops \in Nat
    BY DEF QInit
  <2>5. nexts \in Nat /\ gated \in Nat /\ drained \in Nat
    BY DEF QInit
  <2>6. QED
    BY <2>1, <2>2, <2>3, <2>4, <2>5 DEF QInit
<1>2. Base /\ [QNext]_qVars => QTypeOK'
  <2> SUFFICES ASSUME QTypeOK, StoppedMeansJoined, [QNext]_qVars PROVE QTypeOK'
    BY DEF Base
  <2>1. CASE Put
    <3>1. puts' = puts + 1 /\ puts' \in 0..MaxPuts
      BY <2>1 DEF Put
    <3>2. queue \in Seq(1..puts')
      BY <3>1, SeqGrows
    <3>3. queue' \in Seq(1..puts')
      <4>1. puts' \in 1..puts'
        BY <3>1
      <4>2. Append(queue, puts') \in Seq(1..puts')
        BY <3>2, <4>1, SeqFacts
      <4>3. QED
        BY <2>1, <3>1, <3>2, <4>2 DEF Put
    <3>4. proc' \in ProcStates /\ (proc' \in Carrying <=> proc \in Carrying)
      BY <2>1 DEF Put, Notified
    <3>5. QED
      BY <2>1, <3>1, <3>3, <3>4 DEF Put, flags, history
  <2>2. CASE Clear
    BY <2>2 DEF Clear, flags, history
  <2>3. ASSUME NEW value \in BOOLEAN, SetPaused(value) PROVE QTypeOK'
    BY <2>3 DEF SetPaused
  <2>4. CASE NextMessage
    BY <2>4 DEF NextMessage, ReleaseOne
  <2>5. CASE Enter
    BY <2>5 DEF Enter, history
  <2>6. CASE Loop
    BY <2>6 DEF Loop, flags, history
  <2>7. CASE Get
    <3>1. CASE queue # <<>>
      BY <2>7, <3>1, SeqFacts DEF Get, flags, history
    <3>2. CASE queue = <<>>
      BY <2>7, <3>2 DEF Get, flags, history
    <3>3. QED
      BY <3>1, <3>2
  <2>8. CASE Check
    BY <2>8 DEF Check, flags, history
  <2>9. CASE PassGate
    <3>1. proc' \in ProcStates /\ (held' # NoMsg <=> proc' \in Carrying)
      BY <2>9 DEF PassGate
    <3>2. gated' \in Nat
      BY <2>9 DEF PassGate
    <3>3. QED
      BY <2>9, <3>1, <3>2 DEF PassGate
  <2>10. CASE Deliver
    BY <2>10 DEF Deliver, flags
  <2>11. CASE Start
    <3>1. proc' \in ProcStates /\ (held' # NoMsg <=> proc' \in Carrying)
      BY <2>11 DEF Start, StoppedMeansJoined
    <3>2. starts' \in Nat /\ keepFrom' \in 0..MaxPuts
      BY <2>11 DEF Start
    <3>3. QED
      BY <2>11, <3>1, <3>2 DEF Start
  <2>12. CASE StopFlag
    BY <2>12 DEF StopFlag
  <2>13. CASE StopNotify
    BY <2>13 DEF StopNotify, Notified, flags, history
  <2>14. CASE StopNext
    BY <2>14 DEF StopNext, ReleaseOne
  <2>15. CASE StopJoin
    BY <2>15 DEF StopJoin, flags, history
  <2>16. CASE UNCHANGED qVars
    BY <2>16 DEF qVars
  <2>17. QED
    BY <2>1, <2>2, <2>3, <2>4, <2>5, <2>6, <2>7, <2>8, <2>9, <2>10, <2>11,
       <2>12, <2>13, <2>14, <2>15, <2>16 DEF QNext, Process, Control
<1>3. Base /\ [QNext]_qVars => StoppedMeansJoined'
  BY DEF Base, StoppedMeansJoined, QNext, Process, Control, Put, Clear, SetPaused,
         NextMessage, Enter, Loop, Get, Check, PassGate, Deliver, Start, StopFlag,
         StopNotify, StopNext, StopJoin, Notified, flags, qVars
<1>4. QED
  BY <1>1, <1>2, <1>3, PTL DEF QSpec, Base

(* Type correctness of the queue, its thread and its histories, whatever   *)
(* the threads do (queue.h 10-127).                                        *)
THEOREM QueueTypes == QSpec => []QTypeOK
  BY BaseInvariant, PTL DEF Base

(* A stopped queue has no thread left outside stop(): the callback cannot  *)
(* run after stop() returned (queue.h 111-124).                            *)
THEOREM StoppedIsJoined == QSpec => []StoppedMeansJoined
  BY BaseInvariant, PTL DEF Base
-----------------------------------------------------------------------------
(* A token let in by next() is used at most once, whatever the number of   *)
(* next() calls, restarts and pauses in between (queue.h 36-43, 93-97).    *)
THEOREM TokensAreCounted == QSpec => []OneMessagePerNext
<1> USE DEF QTypeOK, OneMessagePerNext
<1>1. QInit => OneMessagePerNext
  BY DEF QInit
<1>2. QTypeOK /\ OneMessagePerNext /\ [QNext]_qVars => OneMessagePerNext'
  <2> SUFFICES ASSUME QTypeOK, OneMessagePerNext, [QNext]_qVars
               PROVE  OneMessagePerNext'
    OBVIOUS
  <2>1. CASE NextMessage \/ StopNext
    BY <2>1 DEF NextMessage, StopNext, ReleaseOne
  <2>2. CASE PassGate
    BY <2>2 DEF PassGate
  <2>3. ASSUME UNCHANGED <<nexts, gated, step>> PROVE OneMessagePerNext'
    BY <2>3
  <2>4. QED
    BY <2>1, <2>2, <2>3 DEF QNext, Process, Control, Put, Clear, SetPaused, Enter,
       Loop, Get, Check, Deliver, Start, StopFlag, StopNotify, StopJoin,
       flags, history, qVars
<1>3. QED
  BY <1>1, <1>2, QueueTypes, PTL DEF QSpec

(* The thread never sleeps over a message, nor over a stop() that has      *)
(* notified it (queue.h 45-60, 72-80, 111-118).                            *)
THEOREM WakeupsAreNotLost == QSpec => []NoLostWakeup
<1>1. QInit => NoLostWakeup
  BY DEF QInit, NoLostWakeup
<1>2. Base /\ NoLostWakeup /\ [QNext]_qVars => NoLostWakeup'
  BY DEF Base, StoppedMeansJoined, NoLostWakeup, QNext, Process, Control, Put, Clear, SetPaused,
         NextMessage, Enter, Loop, Get, Check, PassGate, Deliver, Start, StopFlag,
         StopNotify, StopNext, StopJoin, Notified, flags, qVars
<1>3. QED
  BY <1>1, <1>2, BaseInvariant, PTL DEF QSpec

(* Once the processing thread is settled, a stop lets it run the callback  *)
(* at most once more.  The inductive part: after that one delivery it is   *)
(* on its way out, and a thread that has not settled was not stopped.      *)
Drains ==
  /\ stopped /\ drained > 0 => drained = 1 /\ proc \in {"loop", "done", "none"}
  /\ proc = "spawned" => ~stopped /\ ctl = "idle"

THEOREM StopDrains == SettledStop => (QSpec => []StopDrainsAtMostOne)
<1> SUFFICES ASSUME SettledStop PROVE QSpec => []StopDrainsAtMostOne
  OBVIOUS
<1>1. QInit => Drains
  BY DEF QInit, Drains
<1>2. Base /\ Drains /\ [QNext]_qVars => Drains'
  <2> SUFFICES ASSUME Base, Drains, [QNext]_qVars PROVE Drains'
    OBVIOUS
  <2> USE DEF Drains
  <2>1. CASE Put
    BY <2>1 DEF Put, Notified, flags, history
  <2>2. CASE Start
    BY <2>2 DEF Start
  <2>3. CASE StopFlag
    BY <2>3 DEF StopFlag
  <2>4. CASE Deliver
    BY <2>4 DEF Deliver, flags, Base, QTypeOK
  <2>5. CASE StopNotify \/ StopNext \/ StopJoin
    BY <2>5 DEF StopNotify, StopNext, StopJoin, ReleaseOne, Notified, flags, history
  <2>6. CASE Enter \/ Loop \/ Get \/ Check \/ PassGate
    BY <2>6 DEF Enter, Loop, Get, Check, PassGate, flags, history
  <2>7. CASE Clear \/ NextMessage \/ \E value \in BOOLEAN : SetPaused(value)
    BY <2>7 DEF Clear, NextMessage, SetPaused, ReleaseOne, flags, history
  <2>8. CASE UNCHANGED qVars
    BY <2>8 DEF qVars
  <2>9. QED
    BY <2>1, <2>2, <2>3, <2>4, <2>5, <2>6, <2>7, <2>8 DEF QNext, Process, Control
<1>3. QTypeOK /\ Drains => StopDrainsAtMostOne
  BY DEF QTypeOK, Drains, StopDrainsAtMostOne
<1>4. QED
  BY <1>1, <1>2, <1>3, BaseInvariant, PTL DEF QSpec, Base
-----------------------------------------------------------------------------
LEMMA AppendFacts ==
  ASSUME NEW S, NEW q \in Seq(S), NEW x \in S
  PROVE  /\ Len(Append(q, x)) = Len(q) + 1
         /\ \A i \in 1..Len(q) : Append(q, x)[i] = q[i]
         /\ Append(q, x)[Len(q) + 1] = x
  OBVIOUS

LEMMA TailFacts ==
  ASSUME NEW S, NEW q \in Seq(S), q # <<>>
  PROVE  /\ Len(Tail(q)) = Len(q) - 1
         /\ \A i \in 1..Len(Tail(q)) : Tail(q)[i] = q[i + 1]
         /\ Head(q) = q[1] /\ Len(q) > 0
  OBVIOUS

(* Messages are delivered in the order of their puts and never twice:      *)
(* nothing in the queue is older than what was delivered (queue.h 45-80).  *)
THEOREM DeliveryInOrder == QSpec => []InOrder
<1> USE DEF InOrder
<1>1. QInit => InOrder
  BY DEF QInit, NoMsg
<1>2. QTypeOK /\ QTypeOK' /\ InOrder /\ [QNext]_qVars => InOrder'
  <2> SUFFICES ASSUME QTypeOK, QTypeOK', InOrder, [QNext]_qVars PROVE InOrder'
    OBVIOUS
  <2>0. queue \in Seq(1..puts) /\ puts \in Nat /\ last \in 0..puts /\ held \in 0..puts
    BY MaxPutsAssumption DEF QTypeOK
  <2>1. CASE Put
    <3>1. UNCHANGED <<last, held>>
      BY <2>1 DEF Put, history
    <3>2. CASE queue' = queue
      BY <3>1, <3>2
    <3>3. CASE queue' = Append(queue, puts + 1)
      <4>1. queue \in Seq(1..(puts + 1)) /\ puts + 1 \in 1..(puts + 1)
        BY <2>0, SeqGrows
      <4>2. /\ Len(queue') = Len(queue) + 1
            /\ \A i \in 1..Len(queue) : queue'[i] = queue[i]
            /\ queue'[Len(queue) + 1] = puts + 1
        BY <3>3, <4>1, AppendFacts
      <4>3. \A i \in 1..Len(queue) : queue[i] \in 1..puts
        BY <2>0
      <4>4. Len(queue) \in Nat
        BY <2>0
      <4>5. ASSUME NEW i \in 1..Len(queue') PROVE last' < queue'[i] /\ held' < queue'[i]
        <5>1. CASE i \in 1..Len(queue)
          BY <5>1, <4>2, <3>1
        <5>2. CASE i = Len(queue) + 1
          BY <5>2, <4>2, <3>1, <2>0
        <5>3. QED
          BY <5>1, <5>2, <4>2, <4>4
      <4>6. ASSUME NEW i \in 1..Len(queue'), NEW j \in 1..Len(queue'), i < j
            PROVE  queue'[i] < queue'[j]
        <5>1. i \in 1..Len(queue)
          BY <4>2, <4>4, <4>6
        <5>2. CASE j \in 1..Len(queue)
          BY <5>1, <5>2, <4>2, <4>6
        <5>3. CASE j = Len(queue) + 1
          BY <5>1, <5>3, <4>2, <4>3, <2>0
        <5>4. QED
          BY <5>2, <5>3, <4>2, <4>4
      <4>7. QED
        BY <4>5, <4>6, <3>1
    <3>4. QED
      BY <2>1, <3>2, <3>3 DEF Put
  <2>2. CASE Get
    <3>1. CASE queue # <<>>
      <4>1. held' = Head(queue) /\ queue' = Tail(queue) /\ last' = last
        BY <2>2, <3>1 DEF Get, history
      <4>2. /\ Len(queue') = Len(queue) - 1
            /\ \A i \in 1..Len(queue') : queue'[i] = queue[i + 1]
            /\ held' = queue[1] /\ Len(queue) > 0
        BY <4>1, <3>1, <2>0, TailFacts
      <4>3. Len(queue) \in Nat
        BY <2>0
      <4>4. \A i \in 1..Len(queue') : i + 1 \in 1..Len(queue) /\ 1 < i + 1
        BY <4>2, <4>3
      <4>5. 1 \in 1..Len(queue)
        BY <4>2, <4>3
      <4>6. last' < held'
        BY <4>1, <4>2, <4>5
      <4>7. \A i \in 1..Len(queue') : last' < queue'[i] /\ held' < queue'[i]
        BY <4>1, <4>2, <4>4, <4>5
      <4>8. ASSUME NEW i \in 1..Len(queue'), NEW j \in 1..Len(queue'), i < j
            PROVE  queue'[i] < queue'[j]
        <5>1. i + 1 < j + 1 /\ i + 1 \in 1..Len(queue) /\ j + 1 \in 1..Len(queue)
          BY <4>4, <4>8
        <5>2. queue[i + 1] < queue[j + 1]
          BY <5>1
        <5>3. QED
          BY <5>2, <4>2
      <4>9. QED
        BY <4>6, <4>7, <4>8
    <3>2. CASE queue = <<>>
      BY <2>2, <3>2 DEF Get, history
    <3>3. QED
      BY <3>1, <3>2
  <2>3. CASE Deliver
    <3>1. last' = held /\ held' = NoMsg /\ queue' = queue
      BY <2>3 DEF Deliver
    <3>2. \A i \in 1..Len(queue) : queue[i] \in 1..puts
      BY <2>0
    <3>3. QED
      BY <3>1, <3>2, <2>0 DEF NoMsg
  <2>4. CASE Clear \/ StopFlag
    BY <2>4 DEF Clear, StopFlag, history
  <2>5. ASSUME UNCHANGED <<queue, held, last>> PROVE InOrder'
    BY <2>5
  <2>6. QED
    BY <2>1, <2>2, <2>3, <2>4, <2>5 DEF QNext, Process, Control, SetPaused,
       NextMessage, Enter, Loop, Check, PassGate, Start, StopNotify, StopNext,
       StopJoin, flags, history, qVars
<1>3. QED
  BY <1>1, <1>2, QueueTypes, PTL DEF QSpec
-----------------------------------------------------------------------------
LEMMA ConsFacts ==
  ASSUME NEW S, NEW q \in Seq(S), NEW h \in S, NEW x \in S
  PROVE  /\ Append(<<h>> \o q, x) = <<h>> \o Append(q, x)
         /\ Len(<<h>> \o q) = Len(q) + 1
         /\ Head(<<h>> \o q) = h /\ Tail(<<h>> \o q) = q
         /\ <<h>> \o q # <<>>
         /\ <<h>> \o <<>> = <<h>>
         /\ q # <<>> => <<Head(q)>> \o Tail(q) = q
<1>1. Append(<<h>> \o q, x) = <<h>> \o Append(q, x)
  OBVIOUS
<1>2. Len(<<h>> \o q) = Len(q) + 1 /\ Head(<<h>> \o q) = h /\ <<h>> \o q # <<>>
  OBVIOUS
<1>3. Tail(<<h>> \o q) = q
  OBVIOUS
<1>4. <<h>> \o <<>> = <<h>>
  OBVIOUS
<1>5. q # <<>> => <<Head(q)>> \o Tail(q) = q
  OBVIOUS
<1>6. QED
  BY <1>1, <1>2, <1>3, <1>4, <1>5

(* The queue implements the bounded FIFO: each of its steps is a put that  *)
(* is accepted or dropped, a delivery, a flush, or invisible.              *)
THEOREM ImplementsFifo == QSpec => FifoSpec
<1> USE DEF Pending, NoMsg
<1>1. QInit => Fifo!Init
  BY DEF QInit, Fifo!Init
<1>2. QTypeOK /\ QTypeOK' /\ [QNext]_qVars => [Fifo!Next]_(Fifo!vars)
  <2> SUFFICES ASSUME QTypeOK, QTypeOK', [QNext]_qVars PROVE [Fifo!Next]_(Fifo!vars)
    OBVIOUS
  <2>0. /\ queue \in Seq(1..puts) /\ puts \in Nat /\ held \in 0..puts
        /\ held # 0 <=> proc \in Carrying
    BY MaxPutsAssumption DEF QTypeOK
  <2>1. CASE Put
    <3>1. puts' = puts + 1 /\ UNCHANGED <<last, held>>
      BY <2>1 DEF Put, history
    <3>2. queue \in Seq(1..(puts + 1)) /\ puts + 1 \in 1..(puts + 1)
      BY <2>0, SeqGrows
    <3>3. held # 0 => Len(Pending) = Len(queue) + 1
      BY <3>2, <2>0, ConsFacts
    <3>4. CASE Len(queue) >= MaxSize
      <4>1. Pending' = Pending
        BY <2>1, <3>1, <3>4 DEF Put
      <4>2. Len(Pending) >= MaxSize
        BY <3>3, <3>4, <2>0, MaxSizeAssumption
      <4>3. Fifo!Drop
        BY <4>1, <4>2, <3>1 DEF Fifo!Drop
      <4>4. QED
        BY <4>3 DEF Fifo!Next
    <3>5. CASE ~(Len(queue) >= MaxSize)
      <4>1. queue' = Append(queue, puts + 1)
        BY <2>1, <3>5 DEF Put
      <4>2. Pending' = Append(Pending, puts + 1)
        <5>1. CASE held = 0
          BY <5>1, <4>1, <3>1
        <5>2. CASE held # 0
          <6>1. held \in 1..(puts + 1)
            BY <5>2, <2>0
          <6>2. Append(<<held>> \o queue, puts + 1) = <<held>> \o Append(queue, puts + 1)
            BY <6>1, <3>2, ConsFacts
          <6>3. QED
            BY <5>2, <6>2, <4>1, <3>1
        <5>3. QED
          BY <5>1, <5>2
      <4>3. Len(Pending) <= MaxSize
        BY <3>3, <3>5, <2>0, MaxSizeAssumption
      <4>4. Fifo!Accept
        BY <4>2, <4>3, <3>1 DEF Fifo!Accept
      <4>5. QED
        BY <4>4 DEF Fifo!Next
    <3>6. QED
      BY <3>4, <3>5
  <2>2. CASE Get
    <3>1. UNCHANGED <<puts, last>>
      BY <2>2 DEF Get, history
    <3>2. held = 0
      BY <2>0, <2>2 DEF Get, Carrying
    <3>3. CASE queue # <<>>
      <4>1. held' = Head(queue) /\ queue' = Tail(queue)
        BY <2>2, <3>3 DEF Get
      <4>2. Head(queue) \in 1..puts
        BY <3>3, <2>0, SeqFacts
      <4>3. <<Head(queue)>> \o Tail(queue) = queue
        BY <3>3, <2>0, <4>2, ConsFacts
      <4>4. Pending' = Pending
        <5>1. held' # 0
          BY <4>1, <4>2, <2>0
        <5>2. Pending' = <<held'>> \o queue'
          BY <5>1
        <5>3. Pending = queue
          BY <3>2
        <5>4. QED
          BY <5>2, <5>3, <4>1, <4>3
      <4>5. QED
        BY <4>4, <3>1 DEF Fifo!vars
    <3>4. CASE queue = <<>>
      BY <2>2, <3>1, <3>4 DEF Get, Fifo!vars
    <3>5. QED
      BY <3>3, <3>4
  <2>3. CASE Deliver
    <3>1. held \in 1..puts /\ Pending = <<held>> \o queue
      BY <2>0, <2>3 DEF Deliver, Carrying
    <3>2. Pending # <<>> /\ Head(Pending) = held /\ Tail(Pending) = queue
      BY <3>1, <2>0, ConsFacts
    <3>3. Pending' = queue /\ last' = held /\ puts' = puts
      BY <2>3 DEF Deliver
    <3>4. Fifo!Deliver
      BY <3>2, <3>3 DEF Fifo!Deliver
    <3>5. QED
      BY <3>4 DEF Fifo!Next
  <2>4. CASE Clear \/ StopFlag
    <3>1. queue' = <<>> /\ UNCHANGED <<held, puts, last>>
      BY <2>4 DEF Clear, StopFlag, history
    <3>2. CASE held = 0
      BY <3>1, <3>2 DEF Fifo!Next, Fifo!Flush
    <3>3. CASE held # 0
      <4>1. held \in 1..puts
        BY <3>3, <2>0
      <4>2. Pending # <<>> /\ Head(Pending) = held
        BY <3>3, <4>1, <2>0, ConsFacts
      <4>3. Pending' = <<held>>
        BY <3>1, <3>3, <4>1, <2>0, ConsFacts
      <4>4. QED
        BY <4>2, <4>3, <3>1 DEF Fifo!Next, Fifo!Flush
    <3>4. QED
      BY <3>2, <3>3
  <2>5. ASSUME UNCHANGED <<queue, held, puts, last>>
        PROVE  UNCHANGED Fifo!vars
    BY <2>5 DEF Fifo!vars
  <2>6. QED
    BY <2>1, <2>2, <2>3, <2>4, <2>5 DEF QNext, Process, Control, SetPaused,
       NextMessage, Enter, Loop, Check, PassGate, Start, StopNotify, StopNext,
       StopJoin, flags, history, qVars
<1>3. QED
  BY <1>1, <1>2, QueueTypes, PTL DEF QSpec, FifoSpec, Fifo!Spec

-----------------------------------------------------------------------------
(* Descriptions, for any number of targets and nodes, any shape of their   *)
(* descriptions and any sequence of messages.                              *)

LEMMA MsgFacts ==
  ASSUME NEW m \in Msg
  PROVE  m.type = "fragment" => m.kind \in Kinds /\ m.no \in Nat
<1>1. Fragments \subseteq Nat
  BY ShapeAssumption DEF Fragments
<1>2. QED
  BY <1>1 DEF Msg

LEMMA AppendIsSeq ==
  ASSUME NEW S, NEW q \in Seq(S), NEW x \in S
  PROVE  Append(q, x) \in Seq(S) /\ Len(Append(q, x)) = Len(q) + 1
  OBVIOUS

LEMMA TailIsSeq ==
  ASSUME NEW S, NEW q \in Seq(S), q # <<>>
  PROVE  Tail(q) \in Seq(S)
  OBVIOUS

(* What Send puts in the queue of requests are requests. *)
LEMMA SendType ==
  ASSUME NEW request \in Request, NEW openTargets, out \in Seq(Request),
         Send(request, openTargets)
  PROVE  out' \in Seq(Request)
<1> DEFINE dest == request.to \cap openTargets
<1>1. CASE out' = out
  BY <1>1
<1>2. CASE out' = Append(out, [request EXCEPT !.to = dest])
  <2>1. dest \in SUBSET Targets
    BY DEF Request
  <2>2. [request EXCEPT !.to = dest] \in Request
    BY <2>1 DEF Request
  <2>3. QED
    BY <1>2, <2>2, AppendIsSeq
<1>3. QED
  BY <1>1, <1>2 DEF Send

-----------------------------------------------------------------------------
(* The table: its types, and that only complete descriptions are connected *)
(* and none holds more fragments than announced.                           *)
TableOK ==
  /\ known \subseteq Node
  /\ slots \in [known -> [Kinds -> Seq(Nat)]]
  /\ connected \subseteq known /\ stale \subseteq connected

(* The new value of slots after a fragment of p was stored. *)
LEMMA StoredSlots ==
  ASSUME TableOK, NEW p \in known, NEW k \in Kinds, NEW n \in Nat,
         Len(slots[p][k]) < Shape[p][k], ConnectedComplete,
         slots' = [slots EXCEPT ![p][k] = Append(@, n)]
  PROVE  /\ slots' \in [known -> [Kinds -> Seq(Nat)]]
         /\ \A q \in known : q # p => slots'[q] = slots[q]
         /\ \A j \in Kinds : Len(slots'[p][j]) <= Shape[p][j]
<1> USE DEF TableOK
<1>1. slots[p] \in [Kinds -> Seq(Nat)] /\ slots[p][k] \in Seq(Nat)
  OBVIOUS
<1>2. /\ Append(slots[p][k], n) \in Seq(Nat)
      /\ Len(Append(slots[p][k], n)) = Len(slots[p][k]) + 1
  BY <1>1, AppendIsSeq
<1>3. [slots[p] EXCEPT ![k] = Append(slots[p][k], n)] \in [Kinds -> Seq(Nat)]
  BY <1>1, <1>2
<1>4. slots' = [slots EXCEPT ![p] = [slots[p] EXCEPT ![k] = Append(slots[p][k], n)]]
  OBVIOUS
<1>5. slots' \in [known -> [Kinds -> Seq(Nat)]]
  BY <1>3, <1>4
<1>6. \A q \in known : q # p => slots'[q] = slots[q]
  BY <1>4
<1>7. ASSUME NEW j \in Kinds PROVE Len(slots'[p][j]) <= Shape[p][j]
  <2>1. Shape[p][j] \in Nat /\ Shape[p][k] \in Nat /\ Len(slots[p][k]) \in Nat
    BY ShapeAssumption, <1>1
  <2>2. CASE j = k
    BY <2>1, <2>2, <1>1, <1>2, <1>4
  <2>3. CASE j # k
    <3>1. slots'[p][j] = slots[p][j]
      BY <2>3, <1>1, <1>4
    <3>2. QED
      BY <3>1 DEF ConnectedComplete
  <2>4. QED
    BY <2>2, <2>3
<1>8. QED
  BY <1>5, <1>6, <1>7

LEMMA MeetKeepsTable ==
  ASSUME TableOK, ConnectedComplete, NEW p \in Node, NEW m, Meet(p, m)
  PROVE  TableOK' /\ ConnectedComplete'
<1> USE DEF TableOK
<1>1. /\ p \notin known /\ known' = known \cup {p}
      /\ slots' = [q \in known' |-> IF q = p THEN Empty ELSE slots[q]]
      /\ stale' = stale \ {p}
      /\ \/ Full(p, Empty) /\ connected' = connected \cup {p}
         \/ connected' = connected
  BY DEF Meet
<1>2. Empty \in [Kinds -> Seq(Nat)] /\ \A k \in Kinds : Len(Empty[k]) = 0
  BY DEF Empty
<1>3. /\ slots' \in [known' -> [Kinds -> Seq(Nat)]]
      /\ slots'[p] = Empty /\ \A q \in known : slots'[q] = slots[q]
  BY <1>1, <1>2
<1>4. TableOK'
  BY <1>1, <1>3
<1>5. ASSUME NEW q \in known' PROVE \A k \in Kinds : Len(slots'[q][k]) <= Shape[q][k]
  BY <1>1, <1>2, <1>3, ShapeAssumption DEF ConnectedComplete
<1>6. ASSUME NEW q \in connected' PROVE Complete(q)'
  BY <1>1, <1>3 DEF ConnectedComplete, Complete, Full
<1>7. QED
  BY <1>4, <1>5, <1>6 DEF ConnectedComplete

LEMMA FarewellKeepsTable ==
  ASSUME TableOK, ConnectedComplete, NEW p \in Node, NEW m, Farewell(p, m)
  PROVE  TableOK' /\ ConnectedComplete'
<1> USE DEF TableOK
<1>1. /\ known' = known \ {p} /\ slots' = [q \in known' |-> slots[q]]
      /\ connected' = connected \ {p} /\ stale' = stale \ {p}
  BY DEF Farewell
<1>2. TableOK'
  BY <1>1
<1>3. \A q \in known' : slots'[q] = slots[q]
  BY <1>1
<1>4. QED
  BY <1>1, <1>2, <1>3 DEF ConnectedComplete, Complete, Full

LEMMA AssembleKeepsTable ==
  ASSUME TableOK, ConnectedComplete, NEW p \in Node, NEW m \in Msg, Assemble(p, m)
  PROVE  TableOK' /\ ConnectedComplete'
<1> USE DEF TableOK
<1>1. /\ p \in known /\ known' = known /\ stale' = stale \ {p}
      /\ \/ Full(p, slots'[p]) /\ connected' = connected \cup {p}
         \/ connected' = connected
      /\ p \notin connected
  BY DEF Assemble, ConnectedComplete
<1>2. /\ slots' \in [known -> [Kinds -> Seq(Nat)]]
      /\ \A q \in known : q # p => slots'[q] = slots[q]
      /\ \A j \in Kinds : Len(slots'[p][j]) <= Shape[p][j]
  <2>1. CASE m.type = "fragment" /\ Len(slots[p][m.kind]) < Shape[p][m.kind]
    <3>1. m.kind \in Kinds /\ m.no \in Nat
      BY <2>1, MsgFacts
    <3>2. slots' = [slots EXCEPT ![p][m.kind] = Append(@, m.no)]
      BY <2>1 DEF Assemble
    <3>3. QED
      BY <2>1, <3>1, <3>2, <1>1, StoredSlots
  <2>2. CASE ~(m.type = "fragment" /\ Len(slots[p][m.kind]) < Shape[p][m.kind])
    BY <2>2, <1>1 DEF Assemble, ConnectedComplete
  <2>3. QED
    BY <2>1, <2>2
<1>3. TableOK'
  BY <1>1, <1>2
<1>4. ASSUME NEW q \in connected' PROVE Complete(q)'
  <2>1. CASE q = p
    <3>1. Full(p, slots'[p])
      BY <2>1, <1>1, <1>4
    <3>2. QED
      BY <2>1, <3>1, <1>1 DEF Complete, Full
  <2>2. CASE q # p
    <3>1. q \in connected /\ q \in known
      BY <2>2, <1>1, <1>4
    <3>2. Complete(q) /\ slots'[q] = slots[q]
      BY <2>2, <3>1, <1>2 DEF ConnectedComplete
    <3>3. QED
      BY <3>1, <3>2, <1>1 DEF Complete, Full
  <2>3. QED
    BY <2>1, <2>2
<1>5. ASSUME NEW q \in known' PROVE \A k \in Kinds : Len(slots'[q][k]) <= Shape[q][k]
  BY <1>1, <1>2 DEF ConnectedComplete
<1>6. QED
  BY <1>3, <1>4, <1>5 DEF ConnectedComplete

(* Every other step leaves the descriptions alone and connects only nodes  *)
(* whose description is complete.                                          *)
LEMMA OthersKeepTable ==
  ASSUME TableOK, ConnectedComplete, UNCHANGED <<known, slots>>,
         connected' \subseteq {p \in known : Complete(p)}, stale' \subseteq connected'
  PROVE  TableOK' /\ ConnectedComplete'
  BY DEF TableOK, ConnectedComplete, Complete, Full

LEMMA TableStep ==
  ASSUME TableOK, ConnectedComplete, [Next]_vars
  PROVE  TableOK' /\ ConnectedComplete'
<1>0. connected \subseteq {p \in known : Complete(p)} /\ stale \subseteq connected
  BY DEF TableOK, ConnectedComplete
<1>1. ASSUME NEW p \in Node, NEW m \in Msg, NEW openTargets \in SUBSET Targets,
             ProcessMessage(p, m, openTargets)
      PROVE  TableOK' /\ ConnectedComplete'
  <2>1. CASE Disregard(p, m) \/ AskUnknown(p, m, openTargets) \/ Reject(p, m)
    BY <2>1, <1>0, OthersKeepTable DEF Disregard, AskUnknown, Reject, table
  <2>2. CASE Meet(p, m)
    BY <2>2, MeetKeepsTable
  <2>3. CASE Farewell(p, m)
    BY <2>3, FarewellKeepsTable
  <2>4. CASE SeeAgain(p, m)
    <3>1. p \in known /\ Complete(p)
      BY <2>4 DEF SeeAgain, Complete
    <3>2. QED
      BY <2>4, <3>1, <1>0, OthersKeepTable DEF SeeAgain
  <2>5. CASE Assemble(p, m)
    BY <2>5, AssembleKeepsTable
  <2>6. QED
    BY <1>1, <2>1, <2>2, <2>3, <2>4, <2>5 DEF ProcessMessage
<1>2. CASE NotifyProcessed \/ PingNotify \/ DisconnectEnd \/ Drain
  BY <1>2, <1>0, OthersKeepTable DEF NotifyProcessed, PingNotify, DisconnectEnd, Drain, table
<1>3. ASSUME NEW openTargets \in SUBSET Targets, PingList(openTargets) \/ PingEnd(openTargets)
      PROVE  TableOK' /\ ConnectedComplete'
  BY <1>3, <1>0, OthersKeepTable DEF PingList, PingEnd, table
<1>4. CASE PingCheck
  BY <1>4, <1>0, OthersKeepTable DEF PingCheck
<1>5. ASSUME NEW t \in Targets, DisconnectBegin(t) PROVE TableOK' /\ ConnectedComplete'
  BY <1>5, <1>0, OthersKeepTable DEF DisconnectBegin, table
<1>6. CASE DisconnectNode
  BY <1>6, <1>0, OthersKeepTable DEF DisconnectNode
<1>7. CASE Reset
  BY <1>7 DEF Reset, TableOK, ConnectedComplete
<1>8. ASSUME NEW p \in Node, Age(p) PROVE TableOK' /\ ConnectedComplete'
  BY <1>8, <1>0, OthersKeepTable DEF Age
<1>9. CASE UNCHANGED vars
  BY <1>9, <1>0, OthersKeepTable DEF vars
<1>10. QED
  BY <1>1, <1>2, <1>3, <1>4, <1>5, <1>6, <1>7, <1>8, <1>9 DEF Next

(* Only completely described nodes are connected, and no description is    *)
(* overfull, whatever messages arrive and whatever the threads do          *)
(* (description_manager.h 54-83, 321-383).                                 *)
THEOREM ConnectedAreComplete == Spec => []ConnectedComplete
<1>1. Init => TableOK /\ ConnectedComplete
  BY DEF Init, TableOK, ConnectedComplete
<1>2. TableOK /\ ConnectedComplete /\ [Next]_vars => TableOK' /\ ConnectedComplete'
  BY TableStep
<1>3. QED
  BY <1>1, <1>2, PTL DEF Spec
-----------------------------------------------------------------------------
(* What TypeOK says beyond TableOK. *)
RestOK ==
  /\ ignored \subseteq Node
  /\ msgUp \subseteq Node /\ msgDown \subseteq Node /\ pingDown \subseteq Node
  /\ pingPc \in {"idle", "check", "notify"} /\ pingLonely \in BOOLEAN
  /\ hubAt \in Targets \cup {NoTarget}
  /\ echo \in BOOLEAN /\ score \in [Node -> Int]
  /\ told \subseteq Node /\ raced \subseteq Node

LEMMA TellKeepsTypes ==
  ASSUME NEW p \in Node, score \in [Node -> Int], told \subseteq Node,
         TellUp(p) \/ TellDown(p) \/ TellEcho(p)
  PROVE  score' \in [Node -> Int] /\ told' \subseteq Node
  BY DEF TellUp, TellDown, TellEcho

LEMMA RestStep ==
  ASSUME TableOK, RestOK, [Next]_vars
  PROVE  RestOK'
<1> USE DEF RestOK
<1>1. ASSUME NEW p \in Node, NEW m \in Msg, NEW openTargets \in SUBSET Targets,
             ProcessMessage(p, m, openTargets)
      PROVE  RestOK'
  <2>1. /\ UNCHANGED <<pingPc, pingDown, pingLonely, hubAt, score, told>>
        /\ echo' \in BOOLEAN /\ raced' \subseteq raced \cup Owed
    BY <1>1 DEF ProcessMessage, pingVars, Changes
  <2>2. ignored' \subseteq Node /\ msgUp' \subseteq Node /\ msgDown' \subseteq Node
    BY <1>1 DEF ProcessMessage, Disregard, AskUnknown, Reject, Meet, Farewell,
       SeeAgain, Assemble, table, msgVars
  <2>3. QED
    BY <2>1, <2>2 DEF Owed
<1>2. CASE NotifyProcessed
  <2>1. /\ UNCHANGED <<ignored, pingPc, pingDown, pingLonely, hubAt, raced>>
        /\ msgUp' = {} /\ msgDown' = {} /\ echo' = FALSE
    BY <1>2 DEF NotifyProcessed, table, pingVars
  <2>2. \E p \in Node : TellUp(p) \/ TellDown(p) \/ TellEcho(p)
    BY <1>2 DEF NotifyProcessed
  <2>3. QED
    BY <2>1, <2>2, TellKeepsTypes
<1>3. CASE PingNotify
  <2>1. PICK p \in pingDown : TellDown(p) /\ pingDown' = pingDown \ {p}
    BY <1>3 DEF PingNotify
  <2>2. QED
    BY <1>3, <2>1, TellKeepsTypes DEF PingNotify, table, msgVars
<1>4. ASSUME NEW openTargets \in SUBSET Targets, PingList(openTargets) \/ PingEnd(openTargets)
      PROVE  RestOK'
  BY <1>4 DEF PingList, PingEnd, table, msgVars, callbacks
<1>5. CASE PingCheck
  BY <1>5 DEF PingCheck, Expired, TableOK, msgVars, Changes
<1>6. ASSUME NEW t \in Targets, DisconnectBegin(t) PROVE RestOK'
  BY <1>6 DEF DisconnectBegin, table, msgVars, pingVars, callbacks
<1>7. CASE DisconnectNode
  <2>1. PICK i \in ConnectedAt(hubAt) : TellDown(<<hubAt, i>>)
    BY <1>7 DEF DisconnectNode
  <2>2. <<hubAt, i>> \in Node
    BY <2>1 DEF ConnectedAt, TableOK
  <2>3. score' \in [Node -> Int] /\ told' \subseteq Node
    BY <2>1, <2>2, TellKeepsTypes
  <2>4. raced' \subseteq Node
    BY <1>7 DEF DisconnectNode, Changes, Owed
  <2>5. QED
    BY <1>7, <2>3, <2>4 DEF DisconnectNode, msgVars, pingVars
<1>8. CASE DisconnectEnd \/ Drain
  BY <1>8 DEF DisconnectEnd, Drain, table, msgVars, pingVars, callbacks
<1>9. CASE Reset
  BY <1>9 DEF Reset, msgVars, pingVars
<1>10. ASSUME NEW p \in Node, Age(p) PROVE RestOK'
  BY <1>10 DEF Age, msgVars, pingVars, callbacks
<1>11. CASE UNCHANGED vars
  BY <1>11 DEF vars
<1>12. QED
  BY <1>1, <1>2, <1>3, <1>4, <1>5, <1>6, <1>7, <1>8, <1>9, <1>10, <1>11 DEF Next

(* The queue of requests holds requests. *)
LEMMA OutStep ==
  ASSUME out \in Seq(Request), [Next]_vars
  PROVE  out' \in Seq(Request)
<1>1. ASSUME NEW p \in Node, NEW m \in Msg, NEW openTargets \in SUBSET Targets,
             ProcessMessage(p, m, openTargets)
      PROVE  out' \in Seq(Request)
  <2>1. CASE out' = out
    BY <2>1
  <2>2. CASE AskUnknown(p, m, openTargets) /\ Query
    <3>1. [what |-> "describeNode", id |-> p[2], to |-> {p[1]}] \in Request
      <4>1. p[1] \in Targets /\ p[2] \in Ids
        BY DEF Node
      <4>2. QED
        BY <4>1 DEF Request
    <3>2. Send([what |-> "describeNode", id |-> p[2], to |-> {p[1]}], openTargets)
      BY <2>2 DEF AskUnknown
    <3>3. QED
      BY <3>1, <3>2, SendType
  <2>3. QED
    BY <1>1, <2>1, <2>2 DEF ProcessMessage, Disregard, AskUnknown, Reject, Meet,
       Farewell, SeeAgain, Assemble
<1>2. ASSUME NEW openTargets \in SUBSET Targets, PingList(openTargets) PROVE out' \in Seq(Request)
  <2>1. [what |-> "list", to |-> Targets] \in Request
    BY DEF Request
  <2>2. Send([what |-> "list", to |-> Targets], openTargets)
    BY <1>2 DEF PingList
  <2>3. QED
    BY <2>1, <2>2, SendType
<1>3. ASSUME NEW openTargets \in SUBSET Targets, PingEnd(openTargets) PROVE out' \in Seq(Request)
  <2>1. [what |-> "describe", to |-> Targets] \in Request
    BY DEF Request
  <2>2. out' = out \/ Send([what |-> "describe", to |-> Targets], openTargets)
    BY <1>3 DEF PingEnd
  <2>3. QED
    BY <2>1, <2>2, SendType
<1>4. CASE Drain
  BY <1>4, TailIsSeq DEF Drain
<1>5. CASE out' = out
  BY <1>5
<1>6. QED
  BY <1>1, <1>2, <1>3, <1>4, <1>5 DEF Next, NotifyProcessed, PingCheck, PingNotify,
     DisconnectBegin, DisconnectNode, DisconnectEnd, Reset, Age, vars

AllOK == TableOK /\ ConnectedComplete /\ RestOK /\ out \in Seq(Request)

LEMMA InitIsOK == Init => TableOK /\ ConnectedComplete /\ RestOK /\ out \in Seq(Request)
<1> SUFFICES ASSUME Init PROVE TableOK /\ ConnectedComplete /\ RestOK /\ out \in Seq(Request)
  OBVIOUS
<1>1. TableOK /\ ConnectedComplete /\ out \in Seq(Request)
  BY DEF Init, TableOK, ConnectedComplete
<1>2. score \in [Node -> Int]
  BY DEF Init
<1>3. RestOK
  BY <1>2 DEF Init, RestOK
<1>4. QED
  BY <1>1, <1>3

(* Type correctness of the table, the notifications and the requests.      *)
THEOREM DescriptionsTypes == Spec => []TypeOK
<1>1. Init => AllOK
  BY InitIsOK DEF AllOK
<1>2. AllOK /\ [Next]_vars => AllOK'
  BY TableStep, RestStep, OutStep DEF AllOK
<1>3. AllOK => TypeOK
  BY DEF AllOK, TableOK, RestOK, TypeOK
<1>4. QED
  BY <1>1, <1>2, <1>3, PTL DEF Spec

-----------------------------------------------------------------------------
(* A notification changes the score by what it was counted for.            *)
LEMMA TellScores ==
  ASSUME NEW p \in Node, score \in [Node -> Int]
  PROVE  /\ TellUp(p) => \A q \in Node :
              score'[q] = IF q = p THEN score[q] + 1 ELSE score[q]
         /\ TellDown(p) => \A q \in Node :
              score'[q] = IF q = p THEN score[q] - 1 ELSE score[q]
         /\ TellEcho(p) => score' = score
  BY DEF TellUp, TellDown, TellEcho

(* What the balance needs to be inductive: a ping reports nodes only after *)
(* its check, and the processing thread has at most one call under way.    *)
Pending1 ==
  /\ pingPc # "notify" => pingDown = {}
  /\ \A p, q \in msgUp \cup msgDown : p = q
  /\ msgUp \cap msgDown = {}
  /\ msgUp = {} \/ msgDown = {}

LEMMA PendingStep == Pending1 /\ [Next]_vars => Pending1'
<1> SUFFICES ASSUME Pending1, [Next]_vars PROVE Pending1'
  OBVIOUS
<1> USE DEF Pending1
<1>1. ASSUME NEW p \in Node, NEW m \in Msg, NEW openTargets \in SUBSET Targets,
             ProcessMessage(p, m, openTargets)
      PROVE  Pending1'
  BY <1>1 DEF ProcessMessage, Disregard, AskUnknown, Reject, Meet, Farewell,
     SeeAgain, Assemble, pingVars, msgVars
<1>2. QED
  BY <1>1 DEF Next, NotifyProcessed, PingList, PingCheck, PingNotify, PingEnd,
     DisconnectBegin, DisconnectNode, DisconnectEnd, Reset, Age, Drain,
     msgVars, pingVars, vars

LEMMA BalanceStep ==
  ASSUME TypeOK, ConnectedComplete, Pending1, CallbacksBalance, [Next]_vars
  PROVE  CallbacksBalance'
<1> USE DEF CallbacksBalance, Balance, One
<1>0. score \in [Node -> Int] /\ connected \subseteq Node
  BY DEF TypeOK
<1>1. ASSUME NEW p \in Node, NEW m \in Msg, NEW openTargets \in SUBSET Targets,
             ProcessMessage(p, m, openTargets)
      PROVE  CallbacksBalance'
  <2>1. /\ msgUp = {} /\ msgDown = {} /\ UNCHANGED <<score, pingDown>>
        /\ echo' = (p \in msgDown' /\ p \notin connected)
    BY <1>1 DEF ProcessMessage, pingVars
  <2>2. \/ UNCHANGED <<connected, msgUp, msgDown>>
        \/ p \notin connected /\ connected' = connected \cup {p} /\ msgUp' = {p} /\ msgDown' = {}
        \/ p \in connected /\ connected' = connected \ {p} /\ msgUp' = {} /\ msgDown' = {p}
        \/ p \notin connected /\ connected' = connected /\ msgUp' = {} /\ msgDown' = {p}
    <3>1. CASE Meet(p, m)
      BY <2>1, <3>1 DEF Meet, TypeOK
    <3>2. CASE SeeAgain(p, m)
      BY <2>1, <3>2 DEF SeeAgain
    <3>3. CASE Farewell(p, m)
      BY <2>1, <3>3 DEF Farewell
    <3>4. CASE Assemble(p, m)
      <4>1. p \notin connected
        BY <3>4 DEF Assemble, ConnectedComplete
      <4>2. \/ UNCHANGED <<connected, msgUp>>
            \/ connected' = connected \cup {p} /\ msgUp' = {p}
        BY <3>4 DEF Assemble
      <4>3. UNCHANGED msgDown
        BY <3>4 DEF Assemble
      <4>4. QED
        BY <2>1, <4>1, <4>2, <4>3
    <3>5. CASE Disregard(p, m) \/ AskUnknown(p, m, openTargets) \/ Reject(p, m)
      BY <3>5 DEF Disregard, AskUnknown, Reject, table, msgVars
    <3>6. QED
      BY <1>1, <3>1, <3>2, <3>3, <3>4, <3>5 DEF ProcessMessage
  <2>3. CASE echo'
    BY <1>0, <2>1, <2>2, <2>3
  <2>4. CASE ~echo'
    <3>1. UNCHANGED <<connected, msgUp, msgDown>> \/ ~(p \notin connected /\ p \in msgDown')
      BY <2>1, <2>4
    <3>2. QED
      BY <1>0, <2>1, <2>2, <2>4, <3>1
  <2>5. QED
    BY <2>3, <2>4
<1>2. CASE NotifyProcessed
  <2>1. UNCHANGED <<connected, pingDown>> /\ msgUp' = {} /\ msgDown' = {}
    BY <1>2 DEF NotifyProcessed, table, pingVars
  <2>2. \/ \E p \in msgUp : p \in Node /\ TellUp(p) /\ msgUp = {p} /\ msgDown = {}
        \/ \E p \in msgDown :
             p \in Node /\ ~echo /\ TellDown(p) /\ msgDown = {p} /\ msgUp = {}
        \/ \E p \in msgDown : echo /\ TellEcho(p) /\ msgUp = {}
    <3>1. CASE \E p \in msgUp : TellUp(p)
      <4>1. PICK p \in msgUp : TellUp(p)
        BY <3>1
      <4>2. msgUp = {p} /\ msgDown = {} /\ p \in Node
        BY <4>1 DEF Pending1, TypeOK
      <4>3. QED
        BY <4>1, <4>2
    <3>2. CASE \E p \in msgDown : ~echo /\ TellDown(p)
      <4>1. PICK p \in msgDown : ~echo /\ TellDown(p)
        BY <3>2
      <4>2. msgDown = {p} /\ msgUp = {} /\ p \in Node
        BY <4>1 DEF Pending1, TypeOK
      <4>3. QED
        BY <4>1, <4>2
    <3>3. CASE \E p \in msgDown : echo /\ TellEcho(p)
      BY <3>3 DEF Pending1
    <3>4. QED
      BY <1>2, <3>1, <3>2, <3>3 DEF NotifyProcessed
  <2>3. CASE \E p \in msgUp : p \in Node /\ TellUp(p) /\ msgUp = {p} /\ msgDown = {}
    BY <1>0, <2>1, <2>3, TellScores
  <2>4. ASSUME NEW p \in msgDown, p \in Node, ~echo, TellDown(p), msgDown = {p}, msgUp = {}
        PROVE  CallbacksBalance'
    <3>1. \A q \in Node : score'[q] = IF q = p THEN score[q] - 1 ELSE score[q]
      BY <1>0, <2>4, TellScores
    <3>2. QED
      BY <1>0, <2>1, <2>4, <3>1
  <2>5. ASSUME NEW p \in msgDown, echo, TellEcho(p), msgUp = {}
        PROVE  CallbacksBalance'
    <3>1. score' = score
      BY <2>5 DEF TellEcho
    <3>2. QED
      BY <1>0, <2>1, <2>5, <3>1
  <2>6. QED
    BY <2>2, <2>3, <2>4, <2>5
<1>3. CASE PingNotify
  <2>1. PICK p \in pingDown : TellDown(p) /\ pingDown' = pingDown \ {p}
    BY <1>3 DEF PingNotify
  <2>2. UNCHANGED <<connected, echo, msgUp, msgDown>> /\ p \in Node
    BY <1>3, <2>1 DEF PingNotify, table, msgVars, TypeOK
  <2>3. QED
    BY <1>0, <2>1, <2>2, TellScores
<1>4. CASE PingCheck
  <2>1. /\ pingDown = {} /\ pingDown' = Expired /\ connected' = connected \ Expired
        /\ UNCHANGED <<echo, score, msgUp, msgDown>> /\ Expired \subseteq connected
    BY <1>4 DEF PingCheck, Expired, Pending1, msgVars
  <2>2. QED
    BY <1>0, <2>1
<1>5. CASE DisconnectNode
  <2>1. PICK i \in ConnectedAt(hubAt) :
          TellDown(<<hubAt, i>>) /\ connected' = connected \ {<<hubAt, i>>}
    BY <1>5 DEF DisconnectNode
  <2> DEFINE d == <<hubAt, i>>
  <2>2. d \in connected /\ UNCHANGED <<echo, msgUp, msgDown, pingDown>>
    BY <1>5, <2>1 DEF DisconnectNode, ConnectedAt, msgVars, pingVars
  <2>3. TellDown(d) /\ connected' = connected \ {d}
    BY <2>1
  <2> HIDE DEF d
  <2>4. \A q \in Node : score'[q] = IF q = d THEN score[q] - 1 ELSE score[q]
    BY <1>0, <2>2, <2>3, TellScores
  <2>5. ASSUME NEW q \in Node PROVE Balance(q)' = One(q \in connected)'
    <3>1. Balance(q) = One(q \in connected)
      OBVIOUS
    <3>2. CASE q = d
      BY <1>0, <2>2, <2>3, <2>4, <3>1, <3>2
    <3>3. CASE q # d
      BY <1>0, <2>2, <2>3, <2>4, <3>1, <3>3
    <3>4. QED
      BY <3>2, <3>3
  <2>6. QED
    BY <2>5
<1>6. CASE Reset
  <2>1. msgUp' = {} /\ msgDown' = {} /\ pingDown' = {} /\ connected' = {}
    BY <1>6 DEF Reset, Pending1, msgVars, pingVars
  <2>2. \A p \in Node : score'[p] = 0
    BY <1>6 DEF Reset
  <2>3. QED
    BY <2>1, <2>2
<1>7. ASSUME UNCHANGED <<connected, echo, score, msgUp, msgDown, pingDown>>
      PROVE  CallbacksBalance'
  BY <1>7
<1>8. QED
  BY <1>1, <1>2, <1>3, <1>4, <1>5, <1>6, <1>7 DEF Next, PingList, PingEnd,
     DisconnectBegin, DisconnectEnd, Age, Drain, table, msgVars, pingVars,
     callbacks, vars

(* Every change of a connected flag is reported by exactly one call,       *)
(* whatever messages come, Disconnected of nodes that are not connected    *)
(* included (description_manager.h 183-196, 287-319, 347-383).             *)
THEOREM CallbacksAreBalanced == Spec => []CallbacksBalance
<1>1. Init => Pending1 /\ CallbacksBalance
  BY DEF Init, Pending1, CallbacksBalance, Balance, One
<1>2. /\ TypeOK /\ ConnectedComplete /\ Pending1 /\ CallbacksBalance
      /\ [Next]_vars
      => Pending1' /\ CallbacksBalance'
  BY PendingStep, BalanceStep
<1>3. QED
  BY <1>1, <1>2, DescriptionsTypes, ConnectedAreComplete, PTL DEF Spec
-----------------------------------------------------------------------------
(* What a node looks like while the calls about it come in order: the call *)
(* under way, or without one the last call, agrees with its flag.          *)
Ordered(p) ==
  /\ p \in msgUp => p \in connected /\ p \notin pingDown
  /\ p \in msgDown \cup pingDown => p \notin connected
  /\ p \notin Owed => (p \in told <=> p \in connected)

CallsInOrder == \A p \in Node \ raced : Ordered(p)

LEMMA OrderStep ==
  ASSUME TypeOK, ConnectedComplete, Pending1, CallsInOrder, [Next]_vars
  PROVE  CallsInOrder'
<1> USE DEF CallsInOrder, Ordered, Owed
<1>0. connected \subseteq Node
  BY DEF TypeOK
<1>1. ASSUME NEW p \in Node, NEW m \in Msg, NEW openTargets \in SUBSET Targets,
             ProcessMessage(p, m, openTargets)
      PROVE  CallsInOrder'
  <2>1. /\ msgUp = {} /\ msgDown = {} /\ UNCHANGED <<told, pingDown>>
        /\ raced' = (raced \ (msgUp' \cup msgDown'))
                      \cup ((msgUp' \cup msgDown') \cap pingDown)
    BY <1>1 DEF ProcessMessage, pingVars, Changes
  <2>2. \/ UNCHANGED <<connected, msgUp, msgDown>>
        \/ connected' = connected \cup {p} /\ msgUp' = {p} /\ msgDown' = {}
        \/ connected' = connected \ {p} /\ msgUp' = {} /\ msgDown' = {p}
    BY <1>1, <2>1 DEF ProcessMessage, Disregard, AskUnknown, Reject, Meet,
       Farewell, SeeAgain, Assemble, table, msgVars
  <2>3. QED
    BY <1>0, <2>1, <2>2
<1>2. CASE NotifyProcessed
  <2>1. /\ UNCHANGED <<connected, pingDown, raced>> /\ msgUp' = {} /\ msgDown' = {}
        /\ \/ \E p \in msgUp : told' = told \cup {p}
           \/ \E p \in msgDown : told' = told \ {p}
    BY <1>2 DEF NotifyProcessed, table, pingVars, TellUp, TellDown, TellEcho
  <2>2. QED
    BY <2>1 DEF Pending1
<1>3. CASE PingNotify
  <2>1. /\ UNCHANGED <<connected, msgUp, msgDown, raced>>
        /\ \E p \in pingDown : told' = told \ {p} /\ pingDown' = pingDown \ {p}
    BY <1>3 DEF PingNotify, table, msgVars, TellDown
  <2>2. QED
    BY <2>1
<1>4. CASE PingCheck
  <2>1. /\ pingDown = {} /\ pingDown' = Expired /\ connected' = connected \ Expired
        /\ UNCHANGED <<told, msgUp, msgDown>>
        /\ raced' = (raced \ Expired) \cup (Expired \cap Owed)
    BY <1>4 DEF PingCheck, Pending1, msgVars, Changes
  <2>2. QED
    BY <2>1
<1>5. CASE DisconnectNode
  <2>1. PICK i \in ConnectedAt(hubAt) :
          /\ connected' = connected \ {<<hubAt, i>>} /\ told' = told \ {<<hubAt, i>>}
          /\ raced' = (raced \ {<<hubAt, i>>}) \cup ({<<hubAt, i>>} \cap Owed)
    BY <1>5 DEF DisconnectNode, TellDown, Changes
  <2>2. UNCHANGED <<msgUp, msgDown, pingDown>>
    BY <1>5 DEF DisconnectNode, msgVars, pingVars
  <2>3. QED
    BY <2>1, <2>2
<1>6. CASE Reset
  BY <1>6 DEF Reset, Pending1, msgVars, pingVars
<1>7. ASSUME UNCHANGED <<connected, told, raced, msgUp, msgDown, pingDown>>
      PROVE  CallsInOrder'
  BY <1>7
<1>8. QED
  BY <1>1, <1>2, <1>3, <1>4, <1>5, <1>6, <1>7 DEF Next, PingList, PingEnd,
     DisconnectBegin, DisconnectEnd, Age, Drain, table, msgVars, pingVars,
     callbacks, vars

(* The callbacks, called outside the mutex, tell the truth about every     *)
(* node whose last change no other thread's call overlapped, for any       *)
(* messages, pings and closings (description_manager.h 183-196, 287-319,   *)
(* 347-383).                                                               *)
THEOREM LastCallsAreTrue == Spec => []LastCallIsTrue
<1>1. Init => Pending1 /\ CallsInOrder
  BY DEF Init, Pending1, CallsInOrder, Ordered
<1>2. TypeOK /\ ConnectedComplete /\ Pending1 /\ CallsInOrder /\ [Next]_vars
      => Pending1' /\ CallsInOrder'
  BY PendingStep, OrderStep
<1>3. CallsInOrder => LastCallIsTrue
  BY DEF CallsInOrder, Ordered, LastCallIsTrue
<1>4. QED
  BY <1>1, <1>2, <1>3, DescriptionsTypes, ConnectedAreComplete, PTL DEF Spec
-----------------------------------------------------------------------------
(* How one step may change the descriptions, seen from one node q: not at  *)
(* all; forgetting it; meeting it, with all its slots empty; or storing a  *)
(* fragment while it is not complete, which connects it when it becomes so.*)
Same(q) ==
  /\ q \in known' <=> q \in known
  /\ q \in known => slots'[q] = slots[q]

Met(q) ==
  /\ q \notin known /\ q \in known' /\ slots'[q] = Empty
  /\ Full(q, Empty) => q \in connected'

Assembled(q) ==
  /\ q \in known /\ q \in known' /\ ~Complete(q)
  /\ Full(q, slots'[q]) => q \in connected'

NodeStep(q) ==
  \/ Same(q) /\ (q \in connected' => q \in connected \/ Complete(q))
  \/ q \in known /\ q \notin known'
  \/ Met(q)
  \/ Assembled(q)

LEMMA StepOfNode ==
  ASSUME TableOK, ConnectedComplete, [Next]_vars, NEW q \in Node
  PROVE  NodeStep(q)
<1> USE DEF NodeStep, Same
<1>1. ASSUME NEW p \in Node, NEW m \in Msg, NEW openTargets \in SUBSET Targets,
             ProcessMessage(p, m, openTargets)
      PROVE  NodeStep(q)
  <2>1. CASE Disregard(p, m) \/ AskUnknown(p, m, openTargets) \/ Reject(p, m)
    BY <2>1 DEF Disregard, AskUnknown, Reject, table
  <2>2. CASE Meet(p, m)
    <3>1. CASE q = p
      BY <2>2, <3>1 DEF Meet, Met
    <3>2. CASE q # p
      BY <2>2, <3>2 DEF Meet
    <3>3. QED
      BY <3>1, <3>2
  <2>3. CASE Farewell(p, m)
    BY <2>3 DEF Farewell
  <2>4. CASE SeeAgain(p, m)
    BY <2>4 DEF SeeAgain
  <2>5. CASE Assemble(p, m)
    <3>1. CASE q = p
      BY <2>5, <3>1 DEF Assemble, Assembled
    <3>2. CASE q # p
      <4>1. slots'[q] = slots[q] \/ q \notin known
        BY <2>5, <3>2 DEF Assemble, TableOK
      <4>2. known' = known /\ (q \in connected' => q \in connected)
        BY <2>5, <3>2 DEF Assemble
      <4>3. QED
        BY <4>1, <4>2
    <3>3. QED
      BY <3>1, <3>2
  <2>6. QED
    BY <1>1, <2>1, <2>2, <2>3, <2>4, <2>5 DEF ProcessMessage
<1>2. CASE Reset
  BY <1>2 DEF Reset
<1>3. CASE UNCHANGED <<known, slots>> /\ connected' \subseteq connected
  BY <1>3
<1>4. QED
  BY <1>1, <1>2, <1>3 DEF Next, NotifyProcessed, PingList, PingCheck, PingNotify,
     PingEnd, DisconnectBegin, DisconnectNode, DisconnectEnd, Age, Drain, table, vars

LEMMA FinalByStep ==
  ASSUME TableOK, ConnectedComplete, [Next]_vars
  PROVE  \A p \in Node : Complete(p) /\ p \in known' => slots'[p] = slots[p]
  BY StepOfNode DEF NodeStep, Same, Met, Assembled, Complete

(* A complete description is never written again while the node is known   *)
(* (description_manager.h 343, 355-378: emplace, and the early return).    *)
THEOREM CompleteDescriptionsAreFinal == Spec => CompleteIsFinal
<1>1. TableOK /\ ConnectedComplete /\ [Next]_vars
      => \A p \in Node : Complete(p) /\ p \in known' => slots'[p] = slots[p]
  BY FinalByStep
<1>2. TypeOK => TableOK
  BY DEF TypeOK, TableOK
<1>3. QED
  BY <1>1, <1>2, DescriptionsTypes, ConnectedAreComplete, PTL DEF CompleteIsFinal, Spec

LEMMA LifecycleByStep ==
  ASSUME TableOK, ConnectedComplete, TableOK', ConnectedComplete', [Next]_vars
  PROVE  LifecycleStep
<1> SUFFICES ASSUME NEW p \in Node
             PROVE  Status(p)' = Status(p) \/ <<Status(p), Status(p)'>> \in Lifecycle
  BY DEF LifecycleStep
<1>1. NodeStep(p)
  BY StepOfNode
<1>2. /\ p \in connected => p \in known /\ Complete(p)
      /\ p \in connected' => p \in known' /\ Complete(p)'
  BY DEF ConnectedComplete, TableOK
<1>3. CASE Same(p) /\ (p \in connected' => p \in connected \/ Complete(p))
  <2>1. Complete(p)' <=> Complete(p)
    BY <1>3 DEF Same, Complete, Full
  <2>2. QED
    BY <1>2, <1>3, <2>1 DEF Same, Status, Lifecycle
<1>4. CASE p \in known /\ p \notin known'
  BY <1>2, <1>4 DEF Status, Lifecycle
<1>5. CASE Met(p)
  <2>1. Complete(p)' => p \in connected'
    BY <1>5 DEF Met, Complete, Full
  <2>2. QED
    BY <1>2, <1>5, <2>1 DEF Met, Status, Lifecycle
<1>6. CASE Assembled(p)
  <2>1. Complete(p)' => p \in connected'
    BY <1>6 DEF Assembled, Complete, Full
  <2>2. QED
    BY <1>2, <1>6, <2>1 DEF Assembled, Status, Lifecycle
<1>7. QED
  BY <1>1, <1>3, <1>4, <1>5, <1>6 DEF NodeStep

(* Every node goes through the stages of its life in order.                *)
THEOREM NodesFollowLifecycle == Spec => NodeLifecycle
<1>1. TableOK /\ ConnectedComplete /\ TableOK' /\ ConnectedComplete' /\ [Next]_vars
      => LifecycleStep
  BY LifecycleByStep
<1>2. TypeOK => TableOK
  BY DEF TypeOK, TableOK
<1>3. QED
  BY <1>1, <1>2, DescriptionsTypes, ConnectedAreComplete, PTL DEF NodeLifecycle, Spec
-----------------------------------------------------------------------------
(* Discovery: what a device sends, for any devices, any shape of their     *)
(* descriptions and any order of the kinds.                                *)

(* A set of naturals that has 0 and all successors has all naturals: the   *)
(* order of the naturals is well founded.                                  *)
LEMMA Induction ==
  ASSUME NEW T \in SUBSET Nat, 0 \in T, \A n \in T : n + 1 \in T
  PROVE  T = Nat
<1> DEFINE Rest == Nat \ T
           Less == OpToRel(<, Nat)
<1>1. SUFFICES ASSUME Rest # {} PROVE FALSE
  OBVIOUS
<1>2. IsWellFoundedOn(Less, Nat)
  BY NatLessThanWellFounded
<1>3. PICK x \in Rest : \A y \in Rest : <<y, x>> \notin Less
  <2>1. Rest \subseteq Nat
    OBVIOUS
  <2> HIDE DEF Rest, Less
  <2>2. QED
    BY <1>1, <1>2, <2>1, WFMin
<1>4. x # 0 /\ x - 1 \in Nat
  OBVIOUS
<1>5. <<x - 1, x>> \in Less
  BY <1>4 DEF OpToRel
<1>6. x - 1 \in T
  BY <1>3, <1>4, <1>5
<1>7. QED
  BY <1>4, <1>6

(* FlattenSeq adds the sequences one after the other. *)
LEMMA FlattenDef ==
  ASSUME NEW S, NEW s \in Seq(Seq(S)), Len(s) > 0
  PROVE  \E f \in [1..Len(s) -> Seq(S)] :
           /\ f[1] = s[1] /\ \A i \in 2..Len(s) : f[i] = f[i - 1] \o s[i]
           /\ FlattenSeq(s) = f[Len(s)]
<1> DEFINE Flat(f, n) == f = [i \in 1..n |-> IF i = 1 THEN s[i] ELSE f[i - 1] \o s[i]]
           T == {n \in Nat : \E f : Flat(f, n)}
<1>1. 0 \in T
  <2>1. Flat(<<>>, 0)
    OBVIOUS
  <2>2. QED
    BY <2>1
<1>2. ASSUME NEW n \in T
      PROVE  n + 1 \in T
  <2>1. PICK g : Flat(g, n)
    OBVIOUS
  <2> DEFINE h == [i \in 1..n + 1 |->
                    IF i = n + 1 THEN (IF n = 0 THEN s[1] ELSE g[n] \o s[n + 1]) ELSE g[i]]
  <2>2. \A i \in 1..n : g[i] = IF i = 1 THEN s[i] ELSE g[i - 1] \o s[i]
    <3> DEFINE gg == [i \in 1..n |-> IF i = 1 THEN s[i] ELSE g[i - 1] \o s[i]]
    <3>1. \A i \in 1..n : gg[i] = IF i = 1 THEN s[i] ELSE g[i - 1] \o s[i]
      OBVIOUS
    <3>2. g = gg
      BY <2>1, Zenon
    <3>3. QED
      BY <3>1, <3>2, Zenon
  <2>3. ASSUME NEW i \in 1..n + 1
        PROVE  h[i] = IF i = 1 THEN s[i] ELSE h[i - 1] \o s[i]
    <3>1. n \in Nat
      OBVIOUS
    <3>2. CASE i = n + 1
      <4>1. CASE n = 0
        BY <3>2, <4>1
      <4>2. CASE n # 0
        <5>1. n \in 1..n + 1 /\ n # n + 1 /\ i - 1 = n /\ i # 1
          BY <3>1, <3>2, <4>2
        <5>2. h[n] = g[n] /\ h[i] = g[n] \o s[n + 1]
          BY <3>1, <3>2, <4>2, <5>1
        <5>3. QED
          BY <5>1, <5>2, <3>2
      <4>3. QED
        BY <4>1, <4>2
    <3>3. CASE i # n + 1
      <4>1. h[i] = g[i] /\ i \in 1..n
        BY <3>1, <3>3
      <4>2. i # 1 => h[i - 1] = g[i - 1]
        BY <3>1, <4>1
      <4>3. QED
        BY <2>2, <4>1, <4>2
    <3>4. QED
      BY <3>2, <3>3
  <2>4. Flat(h, n + 1)
    <3> HIDE DEF h
    <3>1. h = [i \in 1..n + 1 |-> h[i]]
      BY DEF h
    <3>2. QED
      BY <2>3, <3>1
  <2>5. n + 1 \in Nat /\ \E f : Flat(f, n + 1)
    <3> HIDE DEF h, Flat
    <3>1. n + 1 \in Nat
      OBVIOUS
    <3>2. QED
      BY <2>4, <3>1, Zenon
  <2>6. QED
    BY <2>5
<1>3. T = Nat
  <2> HIDE DEF T
  <2>1. T \subseteq Nat
    BY DEF T
  <2>2. QED
    BY <1>1, <1>2, <2>1, Induction
<1>4. \E f : Flat(f, Len(s))
  <2>1. Len(s) \in T
    <3> HIDE DEF T
    <3>1. QED
      BY <1>3
  <2>2. QED
    BY <2>1
<1>5. PICK f : Flat(f, Len(s)) /\ FlattenSeq(s) = f[Len(s)]
  <2> DEFINE c == CHOOSE f : Flat(f, Len(s))
  <2>1. Flat(c, Len(s))
    BY <1>4, Zenon
  <2>2. FlattenSeq(s) = c[Len(s)]
    BY DEF FlattenSeq
  <2>3. QED
    BY <2>1, <2>2
<1>6. \A i \in 1..Len(s) : f[i] = IF i = 1 THEN s[i] ELSE f[i - 1] \o s[i]
  <2> DEFINE g == [i \in 1..Len(s) |-> IF i = 1 THEN s[i] ELSE f[i - 1] \o s[i]]
  <2>1. \A i \in 1..Len(s) : g[i] = IF i = 1 THEN s[i] ELSE f[i - 1] \o s[i]
    OBVIOUS
  <2>2. f = g
    BY <1>5, Zenon
  <2>3. QED
    BY <2>1, <2>2, Zenon
<1>7. DOMAIN f = 1..Len(s)
  BY <1>5
<1>8. \A i \in 1..Len(s) : f[i] \in Seq(S)
  <2> DEFINE U == {n \in Nat : n + 1 \in 1..Len(s) => f[n + 1] \in Seq(S)}
  <2>1. 0 \in U
    BY <1>6
  <2>2. ASSUME NEW n \in U
        PROVE  n + 1 \in U
    <3>1. CASE n + 2 \in 1..Len(s)
      <4>1. n + 1 \in 1..Len(s) /\ n \in Nat /\ n + 2 # 1 /\ (n + 2) - 1 = n + 1
        BY <3>1
      <4>2. f[n + 1] \in Seq(S) /\ s[n + 2] \in Seq(S)
        <5>1. f[n + 1] \in Seq(S)
          BY <4>1
        <5>2. s[n + 2] \in Seq(S)
          BY <3>1
        <5>3. QED
          BY <5>1, <5>2
      <4>3. f[n + 2] = f[n + 1] \o s[n + 2]
        BY <1>6, <3>1, <4>1
      <4>4. f[n + 2] \in Seq(S)
        BY <4>2, <4>3
      <4>5. (n + 1) + 1 = n + 2 /\ n + 1 \in Nat
        BY <4>1
      <4>6. QED
        BY <4>4, <4>5
    <3>2. CASE n + 2 \notin 1..Len(s)
      BY <3>2
    <3>3. QED
      BY <3>1, <3>2
  <2>3. U = Nat
    <3> HIDE DEF U
    <3>1. U \subseteq Nat
      BY DEF U
    <3>2. QED
      BY <2>1, <2>2, <3>1, Induction
  <2>4. ASSUME NEW i \in 1..Len(s)
        PROVE  f[i] \in Seq(S)
    <3>1. i - 1 \in Nat /\ (i - 1) + 1 = i
      OBVIOUS
    <3>2. i - 1 \in U
      <4> HIDE DEF U
      <4>1. QED
        BY <2>3, <3>1
    <3>3. (i - 1) + 1 \in 1..Len(s) => f[(i - 1) + 1] \in Seq(S)
      BY <3>2
    <3>4. QED
      BY <3>1, <3>3
  <2>5. QED
    BY <2>4
<1>9. f \in [1..Len(s) -> Seq(S)]
  <2>1. f = [i \in 1..Len(s) |-> f[i]]
    BY <1>5, <1>7
  <2>2. QED
    BY <1>8, <2>1
<1>10. /\ f[1] = s[1]
       /\ \A i \in 2..Len(s) : f[i] = f[i - 1] \o s[i]
  <2>1. 1 \in 1..Len(s)
    OBVIOUS
  <2>2. \A i \in 2..Len(s) : i \in 1..Len(s) /\ i # 1
    OBVIOUS
  <2>3. QED
    BY <1>6, <2>1, <2>2
<1>11. QED
  BY <1>5, <1>9, <1>10

(* A device's messages are read from one state to the next: how many       *)
(* fragments of each kind have come of the description that is being sent, *)
(* all of them between two descriptions.  What is not p's changes nothing. *)
Counts == [Kinds -> Nat]
Nothing == [k \in Kinds |-> 0]
NotMine == [type |-> "other"]

Hears(p, a, m, b) ==
  \/ m.type = "other" /\ b = a
  \/ m.type = "present" /\ a = Shape[p] /\ b = a
  \/ m.type = "description" /\ m.supported /\ a = Shape[p] /\ b = Nothing
  \/ /\ m.type = "fragment" /\ a[m.kind] < Shape[p][m.kind]
     /\ m.no = a[m.kind] + 1 /\ b = [a EXCEPT ![m.kind] = a[m.kind] + 1]

Reads(p, l, a, b) ==
  \E f \in [1..Len(l) + 1 -> Counts] :
    /\ f[1] = a /\ f[Len(l) + 1] = b
    /\ \A j \in 1..Len(l) : Hears(p, f[j], l[j], f[j + 1])

LEMMA ReadsNothing ==
  ASSUME NEW p, NEW a \in Counts
  PROVE  Reads(p, <<>>, a, a)
<1> DEFINE f == [j \in 1..1 |-> a]
<1>1. f \in [1..Len(<<>>) + 1 -> Counts] /\ f[1] = a /\ f[Len(<<>>) + 1] = a
  OBVIOUS
<1>2. \A j \in 1..Len(<<>>) : Hears(p, f[j], <<>>[j], f[j + 1])
  OBVIOUS
<1> HIDE DEF f
<1>3. QED
  BY <1>1, <1>2 DEF Reads

LEMMA ReadsMore ==
  ASSUME NEW p, NEW S, NEW l \in Seq(S), NEW m \in S, NEW a, NEW b, NEW c \in Counts,
         Reads(p, l, a, b), Hears(p, b, m, c)
  PROVE  Reads(p, Append(l, m), a, c)
<1> DEFINE n == Len(l)
           more == Append(l, m)
<1>1. PICK f \in [1..n + 1 -> Counts] :
        /\ f[1] = a /\ f[n + 1] = b
        /\ \A j \in 1..n : Hears(p, f[j], l[j], f[j + 1])
  BY DEF Reads
<1>2. n \in Nat /\ Len(more) = n + 1 /\ more[n + 1] = m /\ \A j \in 1..n : more[j] = l[j]
  OBVIOUS
<1> HIDE DEF n, more
<1> DEFINE g == [j \in 1..n + 2 |-> IF j = n + 2 THEN c ELSE f[j]]
<1>3. g \in [1..n + 2 -> Counts] /\ g[n + 2] = c /\ \A j \in 1..n + 1 : g[j] = f[j]
  BY <1>1, <1>2
<1> HIDE DEF g
<1>4. ASSUME NEW j \in 1..n + 1 PROVE Hears(p, g[j], more[j], g[j + 1])
  <2>1. CASE j = n + 1
    <3>1. g[j] = b /\ g[j + 1] = c /\ more[j] = m
      BY <1>1, <1>2, <1>3, <2>1
    <3>2. QED
      BY <3>1
  <2>2. CASE j # n + 1
    <3>1. j \in 1..n /\ j + 1 \in 1..n + 1
      BY <1>2, <2>2
    <3>2. g[j] = f[j] /\ g[j + 1] = f[j + 1] /\ more[j] = l[j]
      BY <1>2, <1>3, <3>1
    <3>3. QED
      BY <1>1, <3>1, <3>2
  <2>3. QED
    BY <2>1, <2>2
<1>5. g[1] = a
  BY <1>1, <1>2, <1>3
<1>6. Len(more) + 1 = n + 2
  BY <1>2
<1>7. QED
  <2>1. Reads(p, more, a, c)
    BY <1>2, <1>3, <1>4, <1>5, <1>6 DEF Reads
  <2>2. QED
    BY <2>1 DEF more

LEMMA ReadsFirst ==
  ASSUME NEW p, NEW S, NEW l \in Seq(S), l # <<>>, NEW a, NEW b, Reads(p, l, a, b)
  PROVE  \E c \in Counts : Hears(p, a, Head(l), c) /\ Reads(p, Tail(l), c, b)
<1> DEFINE n == Len(l)
           rest == Tail(l)
<1>1. PICK f \in [1..n + 1 -> Counts] :
        /\ f[1] = a /\ f[n + 1] = b
        /\ \A j \in 1..n : Hears(p, f[j], l[j], f[j + 1])
  BY DEF Reads
<1>2. /\ n \in Nat /\ n > 0 /\ Len(rest) = n - 1
      /\ Head(l) = l[1] /\ \A j \in 1..n - 1 : rest[j] = l[j + 1]
  OBVIOUS
<1> HIDE DEF n, rest
<1> DEFINE g == [j \in 1..n |-> f[j + 1]]
<1>3. g \in [1..n -> Counts] /\ \A j \in 1..n : g[j] = f[j + 1]
  BY <1>1, <1>2
<1> HIDE DEF g
<1>4. f[2] \in Counts /\ Hears(p, a, Head(l), f[2]) /\ g[1] = f[2] /\ g[n] = b
  BY <1>1, <1>2, <1>3
<1>5. ASSUME NEW j \in 1..n - 1 PROVE Hears(p, g[j], rest[j], g[j + 1])
  <2>1. j \in 1..n /\ j + 1 \in 1..n /\ (j + 1) + 1 = j + 2
    BY <1>2
  <2>2. g[j] = f[j + 1] /\ g[j + 1] = f[(j + 1) + 1] /\ rest[j] = l[j + 1]
    BY <1>2, <1>3, <2>1
  <2>3. QED
    BY <1>1, <2>1, <2>2
<1>6. Reads(p, rest, f[2], b)
  <2>1. Len(rest) + 1 = n
    BY <1>2
  <2>2. QED
    BY <1>2, <1>3, <1>4, <1>5, <2>1 DEF Reads
<1>7. QED
  BY <1>4, <1>6 DEF rest

LEMMA ReadsBoth ==
  ASSUME NEW p, NEW S, NEW l \in Seq(S), NEW r \in Seq(S), NEW a, NEW b, NEW c,
         Reads(p, l, a, b), Reads(p, r, b, c)
  PROVE  Reads(p, l \o r, a, c)
<1> DEFINE n == Len(l)
           k == Len(r)
           both == l \o r
<1>1. PICK f \in [1..n + 1 -> Counts] :
        /\ f[1] = a /\ f[n + 1] = b
        /\ \A j \in 1..n : Hears(p, f[j], l[j], f[j + 1])
  BY DEF Reads
<1>2. PICK g \in [1..k + 1 -> Counts] :
        /\ g[1] = b /\ g[k + 1] = c
        /\ \A j \in 1..k : Hears(p, g[j], r[j], g[j + 1])
  BY DEF Reads
<1>3. /\ n \in Nat /\ k \in Nat /\ Len(both) = n + k
      /\ \A j \in 1..n : both[j] = l[j]
      /\ \A j \in n + 1..n + k : both[j] = r[j - n]
  OBVIOUS
<1> HIDE DEF n, k, both
<1> DEFINE h == [j \in 1..n + k + 1 |-> IF j <= n THEN f[j] ELSE g[j - n]]
<1>4. /\ h \in [1..n + k + 1 -> Counts]
      /\ \A j \in 1..n + k + 1 : h[j] = IF j <= n THEN f[j] ELSE g[j - n]
  <2>1. ASSUME NEW j \in 1..n + k + 1 PROVE (IF j <= n THEN f[j] ELSE g[j - n]) \in Counts
    <3>1. CASE j <= n
      BY <1>1, <1>3, <3>1
    <3>2. CASE ~(j <= n)
      <4>1. j - n \in 1..k + 1
        BY <1>3, <3>2
      <4>2. QED
        BY <1>2, <3>2, <4>1
    <3>3. QED
      BY <3>1, <3>2
  <2>2. QED
    BY <2>1
<1> HIDE DEF h
<1>5. h[n + 1] = b /\ h[n + k + 1] = c /\ h[1] = a
  BY <1>1, <1>2, <1>3, <1>4
<1>6. ASSUME NEW j \in 1..n + k PROVE Hears(p, h[j], both[j], h[j + 1])
  <2>1. CASE j <= n
    <3>1. j \in 1..n /\ j + 1 \in 1..n + k + 1 /\ j \in 1..n + k + 1
      BY <1>3, <2>1
    <3>2. h[j] = f[j] /\ both[j] = l[j]
      BY <1>3, <1>4, <2>1, <3>1
    <3>3. h[j + 1] = f[j + 1]
      BY <1>1, <1>3, <1>4, <1>5, <2>1, <3>1
    <3>4. QED
      BY <1>1, <3>1, <3>2, <3>3
  <2>2. CASE ~(j <= n)
    <3>1. /\ j - n \in 1..k /\ j \in n + 1..n + k /\ j \in 1..n + k + 1
          /\ j + 1 \in 1..n + k + 1 /\ (j + 1) - n = (j - n) + 1 /\ ~(j + 1 <= n)
      BY <1>3, <2>2
    <3>2. h[j] = g[j - n] /\ both[j] = r[j - n] /\ h[j + 1] = g[(j - n) + 1]
      BY <1>3, <1>4, <2>2, <3>1
    <3>3. QED
      BY <1>2, <3>1, <3>2
  <2>3. QED
    BY <2>1, <2>2
<1>7. QED
  <2>1. Len(both) + 1 = n + k + 1
    BY <1>3
  <2>2. Reads(p, both, a, c)
    BY <1>3, <1>4, <1>5, <1>6, <2>1 DEF Reads
  <2>3. QED
    BY <2>2 DEF both

(* The fragments of one kind are counted off. *)
Piece(p, k) ==
  [n \in 1..Shape[p][k] |-> [type |-> "fragment", kind |-> k, no |-> n]]

LEMMA FragmentsOfAll ==
  ASSUME NEW p \in Node, NEW k \in Kinds, NEW n \in 1..Shape[p][k]
  PROVE  n \in Fragments
<1> DEFINE G(q, i) == 1..Shape[q][i]
<1>1. Fragments = UNION {G(q, i) : q \in Node, i \in Kinds}
  BY DEF Fragments
<1>2. n \in G(p, k)
  OBVIOUS
<1> HIDE DEF G
<1>3. G(p, k) \in {G(q, i) : q \in Node, i \in Kinds}
  OBVIOUS
<1>4. QED
  BY <1>1, <1>2, <1>3

LEMMA ReadsPiece ==
  ASSUME NEW p \in Node, NEW k \in Kinds, NEW a \in Counts, a[k] = 0
  PROVE  /\ Piece(p, k) \in Seq(Msg)
         /\ Reads(p, Piece(p, k), a, [a EXCEPT ![k] = Shape[p][k]])
<1> DEFINE n == Shape[p][k]
           l == Piece(p, k)
<1>1. n \in Nat
  BY ShapeAssumption
<1>2. Len(l) = n /\ \A j \in 1..n : l[j] = [type |-> "fragment", kind |-> k, no |-> j]
  BY <1>1 DEF Piece
<1>3. l \in Seq(Msg)
  <2>1. ASSUME NEW j \in 1..n
        PROVE  [type |-> "fragment", kind |-> k, no |-> j] \in Msg
    <3>1. j \in Fragments
      BY FragmentsOfAll
    <3>2. QED
      BY <3>1 DEF Msg
  <2>2. QED
    BY <1>1, <2>1 DEF Piece
<1> HIDE DEF n, l
<1>4. \A j \in 1..n : l[j].type = "fragment" /\ l[j].kind = k /\ l[j].no = j
  BY <1>2
<1> DEFINE f == [j \in 1..n + 1 |-> [a EXCEPT ![k] = j - 1]]
<1>5. a = [i \in Kinds |-> a[i]] /\ \A i \in Kinds : a[i] \in Nat
  BY DEF Counts
<1>6. /\ f \in [1..n + 1 -> Counts]
      /\ \A j \in 1..n + 1 : f[j] = [a EXCEPT ![k] = j - 1]
  <2>1. ASSUME NEW j \in 1..n + 1 PROVE [a EXCEPT ![k] = j - 1] \in Counts
    <3>1. j - 1 \in Nat
      BY <1>1
    <3>2. QED
      BY <3>1 DEF Counts
  <2>2. QED
    BY <2>1
<1> HIDE DEF f
<1>7. f[1] = a
  <2>1. f[1] = [a EXCEPT ![k] = 0]
    BY <1>1, <1>6
  <2>2. [a EXCEPT ![k] = 0] = a
    BY DEF Counts
  <2>3. QED
    BY <2>1, <2>2
<1>8. f[n + 1] = [a EXCEPT ![k] = n]
  <2>1. n + 1 \in 1..n + 1 /\ (n + 1) - 1 = n
    BY <1>1
  <2>2. QED
    BY <1>6, <2>1
<1>9. ASSUME NEW j \in 1..n PROVE Hears(p, f[j], l[j], f[j + 1])
  <2>1. j \in 1..n + 1 /\ j + 1 \in 1..n + 1 /\ (j + 1) - 1 = j /\ j - 1 < n /\ (j - 1) + 1 = j
    BY <1>1
  <2>2. f[j] = [a EXCEPT ![k] = j - 1] /\ f[j + 1] = [a EXCEPT ![k] = j]
    BY <1>6, <2>1
  <2>3. f[j][k] = j - 1 /\ f[j + 1] = [f[j] EXCEPT ![k] = j]
    BY <2>2 DEF Counts
  <2>4. l[j].type = "fragment" /\ l[j].kind = k /\ l[j].no = j
    BY <1>4
  <2>5. f[j][k] < Shape[p][k] /\ j = f[j][k] + 1
    BY <2>1, <2>3 DEF n
  <2>6. QED
    BY <2>3, <2>4, <2>5 DEF Hears
<1>10. Reads(p, l, a, [a EXCEPT ![k] = n])
  BY <1>2, <1>6, <1>7, <1>8, <1>9 DEF Reads
<1>11. QED
  BY <1>3, <1>10 DEF n, l

(* What has come once the first i kinds have. *)
Got(p, i) ==
  [k \in Kinds |-> IF \E j \in 1..i : KindOrder[j] = k THEN Shape[p][k] ELSE 0]

LEMMA GotMore ==
  ASSUME NEW p \in Node, NEW i \in Nat, i + 1 \in 1..Len(KindOrder)
  PROVE  /\ KindOrder[i + 1] \in Kinds /\ Got(p, i) \in Counts
         /\ Got(p, i)[KindOrder[i + 1]] = 0
         /\ Got(p, i + 1) = [Got(p, i) EXCEPT ![KindOrder[i + 1]] = Shape[p][KindOrder[i + 1]]]
<1> DEFINE k == KindOrder[i + 1]
<1>1. k \in Kinds
  BY KindOrderAssumption
<1>2. \A j \in 1..i : KindOrder[j] # k
  BY KindOrderAssumption DEF IsInjective
<1>3. \A j \in 1..i + 1 : j \in 1..i \/ j = i + 1
  OBVIOUS
<1>4. 1..i \subseteq 1..i + 1 /\ i + 1 \in 1..i + 1
  OBVIOUS
<1>5. \A q \in Kinds : (\E j \in 1..i + 1 : KindOrder[j] = q) <=> q = k \/ \E j \in 1..i : KindOrder[j] = q
  BY <1>3, <1>4
<1>6. \A q \in Kinds : Shape[p][q] \in Nat
  BY ShapeAssumption
<1> HIDE DEF k
<1>7. Got(p, i) \in Counts /\ Got(p, i)[k] = 0
  BY <1>1, <1>2, <1>6 DEF Got, Counts
<1>8. Got(p, i + 1) = [Got(p, i) EXCEPT ![k] = Shape[p][k]]
  BY <1>1, <1>5 DEF Got
<1>9. QED
  BY <1>1, <1>7, <1>8 DEF k

(* A device answers with whole messages of its own, and a description is   *)
(* read from its beginning to its end.                                     *)
LEMMA ReadsDescription ==
  ASSUME NEW p \in Devices
  PROVE  /\ Description(p) \in Seq(Msg)
         /\ Reads(p, Description(p), Shape[p], Shape[p])
<1> DEFINE K == Len(KindOrder)
           pieces == [j \in DOMAIN KindOrder |-> Piece(p, KindOrder[j])]
           begin == [type |-> "description", supported |-> TRUE]
<1>0. p \in Node /\ Shape[p] \in Counts /\ Nothing \in Counts
  BY DevicesAssumption, ShapeAssumption DEF Counts, Nothing
<1>1. K \in Nat /\ DOMAIN KindOrder = 1..K /\ \A j \in 1..K : KindOrder[j] \in Kinds
  BY KindOrderAssumption
<1>2. Description(p) = <<begin>> \o FlattenSeq(pieces)
  BY Zenon DEF Description, Piece
<1>3. begin \in Msg /\ <<begin>> \in Seq(Msg) /\ Reads(p, <<begin>>, Shape[p], Nothing)
  <2>1. begin \in Msg
    BY DEF Msg
  <2>2. Hears(p, Shape[p], begin, Nothing)
    BY DEF Hears
  <2>3. Reads(p, <<>>, Shape[p], Shape[p])
    BY <1>0, ReadsNothing
  <2>4. <<>> \in Seq(Msg) /\ Append(<<>>, begin) = <<begin>>
    OBVIOUS
  <2>5. Reads(p, Append(<<>>, begin), Shape[p], Nothing)
    <3> HIDE DEF begin
    <3>1. QED
      BY <1>0, <2>1, <2>2, <2>3, <2>4, ReadsMore
  <2>6. QED
    BY <2>1, <2>4, <2>5
<1>4. Got(p, K) = Shape[p] /\ Got(p, 0) = Nothing
  <2>1. \A k \in Kinds : \E j \in 1..K : KindOrder[j] = k
    BY <1>1, KindOrderAssumption DEF Range
  <2>2. Got(p, K) = [k \in Kinds |-> Shape[p][k]]
    BY <2>1 DEF Got
  <2>3. Shape[p] = [k \in Kinds |-> Shape[p][k]]
    BY <1>0 DEF Counts
  <2>4. QED
    BY <2>2, <2>3 DEF Got, Nothing
<1>5. pieces \in Seq(Seq(Msg)) /\ Len(pieces) = K
  <2>1. ASSUME NEW j \in 1..K PROVE Piece(p, KindOrder[j]) \in Seq(Msg)
    <3>1. Nothing[KindOrder[j]] = 0
      BY <1>1 DEF Nothing
    <3>2. QED
      BY <1>0, <1>1, <3>1, ReadsPiece
  <2>2. QED
    BY <1>1, <2>1
<1> HIDE DEF begin, pieces, K
<1>6. FlattenSeq(pieces) \in Seq(Msg) /\ Reads(p, FlattenSeq(pieces), Nothing, Shape[p])
  <2>1. CASE K = 0
    <3>1. pieces = <<>>
      BY <1>5, <2>1
    <3>2. FlattenSeq(<<>>) = <<>>
      BY DEF FlattenSeq
    <3>3. Nothing = Shape[p]
      BY <1>4, <2>1
    <3>4. Reads(p, <<>>, Shape[p], Shape[p]) /\ <<>> \in Seq(Msg)
      BY <1>0, ReadsNothing
    <3>5. QED
      BY <3>1, <3>2, <3>3, <3>4
  <2>2. CASE K > 0
    <3>1. PICK f \in [1..K -> Seq(Msg)] :
            /\ f[1] = pieces[1] /\ \A i \in 2..K : f[i] = f[i - 1] \o pieces[i]
            /\ FlattenSeq(pieces) = f[K]
      BY <1>5, <2>2, FlattenDef
    <3>2. \A j \in 1..K : pieces[j] = Piece(p, KindOrder[j])
      BY <1>1 DEF pieces
    <3> DEFINE T == {i \in Nat : i + 1 \in 1..K => Reads(p, f[i + 1], Nothing, Got(p, i + 1))}
    <3>3. 0 \in T
      <4>1. 0 + 1 \in 1..K
        BY <1>1, <2>2
      <4>2. /\ KindOrder[1] \in Kinds /\ Got(p, 0)[KindOrder[1]] = 0 /\ Got(p, 0) \in Counts
            /\ Got(p, 1) = [Got(p, 0) EXCEPT ![KindOrder[1]] = Shape[p][KindOrder[1]]]
        <5>1. 0 + 1 \in 1..Len(KindOrder)
          BY <4>1 DEF K
        <5>2. /\ KindOrder[0 + 1] \in Kinds /\ Got(p, 0)[KindOrder[0 + 1]] = 0 /\ Got(p, 0) \in Counts
              /\ Got(p, 0 + 1) = [Got(p, 0) EXCEPT ![KindOrder[0 + 1]] = Shape[p][KindOrder[0 + 1]]]
          BY <1>0, <5>1, GotMore
        <5>3. QED
          BY <5>2
      <4>3. Reads(p, f[1], Nothing, Got(p, 1))
        BY <1>0, <1>4, <3>1, <3>2, <4>1, <4>2, ReadsPiece
      <4>4. QED
        BY <4>3
    <3>4. ASSUME NEW i \in T PROVE i + 1 \in T
      <4>1. CASE (i + 1) + 1 \in 1..K
        <5>1. /\ i \in Nat /\ i + 1 \in Nat /\ i + 1 \in 1..K /\ i + 2 \in 2..K /\ i + 2 \in 1..K
              /\ (i + 1) + 1 = i + 2 /\ (i + 2) - 1 = i + 1
          BY <1>1, <4>1
        <5>2. Reads(p, f[i + 1], Nothing, Got(p, i + 1))
          BY <5>1
        <5>3. /\ KindOrder[i + 2] \in Kinds /\ Got(p, i + 1)[KindOrder[i + 2]] = 0
              /\ Got(p, i + 1) \in Counts
              /\ Got(p, i + 2) = [Got(p, i + 1) EXCEPT ![KindOrder[i + 2]] = Shape[p][KindOrder[i + 2]]]
          <6>1. (i + 1) + 1 \in 1..Len(KindOrder)
            BY <4>1 DEF K
          <6>2. /\ KindOrder[(i + 1) + 1] \in Kinds /\ Got(p, i + 1)[KindOrder[(i + 1) + 1]] = 0
                /\ Got(p, i + 1) \in Counts
                /\ Got(p, (i + 1) + 1) =
                     [Got(p, i + 1) EXCEPT ![KindOrder[(i + 1) + 1]] = Shape[p][KindOrder[(i + 1) + 1]]]
            BY <1>0, <5>1, <6>1, GotMore
          <6>3. QED
            BY <5>1, <6>2
        <5>4. /\ pieces[i + 2] \in Seq(Msg)
              /\ Reads(p, pieces[i + 2], Got(p, i + 1), Got(p, i + 2))
          BY <1>0, <3>2, <5>1, <5>3, ReadsPiece
        <5>5. f[i + 2] = f[i + 1] \o pieces[i + 2] /\ f[i + 1] \in Seq(Msg)
          <6>1. f[i + 2] = f[(i + 2) - 1] \o pieces[i + 2]
            BY <3>1, <5>1
          <6>2. QED
            BY <3>1, <5>1, <6>1
        <5>6. Reads(p, f[i + 2], Nothing, Got(p, i + 2))
          BY <5>2, <5>4, <5>5, ReadsBoth
        <5>7. QED
          BY <5>1, <5>6
      <4>2. CASE ~((i + 1) + 1 \in 1..K)
        BY <4>2
      <4>3. QED
        BY <4>1, <4>2
    <3>5. T = Nat
      <4> HIDE DEF T
      <4>1. T \subseteq Nat
        BY DEF T
      <4>2. QED
        BY <3>3, <3>4, <4>1, Induction
    <3>6. Reads(p, f[K], Nothing, Got(p, K))
      <4>1. K - 1 \in T
        <5> HIDE DEF T
        <5>1. K - 1 \in Nat
          BY <1>1, <2>2
        <5>2. QED
          BY <3>5, <5>1
      <4>2. (K - 1) + 1 = K /\ K \in 1..K
        BY <1>1, <2>2
      <4>3. QED
        BY <4>1, <4>2
    <3>7. f[K] \in Seq(Msg)
      BY <1>1, <2>2, <3>1
    <3>8. QED
      BY <1>4, <3>1, <3>6, <3>7
  <2>3. QED
    BY <1>1, <2>1, <2>2
<1>7. <<begin>> \o FlattenSeq(pieces) \in Seq(Msg)
  BY <1>3, <1>6
<1>8. Reads(p, <<begin>> \o FlattenSeq(pieces), Shape[p], Shape[p])
  BY <1>3, <1>6, ReadsBoth
<1>9. QED
  BY <1>2, <1>7, <1>8

LEMMA ReadsAnswer ==
  ASSUME NEW p \in Devices, NEW request \in Request
  PROVE  /\ Answer(p, request) \in Seq(Msg)
         /\ Reads(p, Answer(p, request), Shape[p], Shape[p])
<1>1. p \in Node /\ Shape[p] \in Counts
  BY DevicesAssumption, ShapeAssumption DEF Counts
<1>2. <<>> \in Seq(Msg) /\ Reads(p, <<>>, Shape[p], Shape[p])
  BY <1>1, ReadsNothing
<1>3. <<[type |-> "present"]>> \in Seq(Msg) /\ Reads(p, <<[type |-> "present"]>>, Shape[p], Shape[p])
  <2> DEFINE m == [type |-> "present"]
  <2>1. m \in Msg /\ Hears(p, Shape[p], m, Shape[p])
    BY DEF Msg, Hears
  <2>2. Append(<<>>, m) = <<m>> /\ <<m>> \in Seq(Msg)
    BY <2>1
  <2> HIDE DEF m
  <2>3. Reads(p, Append(<<>>, m), Shape[p], Shape[p])
    BY <1>1, <1>2, <2>1, ReadsMore
  <2>4. QED
    BY <2>2, <2>3 DEF m
<1>4. Answer(p, request) \in {<<>>, <<[type |-> "present"]>>, Description(p)}
  <2>1. request.what \in {"list", "describe", "describeNode"}
    BY DEF Request
  <2>2. QED
    BY <2>1 DEF Answer
<1>5. QED
  BY <1>2, <1>3, <1>4, ReadsDescription

-----------------------------------------------------------------------------
(* Discovery: the table behind the queues.  Every step of Discovery is one *)
(* of Descriptions, but for a closing, which also forgets whom the         *)
(* requests were for.                                                      *)
Forgets ==
  /\ hubAt' = NoTarget /\ out' = [j \in DOMAIN out |-> [out[j] EXCEPT !.to = @ \ {hubAt}]]
  /\ UNCHANGED <<table, msgVars, pingVars, callbacks>>

StreamsOK ==
  /\ open \subseteq Targets
  /\ inbox \in Seq([node : Devices, msg : Msg]) /\ Len(inbox) <= InboxMax
  /\ tx \in [Devices -> Seq(Msg)]
  /\ connects \in [Targets -> 0..MaxConnects]

LEMMA HeadIsIn ==
  ASSUME NEW S, NEW l \in Seq(S), l # <<>>
  PROVE  Head(l) \in S
  OBVIOUS

LEMMA TakenIsMessage ==
  ASSUME StreamsOK, inbox # <<>>
  PROVE  /\ Head(inbox).node \in Devices /\ Head(inbox).node \in Node
         /\ Head(inbox).msg \in Msg
<1>1. Head(inbox) \in [node : Devices, msg : Msg]
  BY HeadIsIn DEF StreamsOK
<1>2. QED
  BY <1>1, DevicesAssumption

LEMMA StepOfTable ==
  ASSUME StreamsOK, DNext
  PROVE  [Next]_vars \/ Forgets
<1>1. CASE HubSend
  <2>1. Drain
    BY <1>1 DEF HubSend, Drain
  <2>2. QED
    BY <2>1 DEF Next
<1>2. CASE HubClosed
  BY <1>2 DEF HubClosed, Forgets
<1>3. CASE Take
  <2>1. ProcessMessage(Head(inbox).node, Head(inbox).msg, open)
    BY <1>3 DEF Take
  <2>2. /\ Head(inbox).node \in Node /\ Head(inbox).msg \in Msg
        /\ open \in SUBSET Targets
    BY <1>3, TakenIsMessage DEF Take, StreamsOK
  <2>3. QED
    BY <2>1, <2>2 DEF Next
<1>4. CASE PingStart \/ PingRest
  <2>1. open \in SUBSET Targets
    BY DEF StreamsOK
  <2>2. QED
    BY <1>4, <2>1 DEF PingStart, PingRest, Next
<1>5. ASSUME NEW t \in Targets, Connect(t) \/ HubClose(t)
      PROVE  [Next]_vars
  BY <1>5 DEF Connect, HubClose, Next
<1>6. ASSUME NEW p \in Devices, HubReceive(p) \/ Silence(p)
      PROVE  [Next]_vars
  <2>1. p \in Node
    BY DevicesAssumption
  <2>2. QED
    BY <1>6, <2>1 DEF HubReceive, Silence, Next
<1>7. CASE HubClosing \/ Notify
  BY <1>7 DEF HubClosing, Notify, Next
<1>8. QED
  BY <1>1, <1>2, <1>3, <1>4, <1>5, <1>6, <1>7 DEF DNext

LEMMA ForgetKeepsTypes ==
  ASSUME AllOK, Forgets
  PROVE  AllOK'
<1>1. UNCHANGED <<known, ignored, slots, connected, stale, msgUp, msgDown, pingPc,
                  pingDown, pingLonely, echo, score, told, raced>> /\ hubAt' = NoTarget
  BY DEF Forgets, table, msgVars, pingVars, callbacks
<1>2. TableOK' /\ ConnectedComplete'
  BY <1>1 DEF AllOK, TableOK, ConnectedComplete, Complete, Full
<1>3. RestOK'
  BY <1>1 DEF AllOK, RestOK
<1>4. out' \in Seq(Request)
  <2>1. ASSUME NEW j \in DOMAIN out PROVE [out[j] EXCEPT !.to = @ \ {hubAt}] \in Request
    <3>1. out[j] \in Request
      BY DEF AllOK
    <3>2. out[j].to \in SUBSET Targets /\ out[j].to \ {hubAt} \in SUBSET Targets
      BY <3>1 DEF Request
    <3>3. QED
      BY <3>1, <3>2 DEF Request
  <2>2. out' = [j \in DOMAIN out |-> [out[j] EXCEPT !.to = @ \ {hubAt}]]
    BY DEF Forgets
  <2>3. DOMAIN out = 1..Len(out) /\ Len(out) \in Nat
    BY DEF AllOK
  <2>4. QED
    BY <2>1, <2>2, <2>3
<1>5. QED
  BY <1>2, <1>3, <1>4 DEF AllOK

(* The queue, the streams and the calls of connect keep their types.       *)
LEMMA StreamStep ==
  ASSUME AllOK, StreamsOK, [DNext]_allVars
  PROVE  StreamsOK'
<1> USE DEF StreamsOK
<1>1. ASSUME NEW t \in Targets, Connect(t) PROVE StreamsOK'
  <2>1. connects[t] \in 0..MaxConnects /\ connects[t] < MaxConnects
    BY <1>1 DEF Connect
  <2>2. connects[t] + 1 \in 0..MaxConnects
    BY <2>1, LimitsAssumption
  <2>3. /\ connects' = [connects EXCEPT ![t] = connects[t] + 1]
        /\ open' = open \cup {t} /\ UNCHANGED <<inbox, tx>>
    BY <1>1 DEF Connect
  <2>4. QED
    BY <2>2, <2>3
<1>2. CASE HubSend
  <2>1. Head(out) \in Request
    BY <1>2 DEF AllOK, HubSend
  <2>2. ASSUME NEW p \in Devices PROVE tx[p] \o Answer(p, Head(out)) \in Seq(Msg)
    <3>1. tx[p] \in Seq(Msg) /\ Answer(p, Head(out)) \in Seq(Msg)
      BY <2>1, ReadsAnswer
    <3>2. QED
      BY <3>1
  <2>3. UNCHANGED <<open, inbox, connects>>
    BY <1>2 DEF HubSend
  <2>4. tx' \in [Devices -> Seq(Msg)]
    BY <1>2, <2>2 DEF HubSend
  <2>5. QED
    BY <2>3, <2>4
<1>3. ASSUME NEW p \in Devices, HubReceive(p) PROVE StreamsOK'
  <2>1. tx[p] \in Seq(Msg) /\ tx[p] # <<>> /\ UNCHANGED <<open, connects>>
    BY <1>3 DEF HubReceive
  <2>2. Head(tx[p]) \in Msg /\ Tail(tx[p]) \in Seq(Msg)
    BY <2>1
  <2>3. tx' = [tx EXCEPT ![p] = Tail(tx[p])]
    BY <1>3 DEF HubReceive
  <2>4. tx' \in [Devices -> Seq(Msg)]
    BY <2>2, <2>3
  <2>5. [node |-> p, msg |-> Head(tx[p])] \in [node : Devices, msg : Msg]
    BY <2>2
  <2>6. CASE Len(inbox) < InboxMax
    <3>1. inbox' = Append(inbox, [node |-> p, msg |-> Head(tx[p])])
      BY <1>3, <2>6 DEF HubReceive
    <3>2. inbox' \in Seq([node : Devices, msg : Msg]) /\ Len(inbox') = Len(inbox) + 1
      BY <2>5, <3>1, AppendIsSeq
    <3>3. Len(inbox') <= InboxMax
      <4>1. Len(inbox) \in Nat
        OBVIOUS
      <4>2. QED
        BY <2>6, <3>2, <4>1, LimitsAssumption
    <3>4. QED
      BY <2>1, <2>4, <3>2, <3>3
  <2>7. CASE ~(Len(inbox) < InboxMax)
    BY <1>3, <2>1, <2>4, <2>7 DEF HubReceive
  <2>8. QED
    BY <2>6, <2>7
<1>4. CASE HubClosed
  <2>1. ASSUME NEW p \in Devices PROVE (IF p[1] = hubAt THEN <<>> ELSE tx[p]) \in Seq(Msg)
    OBVIOUS
  <2>2. tx' \in [Devices -> Seq(Msg)]
    BY <1>4, <2>1 DEF HubClosed
  <2>3. QED
    BY <1>4, <2>2 DEF HubClosed
<1>5. CASE Take
  <2>1. Tail(inbox) \in Seq([node : Devices, msg : Msg]) /\ Len(Tail(inbox)) <= Len(inbox)
    BY <1>5 DEF Take
  <2>2. Len(inbox) \in Nat /\ Len(Tail(inbox)) \in Nat
    BY <2>1
  <2>3. Len(Tail(inbox)) <= InboxMax
    BY <2>1, <2>2, LimitsAssumption
  <2>4. QED
    BY <1>5, <2>1, <2>3 DEF Take
<1>6. CASE UNCHANGED env
  BY <1>6 DEF env
<1>7. QED
  BY <1>1, <1>2, <1>3, <1>4, <1>5, <1>6 DEF DNext, HubClose, HubClosing, Notify,
     PingStart, PingRest, Silence, allVars, env

TypesHold == AllOK /\ StreamsOK

LEMMA TypesStart == DInit => TypesHold
<1> SUFFICES ASSUME DInit PROVE TypesHold
  OBVIOUS
<1>1. AllOK
  BY InitIsOK DEF DInit, AllOK
<1>2. StreamsOK
  BY LimitsAssumption DEF DInit, StreamsOK
<1>3. QED
  BY <1>1, <1>2 DEF TypesHold

LEMMA TypesStay ==
  ASSUME TypesHold, [DNext]_allVars
  PROVE  TypesHold'
<1>1. StreamsOK'
  BY StreamStep DEF TypesHold
<1>2. [Next]_vars \/ Forgets
  <2>1. CASE DNext
    BY <2>1, StepOfTable DEF TypesHold
  <2>2. CASE UNCHANGED allVars
    BY <2>2 DEF allVars
  <2>3. QED
    BY <2>1, <2>2
<1>3. AllOK'
  BY <1>2, TableStep, RestStep, OutStep, ForgetKeepsTypes DEF TypesHold, AllOK
<1>4. QED
  BY <1>1, <1>3 DEF TypesHold

LEMMA ForgetKeepsTable ==
  ASSUME Forgets
  PROVE  UNCHANGED <<known, slots, connected, callbacks, msgUp, msgDown, pingPc, pingDown>>
  BY DEF Forgets, table, msgVars, pingVars, callbacks

(* Behind the queues, the table keeps what it promises alone: only         *)
(* complete descriptions are connected, the callbacks are balanced and, if *)
(* no other call overlaps, in order, nodes go through their life in order  *)
(* and complete descriptions are final (client.h 209-331 and 539-544, the  *)
(* three threads that use the table).                                      *)
THEOREM DiscoveryKeepsTheTable ==
  DSpec => /\ [](ConnectedComplete /\ CallbacksBalance /\ LastCallIsTrue)
           /\ NodeLifecycle /\ CompleteIsFinal
<1> DEFINE IInv == TypesHold /\ Pending1 /\ CallbacksBalance /\ CallsInOrder
<1>1. DInit => IInv
  BY TypesStart DEF DInit, Init, Pending1, CallbacksBalance, Balance, One,
     CallsInOrder, Ordered
<1>2. ASSUME IInv, [DNext]_allVars
      PROVE  /\ IInv'
             /\ LifecycleStep
             /\ \A p \in Node : Complete(p) /\ p \in known' => slots'[p] = slots[p]
  <2>1. TypesHold' /\ TableOK /\ ConnectedComplete /\ TableOK' /\ ConnectedComplete' /\ TypeOK
    BY <1>2, TypesStay DEF TypesHold, AllOK, TableOK, RestOK, TypeOK
  <2>2. [Next]_vars \/ Forgets
    <3>1. CASE DNext
      BY <1>2, <3>1, StepOfTable DEF TypesHold
    <3>2. CASE UNCHANGED allVars
      BY <3>2 DEF allVars
    <3>3. QED
      BY <1>2, <3>1, <3>2
  <2>3. CASE [Next]_vars
    BY <1>2, <2>1, <2>3, PendingStep, BalanceStep, OrderStep, LifecycleByStep, FinalByStep
  <2>4. CASE Forgets
    <3>1. UNCHANGED <<known, slots, connected, callbacks, msgUp, msgDown, pingPc, pingDown>>
      BY <2>4, ForgetKeepsTable
    <3>2. Pending1' /\ CallbacksBalance' /\ CallsInOrder'
      BY <1>2, <3>1 DEF Pending1, CallbacksBalance, Balance, One, CallsInOrder,
         Ordered, Owed, callbacks
    <3>3. LifecycleStep
      BY <3>1 DEF LifecycleStep, Status, Complete, Full
    <3>4. QED
      BY <2>1, <3>1, <3>2, <3>3
  <2>5. QED
    BY <2>2, <2>3, <2>4
<1>3. IInv => ConnectedComplete /\ CallbacksBalance /\ LastCallIsTrue
  BY DEF TypesHold, AllOK, CallsInOrder, Ordered, LastCallIsTrue
<1> HIDE DEF IInv
<1>4. QED
  BY <1>1, <1>2, <1>3, PTL DEF DSpec, NodeLifecycle, CompleteIsFinal

(* Type correctness of the queues, the streams and the table behind them.  *)
THEOREM DiscoveryTypes == DSpec => []DTypeOK
<1>1. TypesHold => DTypeOK
  BY DEF TypesHold, AllOK, TableOK, RestOK, StreamsOK, TypeOK, DTypeOK
<1>2. TypesHold /\ [DNext]_allVars => TypesHold'
  BY TypesStay
<1>3. QED
  BY <1>1, <1>2, TypesStart, PTL DEF DSpec

-----------------------------------------------------------------------------
(* Discovery: descriptions are assembled as they were sent.  What is under *)
(* way to the processing thread is one reading, from what is stored, over  *)
(* the messages in the queue and those on the stream, to a whole number of *)
(* descriptions, or to wherever the stream was closed.                     *)
Seen(p, q) == [j \in DOMAIN q |-> IF q[j].node = p THEN q[j].msg ELSE NotMine]
View(p) == Seen(p, inbox)

InPlace(p) ==
  p \in known => \A k \in Kinds : \A n \in 1..Len(slots[p][k]) : slots[p][k][n] = n

Stored(p, a) ==
  /\ p \notin known => a = Shape[p]
  /\ p \in known => Complete(p) \/ \A k \in Kinds : Len(slots[p][k]) = a[k]

Closed(t) == connects[t] >= 1 /\ t \notin open

OnTheWay(p) ==
  \E a, b, c \in Counts :
    /\ Stored(p, a) /\ Reads(p, View(p), a, b) /\ Reads(p, tx[p], b, c)
    /\ c = Shape[p] \/ Closed(p[1])

OpenedOK ==
  /\ \A t \in open : connects[t] >= 1
  /\ hubAt # NoTarget => connects[hubAt] >= 1

AssemblyOK == OpenedOK /\ \A p \in Devices : p \notin ignored /\ InPlace(p) /\ OnTheWay(p)

(* The messages are not lost, and a stream is opened at most once.         *)
Unbroken == ~Lossy /\ MaxConnects <= 1

(* A message of p is handled as the reading says.                          *)
LEMMA OwnMessage ==
  ASSUME TableOK, ConnectedComplete, NEW p \in Node, NEW m \in Msg, NEW openTargets,
         ProcessMessage(p, m, openTargets), NEW a \in Counts, NEW b \in Counts,
         p \notin ignored, InPlace(p), Stored(p, a), Hears(p, a, m, b)
  PROVE  p \notin ignored' /\ InPlace(p)' /\ Stored(p, b)'
<1>1. /\ m.type \in {"other", "present", "description", "fragment"}
      /\ m.type = "description" => m.supported
  BY DEF Hears
<1>2. \A k \in Kinds : Shape[p][k] \in Nat
  BY ShapeAssumption
<1>3. CASE Disregard(p, m) \/ AskUnknown(p, m, openTargets)
  <2>1. UNCHANGED <<known, ignored, slots>> /\ p \notin known /\ m.type # "description"
    BY <1>3 DEF Disregard, AskUnknown, table
  <2>2. a = Shape[p]
    BY <2>1 DEF Stored
  <2>3. b = Shape[p]
    BY <1>2, <2>1, <2>2, MsgFacts DEF Hears
  <2>4. QED
    BY <2>1, <2>3 DEF InPlace, Stored
<1>4. CASE Meet(p, m)
  <2>1. /\ p \notin known /\ p \in known' /\ ignored' = ignored
        /\ slots'[p] = Empty /\ m.type = "description"
    BY <1>4 DEF Meet
  <2>2. b = Nothing
    BY <2>1 DEF Hears
  <2>3. \A k \in Kinds : Empty[k] = <<>> /\ Len(Empty[k]) = 0 /\ Nothing[k] = 0
    BY DEF Empty, Nothing
  <2>4. InPlace(p)'
    BY <2>1, <2>3 DEF InPlace
  <2>5. Stored(p, b)'
    BY <2>1, <2>2, <2>3 DEF Stored
  <2>6. QED
    BY <2>1, <2>4, <2>5
<1>5. CASE SeeAgain(p, m)
  <2>1. UNCHANGED <<known, ignored, slots>> /\ Complete(p) /\ p \in known
    BY <1>5 DEF SeeAgain, Complete
  <2>2. Complete(p)'
    BY <2>1 DEF Complete, Full
  <2>3. QED
    BY <2>1, <2>2 DEF InPlace, Stored
<1>6. CASE Assemble(p, m)
  <2>1. UNCHANGED <<known, ignored>> /\ ~Complete(p) /\ p \in known
    BY <1>6 DEF Assemble
  <2>2. \A k \in Kinds : slots[p][k] \in Seq(Nat) /\ Len(slots[p][k]) = a[k]
    BY <2>1 DEF Stored, TableOK
  <2>3. a # Shape[p]
    BY <2>1, <2>2 DEF Complete, Full
  <2>4. CASE m.type # "fragment"
    <3>1. UNCHANGED slots
      BY <1>6, <2>4 DEF Assemble
    <3>2. b = a
      BY <2>3, <2>4 DEF Hears
    <3>3. QED
      BY <2>1, <2>2, <3>1, <3>2 DEF InPlace, Stored
  <2>5. CASE m.type = "fragment"
    <3> DEFINE k == m.kind
               l == slots[p][k]
    <3>1. k \in Kinds /\ m.no \in Nat
      BY <2>5, MsgFacts
    <3>2. a[k] < Shape[p][k] /\ m.no = a[k] + 1 /\ b = [a EXCEPT ![k] = a[k] + 1]
      BY <2>5 DEF Hears
    <3>3. l \in Seq(Nat) /\ Len(l) = a[k]
      BY <2>2, <3>1
    <3>4. slots' = [slots EXCEPT ![p][k] = Append(l, m.no)]
      BY <1>6, <2>5, <3>2, <3>3 DEF Assemble
    <3>5. slots'[p][k] = Append(l, m.no) /\ \A j \in Kinds : j # k => slots'[p][j] = slots[p][j]
      BY <2>1, <3>1, <3>4 DEF TableOK
    <3>6. /\ Len(Append(l, m.no)) = Len(l) + 1 /\ Append(l, m.no)[Len(l) + 1] = m.no
          /\ \A n \in 1..Len(l) : Append(l, m.no)[n] = l[n]
      <4> HIDE DEF k, l
      <4>1. QED
        BY <3>1, <3>3
    <3>7. \A n \in 1..Len(l) : l[n] = n
      BY <2>1, <3>1 DEF InPlace
    <3>8. \A n \in 1..Len(l) + 1 : Append(l, m.no)[n] = n
      <4> HIDE DEF k, l
      <4>1. Len(l) \in Nat
        BY <3>3
      <4>2. \A n \in 1..Len(l) + 1 : n \in 1..Len(l) \/ n = Len(l) + 1
        BY <4>1
      <4>3. QED
        BY <3>2, <3>3, <3>6, <3>7, <4>2
    <3> HIDE DEF k, l
    <3>9. ASSUME NEW j \in Kinds
          PROVE  /\ Len(slots'[p][j]) = b[j]
                 /\ \A n \in 1..Len(slots'[p][j]) : slots'[p][j][n] = n
      <4>1. CASE j = k
        <5>1. b[j] = a[k] + 1
          BY <3>1, <3>2, <4>1 DEF Counts
        <5>2. QED
          BY <3>3, <3>5, <3>6, <3>8, <4>1, <5>1
      <4>2. CASE j # k
        <5>1. b[j] = a[j] /\ slots'[p][j] = slots[p][j]
          BY <3>1, <3>2, <3>5, <4>2 DEF Counts
        <5>2. QED
          BY <2>1, <2>2, <5>1 DEF InPlace
      <4>3. QED
        BY <4>1, <4>2
    <3>10. QED
      BY <2>1, <3>9 DEF InPlace, Stored
  <2>6. QED
    BY <2>4, <2>5
<1>7. QED
  BY <1>1, <1>3, <1>4, <1>5, <1>6 DEF ProcessMessage, Reject, Farewell

(* A message of another node leaves p alone.                               *)
LEMMA OthersMessage ==
  ASSUME TableOK, NEW p \in Node, NEW q \in Node, p # q, NEW m \in Msg, NEW openTargets,
         ProcessMessage(q, m, openTargets)
  PROVE  /\ p \in known' <=> p \in known
         /\ p \in known => slots'[p] = slots[p]
         /\ p \in ignored' => p \in ignored
<1>1. CASE Disregard(q, m) \/ AskUnknown(q, m, openTargets) \/ SeeAgain(q, m) \/ Reject(q, m)
  BY <1>1 DEF Disregard, AskUnknown, SeeAgain, Reject, table
<1>2. CASE Meet(q, m) \/ Farewell(q, m)
  BY <1>2 DEF Meet, Farewell
<1>3. CASE Assemble(q, m)
  <2>1. UNCHANGED <<known, ignored>>
    BY <1>3 DEF Assemble
  <2>2. slots'[p] = slots[p] \/ p \notin known
    BY <1>3 DEF Assemble, TableOK
  <2>3. QED
    BY <2>1, <2>2
<1>4. QED
  BY <1>1, <1>2, <1>3 DEF ProcessMessage

(* The queue as p sees it grows and shrinks with the queue.                *)
Item == [node : Devices, msg : Msg]
Mine(p, e) == IF e.node = p THEN e.msg ELSE NotMine

LEMMA MineIsMessage == ASSUME NEW p, NEW e \in Item PROVE Mine(p, e) \in Msg
  BY DEF Item, Mine, NotMine, Msg

LEMMA SeenQueue ==
  ASSUME NEW p, NEW q \in Seq(Item)
  PROVE  /\ Seen(p, q) \in Seq(Msg) /\ Len(Seen(p, q)) = Len(q)
         /\ \A j \in 1..Len(q) : Seen(p, q)[j] = Mine(p, q[j])
<1>1. DOMAIN q = 1..Len(q) /\ Len(q) \in Nat /\ \A j \in 1..Len(q) : q[j] \in Item
  OBVIOUS
<1>2. \A j \in 1..Len(q) : Mine(p, q[j]) \in Msg
  BY <1>1, MineIsMessage
<1>3. Seen(p, q) = [j \in 1..Len(q) |-> Mine(p, q[j])]
  BY <1>1 DEF Seen, Mine
<1>4. QED
  BY <1>1, <1>2, <1>3

LEMMA SeenGrows ==
  ASSUME NEW p, NEW q \in Seq(Item), NEW e \in Item
  PROVE  Seen(p, Append(q, e)) = Append(Seen(p, q), Mine(p, e))
<1> DEFINE n == Len(q)
           r == Append(q, e)
           m == Mine(p, e)
           v == Seen(p, q)
           w == Seen(p, r)
<1>1. v \in Seq(Msg) /\ Len(v) = n /\ n \in Nat /\ \A j \in 1..n : v[j] = Mine(p, q[j])
  BY SeenQueue
<1>2. r \in Seq(Item) /\ Len(r) = n + 1 /\ r[n + 1] = e /\ \A j \in 1..n : r[j] = q[j]
  OBVIOUS
<1> HIDE DEF r
<1>3. w \in Seq(Msg) /\ Len(w) = n + 1 /\ \A j \in 1..n + 1 : w[j] = Mine(p, r[j])
  BY <1>2, SeenQueue
<1>4. m \in Msg
  BY MineIsMessage
<1> HIDE DEF v, w, n, m
<1> DEFINE u == Append(v, m)
<1>5. u \in Seq(Msg) /\ Len(u) = n + 1 /\ u[n + 1] = m /\ \A j \in 1..n : u[j] = v[j]
  BY <1>1, <1>4
<1> HIDE DEF u
<1>6. ASSUME NEW j \in 1..n + 1 PROVE w[j] = u[j]
  <2>1. CASE j \in 1..n
    BY <1>1, <1>2, <1>3, <1>5, <2>1
  <2>2. CASE j = n + 1
    BY <1>2, <1>3, <1>5, <2>2 DEF m
  <2>3. QED
    BY <1>1, <2>1, <2>2
<1>7. w = u
  BY <1>1, <1>3, <1>5, <1>6
<1>8. QED
  BY <1>7 DEF u, w, v, m, r

LEMMA SeenShrinks ==
  ASSUME NEW p, NEW q \in Seq(Item), q # <<>>
  PROVE  /\ Seen(p, q) # <<>> /\ Seen(p, Tail(q)) = Tail(Seen(p, q))
         /\ Head(Seen(p, q)) = Mine(p, Head(q))
<1> DEFINE n == Len(q)
           r == Tail(q)
           v == Seen(p, q)
           w == Seen(p, r)
<1>1. v \in Seq(Msg) /\ Len(v) = n /\ n \in Nat /\ \A j \in 1..n : v[j] = Mine(p, q[j])
  BY SeenQueue
<1>2. /\ r \in Seq(Item) /\ n > 0 /\ Head(q) = q[1] /\ Len(r) = n - 1
      /\ \A j \in 1..n - 1 : r[j] = q[j + 1]
  OBVIOUS
<1> HIDE DEF r
<1>3. w \in Seq(Msg) /\ Len(w) = n - 1 /\ \A j \in 1..n - 1 : w[j] = Mine(p, r[j])
  BY <1>2, SeenQueue
<1> HIDE DEF v, w, n
<1>4. v # <<>> /\ Head(v) = v[1]
  BY <1>1, <1>2
<1>5. Head(v) = Mine(p, Head(q))
  <2>1. 1 \in 1..n
    BY <1>1, <1>2
  <2>2. QED
    BY <1>1, <1>2, <1>4, <2>1
<1> DEFINE u == Tail(v)
<1>6. u \in Seq(Msg) /\ Len(u) = n - 1 /\ \A j \in 1..n - 1 : u[j] = v[j + 1]
  BY <1>1, <1>4
<1> HIDE DEF u
<1>7. ASSUME NEW j \in 1..n - 1 PROVE w[j] = u[j]
  <2>1. j + 1 \in 1..n
    BY <1>1
  <2>2. QED
    BY <1>1, <1>2, <1>3, <1>6, <2>1
<1>8. w = u
  BY <1>1, <1>2, <1>3, <1>6, <1>7
<1>9. QED
  BY <1>4, <1>5, <1>8 DEF u, w, v, r

(* What a step leaves alone of p. *)
Untouched(p) ==
  /\ p \in known' <=> p \in known
  /\ p \in known => slots'[p] = slots[p]
  /\ p \in ignored' => p \in ignored

LEMMA UntouchedKeeps ==
  ASSUME NEW p, Untouched(p)
  PROVE  /\ InPlace(p) => InPlace(p)'
         /\ \A a : Stored(p, a) => Stored(p, a)'
  BY DEF Untouched, InPlace, Stored, Complete, Full

LEMMA WayStays ==
  ASSUME NEW p, Untouched(p), OnTheWay(p), UNCHANGED inbox, tx'[p] = tx[p],
         Closed(p[1]) => Closed(p[1])'
  PROVE  OnTheWay(p)'
<1>1. View(p)' = View(p)
  BY DEF View
<1>2. PICK a, b, c \in Counts :
        /\ Stored(p, a) /\ Reads(p, View(p), a, b) /\ Reads(p, tx[p], b, c)
        /\ c = Shape[p] \/ Closed(p[1])
  BY DEF OnTheWay
<1>3. Stored(p, a)'
  BY <1>2, UntouchedKeeps
<1>4. Reads(p, View(p)', a, b) /\ Reads(p, tx'[p], b, c)
  BY <1>1, <1>2
<1>5. QED
  BY <1>2, <1>3, <1>4 DEF OnTheWay

LEMMA AssemblyAtFirst == DInit => AssemblyOK
<1> SUFFICES ASSUME DInit PROVE AssemblyOK
  OBVIOUS
<1>1. /\ known = {} /\ ignored = {} /\ open = {} /\ inbox = <<>> /\ hubAt = NoTarget
      /\ tx = [p \in Devices |-> <<>>]
  BY DEF DInit, Init
<1>2. ASSUME NEW p \in Devices
      PROVE  p \notin ignored /\ InPlace(p) /\ OnTheWay(p)
  <2>1. Shape[p] \in Counts
    BY DevicesAssumption, ShapeAssumption DEF Counts
  <2>2. Reads(p, <<>>, Shape[p], Shape[p])
    BY <2>1, ReadsNothing
  <2>3. View(p) = <<>>
    BY <1>1 DEF View, Seen
  <2>4. tx[p] = <<>>
    BY <1>1
  <2>5. Stored(p, Shape[p]) /\ InPlace(p)
    BY <1>1 DEF Stored, InPlace
  <2>6. QED
    BY <1>1, <2>1, <2>2, <2>3, <2>4, <2>5 DEF OnTheWay
<1>3. QED
  BY <1>1, <1>2 DEF AssemblyOK, OpenedOK

(* Who is connected to, and where the hub may be closing.                  *)
LEMMA OpenedStep ==
  ASSUME TypesHold, OpenedOK, [DNext]_allVars
  PROVE  OpenedOK'
<1> USE DEF OpenedOK
<1>0. connects \in [Targets -> 0..MaxConnects] /\ open \subseteq Targets
      /\ hubAt \in Targets \cup {NoTarget} /\ NoTarget \notin Targets
  BY NTargetsAssumption DEF TypesHold, StreamsOK, AllOK, RestOK, NoTarget, Targets
<1>1. ASSUME NEW t \in Targets, Connect(t) PROVE OpenedOK'
  <2>1. /\ open' = open \cup {t} /\ connects' = [connects EXCEPT ![t] = connects[t] + 1]
        /\ hubAt' = hubAt
    BY <1>1 DEF Connect, vars
  <2>2. \A u \in Targets : connects[u] \in Nat /\ connects'[u] >= connects[u]
    BY <1>0, <2>1, LimitsAssumption
  <2>3. connects'[t] >= 1
    BY <1>0, <2>1, <2>2, LimitsAssumption
  <2>4. \A u \in Targets : connects[u] >= 1 => connects'[u] >= 1
    BY <1>0, <2>1, LimitsAssumption
  <2>5. QED
    BY <1>0, <2>1, <2>3, <2>4
<1>2. ASSUME NEW t \in Targets, HubClose(t) PROVE OpenedOK'
  BY <1>2 DEF HubClose, DisconnectBegin, env
<1>3. CASE HubClosed
  BY <1>3, <1>0 DEF HubClosed
<1>4. CASE UNCHANGED <<open, connects>> /\ hubAt' = hubAt
  BY <1>4
<1>5. QED
  BY <1>1, <1>2, <1>3, <1>4 DEF DNext, HubSend, HubReceive, Silence, Age, HubClosing,
     DisconnectNode, Take, ProcessMessage, Notify, NotifyProcessed, PingStart, PingList,
     PingRest, PingCheck, PingNotify, PingEnd, allVars, vars, env

(* A message that the hub receives passes from the stream to the queue.    *)
LEMMA ReceiveKeeps ==
  ASSUME TypesHold, Unbroken, NEW q \in Devices, HubReceive(q), NEW p \in Devices,
         OnTheWay(p)
  PROVE  OnTheWay(p)'
<1> DEFINE e == [node |-> q, msg |-> Head(tx[q])]
<1>1. /\ inbox \in Seq(Item) /\ \A r \in Devices : tx[r] \in Seq(Msg)
      /\ tx \in [Devices -> Seq(Msg)]
  BY DEF TypesHold, StreamsOK, Item
<1>2. /\ tx[q] # <<>> /\ inbox' = Append(inbox, e) /\ tx' = [tx EXCEPT ![q] = Tail(tx[q])]
      /\ UNCHANGED <<known, slots, open, connects>>
  BY DEF HubReceive, Unbroken, vars
<1>3. Head(tx[q]) \in Msg
  BY <1>1, <1>2, HeadIsIn
<1>4. e \in Item /\ e.node = q /\ e.msg = Head(tx[q])
  BY <1>3 DEF Item
<1> HIDE DEF e
<1>5. View(p)' = Append(View(p), Mine(p, e))
  <2>1. Seen(p, Append(inbox, e)) = Append(Seen(p, inbox), Mine(p, e))
    BY <1>1, <1>4, SeenGrows
  <2>2. QED
    BY <1>2, <2>1 DEF View
<1>6. View(p) \in Seq(Msg) /\ Mine(p, e) \in Msg
  BY <1>1, <1>4, SeenQueue, MineIsMessage DEF View
<1>7. PICK a, b, c \in Counts :
        /\ Stored(p, a) /\ Reads(p, View(p), a, b) /\ Reads(p, tx[p], b, c)
        /\ c = Shape[p] \/ Closed(p[1])
  BY DEF OnTheWay
<1>8. Stored(p, a)' /\ (c = Shape[p] \/ Closed(p[1])')
  BY <1>2, <1>7 DEF Stored, Closed, Complete, Full
<1>9. CASE p = q
  <2>1. PICK d \in Counts : Hears(p, b, Head(tx[p]), d) /\ Reads(p, Tail(tx[p]), d, c)
    BY <1>1, <1>2, <1>7, <1>9, ReadsFirst
  <2>2. Mine(p, e) = Head(tx[p]) /\ tx'[p] = Tail(tx[p])
    BY <1>1, <1>2, <1>4, <1>9 DEF Mine
  <2>3. Reads(p, View(p)', a, d)
    BY <1>5, <1>6, <1>7, <2>1, <2>2, ReadsMore
  <2>4. Reads(p, tx'[p], d, c)
    BY <2>1, <2>2
  <2>5. QED
    BY <1>7, <1>8, <2>1, <2>3, <2>4 DEF OnTheWay
<1>10. CASE p # q
  <2>1. Mine(p, e) = NotMine /\ tx'[p] = tx[p]
    BY <1>1, <1>2, <1>4, <1>10 DEF Mine
  <2>2. Hears(p, b, NotMine, b)
    BY DEF Hears, NotMine
  <2>3. Reads(p, View(p)', a, b)
    BY <1>5, <1>6, <1>7, <2>1, <2>2, ReadsMore
  <2>4. Reads(p, tx'[p], b, c)
    BY <1>7, <2>1
  <2>5. QED
    BY <1>7, <1>8, <2>3, <2>4 DEF OnTheWay
<1>11. QED
  BY <1>9, <1>10

(* The processing thread reads on. *)
LEMMA TakeKeeps ==
  ASSUME TypesHold, Take, NEW p \in Devices, p \notin ignored, InPlace(p), OnTheWay(p)
  PROVE  p \notin ignored' /\ InPlace(p)' /\ OnTheWay(p)'
<1> DEFINE q == Head(inbox).node
           m == Head(inbox).msg
<1>1. /\ inbox # <<>> /\ ProcessMessage(q, m, open) /\ inbox' = Tail(inbox)
      /\ UNCHANGED <<open, tx, connects>>
  BY DEF Take
<1>2. q \in Node /\ m \in Msg /\ p \in Node /\ inbox \in Seq(Item)
  BY <1>1, TakenIsMessage, DevicesAssumption DEF TypesHold, StreamsOK, Item
<1>3. TableOK /\ ConnectedComplete
  BY DEF TypesHold, AllOK
<1>4. /\ View(p) # <<>> /\ View(p)' = Tail(View(p)) /\ Head(View(p)) = Mine(p, Head(inbox))
      /\ View(p) \in Seq(Msg)
  <2>1. /\ Seen(p, inbox) # <<>> /\ Seen(p, Tail(inbox)) = Tail(Seen(p, inbox))
        /\ Head(Seen(p, inbox)) = Mine(p, Head(inbox))
    BY <1>1, <1>2, SeenShrinks
  <2>2. Seen(p, inbox) \in Seq(Msg)
    BY <1>2, SeenQueue
  <2>3. QED
    BY <1>1, <2>1, <2>2 DEF View
<1>5. PICK a, b, c \in Counts :
        /\ Stored(p, a) /\ Reads(p, View(p), a, b) /\ Reads(p, tx[p], b, c)
        /\ c = Shape[p] \/ Closed(p[1])
  BY DEF OnTheWay
<1>6. PICK d \in Counts : Hears(p, a, Head(View(p)), d) /\ Reads(p, Tail(View(p)), d, b)
  BY <1>4, <1>5, ReadsFirst
<1>7. Closed(p[1]) => Closed(p[1])'
  BY <1>1 DEF Closed
<1>8. p \notin ignored' /\ InPlace(p)' /\ Stored(p, d)'
  <2>1. CASE p = q
    <3>1. Hears(p, a, m, d)
      BY <1>4, <1>6, <2>1 DEF Mine
    <3>2. ProcessMessage(p, m, open)
      BY <1>1, <2>1
    <3> HIDE DEF m, q
    <3>3. QED
      BY <1>2, <1>3, <1>5, <3>1, <3>2, OwnMessage
  <2>2. CASE p # q
    <3>1. Mine(p, Head(inbox)) = NotMine
      BY <2>2 DEF Mine
    <3>2. d = a
      BY <1>4, <1>6, <3>1 DEF Hears, NotMine
    <3> HIDE DEF m, q
    <3>3. Untouched(p)
      BY <1>1, <1>2, <1>3, <2>2, OthersMessage DEF Untouched
    <3>4. QED
      BY <1>5, <3>2, <3>3, UntouchedKeeps DEF Untouched
  <2>3. QED
    BY <2>1, <2>2
<1>9. Reads(p, View(p)', d, b) /\ Reads(p, tx'[p], b, c)
  BY <1>1, <1>4, <1>5, <1>6
<1>10. OnTheWay(p)'
  BY <1>5, <1>6, <1>7, <1>8, <1>9 DEF OnTheWay
<1>11. QED
  BY <1>8, <1>10

LEMMA AssemblyStep ==
  ASSUME TypesHold, Unbroken, AssemblyOK, [DNext]_allVars
  PROVE  AssemblyOK'
<1>0. OpenedOK /\ OpenedOK'
  BY OpenedStep DEF AssemblyOK
<1> SUFFICES ASSUME NEW p \in Devices
             PROVE  p \notin ignored' /\ InPlace(p)' /\ OnTheWay(p)'
  BY <1>0 DEF AssemblyOK
<1>1. p \notin ignored /\ InPlace(p) /\ OnTheWay(p)
  BY DEF AssemblyOK
<1>2. /\ p \in Node /\ p[1] \in Targets /\ Shape[p] \in Counts /\ tx \in [Devices -> Seq(Msg)]
      /\ connects \in [Targets -> 0..MaxConnects] /\ hubAt \in Targets \cup {NoTarget}
  BY DevicesAssumption, ShapeAssumption
     DEF TypesHold, StreamsOK, AllOK, RestOK, Node, Counts
<1>3. ASSUME UNCHANGED <<known, ignored, slots, inbox, tx, open, connects>>
      PROVE  p \notin ignored' /\ InPlace(p)' /\ OnTheWay(p)'
  <2>1. Untouched(p) /\ tx'[p] = tx[p] /\ (Closed(p[1]) => Closed(p[1])')
    BY <1>3 DEF Untouched, Closed
  <2>2. QED
    BY <1>1, <1>3, <2>1, UntouchedKeeps, WayStays DEF Untouched
<1>4. ASSUME NEW t \in Targets, Connect(t)
      PROVE  p \notin ignored' /\ InPlace(p)' /\ OnTheWay(p)'
  <2>1. /\ UNCHANGED <<known, ignored, slots, inbox, tx>> /\ open' = open \cup {t}
        /\ connects[t] < MaxConnects /\ connects' = [connects EXCEPT ![t] = connects[t] + 1]
    BY <1>4 DEF Connect, vars
  <2>2. ~Closed(t)
    BY <1>2, <2>1, LimitsAssumption DEF Closed, Unbroken
  <2>3. Closed(p[1]) => Closed(p[1])'
    BY <1>2, <2>1, <2>2 DEF Closed
  <2>4. Untouched(p)
    BY <2>1 DEF Untouched
  <2>5. QED
    BY <1>1, <2>1, <2>3, <2>4, UntouchedKeeps, WayStays DEF Untouched
<1>5. CASE HubSend
  <2>1. /\ UNCHANGED <<known, ignored, slots, inbox, open, connects>> /\ Head(out) \in Request
    BY <1>5 DEF HubSend, table, TypesHold, AllOK
  <2>2. Untouched(p)
    BY <2>1 DEF Untouched
  <2>3. tx'[p] = tx[p] \/ (p[1] \in open /\ tx'[p] = tx[p] \o Answer(p, Head(out)))
    BY <1>5 DEF HubSend
  <2>4. CASE tx'[p] = tx[p]
    <3>1. Closed(p[1]) => Closed(p[1])'
      BY <2>1 DEF Closed
    <3>2. QED
      BY <1>1, <2>1, <2>2, <2>4, <3>1, UntouchedKeeps, WayStays DEF Untouched
  <2>5. CASE p[1] \in open /\ tx'[p] = tx[p] \o Answer(p, Head(out))
    <3>1. PICK a, b, c \in Counts :
            /\ Stored(p, a) /\ Reads(p, View(p), a, b) /\ Reads(p, tx[p], b, c)
            /\ c = Shape[p] \/ Closed(p[1])
      BY <1>1 DEF OnTheWay
    <3>2. c = Shape[p]
      BY <2>5, <3>1 DEF Closed
    <3>3. /\ Answer(p, Head(out)) \in Seq(Msg)
          /\ Reads(p, Answer(p, Head(out)), Shape[p], Shape[p])
      BY <2>1, ReadsAnswer
    <3>4. Reads(p, tx'[p], b, c)
      <4>1. tx[p] \in Seq(Msg)
        BY <1>2
      <4>2. QED
        BY <2>5, <3>1, <3>2, <3>3, <4>1, ReadsBoth
    <3>5. View(p)' = View(p)
      BY <2>1 DEF View
    <3>6. Stored(p, a)' /\ InPlace(p)'
      BY <1>1, <2>2, <3>1, UntouchedKeeps
    <3>7. Reads(p, View(p)', a, b)
      BY <3>1, <3>5
    <3>8. QED
      BY <1>1, <2>1, <3>1, <3>2, <3>4, <3>6, <3>7 DEF OnTheWay
  <2>6. QED
    BY <2>3, <2>4, <2>5
<1>6. ASSUME NEW q \in Devices, HubReceive(q)
      PROVE  p \notin ignored' /\ InPlace(p)' /\ OnTheWay(p)'
  <2>1. UNCHANGED <<known, ignored, slots>>
    BY <1>6 DEF HubReceive, vars
  <2>2. Untouched(p)
    BY <2>1 DEF Untouched
  <2>3. QED
    BY <1>1, <1>6, <2>1, <2>2, UntouchedKeeps, ReceiveKeeps
<1>7. CASE HubClosed
  <2>1. /\ UNCHANGED <<known, ignored, slots, inbox, connects>> /\ open' = open \ {hubAt}
        /\ hubAt # NoTarget
        /\ tx'[p] = IF p[1] = hubAt THEN <<>> ELSE tx[p]
    BY <1>7 DEF HubClosed, table
  <2>2. Untouched(p)
    BY <2>1 DEF Untouched
  <2>3. Closed(p[1]) => Closed(p[1])'
    BY <2>1 DEF Closed
  <2>4. CASE p[1] # hubAt
    BY <1>1, <2>1, <2>2, <2>3, <2>4, UntouchedKeeps, WayStays DEF Untouched
  <2>5. CASE p[1] = hubAt
    <3>1. PICK a, b, c \in Counts : Stored(p, a) /\ Reads(p, View(p), a, b)
      BY <1>1 DEF OnTheWay
    <3>2. Closed(p[1])'
      BY <1>0, <2>1, <2>5 DEF OpenedOK, Closed
    <3>3. Reads(p, tx'[p], b, b)
      BY <2>1, <2>5, ReadsNothing
    <3>4. View(p)' = View(p)
      BY <2>1 DEF View
    <3>5. Stored(p, a)' /\ InPlace(p)'
      BY <1>1, <2>2, <3>1, UntouchedKeeps
    <3>6. Reads(p, View(p)', a, b)
      BY <3>1, <3>4
    <3>7. QED
      BY <1>1, <2>1, <3>1, <3>2, <3>3, <3>5, <3>6 DEF OnTheWay
  <2>6. QED
    BY <2>4, <2>5
<1>8. CASE Take
  BY <1>1, <1>8, TakeKeeps
<1>9. QED
  BY <1>3, <1>4, <1>5, <1>6, <1>7, <1>8 DEF DNext, HubClose, DisconnectBegin, HubClosing,
     DisconnectNode, Notify, NotifyProcessed, PingStart, PingList, PingRest, PingCheck,
     PingNotify, PingEnd, Silence, Age, table, vars, allVars, env

(* A description that counts as complete is the one the device sent, for   *)
(* any devices and streams and any order of requests, answers, closings    *)
(* and pings, as long as the queue loses nothing and no stream is opened   *)
(* twice (client.h 209-331, description_manager.h 321-383).                *)
THEOREM DescriptionsAreAssembled == Unbroken => (DSpec => []WellAssembled)
<1> SUFFICES ASSUME Unbroken PROVE DSpec => []WellAssembled
  OBVIOUS
<1>1. TypesHold /\ AssemblyOK => WellAssembled
  <2> SUFFICES ASSUME TypesHold, AssemblyOK, NEW p \in Devices \cap known, Complete(p),
                      NEW k \in Kinds, NEW n \in 1..Shape[p][k]
               PROVE  slots[p][k][n] = n
    BY DEF WellAssembled
  <2>1. InPlace(p) /\ Len(slots[p][k]) = Shape[p][k]
    BY DEF AssemblyOK, Complete, Full
  <2>2. QED
    BY <2>1 DEF InPlace
<1>2. TypesHold /\ AssemblyOK /\ [DNext]_allVars => TypesHold' /\ AssemblyOK'
  BY TypesStay, AssemblyStep
<1>3. QED
  BY <1>1, <1>2, TypesStart, AssemblyAtFirst, PTL DEF DSpec
=============================================================================
