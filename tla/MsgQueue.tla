------------------------------- MODULE MsgQueue -------------------------------
(***************************************************************************)
(* Queue<T> of src/client/queue.h: the bounded queue of incoming messages, *)
(* the thread that hands them to a callback, and the pause / single-step   *)
(* gate between the two.                                                   *)
(*                                                                         *)
(* Actors: any number of producers (Put), one processing thread (proc,     *)
(* Queue::process), one controlling thread (ctl, start and stop) and user  *)
(* threads that pause, step or clear at any time.  A message is the        *)
(* number of its put: 1, 2, 3, ...                                         *)
(***************************************************************************)
EXTENDS Integers, Sequences

CONSTANTS
  MaxSize,     \* _max_size
  MaxPuts,     \* bound: messages ever offered to the queue
  MaxNexts,    \* bound: calls of next() by users
  MaxStarts,   \* bound: calls of start()
  MaxStops,    \* bound: calls of stop()
  SettledStop  \* TRUE: stop() is only called once the thread ran line 89

ASSUME MaxSizeAssumption == MaxSize \in Nat \ {0}
ASSUME MaxPutsAssumption == MaxPuts \in Nat
ASSUME MaxNextsAssumption == MaxNexts \in Nat
ASSUME MaxStartsAssumption == MaxStarts \in Nat
ASSUME MaxStopsAssumption == MaxStops \in Nat
ASSUME SettledStopAssumption == SettledStop \in BOOLEAN

NoMsg == 0

VARIABLES
  stopped, paused, step,  \* the flags of the class
  queue,                  \* std::queue<T>
  proc,                   \* where the processing thread is
  held,                   \* the message it took and has not yet delivered
  ctl,                    \* where the controlling thread is
  puts, starts, stops,    \* how many puts, starts and stops so far
  nexts,                  \* history: calls of next(), those of stop() included
  gated,                  \* history: messages let through the closed gate
  last,                   \* history: the last message given to the callback
  drained,                \* history: messages delivered since stop() began
  keepFrom                \* history: a pause keeps the messages above this one

flags == <<stopped, paused, step>>
history == <<nexts, gated, last, drained, keepFrom>>
qVars == <<stopped, paused, step, queue, proc, held, ctl, puts, starts, stops,
           nexts, gated, last, drained, keepFrom>>

\* none: no thread; spawned: before line 89; loop: testing !stopped; get:
\* entering get() or woken in it; asleep: in cv.wait; check: about to read
\* paused; gate: in process_cv.wait; call: in the callback; done: returned.
ProcStates ==
  {"none", "spawned", "loop", "get", "asleep", "check", "gate", "call", "done"}
CtlStates == {"idle", "notify", "next", "join"}
Carrying == {"check", "gate", "call"}

QTypeOK ==
  /\ stopped \in BOOLEAN /\ paused \in BOOLEAN /\ step \in BOOLEAN
  /\ queue \in Seq(1..puts)
  /\ proc \in ProcStates /\ ctl \in CtlStates
  /\ puts \in 0..MaxPuts /\ starts \in Nat /\ stops \in Nat
  /\ nexts \in Nat /\ gated \in Nat /\ drained \in Nat
  /\ last \in 0..puts /\ held \in 0..puts /\ keepFrom \in 0..MaxPuts
  /\ held # NoMsg <=> proc \in Carrying

QInit ==
  /\ stopped = TRUE /\ paused = FALSE /\ step = FALSE
  /\ queue = <<>>
  /\ proc = "none" /\ held = NoMsg /\ ctl = "idle"
  /\ puts = 0 /\ starts = 0 /\ stops = 0
  /\ nexts = 0 /\ gated = 0 /\ last = NoMsg /\ drained = 0
  /\ keepFrom = MaxPuts

-----------------------------------------------------------------------------
(* cv.notify_one: at most one thread, the processing one, waits on cv.     *)
Notified == IF proc = "asleep" THEN "get" ELSE proc

(* Mutated forms of the operations below, each with one plausible mistake; *)
(* they are never part of QNext.                                           *)
PutSilently ==  \* no notify_one
  /\ puts < MaxPuts
  /\ puts' = puts + 1
  /\ queue' = IF Len(queue) >= MaxSize THEN queue ELSE Append(queue, puts + 1)
  /\ UNCHANGED <<flags, proc, held, ctl, starts, stops, history>>

PutOverOldest ==  \* the oldest message makes room
  /\ puts < MaxPuts
  /\ puts' = puts + 1
  /\ queue' = Append(IF Len(queue) >= MaxSize THEN Tail(queue) ELSE queue,
                     puts + 1)
  /\ proc' = Notified
  /\ UNCHANGED <<flags, held, ctl, starts, stops, history>>

LoopForever ==  \* while (true)
  /\ proc = "loop"
  /\ proc' = "get"
  /\ UNCHANGED <<flags, queue, held, ctl, puts, starts, stops, history>>

StopSilently ==  \* no notify_one
  /\ ctl = "notify"
  /\ ctl' = "next"
  /\ UNCHANGED <<flags, queue, proc, held, puts, starts, stops, history>>

-----------------------------------------------------------------------------
(* put(): when the queue is full the newest message is dropped, and nobody *)
(* is notified.                                                            *)
Put ==
  /\ puts < MaxPuts
  /\ puts' = puts + 1
  /\ IF Len(queue) >= MaxSize
     THEN UNCHANGED <<queue, proc>>
     ELSE /\ queue' = Append(queue, puts + 1)
          /\ proc' = Notified
  /\ UNCHANGED <<flags, held, ctl, starts, stops, history>>

(* clear() *)
Clear ==
  /\ queue' = <<>>
  /\ UNCHANGED <<flags, proc, held, ctl, puts, starts, stops, history>>

(* set_paused(): an assignment, with no lock and no notification.          *)
SetPaused(value) ==
  /\ paused' = value
  /\ keepFrom' = IF ~value THEN MaxPuts ELSE IF paused THEN keepFrom ELSE puts
  /\ UNCHANGED <<stopped, step, queue, proc, held, ctl, puts, starts, stops,
                 nexts, gated, last, drained>>

(* The body of next(): it closes the gate and leaves one token for it.     *)
ReleaseOne ==
  /\ paused' = TRUE /\ step' = TRUE
  /\ nexts' = nexts + 1
  /\ keepFrom' = MaxPuts

(* next() called by a user thread. *)
NextMessage ==
  /\ nexts < MaxNexts
  /\ ReleaseOne
  /\ UNCHANGED <<stopped, queue, proc, held, ctl, puts, starts, stops, gated, last,
                 drained>>

-----------------------------------------------------------------------------
(* process(), line 89: the thread clears stopped, without the lock.        *)
Enter ==
  /\ proc = "spawned"
  /\ stopped' = FALSE
  /\ proc' = "loop"
  /\ UNCHANGED <<paused, step, queue, held, ctl, puts, starts, stops, history>>

(* process(), line 90: the loop condition. *)
Loop ==
  /\ proc = "loop"
  /\ proc' = IF stopped THEN "done" ELSE "get"
  /\ UNCHANGED <<flags, queue, held, ctl, puts, starts, stops, history>>

(* get(): takes the first message, or returns nothing when stopped, or     *)
(* waits; a woken thread evaluates the same predicate again.               *)
Get ==
  /\ proc = "get"
  /\ IF queue # <<>>
     THEN held' = Head(queue) /\ queue' = Tail(queue) /\ proc' = "check"
     ELSE /\ proc' = IF stopped THEN "loop" ELSE "asleep"
          /\ UNCHANGED <<held, queue>>
  /\ UNCHANGED <<flags, ctl, puts, starts, stops, history>>

(* process(), line 93: paused is read without process_mutex.               *)
Check ==
  /\ proc = "check"
  /\ proc' = IF paused THEN "gate" ELSE "call"
  /\ UNCHANGED <<flags, queue, held, ctl, puts, starts, stops, history>>

(* process(), lines 94-96: waits for a token and consumes it.              *)
PassGate ==
  /\ proc = "gate" /\ step
  /\ step' = FALSE
  /\ proc' = "call"
  /\ gated' = gated + 1
  /\ UNCHANGED <<stopped, paused, queue, held, ctl, puts, starts, stops, nexts, last,
                 drained, keepFrom>>

(* process(), line 98: the callback has returned. *)
Deliver ==
  /\ proc = "call"
  /\ last' = held /\ held' = NoMsg
  /\ drained' = IF stopped THEN drained + 1 ELSE drained
  /\ proc' = "loop"
  /\ UNCHANGED <<flags, queue, ctl, puts, starts, stops, nexts, gated, keepFrom>>

Process == Enter \/ Loop \/ Get \/ Check \/ PassGate \/ Deliver

-----------------------------------------------------------------------------
(* start(): returns at once unless stopped; it does not reset step.        *)
Start ==
  /\ ctl = "idle" /\ stopped /\ starts < MaxStarts
  /\ stopped' = FALSE /\ paused' = FALSE
  /\ proc' = "spawned"
  /\ starts' = starts + 1
  /\ drained' = 0 /\ keepFrom' = MaxPuts
  /\ UNCHANGED <<step, queue, held, ctl, puts, stops, nexts, gated, last>>

(* stop(), lines 112-117, also called on a queue that never started.       *)
StopFlag ==
  /\ ctl = "idle"
  /\ SettledStop => proc # "spawned"
  /\ stops < MaxStops
  /\ queue' = <<>> /\ stopped' = TRUE
  /\ ctl' = "notify"
  /\ stops' = stops + 1
  /\ drained' = 0
  /\ UNCHANGED <<paused, step, proc, held, puts, starts, nexts, gated, last,
                 keepFrom>>

(* stop(), line 118 *)
StopNotify ==
  /\ ctl = "notify"
  /\ proc' = Notified
  /\ ctl' = "next"
  /\ UNCHANGED <<flags, queue, held, puts, starts, stops, history>>

(* stop(), line 119: next(), so that a thread held by the gate goes on.    *)
StopNext ==
  /\ ctl = "next"
  /\ ReleaseOne
  /\ ctl' = "join"
  /\ UNCHANGED <<stopped, queue, proc, held, puts, starts, stops, gated, last, drained>>

(* stop(), lines 120-123: joins the thread, if there is one.               *)
StopJoin ==
  /\ ctl = "join" /\ proc \in {"none", "done"}
  /\ proc' = "none"
  /\ ctl' = "idle"
  /\ UNCHANGED <<flags, queue, held, puts, starts, stops, history>>

Control == Start \/ StopFlag \/ StopNotify \/ StopNext \/ StopJoin

QNext ==
  \/ Put
  \/ Clear
  \/ \E value \in BOOLEAN : SetPaused(value)
  \/ NextMessage
  \/ Process
  \/ Control

(* The processing thread and a stop() under way are scheduled; producers   *)
(* and users owe nothing.                                                  *)
Fairness ==
  /\ WF_qVars(Process)
  /\ WF_qVars(StopNotify \/ StopNext \/ StopJoin)

QSpec == QInit /\ [][QNext]_qVars /\ Fairness
-----------------------------------------------------------------------------
(* Messages waiting, the one the thread holds first. *)
Pending == IF held = NoMsg THEN queue ELSE <<held>> \o queue

(* The queue, its thread and its gate implement a bounded FIFO: a message  *)
(* leaves only by a delivery, a clear or a stop, and is dropped only when  *)
(* the queue is full (queue.h 72-86, 88-101, 112-117).                     *)
Fifo == INSTANCE BoundedFifo WITH Capacity <- MaxSize, pending <- Pending
FifoSpec == Fifo!Spec

(* What was put first is delivered first, and nothing twice: the last      *)
(* delivered message precedes the held one, which precedes the queue, in   *)
(* strictly increasing order of put (queue.h get, put, process).           *)
InOrder ==
  /\ \A i, j \in 1..Len(queue) : i < j => queue[i] < queue[j]
  /\ \A i \in 1..Len(queue) : last < queue[i] /\ held < queue[i]
  /\ held # NoMsg => last < held

(* No lost wakeup: the thread never sleeps in get() while a message waits  *)
(* or while a stop() that has already notified expects it to return.       *)
NoLostWakeup ==
  proc = "asleep" => queue = <<>> /\ (stopped => ctl = "notify")

(* One call of next() lets at most one message through the closed gate;    *)
(* calls made before it is consumed coalesce (queue.h 36-43, 94-96).       *)
OneMessagePerNext == gated + (IF step THEN 1 ELSE 0) <= nexts

(* Between stop() and the next start() the callback runs at most once: for *)
(* the message already taken, or one put behind stop()'s clear.            *)
StopDrainsAtMostOne == stopped => drained <= 1

(* Outside start() and stop(), stopped means that no thread is left that   *)
(* could run the callback (queue.h 120-123).                               *)
StoppedMeansJoined == stopped /\ ctl = "idle" => proc = "none"

(* A message in the queue leaves it, unless the queue is stopped or its    *)
(* thread is held by the gate.                                             *)
MessagesAreTaken ==
  \A m \in 1..MaxPuts :
    (\E i \in 1..Len(queue) : queue[i] = m)
      ~> (\/ ~ \E i \in 1..Len(queue) : queue[i] = m
          \/ stopped \/ proc = "gate")

(* stop() returns (python.cpp 886-890: "Stops the client."). *)
StopReturns == ctl # "idle" ~> ctl = "idle"

(* A message put after processing was switched from running to paused is   *)
(* kept until the next next() or resume, whatever was requested before the *)
(* switch (python.cpp 1787: "Whether incoming messages are processed or    *)
(* kept in the queue.").                                                   *)
PauseKeeps == proc = "call" => held <= keepFrom

(* Once processing is no longer paused for good, messages are processed    *)
(* (the same sentence of python.cpp 1787).                                 *)
ResumeProcesses == <>[](~paused /\ ~stopped) => []<>(Pending = <<>>)
=============================================================================
