---------------------------- MODULE ExamplesProofs ----------------------------
(***************************************************************************)
(* Proofs about the example programs: the bridges (Bridge) and those that  *)
(* drive a Thymio (Controllers).                                           *)
(***************************************************************************)
EXTENDS Bridge, Controllers, FiniteSetTheorems, TLAPS

-----------------------------------------------------------------------------
(* Bridge, for any number of connections and of messages, any size of the  *)
(* queue and each of the three programs.                                   *)

(* If they are of one source, m is the older message.                      *)
Below(m, n) == m.source = n.source => m.number < n.number

InOrder(s) == \A k, l \in DOMAIN s : k < l => Below(s[k], s[l])

(* Every message of s is older than m.                                     *)
AllBelow(s, m) == \A k \in DOMAIN s : Below(s[k], m)

HasBeenSent(m) == m.number <= sent[m.source]

(* A message stands in one place on its way from the queue over the thread *)
(* and the answer to the peers, and what is further on the way is older.   *)
QueueOK ==
  /\ InOrder(queue)
  /\ \A k \in DOMAIN queue : HasBeenSent(queue[k])

HoldsOne == proc # "loop" => held \in Messages

HeldOK ==
  proc # "loop" =>
    /\ HasBeenSent(held)
    /\ \A k \in DOMAIN queue : Below(held, queue[k])

AnswerOK ==
  answer # None =>
    /\ bridge # "callbacks" /\ HasBeenSent(answer)
    /\ proc # "loop" => Below(answer, held)
    /\ \A k \in DOMAIN queue : Below(answer, queue[k])

OutOK ==
  \A p \in Peers :
    /\ InOrder(out[p])
    /\ \A k \in DOMAIN out[p] : out[p][k].source # p /\ HasBeenSent(out[p][k])
    /\ answer # None => AllBelow(out[p], answer)
    /\ proc # "loop" => AllBelow(out[p], held)
    /\ \A k \in DOMAIN queue : AllBelow(out[p], queue[k])

WayOK == QueueOK /\ HeldOK /\ AnswerOK /\ OutOK

-----------------------------------------------------------------------------
(* The queue never exceeds its size and holds only messages that peers     *)
(* have sent, whatever the bridge and the moment of each step             *)
(* (queue.h 70-96, client.h 234-240).                                      *)
THEOREM BridgeTypes == BSpec => [](BTypeOK /\ HoldsOne)
<1> USE MessagesAssumption
<1>1. BInit => BTypeOK /\ HoldsOne
  <2> SUFFICES ASSUME BInit
               PROVE  BTypeOK /\ HoldsOne
    OBVIOUS
  <2>1. paused \in BOOLEAN /\ step \in BOOLEAN /\ waiting \in BOOLEAN
    BY Zenon DEF BInit
  <2>2. queue \in Seq(Messages) /\ Len(queue) <= MaxSize
    BY DEF BInit
  <2>3. out \in [Peers -> Seq(Messages)] /\ sent \in [Peers -> 0..MaxMessages]
    BY DEF BInit
  <2>4. QED
    BY <2>1, <2>2, <2>3 DEF BInit, BTypeOK, HoldsOne
<1>2. BTypeOK /\ HoldsOne /\ [BNext]_bVars => (BTypeOK /\ HoldsOne)'
  <2> SUFFICES ASSUME BTypeOK, HoldsOne, [BNext]_bVars
               PROVE  (BTypeOK /\ HoldsOne)'
    OBVIOUS
  <2> USE DEF BTypeOK, HoldsOne
  <2>1. ASSUME NEW p \in Peers, Receive(p)
        PROVE  (BTypeOK /\ HoldsOne)'
    <3> DEFINE m == [source |-> p, number |-> sent[p] + 1]
    <3>1. m \in Messages
      BY <2>1 DEF Receive, Messages
    <3>2. sent' \in [Peers -> 0..MaxMessages]
      BY <2>1 DEF Receive
    <3>3. CASE Len(queue) < MaxSize
      <4>1. queue' = Append(queue, m) /\ taken' = taken \cup {m}
        BY <2>1, <3>3 DEF Receive
      <4>2. queue' \in Seq(Messages) /\ Len(queue') <= MaxSize
        BY <3>1, <3>3, <4>1
      <4>3. QED
        BY <2>1, <3>1, <3>2, <4>1, <4>2 DEF Receive
    <3>4. CASE ~(Len(queue) < MaxSize)
      BY <2>1, <3>2, <3>4 DEF Receive
    <3>5. QED
      BY <3>3, <3>4
  <2>2. ASSUME Take
        PROVE  (BTypeOK /\ HoldsOne)'
    BY <2>2 DEF Take
  <2>3. ASSUME Pass
        PROVE  (BTypeOK /\ HoldsOne)'
    <3>1. step' \in BOOLEAN
      BY <2>3, Zenon DEF Pass
    <3>2. QED
      BY <2>3, <3>1 DEF Pass
  <2>4. ASSUME NEW m \in Messages, SendMessage(m)
        PROVE  out' \in [Peers -> Seq(Messages)]
    BY <2>4 DEF SendMessage
  <2>5. ASSUME Forward \/ Return
        PROVE  (BTypeOK /\ HoldsOne)'
    BY <2>5, <2>4 DEF Forward, Return, client
  <2>6. ASSUME Check
        PROVE  (BTypeOK /\ HoldsOne)'
    BY <2>6 DEF Check
  <2>7. ASSUME AskMessage \/ Register \/ Timeout
        PROVE  (BTypeOK /\ HoldsOne)'
    BY <2>7 DEF AskMessage, Register, Timeout, client
  <2>8. CASE UNCHANGED bVars
    BY <2>8 DEF bVars, client
  <2>9. QED
    BY <2>1, <2>2, <2>3, <2>5, <2>6, <2>7, <2>8 DEF BNext, Process, Run
<1>3. QED
  BY <1>1, <1>2, PTL DEF BSpec

(* What send_message adds to the sequence of a peer keeps it in order if   *)
(* all that is there is older, and is never of the peer itself.            *)
LEMMA SendKeepsOrder ==
  ASSUME BTypeOK, NEW m \in Messages, SendMessage(m),
         NEW p \in Peers, InOrder(out[p]), AllBelow(out[p], m)
  PROVE  /\ InOrder(out'[p])
         /\ \A k \in DOMAIN out'[p] :
              \/ k \in DOMAIN out[p] /\ out'[p][k] = out[p][k]
              \/ m.source # p /\ out'[p][k] = m
<1>1. out[p] \in Seq(Messages)
  BY DEF BTypeOK
<1>2. CASE p = m.source
  BY <1>2, <1>1 DEF SendMessage, BTypeOK
<1>3. CASE p # m.source
  <2>1. out'[p] = Append(out[p], m)
    BY <1>3 DEF SendMessage, BTypeOK
  <2>2. QED
    BY <1>1, <1>3, <2>1 DEF InOrder, AllBelow, Below
<1>4. QED
  BY <1>2, <1>3

(* Passing a message on to a place that nothing has left keeps the order.  *)
LEMMA WayKept ==
  ASSUME BTypeOK, HoldsOne, WayOK, [BNext]_bVars
  PROVE  WayOK'
<1> USE DEF BTypeOK, HoldsOne, WayOK
<1>1. ASSUME NEW p \in Peers, Receive(p)
      PROVE  WayOK'
  <2>0. PICK m \in Messages : m = [source |-> p, number |-> sent[p] + 1]
    <3>1. sent[p] + 1 \in 1..MaxMessages
      BY <1>1, MessagesAssumption DEF Receive
    <3>2. [source |-> p, number |-> sent[p] + 1] \in Messages
      BY <3>1 DEF Messages
    <3>3. QED
      BY <3>2
  <2>1. /\ \A n \in Messages : HasBeenSent(n) => HasBeenSent(n)' /\ Below(n, m)
        /\ HasBeenSent(m)'
    <3>1. sent' = [sent EXCEPT ![p] = sent[p] + 1] /\ sent[p] \in Int
      BY <1>1 DEF Receive
    <3>2. ASSUME NEW n \in Messages, HasBeenSent(n)
          PROVE  HasBeenSent(n)' /\ Below(n, m)
      <4>1. n.source \in Peers /\ n.number \in Int /\ sent[n.source] \in Int
        BY DEF Messages
      <4>2. QED
        BY <3>1, <3>2, <4>1, <2>0 DEF HasBeenSent, Below
    <3>3. HasBeenSent(m)'
      BY <2>0, <3>1 DEF HasBeenSent
    <3>4. QED
      BY <3>2, <3>3
  <2>2. /\ UNCHANGED <<bridge, held, proc, answer, out>>
        /\ \/ queue' = Append(queue, m)
           \/ queue' = queue
    BY <1>1, <2>0 DEF Receive
  <2>3. /\ \A k \in DOMAIN queue' :
             \/ k \in DOMAIN queue /\ queue'[k] = queue[k]
             \/ k = Len(queue) + 1 /\ queue'[k] = m
        /\ DOMAIN queue = 1..Len(queue)
        /\ \A k \in DOMAIN queue' : k \in 1..(Len(queue) + 1)
    <3>1. CASE queue' = queue
      BY <3>1
    <3>2. CASE queue' = Append(queue, m)
      BY <3>2
    <3>3. QED
      BY <2>2, <3>1, <3>2
  <2>4. QueueOK'
    <3>1. ASSUME NEW k \in DOMAIN queue', NEW l \in DOMAIN queue', k < l
          PROVE  Below(queue'[k], queue'[l])
      <4>1. k \in DOMAIN queue /\ queue'[k] = queue[k] /\ queue[k] \in Messages
        BY <2>2, <2>3, <3>1
      <4>2. QED
        BY <2>1, <2>3, <3>1, <4>1 DEF QueueOK, InOrder
    <3>2. QED
      BY <2>1, <2>3, <3>1 DEF QueueOK, InOrder
  <2>5. HeldOK'
    BY <2>1, <2>2, <2>3 DEF HeldOK
  <2>6. AnswerOK'
    BY <2>1, <2>2, <2>3 DEF AnswerOK
  <2>7. OutOK'
    <3>1. ASSUME NEW q \in Peers, NEW k \in DOMAIN out[q]
          PROVE  /\ HasBeenSent(out[q][k])'
                 /\ \A l \in DOMAIN queue' : Below(out[q][k], queue'[l])
      <4>1. out[q][k] \in Messages /\ HasBeenSent(out[q][k])
        BY DEF OutOK
      <4>2. HasBeenSent(out[q][k])' /\ Below(out[q][k], m)
        BY <2>1, <2>2, <4>1 DEF HasBeenSent
      <4>3. QED
        BY <2>3, <4>2 DEF OutOK, AllBelow
    <3>2. QED
      BY <2>2, <3>1 DEF OutOK, AllBelow
  <2>8. QED
    BY <2>4, <2>5, <2>6, <2>7
<1>2. ASSUME Take
      PROVE  WayOK'
  <2>1. /\ UNCHANGED <<bridge, answer, out, sent>> /\ proc' # "loop"
        /\ held' = queue[1] /\ 1 \in DOMAIN queue
        /\ DOMAIN queue' = 1..(Len(queue) - 1)
        /\ \A k \in DOMAIN queue' : k + 1 \in DOMAIN queue /\ queue'[k] = queue[k + 1]
    BY <1>2 DEF Take
  <2>2. QueueOK'
    BY <2>1 DEF QueueOK, InOrder, HasBeenSent
  <2>3. HeldOK'
    BY <2>1 DEF QueueOK, HeldOK, InOrder, HasBeenSent
  <2>4. AnswerOK'
    BY <2>1 DEF AnswerOK, HasBeenSent
  <2>5. OutOK'
    BY <2>1 DEF OutOK, HasBeenSent
  <2>6. QED
    BY <2>2, <2>3, <2>4, <2>5
<1>3. ASSUME Forward
      PROVE  WayOK'
  <2>1. /\ UNCHANGED <<bridge, queue, answer, sent>> /\ proc # "loop" /\ proc' = "loop"
        /\ SendMessage(held) /\ held \in Messages /\ answer = None
    BY <1>3 DEF Forward, AnswerOK
  <2>2. QueueOK' /\ HeldOK' /\ AnswerOK'
    BY <2>1 DEF QueueOK, HeldOK, AnswerOK, HasBeenSent
  <2>3. ASSUME NEW p \in Peers
        PROVE  /\ InOrder(out'[p])
               /\ \A k \in DOMAIN out'[p] : 
                    \/ k \in DOMAIN out[p] /\ out'[p][k] = out[p][k]
                    \/ held.source # p /\ out'[p][k] = held
    BY <2>1, SendKeepsOrder DEF OutOK
  <2>4. OutOK'
    <3>1. HasBeenSent(held) /\ \A k \in DOMAIN queue : Below(held, queue[k])
      BY <2>1 DEF HeldOK
    <3>2. ASSUME NEW p \in Peers, NEW k \in DOMAIN out'[p]
          PROVE  /\ out'[p][k].source # p /\ HasBeenSent(out'[p][k])
                 /\ \A l \in DOMAIN queue : Below(out'[p][k], queue[l])
      BY <2>1, <2>3, <3>1 DEF OutOK, HeldOK, AllBelow
    <3>3. QED
      BY <2>1, <2>3, <3>2 DEF OutOK, AllBelow, HasBeenSent
  <2>5. QED
    BY <2>2, <2>4
<1>4. ASSUME Return
      PROVE  WayOK'
  <2>1. /\ UNCHANGED <<bridge, queue, held, proc, sent>> /\ answer' = None
        /\ SendMessage(answer) /\ answer \in Messages /\ answer # None
    BY <1>4 DEF Return, client
  <2>2. QueueOK' /\ HeldOK' /\ AnswerOK'
    BY <2>1 DEF QueueOK, HeldOK, AnswerOK, HasBeenSent
  <2>3. ASSUME NEW p \in Peers
        PROVE  /\ InOrder(out'[p])
               /\ \A k \in DOMAIN out'[p] :
                    \/ k \in DOMAIN out[p] /\ out'[p][k] = out[p][k]
                    \/ answer.source # p /\ out'[p][k] = answer
    BY <2>1, SendKeepsOrder DEF OutOK
  <2>4. OutOK'
    <3>1. HasBeenSent(answer) /\ \A k \in DOMAIN queue : Below(answer, queue[k])
      BY <2>1 DEF AnswerOK
    <3>2. ASSUME NEW p \in Peers, NEW k \in DOMAIN out'[p]
          PROVE  /\ out'[p][k].source # p /\ HasBeenSent(out'[p][k])
                 /\ \A l \in DOMAIN queue : Below(out'[p][k], queue[l])
                 /\ proc # "loop" => Below(out'[p][k], held)
      BY <2>1, <2>3, <3>1 DEF OutOK, AnswerOK, AllBelow
    <3>3. QED
      BY <2>1, <2>3, <3>2 DEF OutOK, AllBelow, HasBeenSent
  <2>5. QED
    BY <2>2, <2>4
<1>5. ASSUME Check
      PROVE  WayOK'
  <2>1. /\ UNCHANGED <<bridge, queue, out, sent>> /\ proc # "loop" /\ proc' = "loop"
        /\ bridge # "callbacks"
        /\ answer' = held \/ answer' = answer
    BY <1>5 DEF Check
  <2>2. QueueOK' /\ HeldOK'
    BY <2>1 DEF QueueOK, HeldOK, HasBeenSent
  <2>3. AnswerOK'
    BY <2>1 DEF HeldOK, AnswerOK, HasBeenSent
  <2>4. OutOK'
    BY <2>1 DEF OutOK, AllBelow, HasBeenSent
  <2>5. QED
    BY <2>2, <2>3, <2>4
<1>6. ASSUME \/ Pass \/ AskMessage \/ Register \/ Timeout
             \/ UNCHANGED bVars
      PROVE  WayOK'
  <2>1. /\ UNCHANGED <<bridge, queue, held, answer, out, sent>>
        /\ proc' # "loop" => proc # "loop"
    BY <1>6 DEF Pass, AskMessage, Register, Timeout, bVars, client
  <2>2. QED
    BY <2>1 DEF QueueOK, HeldOK, AnswerOK, OutOK, HasBeenSent
<1>7. QED
  BY <1>1, <1>2, <1>3, <1>4, <1>5, <1>6 DEF BNext, Process, Run

(* Each peer gets the messages of the others in the order they were sent,  *)
(* each at most once and none of its own, for the three bridges            *)
(* (bridge_callbacks.py 14-19, bridge_sync.py 23-28, bridge_async.py       *)
(* 22-27).                                                                 *)
THEOREM BridgeForwardsInOrder == BSpec => []ForwardsInOrder
<1>1. BInit => WayOK
  BY DEF BInit, WayOK, QueueOK, HeldOK, AnswerOK, OutOK, InOrder, AllBelow
<1>2. BTypeOK /\ HoldsOne /\ WayOK /\ [BNext]_bVars => WayOK'
  BY WayKept
<1>3. BTypeOK /\ WayOK => ForwardsInOrder
  BY DEF WayOK, OutOK, InOrder, Below, ForwardsInOrder
<1>4. QED
  BY <1>1, <1>2, <1>3, BridgeTypes, PTL DEF BSpec

-----------------------------------------------------------------------------
(* Controllers, for any set of its programs, any number of moves of the    *)
(* obstacle and commands, and any bound on events.                         *)

Commanded == {Still, Fast, "reset", "stop", "start", "run", "period"}
Events == [event : {"prox", "timer0"}, near : BOOLEAN]

Types ==
  /\ program \in Programs
  /\ next \in SUBSET {Still, Fast} /\ prev \in SUBSET {Still, Fast}
  /\ down \in Seq(Commanded) /\ target \in {Still, Fast}

(* A callback that runs is one that set_controller has registered, with a  *)
(* node that mirrors, and this node hears events.                          *)
CallbackOK ==
  /\ main = "create" => ~mirroring
  /\ main \in {"create", "connect", "start"} =>
       reader = "idle" /\ ~callback.mirrored /\ (~Bare => ~done)
  /\ callback.mirrored => Runs.uses \in {"controller", "client"}
  /\ reader # "idle" => Runs.uses = "controller" /\ ~Runs.async

(* The controllers end when their flag is set or the user interrupts them; *)
(* what they sync from when it is set on stops the Thymio.                 *)
Closing == main \in {"close", "rest", "closed"}

ControllersOK ==
  /\ program = "behavior" => ~done /\ (Closing => interrupted)
  /\ program = "controller_sync" =>
       (done => next \subseteq {Still}) /\ (Closing => done \/ interrupted)

(* What close sends that stops the motors.                                 *)
Brake == IF Runs.uses = "shell" THEN Still ELSE "reset"

Slow(s) == \A i \in 1..Len(s) : s[i] # Fast

(* The brake is on its way, or the motors are still, and then nothing that *)
(* is on its way starts them again.                                        *)
Braked ==
  \/ \E j \in 1..Len(down) :
       down[j] = Brake /\ \A i \in 1..Len(down) : j < i => down[i] # Fast
  \/ target = Still /\ Slow(down)

(* A control step of an interrupted program has started them again. *)
LateSync == interrupted /\ late

Inv ==
  /\ Types /\ CallbackOK /\ ControllersOK
  /\ main \in {"rest", "closed"} /\ ~Bare => Braked \/ LateSync

-----------------------------------------------------------------------------
(* What the fourteen programs have in common.                              *)
LEMMA ProgramFacts ==
  ASSUME program \in Programs
  PROVE  /\ Runs.uses = "controller" /\ ~Runs.async => program \in {"controller_sync", "behavior"}
         /\ program \in {"controller_sync", "behavior"} => Runs.uses = "controller"
         /\ Runs.uses # "client" /\ Runs.uses # "questions" => Runs.first # "script"
         /\ Runs.interrupted \in {"close", "dead"}
         /\ program = "controller_sync" => ~Runs.drives
         /\ program = "behavior" => Runs.drives
<1> USE DEF Runs, Named
<1>0. program \in Names
  BY ProgramsAssumption
<1>1. CASE program \in {"controller_sync", "controller_async", "behavior"}
  BY <1>1 DEF ControllerSync, ControllerAsync, Behavior
<1>2. CASE program \in {"wait_sync", "wait_async", "callbacks_sync", "callbacks_async", "shell"}
  BY <1>2 DEF WaitSync, WaitAsync, CallbacksSync, CallbacksAsync, Shell
<1>3. CASE program \in {"event_sync", "event_async", "script_sync", "script_async",
                        "variables_sync", "variables_async"}
  BY <1>3 DEF EventSync, EventAsync, ScriptSync, ScriptAsync, VariablesSync, VariablesAsync
<1>4. QED
  BY <1>0, <1>1, <1>2, <1>3 DEF Names

(* A set of targets as a sequence of commands.                             *)
LEMMA CommandsOfTargets ==
  ASSUME NEW S \in SUBSET {Still, Fast}
  PROVE  /\ SetToSeq(S) \in Seq(Commanded)
         /\ \A i \in 1..Len(SetToSeq(S)) : SetToSeq(S)[i] \in S
<1> DEFINE q == SetToSeq(S)
<1>1. IsFiniteSet(S)
  <2>1. IsFiniteSet({Still})
    BY FS_EmptySet, FS_AddElement, {} \cup {Still} = {Still}
  <2>2. IsFiniteSet({Still, Fast})
    BY <2>1, FS_AddElement, {Still} \cup {Fast} = {Still, Fast}
  <2>3. QED
    BY <2>2, FS_Subset
<1>2. Cardinality(S) \in Nat /\ \E f \in [1..Cardinality(S) -> S] : IsInjective(f)
  BY <1>1, FS_CardinalityType DEF ExistsBijection, Bijection, Injection
<1>3. q \in [1..Cardinality(S) -> S]
  BY <1>2, Zenon DEF SetToSeq
<1>4. S \subseteq Commanded
  BY DEF Commanded
<1> HIDE DEF q
<1>5. q \in Seq(Commanded) /\ Len(q) = Cardinality(S)
  BY <1>2, <1>3, <1>4
<1>6. \A i \in 1..Len(q) : q[i] \in S
  BY <1>3, <1>5
<1>7. QED
  BY <1>5, <1>6 DEF q

(* Slow commands that follow do not undo the brake,                        *)
LEMMA SendKeepsBraked ==
  ASSUME down \in Seq(Commanded), NEW s \in Seq(Commanded), Slow(s), Braked,
         down' = down \o s, UNCHANGED <<program, target>>
  PROVE  Braked'
<1>1. /\ Len(down) \in Nat /\ Len(s) \in Nat /\ Len(down') = Len(down) + Len(s)
      /\ \A i \in 1..Len(down) : down'[i] = down[i] /\ i \in 1..Len(down')
      /\ \A i \in 1..Len(down') : i > Len(down) => i - Len(down) \in 1..Len(s) /\ down'[i] = s[i - Len(down)]
  OBVIOUS
<1>2. \A i \in 1..Len(down') : i > Len(down) => down'[i] # Fast
  BY <1>1 DEF Slow
<1>3. CASE target = Still /\ Slow(down)
  BY <1>1, <1>2, <1>3 DEF Slow, Braked
<1>4. ASSUME NEW j \in 1..Len(down), down[j] = Brake,
             \A i \in 1..Len(down) : j < i => down[i] # Fast
      PROVE  Braked'
  <2>1. j \in 1..Len(down') /\ down'[j] = Brake'
    BY <1>1, <1>4 DEF Brake, Runs
  <2>2. \A i \in 1..Len(down') : j < i => down'[i] # Fast
    BY <1>1, <1>2, <1>4
  <2>3. QED
    BY <2>1, <2>2 DEF Braked
<1>5. QED
  BY <1>3, <1>4 DEF Braked

(* nor does the Thymio, which handles the commands in their order.         *)
LEMMA HandleKeepsBraked ==
  ASSUME Types, ~Bare, Braked, Handle
  PROVE  Braked'
<1>1. /\ down \in Seq(Commanded) /\ down # <<>> /\ down' = Tail(down) /\ program' = program
      /\ Head(down) = down[1] /\ Len(down) \in Nat /\ Len(down') = Len(down) - 1 /\ 1 \in 1..Len(down)
      /\ \A i \in 1..Len(down') : down'[i] = down[i + 1] /\ i + 1 \in 1..Len(down)
  BY DEF Types, Handle
<1>2. /\ down[1] \in {"reset", Still} => target' = Still
      /\ down[1] # Fast /\ target = Still => target' = Still
  BY <1>1, ProgramFacts DEF Types, Handle, Bare
<1>3. CASE target = Still /\ Slow(down)
  BY <1>1, <1>2, <1>3 DEF Slow, Braked
<1>4. ASSUME NEW j \in 1..Len(down), down[j] = Brake,
             \A i \in 1..Len(down) : j < i => down[i] # Fast
      PROVE  Braked'
  <2>1. CASE j = 1
    BY <1>1, <1>2, <1>4, <2>1 DEF Slow, Braked, Brake
  <2>2. CASE j # 1
    <3>1. j - 1 \in 1..Len(down') /\ down'[j - 1] = Brake'
      BY <1>1, <1>4, <2>2 DEF Brake, Runs
    <3>2. \A i \in 1..Len(down') : j - 1 < i => down'[i] # Fast
      BY <1>1, <1>4
    <3>3. QED
      BY <3>1, <3>2 DEF Braked
  <2>3. QED
    BY <2>1, <2>2
<1>5. QED
  BY <1>3, <1>4 DEF Braked

-----------------------------------------------------------------------------
LEMMA TypesKept ==
  ASSUME Types, [Next]_vars
  PROVE  Types'
<1> USE DEF Types, Commanded
<1>1. ASSUME NEW ms \in Seq(Commanded), Send(ms)
      PROVE  down' \in Seq(Commanded)
  BY <1>1 DEF Send
<1>2. ASSUME Create \/ Connect \/ ConnectFails \/ Leave \/ Look \/ Ask
      PROVE  Types'
  BY <1>2 DEF Create, Connect, ConnectFails, Leave, Look, Ask, node, channels, thymio
<1>3. ASSUME Start
      PROVE  Types'
  <2>1. (FirstCommands \o SetControlPeriod) \o RunScript \in Seq(Commanded)
    <3>1. /\ FirstCommands \in Seq(Commanded) /\ SetControlPeriod \in Seq(Commanded)
          /\ RunScript \in Seq(Commanded)
      <4>1. ASSUME NEW v \in Commanded
            PROVE  <<v>> \in Seq(Commanded)
        OBVIOUS
      <4>2. <<>> \in Seq(Commanded)
        OBVIOUS
      <4>3. Fast \in Commanded /\ "period" \in Commanded /\ "run" \in Commanded
        OBVIOUS
      <4>4. QED
        BY <4>1, <4>2, <4>3, Zenon DEF FirstCommands, SetControlPeriod, RunScript
    <3>2. QED
      BY <3>1
  <2>2. QED
    BY <1>1, <1>3, <2>1 DEF Start, FirstSpeed, thymio
<1>4. ASSUME Close
      PROVE  Types'
  <2>1. Stop \in Seq(Commanded) /\ Reset \in Seq(Commanded)
    BY DEF Stop, Reset
  <2>2. QED
    BY <1>1, <1>4, <2>1 DEF Close, thymio
<1>5. ASSUME CloseClient \/ Interrupt \/ Move
      PROVE  Types'
  <2>1. CASE CloseClient
    <3>1. down' = down \/ down' = <<>>
      BY <2>1 DEF CloseClient
    <3>2. UNCHANGED <<program, next, prev, target>>
      BY <2>1 DEF CloseClient, node, thymio
    <3>3. <<>> \in Seq(Commanded)
      OBVIOUS
    <3>4. QED
      BY <3>1, <3>2, <3>3
  <2>2. CASE Interrupt
    BY <2>2 DEF Interrupt, node, channels, thymio
  <2>3. CASE Move
    BY <2>3 DEF Move, node, channels
  <2>4. QED
    BY <1>5, <2>1, <2>2, <2>3
<1>6. ASSUME Commands
      PROVE  Types'
  <2>1. Stop \in Seq(Commanded) /\ <<"start">> \in Seq(Commanded)
    BY DEF Stop
  <2>2. ASSUME NEW v \in {Still, Fast}
        PROVE  <<v>> \in Seq(Commanded)
    OBVIOUS
  <2>3. UNCHANGED <<program, next, prev, target>>
    BY <1>6 DEF Commands, ShellSet, ShellStop, ShellStart, ShellQuit, Command, Prompt, thymio
  <2>4. down' \in Seq(Commanded)
    BY <1>1, <1>6, <2>1, <2>2 DEF Commands, ShellSet, ShellStop, ShellStart, ShellQuit
  <2>5. QED
    BY <2>3, <2>4
<1>7. ASSUME Hear \/ Told \/ Control
      PROVE  Types'
  <2>1. CASE Hear
    BY <2>1 DEF Hear, thymio
  <2>2. CASE Told
    BY <2>2 DEF Told, node, thymio
  <2>3. CASE Control
    <3>1. next' \in {{Still}, {Fast}, next} /\ UNCHANGED <<program, prev, down, target>>
      BY <2>3 DEF Control, channels, thymio
    <3>2. QED
      BY <3>1
  <2>4. QED
    BY <1>7, <2>1, <2>2, <2>3
<1>8. ASSUME ControlSync
      PROVE  Types'
  <2>1. UNCHANGED <<program, target>> /\ next' \in SUBSET {Still, Fast} /\ prev' \in SUBSET {Still, Fast}
    BY <1>8 DEF ControlSync, Sync, thymio
  <2>2. SetToSeq(next) \in Seq(Commanded)
    BY CommandsOfTargets
  <2>3. down' \in Seq(Commanded)
    BY <1>1, <1>8, <2>2 DEF ControlSync, Sync
  <2>4. QED
    BY <2>1, <2>3
<1>9. ASSUME NEW event, Emit(event)
      PROVE  Types'
  BY <1>9 DEF Emit, node, thymio
<1>10. ASSUME Handle
       PROVE  Types'
  BY <1>10 DEF Handle, node
<1>11. CASE UNCHANGED vars
  BY <1>11 DEF vars, node, channels, thymio
<1>12. QED
  BY <1>2, <1>3, <1>4, <1>5, <1>6, <1>7, <1>8, <1>9, <1>10, <1>11 DEF Next, Main, Reader

LEMMA CallbackKept ==
  ASSUME Types, CallbackOK, [Next]_vars
  PROVE  CallbackOK'
<1> USE DEF CallbackOK, Runs, Bare
<1>0. program' = program
  BY DEF Next, Main, Create, Connect, ConnectFails, Start, Leave, Look, Ask, Close, CloseClient,
         Interrupt, Commands, ShellSet, ShellStop, ShellStart, ShellQuit, Command, Prompt,
         Reader, Hear, Told, Control, ControlSync, Emit, Handle, Move, vars
<1>1. ASSUME Create \/ Start
      PROVE  CallbackOK'
  BY <1>0, <1>1 DEF Create, Start, SetController, EventName
<1>2. ASSUME Connect \/ ConnectFails \/ Leave \/ Look \/ Ask \/ Close \/ CloseClient
      PROVE  CallbackOK'
  <2>1. CASE Connect
    BY <1>0, <2>1 DEF Connect, node
  <2>2. CASE ConnectFails
    BY <1>0, <2>2 DEF ConnectFails, node
  <2>3. CASE Leave
    BY <1>0, <2>3 DEF Leave, node
  <2>4. CASE Look
    BY <1>0, <2>4 DEF Look, node
  <2>5. CASE Ask
    BY <1>0, <2>5 DEF Ask, node
  <2>6. CASE Close
    BY <1>0, <2>6 DEF Close, node
  <2>7. CASE CloseClient
    BY <1>0, <2>7 DEF CloseClient, node
  <2>8. QED
    BY <1>2, <2>1, <2>2, <2>3, <2>4, <2>5, <2>6, <2>7
<1>3. ASSUME Interrupt \/ Commands
      PROVE  CallbackOK'
  <2>1. /\ main = "loop" /\ main' \notin {"create", "connect", "start"}
        /\ UNCHANGED <<reader, callback>>
    <3>1. Interrupt => main' \in {"close", "dead"}
      BY ProgramFacts DEF Types, Interrupt
    <3>2. QED
      BY <1>3, <3>1
      DEF Interrupt, Commands, ShellSet, ShellStop, ShellStart, ShellQuit, Command, Prompt, node
  <2>2. QED
    BY <1>0, <2>1
<1>4. ASSUME Hear
      PROVE  CallbackOK'
  <2>1. UNCHANGED <<main, done, callback, mirroring>> /\ reader = "idle" /\ ~Bare
    BY <1>4 DEF Hear
  <2>2. CASE Runs.async
    BY <1>0, <1>4, <2>1, <2>2 DEF Hear
  <2>3. CASE ~Runs.async
    <3>1. reader' # "idle" => callback.mirrored
      BY <1>4, <2>3 DEF Hear
    <3>2. QED
      BY <1>0, <2>1, <2>3, <3>1
  <2>4. QED
    BY <2>2, <2>3
<1>6. ASSUME Told \/ Control \/ ControlSync \/ Handle \/ Move \/ UNCHANGED vars
      PROVE  CallbackOK'
  <2>1. CASE Told
    BY <1>0, <2>1 DEF Told, node
  <2>2. CASE Control
    BY <1>0, <2>2 DEF Control, node
  <2>3. CASE ControlSync
    BY <1>0, <2>3 DEF ControlSync, node
  <2>4. CASE Handle
    BY <1>0, <2>4 DEF Handle, node
  <2>5. CASE Move
    BY <1>0, <2>5 DEF Move, node
  <2>6. CASE UNCHANGED vars
    BY <1>0, <2>6 DEF vars, node
  <2>7. QED
    BY <1>6, <2>1, <2>2, <2>3, <2>4, <2>5, <2>6
<1>5. ASSUME NEW event, Emit(event)
      PROVE  CallbackOK'
  BY <1>0, <1>5 DEF Emit, node
<1>7. QED
  BY <1>1, <1>2, <1>3, <1>4, <1>5, <1>6 DEF Next, Main, Reader

(* A controller whose loop ends has set its flag, in front of an obstacle, *)
(* and sets no other target than Still from then on, or it has been        *)
(* interrupted.                                                            *)
LEMMA ControllersKept ==
  ASSUME Types, CallbackOK, ControllersOK, [Next]_vars
  PROVE  ControllersOK'
<1> USE DEF ControllersOK, Closing
<1>1. SUFFICES ASSUME program \in {"controller_sync", "behavior"}
               PROVE  ControllersOK'
  <2>1. program' = program
    BY DEF Next, Main, Create, Connect, ConnectFails, Start, Leave, Look, Ask, Close, CloseClient,
           Interrupt, Commands, ShellSet, ShellStop, ShellStart, ShellQuit, Command, Prompt,
           Reader, Hear, Told, Control, ControlSync, Emit, Handle, Move, vars
  <2>2. QED
    BY <2>1
<1>2. /\ Runs.uses = "controller" /\ ~Bare
      /\ program = "controller_sync" => ~Runs.drives
      /\ program = "behavior" => Runs.drives
  BY <1>1, ProgramFacts DEF Types, Bare
<1>3. ASSUME Create \/ Connect \/ ConnectFails \/ Leave \/ Close \/ CloseClient
      PROVE  ControllersOK'
  <2>1. UNCHANGED <<program, done, next, interrupted>>
    BY <1>3 DEF Create, Connect, ConnectFails, Leave, Close, CloseClient, node, history
  <2>2. /\ main' \in {"close", "rest", "closed"} =>
             main \in {"close", "rest", "closed"} \/ (main = "loop" /\ done)
    BY <1>3 DEF Create, Connect, ConnectFails, Leave, Close, CloseClient
  <2>3. QED
    BY <2>1, <2>2
<1>4. ASSUME Start
      PROVE  ControllersOK'
  BY <1>2, <1>4 DEF Start, CallbackOK
<1>5. ASSUME Look \/ Ask \/ Interrupt \/ Commands \/ Told
      PROVE  ControllersOK'
  <2>1. CASE Interrupt
    BY <2>1 DEF Interrupt, node
  <2>2. CASE Look \/ Ask \/ Commands \/ Told
    BY <1>2, <2>2
    DEF Look, Ask, Commands, ShellSet, ShellStop, ShellStart, ShellQuit, Command, Prompt, Told
  <2>3. QED
    BY <1>5, <2>1, <2>2
<1>6. ASSUME Hear \/ Move \/ Handle
      PROVE  ControllersOK'
  <2>1. UNCHANGED <<program, main, done, next, interrupted>>
    BY <1>6 DEF Hear, Move, Handle, node, history
  <2>2. QED
    BY <2>1
<1>7. ASSUME NEW event, Emit(event)
      PROVE  ControllersOK'
  BY <1>7 DEF Emit, node, history
<1>8. ASSUME Control
      PROVE  ControllersOK'
  <2>1. UNCHANGED <<program, main, interrupted>>
    BY <1>8 DEF Control, history
  <2>2. program = "behavior" => (done' <=> done)
    BY <1>2, <1>8 DEF Control
  <2>3. program = "controller_sync" => next' \in {{Still}, next} /\ (done => done')
    BY <1>2, <1>8 DEF Control
  <2>4. program = "controller_sync" /\ done' => next' \subseteq {Still}
    BY <1>2, <1>8 DEF Control
  <2>5. QED
    BY <2>1, <2>2, <2>3, <2>4
<1>9. ASSUME ControlSync
      PROVE  ControllersOK'
  BY <1>9 DEF ControlSync, Sync
<1>10. CASE UNCHANGED vars
  BY <1>10 DEF vars, node, history
<1>11. QED
  BY <1>3, <1>4, <1>5, <1>6, <1>7, <1>8, <1>9, <1>10 DEF Next, Main, Reader

(* The brake, once close has sent it, is undone by late control steps of   *)
(* interrupted programs only: what the last sync of a controller sends     *)
(* that ends by itself stops the Thymio too, and the client of a node is   *)
(* ended when the reset has left, that of the shell when all has.          *)
LEMMA BrakedKept ==
  ASSUME Types, CallbackOK, ControllersOK, ~Bare, [Next]_vars,
         main \in {"rest", "closed"} => Braked,
         main' \in {"rest", "closed"}
  PROVE  Braked' \/ LateSync'
<1>1. ASSUME Close
      PROVE  Braked'
  <2>1. /\ down \in Seq(Commanded) /\ program' = program
        /\ down' = down \o (IF Runs.uses = "shell" THEN Stop ELSE Reset)
    BY <1>1 DEF Close, Send, Types
  <2>2. CASE Runs.uses = "shell"
    <3>1. down' = down \o <<"stop", Still>>
      BY <2>1, <2>2 DEF Stop
    <3>2. Len(down') = Len(down) + 2 /\ down'[Len(down) + 2] = Still /\ Len(down) \in Nat
      BY <2>1, <3>1
    <3>3. Brake' = Still
      BY <2>1, <2>2 DEF Brake, Runs
    <3>4. QED
      BY <3>2, <3>3 DEF Braked
  <2>3. CASE Runs.uses # "shell"
    <3>1. down' = down \o <<"reset">>
      BY <2>1, <2>3 DEF Reset
    <3>2. Len(down') = Len(down) + 1 /\ down'[Len(down) + 1] = "reset" /\ Len(down) \in Nat
      BY <2>1, <3>1
    <3>3. Brake' = "reset"
      BY <2>1, <2>3 DEF Brake, Runs
    <3>4. QED
      BY <3>2, <3>3 DEF Braked
  <2>4. QED
    BY <2>2, <2>3
<1>2. ASSUME CloseClient
      PROVE  Braked'
  <2>1. /\ UNCHANGED <<program, target>> /\ down' \in {down, <<>>} /\ main = "rest"
        /\ ToSet(down) \cap {"reset", "stop"} = {}
        /\ Runs.uses = "shell" => down = <<>>
    BY <1>2 DEF CloseClient, thymio
  <2>2. target = Still /\ Slow(down)
    <3>1. Braked /\ \A j \in 1..Len(down) : down[j] # "reset"
      BY <2>1 DEF ToSet, Types
    <3>2. CASE Runs.uses = "shell"
      BY <2>1, <3>1, <3>2 DEF Braked
    <3>3. CASE Runs.uses # "shell"
      BY <3>1, <3>3 DEF Braked, Brake
    <3>4. QED
      BY <3>2, <3>3
  <2>3. target' = Still /\ Slow(down')
    BY <2>1, <2>2 DEF Slow
  <2>4. QED
    BY <2>3 DEF Braked
<1>3. ASSUME ControlSync
      PROVE  Braked' \/ LateSync'
  <2>1. /\ main' = main /\ program' = program /\ target' = target /\ Braked
        /\ interrupted' = interrupted
        /\ down' = down \/ down' = down \o SetToSeq(next)
    BY <1>3 DEF ControlSync, Sync, Send, thymio
  <2>2. program \in {"controller_sync", "behavior"}
    BY <1>3, ProgramFacts DEF ControlSync, CallbackOK, Types
  <2>3. CASE down' = down
    BY <2>1, <2>3 DEF Braked, Brake, Runs, Slow
  <2>4. CASE down' # down /\ Fast \in next
    <3>1. late'
      BY <1>3, <2>1, <2>4, Zenon DEF ControlSync
    <3>2. interrupted
      BY <2>1, <2>2, <2>4 DEF ControllersOK, Closing, Still, Fast
    <3>3. QED
      BY <2>1, <3>1, <3>2 DEF LateSync
  <2>5. CASE down' # down /\ Fast \notin next
    <3>1. next \in SUBSET {Still, Fast} /\ Fast \notin next
      BY <2>5 DEF Types
    <3>2. SetToSeq(next) \in Seq(Commanded) /\ Slow(SetToSeq(next))
      BY <3>1, CommandsOfTargets DEF Slow
    <3>3. QED
      BY <2>1, <2>5, <3>2, SendKeepsBraked DEF Types
  <2>6. QED
    BY <2>3, <2>4, <2>5
<1>4. ASSUME Handle
      PROVE  Braked'
  BY <1>4, HandleKeepsBraked DEF Handle
<1>5. ASSUME UNCHANGED <<program, down, target>>, main \in {"rest", "closed"}
      PROVE  Braked'
  BY <1>5 DEF Braked, Brake, Runs, Slow
<1>6. ASSUME Create \/ Connect \/ ConnectFails \/ Start \/ Leave \/ Look \/ Ask \/ Interrupt \/ Commands
      PROVE  FALSE
  <2>1. Interrupt => main' \in {"close", "dead"}
    BY ProgramFacts DEF Types, Interrupt
  <2>2. QED
    BY <1>6, <2>1
    DEF Create, Connect, ConnectFails, Start, Leave, Look, Ask, Interrupt, Commands,
        ShellSet, ShellStop, ShellStart, ShellQuit, Command, Prompt
<1>7. ASSUME Hear \/ Told \/ Control \/ Move
      PROVE  UNCHANGED <<program, main, down, target>>
  BY <1>7 DEF Hear, Told, Control, Move, channels, thymio
<1>8. ASSUME NEW event, Emit(event)
      PROVE  UNCHANGED <<program, main, down, target>>
  BY <1>8 DEF Emit, thymio
<1>9. UNCHANGED vars => UNCHANGED <<program, main, down, target>>
  BY DEF vars, channels, thymio
<1>10. QED
  BY <1>1, <1>2, <1>3, <1>4, <1>5, <1>6, <1>7, <1>8, <1>9 DEF Next, Main, Reader

-----------------------------------------------------------------------------
(* A Thymio that its node or the shell has closed stands still once it has *)
(* handled what was sent: only in a program that the user has interrupted, *)
(* and only by a control step that syncs after the reset, may it be driven *)
(* on (node.py 512-526, thymio.py 171-174, controller_sync.py 24-40,       *)
(* behavior.py 52-61).                                                     *)
THEOREM ThymioStandsAtTheEnd ==
  Spec => []StandsAtTheEnd
<1>1. Init => Inv
  <2> SUFFICES ASSUME Init
               PROVE  Inv
    OBVIOUS
  <2>1. Types
    BY DEF Init, Types
  <2>2. CallbackOK /\ ControllersOK /\ main \notin {"rest", "closed"}
    BY DEF Init, CallbackOK, ControllersOK, Closing, NoEvent
  <2>3. QED
    BY <2>1, <2>2 DEF Inv
<1>2. Inv /\ [Next]_vars => Inv'
  <2> SUFFICES ASSUME Inv, [Next]_vars
               PROVE  Inv'
    OBVIOUS
  <2>1. Types' /\ CallbackOK' /\ ControllersOK'
    BY TypesKept, CallbackKept, ControllersKept DEF Inv
  <2>2. Bare' <=> Bare
    <3>1. program' = program
      BY DEF Next, Main, Create, Connect, ConnectFails, Start, Leave, Look, Ask, Close, CloseClient,
             Interrupt, Commands, ShellSet, ShellStop, ShellStart, ShellQuit, Command, Prompt,
             Reader, Hear, Told, Control, ControlSync, Emit, Handle, Move, vars
    <3>2. QED
      BY <3>1 DEF Bare, Runs
  <2>3. LateSync => LateSync'
    BY DEF LateSync, Next, Main, Create, Connect, ConnectFails, Start, Leave, Look, Ask, Close,
           CloseClient, Interrupt, Commands, ShellSet, ShellStop, ShellStart, ShellQuit, Command,
           Prompt, Reader, Hear, Told, Control, ControlSync, Emit, Handle, Move, vars, history
  <2>4. main' \in {"rest", "closed"} /\ ~Bare' => Braked' \/ LateSync'
    <3>1. CASE LateSync
      BY <2>3, <3>1
    <3>2. CASE ~LateSync
      BY <2>2, <3>2, BrakedKept DEF Inv
    <3>3. QED
      BY <3>1, <3>2
  <2>5. QED
    BY <2>1, <2>4 DEF Inv
<1>3. Inv => StandsAtTheEnd
  BY DEF Inv, Braked, LateSync, StandsAtTheEnd
<1>4. QED
  BY <1>1, <1>2, <1>3, PTL DEF Spec

-----------------------------------------------------------------------------
(* What is left of the types. *)
Places == {"create", "connect", "start", "loop", "close", "rest", "closed", "dead"}
Callbacks == [event : {"none", "prox", "timer0"}, mirrored : BOOLEAN]

StateTypes ==
  /\ main \in Places /\ reader \in {"idle", "control", "sync"}
  /\ done \in BOOLEAN /\ mirroring \in BOOLEAN /\ script \in BOOLEAN /\ period \in BOOLEAN
  /\ callback \in Callbacks /\ near \in BOOLEAN /\ seen \in SUBSET BOOLEAN
  /\ interrupted \in BOOLEAN /\ late \in BOOLEAN
  /\ up \in Seq(Events) /\ moves \in 0..MaxMoves /\ commands \in 0..MaxCommands

LEMMA EventsOfPrograms ==
  ASSUME program \in Programs
  PROVE  Runs.event \in {"none", "prox", "timer0"}
<1> USE DEF Runs, Named
<1>0. program \in Names
  BY ProgramsAssumption
<1>1. CASE program \in {"controller_sync", "controller_async", "behavior"}
  BY <1>1 DEF ControllerSync, ControllerAsync, Behavior
<1>2. CASE program \in {"wait_sync", "wait_async", "callbacks_sync", "callbacks_async", "shell"}
  BY <1>2 DEF WaitSync, WaitAsync, CallbacksSync, CallbacksAsync, Shell
<1>3. CASE program \in {"event_sync", "event_async", "script_sync", "script_async",
                        "variables_sync", "variables_async"}
  BY <1>3 DEF EventSync, EventAsync, ScriptSync, ScriptAsync, VariablesSync, VariablesAsync
<1>4. QED
  BY <1>0, <1>1, <1>2, <1>3 DEF Names

LEMMA StateTypesKept ==
  ASSUME Types, StateTypes, [Next]_vars
  PROVE  StateTypes'
<1> USE DEF StateTypes
<1>a. program \in Programs
  BY DEF Types
<1>1. CASE Create
  <2>1. callback' \in Callbacks
    BY <1>a, <1>1, EventsOfPrograms DEF Create, EventName, Callbacks
  <2>2. QED
    BY <1>1, <2>1 DEF Create, Places, channels, thymio, history, bounds
<1>2. CASE Connect
  <2>1. main' = "start" /\ mirroring' \in BOOLEAN /\ script' \in BOOLEAN /\ seen' \in SUBSET BOOLEAN
    BY <1>2 DEF Connect
  <2>2. QED
    BY <1>2, <2>1 DEF Connect, Places, channels, history, bounds
<1>3. CASE Start
  <2>1. callback' \in Callbacks
    BY <1>a, <1>3, EventsOfPrograms DEF Start, SetController, EventName, Callbacks
  <2>2. QED
    BY <1>3, <2>1 DEF Start, Places, thymio, history, bounds
<1>4. CASE ConnectFails \/ Leave \/ Look \/ Interrupt
  <2>1. main' \in Places
    BY <1>a, <1>4, ProgramFacts DEF ConnectFails, Leave, Look, Interrupt, Places
  <2>2. QED
    BY <1>4, <2>1 DEF ConnectFails, Leave, Look, Interrupt, node, channels, thymio, history, bounds
<1>5. CASE Ask
  <2>1. main' \in Places /\ commands' \in 0..MaxCommands
    BY <1>5, BoundsAssumption DEF Ask, Places
  <2>2. QED
    BY <1>5, <2>1 DEF Ask, node, channels, thymio, history
<1>6. CASE Close \/ CloseClient
  <2>1. main' \in Places /\ mirroring' \in BOOLEAN
    BY <1>6 DEF Close, CloseClient, Places, node
  <2>2. up' \in Seq(Events)
    <3>1. up' = up \/ up' = <<>>
      BY <1>6 DEF Close, CloseClient
    <3>2. up \in Seq(Events) /\ <<>> \in Seq(Events)
      OBVIOUS
    <3>3. QED
      BY <3>1, <3>2, Zenon
  <2>3. QED
    BY <1>6, <2>1, <2>2 DEF Close, CloseClient, node, thymio, history, bounds
<1>7. CASE Commands
  <2>1. UNCHANGED <<reader, done, script, period, callback, near, seen, up, moves, history>>
    BY <1>7 DEF Commands, ShellSet, ShellStop, ShellStart, ShellQuit, Command, Prompt, thymio
  <2>2. main' \in Places /\ mirroring' \in BOOLEAN
    BY <1>7 DEF Commands, ShellSet, ShellStop, ShellStart, ShellQuit, Places
  <2>3. commands' = commands \/ (commands < MaxCommands /\ commands' = commands + 1)
    BY <1>7 DEF Commands, ShellSet, ShellStop, ShellStart, ShellQuit, Command
  <2>4. commands' \in 0..MaxCommands
    BY <2>3, BoundsAssumption
  <2>5. QED
    BY <2>1, <2>2, <2>4 DEF history
<1>8. CASE Hear \/ Told
  <2>1. up # <<>> /\ up' = Tail(up)
    BY <1>8 DEF Hear, Told
  <2>2. Head(up) \in Events /\ up' \in Seq(Events)
    BY <2>1
  <2>3. seen' \in SUBSET BOOLEAN /\ reader' \in {"idle", "control", "sync"}
    <3>1. CASE Hear
      <4>1. seen' = seen \/ seen' = {Head(up).near}
        BY <3>1 DEF Hear
      <4>2. Head(up).near \in BOOLEAN
        BY <2>2 DEF Events
      <4>3. reader' \in {"idle", "control", "sync"}
        BY <3>1 DEF Hear
      <4>4. QED
        BY <4>1, <4>2, <4>3
    <3>2. CASE Told
      BY <3>2 DEF Told, node
    <3>3. QED
      BY <1>8, <3>1, <3>2
  <2>4. done' \in BOOLEAN
    BY <1>8, Zenon DEF Hear, Told
  <2>5. QED
    BY <1>8, <2>2, <2>3, <2>4 DEF Hear, Told, node, thymio, history, bounds
<1>9. CASE Control
  <2>1. done' \in BOOLEAN
    BY <1>9, Zenon DEF Control
  <2>2. QED
    BY <1>9, <2>1 DEF Control, channels, thymio, history, bounds
<1>10. CASE ControlSync
  <2>1. late' \in BOOLEAN
    BY <1>10, Zenon DEF ControlSync
  <2>2. QED
    BY <1>10, <2>1 DEF ControlSync, thymio, bounds
<1>11. CASE Move
  BY <1>11, BoundsAssumption DEF Move, node, channels, history
<1>12. ASSUME NEW event \in {"prox", "timer0"}, Emit(event)
       PROVE  StateTypes'
  <2>1. [event |-> event, near |-> near] \in Events
    BY DEF Events
  <2>2. up' \in Seq(Events)
    BY <1>12, <2>1 DEF Emit
  <2>3. QED
    BY <1>12, <2>2 DEF Emit, node, thymio, history, bounds
<1>13. CASE Handle
  <2>1. script' \in BOOLEAN /\ period' \in BOOLEAN
    BY <1>13 DEF Handle
  <2>2. QED
    BY <1>13, <2>1 DEF Handle, node, history, bounds
<1>14. CASE UNCHANGED vars
  BY <1>14 DEF vars, node, channels, thymio, history, bounds
<1>15. QED
  BY <1>1, <1>2, <1>3, <1>4, <1>5, <1>6, <1>7, <1>8, <1>9, <1>10, <1>11, <1>12, <1>13, <1>14
  DEF Next, Main, Reader

(* Type correctness of the programs, the cache, the channels and the       *)
(* Thymio.                                                                 *)
THEOREM ControllersTypes == Spec => []TypeOK
<1>1. Init => Types /\ StateTypes
  <2> SUFFICES ASSUME Init
               PROVE  Types /\ StateTypes
    OBVIOUS
  <2>1. Types
    BY DEF Init, Types
  <2>2. callback \in Callbacks /\ main \in Places /\ up \in Seq(Events)
    BY DEF Init, Places, Callbacks, NoEvent
  <2>3. moves \in 0..MaxMoves /\ commands \in 0..MaxCommands
    BY BoundsAssumption DEF Init
  <2>4. StateTypes
    BY <2>2, <2>3 DEF Init, StateTypes
  <2>5. QED
    BY <2>1, <2>4
<1>2. Types /\ StateTypes /\ [Next]_vars => (Types /\ StateTypes)'
  BY TypesKept, StateTypesKept
<1>3. Types /\ StateTypes => TypeOK
  <2> SUFFICES ASSUME Types, StateTypes
               PROVE  TypeOK
    OBVIOUS
  <2>1. callback.event \in {"none", "prox", "timer0"} /\ callback.mirrored \in BOOLEAN
    BY DEF StateTypes, Callbacks
  <2>2. \A m \in ToSet(up) : m.event \in {"prox", "timer0"} /\ m.near \in BOOLEAN
    <3>1. up \in Seq(Events)
      BY DEF StateTypes
    <3>2. \A m \in ToSet(up) : m \in Events
      BY <3>1 DEF ToSet
    <3>3. QED
      BY <3>2 DEF Events
  <2>3. \A m \in ToSet(down) : m \in {Still, Fast, "reset", "stop", "start", "run", "period"}
    BY DEF Types, ToSet, Commanded
  <2>4. QED
    BY <2>1, <2>2, <2>3 DEF Types, StateTypes, Places, TypeOK
<1>4. QED
  BY <1>1, <1>2, <1>3, PTL DEF Spec
==============================================================================
