---------------------------- MODULE AsyncCallsProofs ----------------------------
(***************************************************************************)
(* Proofs about AsyncCalls, for any number of calls, of any coroutines, of *)
(* parts, of cancelled tasks and of ends of the client.                    *)
(***************************************************************************)
EXTENDS AsyncCalls, FiniteSetTheorems, TLAPS

(* Handles of a call in the ready queue.                                   *)
Ready(what, c) == Contains(ready, Handle(what, c))

(* In q, no handle g comes without an h ahead of it.                       *)
Ahead(h, g, q) ==
  \A j \in 1..Len(q) : q[j] = g => \E i \in 1..Len(q) : i < j /\ q[i] = h

InClientNow(c) == phase[c] \in {"asking", "asked", "returning"}

Types ==
  /\ method \in [Calls -> Queries \cup Reads \cup Waits] /\ limited \subseteq Calls
  /\ phase \in [Calls -> Places]
  /\ future \in [Calls -> {"pending", "result", "cancelled"}]
  /\ partialAnswer \in [Calls -> 0..Parts] /\ outcome \in [Calls -> 0..Parts]
  /\ expired \subseteq limited /\ cancelled \subseteq Calls
  /\ item \in [Calls -> {"none", "waiting", "done"}] /\ found \in [Calls -> 0..Parts]
  /\ cb \in [Calls -> {"idle", "test", "post", "assign"}]
  /\ closes \in 0..MaxCloses
  /\ first \in [Calls -> {"none", "answer", "timeout"}] /\ errors \subseteq Calls

(* The queue of the loop, which is inside one call of the client at most. *)
LoopOK ==
  /\ ready \in Seq(Handles) /\ IsInjective(ready)
  /\ inCall <=> \E c \in Calls : InClientNow(c)
  /\ \A c, d \in Calls : InClientNow(c) /\ InClientNow(d) => c = d

(* The handles that the queue can hold for a call.                         *)
HandlesOK(c) ==
  /\ Ready("start", c) => phase[c] = "new"
  /\ Ready("timeout", c) => c \in limited
  /\ Ready("wake", c) => Waiting(c)

(* The answer of a call has not been posted.                               *)
NotPosted(c) == ~Ready("set", c) /\ future[c] # "result"

(* It is posted once: by the client in the loop's thread or, when the wait *)
(* that it registered is complete, by the processing thread.               *)
PostsOnce(c) ==
  /\ phase[c] \in {"new", "asking"} =>
       item[c] = "none" /\ cb[c] = "idle" /\ found[c] = 0 /\ NotPosted(c)
  /\ item[c] = "waiting" => found[c] < Need(c) /\ cb[c] # "post" /\ NotPosted(c)
  /\ cb[c] \in {"test", "post"} => NotPosted(c)
  /\ Ready("set", c) => future[c] # "result"

(* What becomes of a whole answer that is posted before the timeout: the   *)
(* handle that resolves the future is ahead of the timeout's.              *)
InTime(c) ==
  \/ future[c] = "result"
  \/ /\ future[c] = "pending" /\ Ready("set", c) /\ ~Ready("wake", c)
     /\ Ahead(Handle("set", c), Handle("timeout", c), ready)

NothingYet(c) ==
  /\ future[c] = "pending" /\ phase[c] # "done"
  /\ ~Ready("set", c) /\ ~Ready("timeout", c) /\ ~Ready("wake", c)

AnswersOK(c) ==
  ~Partial(c) =>
    /\ c \notin cancelled /\ first[c] = "none" => NothingYet(c)
    /\ c \notin cancelled /\ first[c] = "answer" /\ phase[c] # "done" => InTime(c)
    /\ phase[c] = "done" /\ first[c] = "answer" => outcome[c] = 1
    /\ phase[c] = "done" => first[c] # "none"

CallOK(c) == HandlesOK(c) /\ PostsOnce(c) /\ AnswersOK(c)

Inv == Types /\ LoopOK /\ (\A c \in Calls : CallOK(c)) /\ ResolvedOnce

-----------------------------------------------------------------------------
(* The ready queue                                                         *)

(* Running the head of the queue: it was there once.                       *)
LEMMA TailOfHandles ==
  ASSUME NEW q \in Seq(Handles), IsInjective(q), q # <<>>
  PROVE  /\ Tail(q) \in Seq(Handles) /\ IsInjective(Tail(q))
         /\ Contains(q, Head(q))
         /\ \A h : Contains(Tail(q), h) <=> Contains(q, h) /\ h # Head(q)
         /\ \A h, g : Ahead(h, g, q) /\ h # Head(q) => Ahead(h, g, Tail(q))
         /\ \A h : ~Ahead(h, Head(q), q)
<1>1. /\ Len(q) \in Nat \ {0} /\ DOMAIN q = 1..Len(q) /\ Head(q) = q[1]
      /\ Tail(q) \in Seq(Handles) /\ Len(Tail(q)) = Len(q) - 1
      /\ DOMAIN Tail(q) = 1..Len(Tail(q))
      /\ \A i \in 1..Len(Tail(q)) : Tail(q)[i] = q[i + 1]
  OBVIOUS
<1>2. IsInjective(Tail(q)) /\ Contains(q, Head(q))
  BY <1>1 DEF IsInjective, Contains
<1>3. ASSUME NEW h
      PROVE  Contains(Tail(q), h) <=> Contains(q, h) /\ h # Head(q)
  <2>1. ASSUME NEW i \in 1..Len(Tail(q)), Tail(q)[i] = h
        PROVE  Contains(q, h) /\ h # Head(q)
    BY <1>1, <2>1 DEF Contains, IsInjective
  <2>2. ASSUME NEW i \in 1..Len(q), q[i] = h, h # Head(q)
        PROVE  Contains(Tail(q), h)
    <3>1. i - 1 \in 1..Len(Tail(q)) /\ Tail(q)[i - 1] = q[i]
      BY <1>1, <2>2
    <3>2. QED
      BY <2>2, <3>1 DEF Contains
  <2>3. QED
    BY <2>1, <2>2 DEF Contains
<1>4. ASSUME NEW h, NEW g, Ahead(h, g, q), h # Head(q)
      PROVE  Ahead(h, g, Tail(q))
  <2>1. ASSUME NEW j \in 1..Len(Tail(q)), Tail(q)[j] = g
        PROVE  \E i \in 1..Len(Tail(q)) : i < j /\ Tail(q)[i] = h
    <3>1. PICK i \in 1..Len(q) : i < j + 1 /\ q[i] = h
      BY <1>1, <1>4, <2>1 DEF Ahead
    <3>2. i - 1 \in 1..Len(Tail(q)) /\ i - 1 < j /\ Tail(q)[i - 1] = h
      BY <1>1, <1>4, <3>1
    <3>3. QED
      BY <3>2
  <2>2. QED
    BY <2>1 DEF Ahead
<1>5. \A h : ~Ahead(h, Head(q), q)
  BY <1>1 DEF Ahead
<1>6. QED
  BY <1>1, <1>2, <1>3, <1>4, <1>5

(* Adding a handle that is not in the queue.                               *)
LEMMA AppendOfHandles ==
  ASSUME NEW q \in Seq(Handles), IsInjective(q),
         NEW x \in Handles, ~Contains(q, x)
  PROVE  /\ Append(q, x) \in Seq(Handles) /\ IsInjective(Append(q, x))
         /\ \A h : Contains(Append(q, x), h) <=> Contains(q, h) \/ h = x
         /\ \A h, g : Ahead(h, g, q) /\ (g # x \/ Contains(q, h)) =>
                        Ahead(h, g, Append(q, x))
<1> DEFINE r == Append(q, x)
<1>1. /\ Len(q) \in Nat /\ DOMAIN q = 1..Len(q) /\ r \in Seq(Handles)
      /\ Len(r) = Len(q) + 1 /\ DOMAIN r = 1..Len(r)
      /\ \A i \in 1..Len(q) : r[i] = q[i]
      /\ r[Len(q) + 1] = x
      /\ \A i \in 1..Len(r) : i \in 1..Len(q) \/ i = Len(q) + 1
      /\ \A i \in 1..Len(q) : i \in 1..Len(r) /\ i < Len(q) + 1
  OBVIOUS
<1> HIDE DEF r
<1>2. IsInjective(r)
  BY <1>1 DEF IsInjective, Contains
<1>3. \A h : Contains(r, h) <=> Contains(q, h) \/ h = x
  BY <1>1 DEF Contains
<1>4. ASSUME NEW h, NEW g, Ahead(h, g, q), g # x \/ Contains(q, h)
      PROVE  Ahead(h, g, r)
  <2>1. ASSUME NEW j \in 1..Len(r), r[j] = g
        PROVE  \E i \in 1..Len(r) : i < j /\ r[i] = h
    <3>1. CASE j \in 1..Len(q)
      BY <1>1, <1>4, <2>1, <3>1 DEF Ahead
    <3>2. CASE j = Len(q) + 1
      BY <1>1, <1>4, <2>1, <3>2 DEF Contains
    <3>3. QED
      BY <1>1, <3>1, <3>2
  <2>2. QED
    BY <2>1 DEF Ahead
<1>5. QED
  BY <1>1, <1>2, <1>3, <1>4 DEF r

(* Waking a coroutine.                                                     *)
LEMMA WokenHandles ==
  ASSUME NEW q \in Seq(Handles), IsInjective(q), NEW c \in Calls
  PROVE  /\ Woken(c, q) \in Seq(Handles) /\ IsInjective(Woken(c, q))
         /\ \A h : Contains(Woken(c, q), h) <=> Contains(q, h) \/ h = Handle("wake", c)
         /\ \A h, g : Ahead(h, g, q) /\ g # Handle("wake", c) => Ahead(h, g, Woken(c, q))
<1>1. Handle("wake", c) \in Handles
  BY DEF Handle, Handles
<1>2. CASE Contains(q, Handle("wake", c))
  BY <1>2 DEF Woken
<1>3. CASE ~Contains(q, Handle("wake", c))
  BY <1>1, <1>3, AppendOfHandles DEF Woken
<1>4. QED
  BY <1>2, <1>3

(* The queue that the loop begins with, one handle for each task.          *)
LEMMA FirstHandles ==
  LET S == {Handle("start", c) : c \in Calls}
      q == SetToSeq(S)
  IN  /\ q \in Seq(Handles) /\ IsInjective(q)
      /\ \A h : Contains(q, h) => h \in S
<1> DEFINE S == {Handle("start", c) : c \in Calls}
           q == SetToSeq(S)
           f == [c \in Calls |-> Handle("start", c)]
<1>1. IsFiniteSet(S)
  <2>1. f \in Surjection(Calls, S)
    BY DEF Surjection
  <2>2. QED
    BY <2>1, CallsAssumption, FS_Surjection
<1>2. Cardinality(S) \in Nat /\ \E g \in [1..Cardinality(S) -> S] : IsInjective(g)
  BY <1>1, FS_CardinalityType DEF ExistsBijection, Bijection, Injection
<1>3. q \in [1..Cardinality(S) -> S] /\ IsInjective(q)
  BY <1>2, Zenon DEF SetToSeq
<1>4. S \subseteq Handles
  BY DEF Handle, Handles
<1> HIDE DEF q, S
<1>5. q \in Seq(Handles) /\ Len(q) = Cardinality(S)
  BY <1>2, <1>3, <1>4
<1>6. \A h : Contains(q, h) => h \in S
  BY <1>2, <1>3, <1>5 DEF Contains
<1>7. QED
  BY <1>3, <1>5, <1>6 DEF q, S

(* Handles are equal if they are of the same kind and call.                *)
LEMMA HandlesDiffer ==
  \A v, w, c, d : Handle(v, c) = Handle(w, d) <=> v = w /\ c = d
BY DEF Handle

Kinds == {"start", "set", "timeout", "wake"}

LEMMA HandlesAreHandles ==
  \A w \in Kinds, c \in Calls : Handle(w, c) \in Handles
BY DEF Handle, Handles, Kinds

(* What the loop has left when it takes a handle.                          *)
LEMMA Taken ==
  ASSUME LoopOK, NEW c \in Calls, NEW what, Takes(what, c)
  PROVE  /\ Tail(ready) \in Seq(Handles) /\ IsInjective(Tail(ready))
         /\ Ready(what, c)
         /\ \A h : Contains(Tail(ready), h) <=> Contains(ready, h) /\ h # Handle(what, c)
         /\ \A h, g : Ahead(h, g, ready) /\ h # Handle(what, c) => Ahead(h, g, Tail(ready))
         /\ \A h : ~Ahead(h, Handle(what, c), ready)
<1>1. /\ ready \in Seq(Handles) /\ IsInjective(ready) /\ ready # <<>>
      /\ Head(ready) = Handle(what, c)
  BY DEF LoopOK, Takes
<1>2. /\ Tail(ready) \in Seq(Handles) /\ IsInjective(Tail(ready))
      /\ Contains(ready, Head(ready))
      /\ \A h : Contains(Tail(ready), h) <=> Contains(ready, h) /\ h # Head(ready)
      /\ \A h, g : Ahead(h, g, ready) /\ h # Head(ready) => Ahead(h, g, Tail(ready))
      /\ \A h : ~Ahead(h, Head(ready), ready)
  BY <1>1, TailOfHandles
<1>3. QED
  BY <1>1, <1>2 DEF Ready

(* A step that concerns another call only.                                 *)
SameQueue(d) ==
  /\ \A w \in Kinds : Contains(ready', Handle(w, d)) <=> Contains(ready, Handle(w, d))
  /\ Ahead(Handle("set", d), Handle("timeout", d), ready) =>
       Ahead(Handle("set", d), Handle("timeout", d), ready')

SameCall(d) ==
  /\ phase'[d] = phase[d] /\ future'[d] = future[d] /\ outcome'[d] = outcome[d]
  /\ item'[d] = item[d] /\ found'[d] = found[d] /\ cb'[d] = cb[d]
  /\ first'[d] = first[d] /\ (d \in cancelled' <=> d \in cancelled)

LEMMA SameKeepsCall ==
  ASSUME NEW d \in Calls, CallOK(d), SameQueue(d), SameCall(d), UNCHANGED fixed
  PROVE  CallOK(d)'
<1>1. /\ Ready("start", d)' <=> Ready("start", d)
      /\ Ready("set", d)' <=> Ready("set", d)
      /\ Ready("timeout", d)' <=> Ready("timeout", d)
      /\ Ready("wake", d)' <=> Ready("wake", d)
  BY DEF SameQueue, Ready, Kinds
<1>2. method' = method /\ limited' = limited
  BY DEF fixed
<1>3. HandlesOK(d)'
  BY <1>1, <1>2 DEF CallOK, HandlesOK, SameCall, Waiting
<1>4. PostsOnce(d)'
  BY <1>1, <1>2 DEF CallOK, PostsOnce, NotPosted, SameCall, Need
<1>5. AnswersOK(d)'
  <2>1. InTime(d) => InTime(d)'
    BY <1>1 DEF InTime, SameCall, SameQueue
  <2>2. NothingYet(d) => NothingYet(d)'
    BY <1>1 DEF NothingYet, SameCall
  <2>3. QED
    BY <1>1, <1>2, <2>1, <2>2 DEF CallOK, AnswersOK, Partial, SameCall
<1>6. QED
  BY <1>3, <1>4, <1>5 DEF CallOK

(* The queue is the same for d if it differs by handles of c only.         *)
LEMMA OtherQueue ==
  ASSUME NEW c, NEW d, d # c,
         \A h : (\A w : h # Handle(w, c)) => (Contains(ready', h) <=> Contains(ready, h)),
         \A h, g : (\A w : h # Handle(w, c) /\ g # Handle(w, c)) /\ Ahead(h, g, ready) =>
                     Ahead(h, g, ready')
  PROVE  SameQueue(d)
<1>1. \A v, w : Handle(v, d) # Handle(w, c)
  BY HandlesDiffer
<1>2. ASSUME NEW v
      PROVE  Contains(ready', Handle(v, d)) <=> Contains(ready, Handle(v, d))
  BY <1>1
<1>3. Ahead(Handle("set", d), Handle("timeout", d), ready) =>
        Ahead(Handle("set", d), Handle("timeout", d), ready')
  BY <1>1
<1>4. QED
  BY <1>2, <1>3 DEF SameQueue

(* The loop stays inside the one call that it is in.                       *)
LEMMA SamePlace ==
  ASSUME LoopOK, ready' \in Seq(Handles), IsInjective(ready'),
         inCall' = inCall, \A c \in Calls : InClientNow(c)' <=> InClientNow(c)
  PROVE  LoopOK'
BY DEF LoopOK

-----------------------------------------------------------------------------
(* The steps                                                               *)

LEMMA NeedsParts ==
  ASSUME NEW c \in Calls
  PROVE  Need(c) \in 1..Parts
BY PartsAssumption DEF Need

LEMMA TypesKept ==
  ASSUME Inv, [Next]_vars
  PROVE  Types'
<1> USE BoundsAssumption, PartsAssumption DEF Types
<1>0. Types /\ \A c \in Calls : CallOK(c)
  BY DEF Inv
<1>1. ASSUME NEW c \in Calls, Start(c) \/ Register(c) \/ ReturnEarly(c)
      PROVE  Types'
  BY <1>0, <1>1 DEF Start, Register, ReturnEarly, Asked, fixed, client, Places
<1>2. ASSUME NEW c \in Calls, Post(c)
      PROVE  first' \in [Calls -> {"none", "answer", "timeout"}]
  BY <1>0, <1>2 DEF Post
<1>3. ASSUME NEW c \in Calls, CallBackAtOnce(c)
      PROVE  Types'
  BY <1>0, <1>2, <1>3, NeedsParts DEF CallBackAtOnce, Asked, fixed, Places
<1>4. ASSUME NEW c \in Calls, ReadValue(c) \/ Await(c)
      PROVE  Types'
  BY <1>0, <1>4 DEF ReadValue, Await, fixed, client, Places
<1>5. ASSUME NEW c \in Calls, Resolve(c)
      PROVE  Types'
  BY <1>0, <1>5 DEF Resolve, fixed, client
<1>6. ASSUME NEW c \in Calls, Expire(c)
      PROVE  Types'
  <2>1. c \in limited \/ ~Waiting(c)
    <3>1. ready # <<>> /\ Head(ready) = Handle("timeout", c) /\ ready \in Seq(Handles)
      BY <1>6 DEF Expire, Takes, Inv, LoopOK
    <3>2. Ready("timeout", c)
      BY <3>1 DEF Ready, Contains
    <3>3. QED
      BY <3>2, <1>0 DEF CallOK, HandlesOK
  <2>2. QED
    BY <1>0, <1>6, <2>1 DEF Expire, fixed, client
<1>7. ASSUME NEW c \in Calls, Resume(c)
      PROVE  Types'
  <2>1. LatestAnswer(c) \in 0..Parts /\ WholeAnswer(c) \in 0..Parts
    BY <1>0, NeedsParts DEF LatestAnswer, WholeAnswer
  <2>2. QED
    BY <1>0, <1>7, <2>1 DEF Resume, fixed, client, Places
<1>8. ASSUME NEW c \in Calls, Cancel(c) \/ TimeIsOver(c)
      PROVE  Types'
  BY <1>0, <1>8 DEF Cancel, TimeIsOver, fixed, task, client
<1>9. ASSUME NEW c \in Calls, Announce(c)
      PROVE  Types'
  <2>1. found[c] + 1 \in 0..Parts
    BY <1>0, <1>9, NeedsParts DEF Announce, CallOK, PostsOnce
  <2>2. QED
    BY <1>0, <1>9, <2>1 DEF Announce, fixed, task
<1>10. ASSUME NEW c \in Calls, CallbackTest(c)
       PROVE  Types'
  BY <1>0, <1>10 DEF CallbackTest, AfterPost, fixed, task, client
<1>11. ASSUME NEW c \in Calls, CallbackPost(c)
       PROVE  Types'
  BY <1>0, <1>2, <1>11 DEF CallbackPost, AfterPost, fixed, task, client
<1>12. ASSUME NEW c \in Calls, CallbackAssign(c)
       PROVE  Types'
  BY <1>0, <1>12 DEF CallbackAssign, fixed, client
<1>13. ASSUME CloseClient
       PROVE  Types'
  BY <1>0, <1>13 DEF CloseClient, fixed, task
<1>14. CASE UNCHANGED vars
  BY <1>0, <1>14 DEF vars, fixed, task, client
<1>15. QED
  BY <1>1, <1>3, <1>4, <1>5, <1>6, <1>7, <1>8, <1>9, <1>10, <1>11, <1>12, <1>13, <1>14
  DEF Next, LoopStep, InClient, Callback

(* The loop starts a task: its handle leaves the queue.                    *)
LEMMA StartKeeps ==
  ASSUME Inv, NEW c \in Calls, Start(c)
  PROVE  LoopOK' /\ \A d \in Calls : CallOK(d)'
<1> USE DEF Inv, Types
<1>1. /\ ready' \in Seq(Handles) /\ IsInjective(ready') /\ phase[c] = "new"
      /\ \A h : Contains(ready', h) <=> Contains(ready, h) /\ h # Handle("start", c)
      /\ \A h, g : Ahead(h, g, ready) /\ h # Handle("start", c) => Ahead(h, g, ready')
  BY Taken DEF Start, CallOK, HandlesOK
<1>2. \A d \in Calls : ~InClientNow(d)
  BY DEF Start, Takes, LoopOK
<1>3. LoopOK'
  BY <1>1, <1>2 DEF Start, LoopOK, InClientNow
<1>4. ASSUME NEW d \in Calls, d # c
      PROVE  CallOK(d)'
  <2>1. SameQueue(d)
    BY <1>1, <1>4, OtherQueue
  <2>2. SameCall(d) /\ UNCHANGED fixed
    BY <1>4 DEF Start, SameCall, client
  <2>3. QED
    BY <2>1, <2>2, SameKeepsCall
<1>5. CallOK(c)'
  <2>1. CallOK(c) /\ phase'[c] = "asking" /\ UNCHANGED <<fixed, future, client, cb, cancelled, first, outcome>>
    BY DEF Start
  <2>2. /\ ~Ready("start", c)' /\ ~Ready("set", c)' /\ ~Ready("wake", c)'
        /\ Ready("timeout", c)' <=> Ready("timeout", c)
    BY <1>1, <2>1, HandlesDiffer DEF Ready, CallOK, HandlesOK, PostsOnce, NotPosted, Waiting
  <2>3. HandlesOK(c)' /\ PostsOnce(c)'
    BY <1>1, <2>1, <2>2
    DEF CallOK, HandlesOK, PostsOnce, NotPosted, fixed, client, Need
  <2>4. AnswersOK(c)'
    BY <1>1, <2>1, <2>2
    DEF CallOK, AnswersOK, PostsOnce, NotPosted, NothingYet, InTime, fixed, Partial
  <2>5. QED
    BY <2>3, <2>4 DEF CallOK
<1>6. QED
  BY <1>3, <1>4, <1>5

(* The client registers a wait or returns without one.                     *)
LEMMA RegisterKeeps ==
  ASSUME Inv, NEW c \in Calls, Register(c) \/ ReturnEarly(c)
  PROVE  LoopOK' /\ \A d \in Calls : CallOK(d)'
<1> USE DEF Inv, Types
<1>1. /\ phase[c] = "asking" /\ phase' = [phase EXCEPT ![c] = "asked"]
      /\ item' = [item EXCEPT ![c] = "waiting"] \/ item' = item
      /\ UNCHANGED <<fixed, future, outcome, ready, inCall, found, cb, cancelled, first>>
  BY DEF Register, ReturnEarly, Asked, client
<1>2. LoopOK'
  BY <1>1, SamePlace DEF LoopOK, InClientNow
<1>3. ASSUME NEW d \in Calls, d # c
      PROVE  CallOK(d)'
  BY <1>1, <1>3, SameKeepsCall DEF SameQueue, SameCall
<1>4. CallOK(c)'
  <2>1. CallOK(c) /\ NotPosted(c) /\ found[c] < Need(c) /\ cb[c] = "idle"
    BY <1>1, NeedsParts DEF CallOK, PostsOnce
  <2>2. HandlesOK(c)' /\ PostsOnce(c)'
    BY <1>1, <2>1 DEF CallOK, HandlesOK, PostsOnce, NotPosted, Ready, Need, fixed, Waiting
  <2>3. AnswersOK(c)'
    BY <1>1, <2>1 DEF CallOK, AnswersOK, NothingYet, InTime, Ready, Partial, fixed
  <2>4. QED
    BY <2>2, <2>3 DEF CallOK
<1>5. QED
  BY <1>2, <1>3, <1>4

(* An answer is posted, behind a timeout that is in the queue already.     *)
LEMMA PostInTime ==
  ASSUME Types, LoopOK, NEW c \in Calls, CallOK(c), NotPosted(c), Post(c)
  PROVE  /\ ready' \in Seq(Handles) /\ IsInjective(ready')
         /\ \A d \in Calls : d # c => SameQueue(d) /\ first'[d] = first[d]
         /\ Ready("set", c)'
         /\ \A w \in Kinds \ {"set"} : Ready(w, c)' <=> Ready(w, c)
         /\ Ahead(Handle("set", c), Handle("timeout", c), ready) \/ ~Ready("timeout", c) =>
              Ahead(Handle("set", c), Handle("timeout", c), ready')
         /\ first'[c] = IF first[c] = "none" THEN "answer" ELSE first[c]
<1>1. /\ ready \in Seq(Handles) /\ IsInjective(ready)
      /\ ready' = Append(ready, Handle("set", c)) /\ Handle("set", c) \in Handles
      /\ ~Contains(ready, Handle("set", c))
  BY HandlesAreHandles DEF LoopOK, Post, NotPosted, Ready, Kinds
<1>2. /\ ready' \in Seq(Handles) /\ IsInjective(ready')
      /\ \A h : Contains(ready', h) <=> Contains(ready, h) \/ h = Handle("set", c)
      /\ \A h, g : Ahead(h, g, ready) /\ g # Handle("set", c) => Ahead(h, g, ready')
  BY <1>1, AppendOfHandles
<1>3. ~Ready("timeout", c) => Ahead(Handle("set", c), Handle("timeout", c), ready)
  BY DEF Ahead, Ready, Contains
<1>4. /\ \A d \in Calls : d # c => first'[d] = first[d]
      /\ first'[c] = IF first[c] = "none" THEN "answer" ELSE first[c]
  BY DEF Post, Types
<1>5. QED
  BY <1>2, <1>3, <1>4, HandlesDiffer DEF SameQueue, Ready, Kinds

(* The post of a call keeps what its answer relies on.                     *)
LEMMA PostAnswers ==
  ASSUME Types, LoopOK, NEW c \in Calls, CallOK(c), NotPosted(c), Post(c),
         phase[c] # "new", phase'[c] \notin {"new", "asking"},
         \A w \in {"waiting", "done"} : phase'[c] = w <=> phase[c] = w,
         UNCHANGED <<fixed, future, outcome, cancelled>>,
         cb'[c] \notin {"test", "post"}, item'[c] # "waiting"
  PROVE  CallOK(c)'
<1>1. /\ Ready("set", c)'
      /\ \A w \in Kinds \ {"set"} : Ready(w, c)' <=> Ready(w, c)
      /\ Ahead(Handle("set", c), Handle("timeout", c), ready) \/ ~Ready("timeout", c) =>
              Ahead(Handle("set", c), Handle("timeout", c), ready')
      /\ first'[c] = IF first[c] = "none" THEN "answer" ELSE first[c]
  BY PostInTime
<1>2. HandlesOK(c)'
  BY <1>1 DEF CallOK, HandlesOK, Kinds, fixed, Waiting
<1>3. PostsOnce(c)'
  BY <1>1 DEF PostsOnce, NotPosted
<1>4. AnswersOK(c)'
  <2>1. first[c] \in {"none", "answer", "timeout"}
    BY DEF Types
  <2>2. first[c] = "answer" /\ InTime(c) => InTime(c)'
    BY <1>1 DEF InTime, NotPosted, Kinds
  <2>3. NothingYet(c) => InTime(c)'
    BY <1>1 DEF NothingYet, InTime, Kinds
  <2>4. QED
    BY <1>1, <2>1, <2>2, <2>3 DEF CallOK, AnswersOK, fixed, Partial, NothingYet
<1>5. QED
  BY <1>2, <1>3, <1>4 DEF CallOK

(* The client calls back at once, or the processing thread does.           *)
LEMMA CallBackAtOnceKeeps ==
  ASSUME Inv, NEW c \in Calls, CallBackAtOnce(c)
  PROVE  LoopOK' /\ \A d \in Calls : CallOK(d)'
<1> USE DEF Inv, Types
<1>1. /\ phase[c] = "asking" /\ phase' = [phase EXCEPT ![c] = "asked"]
      /\ Post(c) /\ NotPosted(c) /\ item[c] = "none" /\ cb[c] = "idle"
      /\ \A d \in Calls \ {c} : found'[d] = found[d]
      /\ UNCHANGED <<fixed, future, outcome, inCall, item, cb, cancelled>>
  BY DEF CallBackAtOnce, Asked, CallOK, PostsOnce
<1>2. /\ ready' \in Seq(Handles) /\ IsInjective(ready')
      /\ \A d \in Calls : d # c => SameQueue(d) /\ first'[d] = first[d]
  BY <1>1, PostInTime
<1>3. LoopOK'
  BY <1>1, <1>2, SamePlace DEF LoopOK, InClientNow
<1>4. ASSUME NEW d \in Calls, d # c
      PROVE  CallOK(d)'
  BY <1>1, <1>2, <1>4, SameKeepsCall DEF SameCall
<1>5. CallOK(c)'
  BY <1>1, PostAnswers
<1>6. QED
  BY <1>3, <1>4, <1>5

LEMMA CallbackPostKeeps ==
  ASSUME Inv, NEW c \in Calls, CallbackPost(c)
  PROVE  LoopOK' /\ \A d \in Calls : CallOK(d)'
<1> USE DEF Inv, Types
<1>1. /\ Post(c) /\ NotPosted(c) /\ cb[c] = "post" /\ item[c] # "waiting"
      /\ cb' = [cb EXCEPT ![c] = AfterPost(c)] /\ phase[c] \notin {"new", "asking"}
      /\ UNCHANGED <<fixed, phase, future, outcome, inCall, item, found, cancelled>>
  BY DEF CallbackPost, CallOK, PostsOnce, task, client
<1>2. cb'[c] \notin {"test", "post"}
  BY <1>1 DEF AfterPost
<1>3. /\ ready' \in Seq(Handles) /\ IsInjective(ready')
      /\ \A d \in Calls : d # c => SameQueue(d) /\ first'[d] = first[d]
  BY <1>1, PostInTime
<1>4. LoopOK'
  BY <1>1, <1>3, SamePlace DEF LoopOK, InClientNow
<1>5. ASSUME NEW d \in Calls, d # c
      PROVE  CallOK(d)'
  BY <1>1, <1>3, <1>5, SameKeepsCall DEF SameCall
<1>6. CallOK(c)'
  BY <1>1, <1>2, PostAnswers
<1>7. QED
  BY <1>4, <1>5, <1>6

(* It reads the value and returns; the coroutine waits, or is woken        *)
(* because wait_for has no time.                                           *)
LEMMA ReturnKeeps ==
  ASSUME Inv, NEW c \in Calls, ReadValue(c) \/ Await(c)
  PROVE  LoopOK' /\ \A d \in Calls : CallOK(d)'
<1> USE DEF Inv, Types
<1>1. CASE ReadValue(c)
  <2>1. /\ phase[c] = "asked" /\ phase' = [phase EXCEPT ![c] = "returning"]
        /\ \A d \in Calls \ {c} : outcome'[d] = outcome[d]
        /\ UNCHANGED <<fixed, future, ready, inCall, item, found, cb, cancelled, first>>
    BY <1>1 DEF ReadValue, client
  <2>2. LoopOK'
    BY <2>1, SamePlace DEF LoopOK, InClientNow
  <2>3. ASSUME NEW d \in Calls, d # c
        PROVE  CallOK(d)'
    BY <2>1, <2>3, SameKeepsCall DEF SameQueue, SameCall
  <2>4. CallOK(c)'
    BY <2>1 DEF CallOK, HandlesOK, PostsOnce, NotPosted, AnswersOK, InTime, NothingYet,
                Ready, Waiting, Need, Partial, fixed
  <2>5. QED
    BY <2>2, <2>3, <2>4
<1>2. CASE Await(c)
  <2>1. /\ phase[c] = "returning" /\ phase' = [phase EXCEPT ![c] = "waiting"]
        /\ ~inCall'
        /\ UNCHANGED <<fixed, item, found, cb, cancelled, first>>
        /\ \A d \in Calls \ {c} : future'[d] = future[d] /\ outcome'[d] = outcome[d]
        /\ \/ Partial(c) /\ future'[c] = "cancelled" /\ ready' = Woken(c, ready)
           \/ UNCHANGED <<future, ready>>
    BY <1>2 DEF Await, client
  <2>2. /\ ready' \in Seq(Handles) /\ IsInjective(ready')
        /\ \A h : Contains(ready, h) => Contains(ready', h)
        /\ \A h : Contains(ready', h) => Contains(ready, h) \/ h = Handle("wake", c)
        /\ \A h, g : Ahead(h, g, ready) /\ g # Handle("wake", c) => Ahead(h, g, ready')
    BY <2>1, WokenHandles DEF LoopOK
  <2>3. LoopOK'
    BY <2>1, <2>2 DEF LoopOK, InClientNow
  <2>4. ASSUME NEW d \in Calls, d # c
        PROVE  CallOK(d)'
    <3>1. SameQueue(d)
      BY <2>2, <2>4, OtherQueue
    <3>2. SameCall(d) /\ UNCHANGED fixed
      BY <2>1, <2>4 DEF SameCall
    <3>3. QED
      BY <3>1, <3>2, SameKeepsCall
  <2>5. CallOK(c)'
    <3>1. CallOK(c)
      OBVIOUS
    <3>2. \A w \in Kinds \ {"wake"} : Ready(w, c)' <=> Ready(w, c)
      BY <2>2, HandlesDiffer DEF Ready, Kinds
    <3>3. HandlesOK(c)' /\ PostsOnce(c)'
      BY <2>1, <3>1, <3>2 DEF CallOK, HandlesOK, PostsOnce, NotPosted, Waiting, Need, fixed, Kinds
    <3>4. AnswersOK(c)'
      <4>1. Partial(c)' <=> Partial(c)
        BY <2>1 DEF Partial, fixed
      <4>2. CASE ~Partial(c)
        BY <2>1, <3>1, <4>1, <4>2 DEF CallOK, AnswersOK, InTime, NothingYet, Ready
      <4>3. QED
        BY <4>1, <4>2 DEF AnswersOK
    <3>5. QED
      BY <3>3, <3>4 DEF CallOK
  <2>6. QED
    BY <2>3, <2>4, <2>5
<1>3. QED
  BY <1>1, <1>2

(* What the loop has when it took a handle and wakes, or not, a coroutine. *)
LEMMA TakenAndWoken ==
  ASSUME LoopOK, NEW c \in Calls, NEW v \in Kinds \ {"wake"}, Takes(v, c),
         \/ ready' = Tail(ready)
         \/ ready' = Woken(c, Tail(ready))
  PROVE  /\ ready' \in Seq(Handles) /\ IsInjective(ready')
         /\ \A d \in Calls : d # c => SameQueue(d)
         /\ Ready(v, c) /\ ~Ready(v, c)'
         /\ \A w \in Kinds \ {v, "wake"} : Ready(w, c)' <=> Ready(w, c)
         /\ Ready("wake", c) => Ready("wake", c)'
         /\ ready' = Tail(ready) => (Ready("wake", c)' <=> Ready("wake", c))
         /\ \A h : h # Handle(v, c) /\ Ahead(h, Handle("timeout", c), ready) =>
              Ahead(h, Handle("timeout", c), ready')
         /\ \A h : ~Ahead(h, Handle(v, c), ready)
<1> DEFINE q == Tail(ready)
<1>1. /\ q \in Seq(Handles) /\ IsInjective(q) /\ Ready(v, c)
      /\ \A h : Contains(q, h) <=> Contains(ready, h) /\ h # Handle(v, c)
      /\ \A h, g : Ahead(h, g, ready) /\ h # Handle(v, c) => Ahead(h, g, q)
      /\ \A h : ~Ahead(h, Handle(v, c), ready)
  BY Taken
<1> HIDE DEF q
<1>2. /\ ready' \in Seq(Handles) /\ IsInjective(ready')
      /\ \A h : h # Handle("wake", c) => (Contains(ready', h) <=> Contains(q, h))
      /\ Contains(q, Handle("wake", c)) => Contains(ready', Handle("wake", c))
      /\ ready' = q => (Contains(q, Handle("wake", c)) <=> Contains(ready', Handle("wake", c)))
      /\ \A h, g : Ahead(h, g, q) /\ g # Handle("wake", c) => Ahead(h, g, ready')
  <2>1. CASE ready' = q
    BY <1>1, <2>1
  <2>2. CASE ready' = Woken(c, q)
    BY <1>1, <2>2, WokenHandles
  <2>3. QED
    BY <2>1, <2>2 DEF q
<1>3. ASSUME NEW d \in Calls, d # c
      PROVE  SameQueue(d)
  BY <1>1, <1>2, <1>3, OtherQueue
<1>4. v # "wake" /\ \A u, w : u # w => Handle(u, c) # Handle(w, c)
  BY HandlesDiffer
<1>5. ~Ready(v, c)' /\ \A w \in Kinds \ {v, "wake"} : Ready(w, c)' <=> Ready(w, c)
  BY <1>1, <1>2, <1>4 DEF Ready
<1>6. /\ Ready("wake", c) => Ready("wake", c)'
      /\ ready' = q => (Ready("wake", c)' <=> Ready("wake", c))
  BY <1>1, <1>2, <1>4 DEF Ready
<1>7. \A h : h # Handle(v, c) /\ Ahead(h, Handle("timeout", c), ready) =>
        Ahead(h, Handle("timeout", c), ready')
  BY <1>1, <1>2, <1>4
<1>8. QED
  BY <1>1, <1>2, <1>3, <1>5, <1>6, <1>7 DEF q

(* The future is resolved, before a timeout of the call if that came later.*)
LEMMA ResolveKeeps ==
  ASSUME Inv, NEW c \in Calls, Resolve(c)
  PROVE  LoopOK' /\ \A d \in Calls : CallOK(d)'
<1> USE DEF Inv, Types
<1>1. /\ Takes("set", c)
      /\ \/ ready' = Tail(ready)
         \/ Waiting(c) /\ ready' = Woken(c, Tail(ready))
      /\ UNCHANGED <<fixed, phase, outcome, inCall, item, found, cb, cancelled, first>>
      /\ \A d \in Calls \ {c} : future'[d] = future[d]
      /\ future'[c] = IF future[c] = "pending" THEN "result" ELSE future[c]
  BY DEF Resolve, client
<1>2. /\ ready' \in Seq(Handles) /\ IsInjective(ready')
      /\ \A d \in Calls : d # c => SameQueue(d)
      /\ Ready("set", c) /\ ~Ready("set", c)'
      /\ \A w \in {"start", "timeout"} : Ready(w, c)' <=> Ready(w, c)
      /\ Ready("wake", c)' => Waiting(c)
  BY <1>1, TakenAndWoken DEF Kinds, Resolve, CallOK, HandlesOK
<1>3. LoopOK'
  BY <1>1, <1>2, SamePlace DEF InClientNow
<1>4. ASSUME NEW d \in Calls, d # c
      PROVE  CallOK(d)'
  BY <1>1, <1>2, <1>4, SameKeepsCall DEF SameCall
<1>5. CallOK(c)'
  <2>1. /\ future[c] # "result" /\ phase[c] \notin {"new", "asking"} /\ item[c] # "waiting"
        /\ cb[c] \notin {"test", "post"}
    BY <1>2 DEF CallOK, PostsOnce, NotPosted
  <2>2. HandlesOK(c)' /\ PostsOnce(c)'
    BY <1>1, <1>2, <2>1 DEF CallOK, HandlesOK, PostsOnce, NotPosted, Waiting, fixed
  <2>3. AnswersOK(c)'
    BY <1>1, <1>2, <2>1 DEF CallOK, AnswersOK, NothingYet, InTime, Partial, fixed
  <2>4. QED
    BY <2>2, <2>3 DEF CallOK
<1>6. QED
  BY <1>3, <1>4, <1>5

(* A timeout that runs before the answer has found none posted.            *)
LEMMA ExpireKeeps ==
  ASSUME Inv, NEW c \in Calls, Expire(c)
  PROVE  LoopOK' /\ \A d \in Calls : CallOK(d)'
<1> USE DEF Inv, Types
<1>1. /\ Takes("timeout", c)
      /\ \/ ready' = Tail(ready)
         \/ Waiting(c) /\ ready' = Woken(c, Tail(ready))
      /\ UNCHANGED <<fixed, phase, outcome, inCall, item, found, cb, cancelled, first>>
      /\ \A d \in Calls \ {c} : future'[d] = future[d]
      /\ \/ future'[c] = future[c]
         \/ Partial(c) /\ Waiting(c) /\ future'[c] = "cancelled"
  BY DEF Expire, client
<1>2. /\ ready' \in Seq(Handles) /\ IsInjective(ready')
      /\ \A d \in Calls : d # c => SameQueue(d)
      /\ Ready("timeout", c) /\ ~Ready("timeout", c)'
      /\ \A w \in {"start", "set"} : Ready(w, c)' <=> Ready(w, c)
      /\ Ready("wake", c)' => Waiting(c)
      /\ ~Ahead(Handle("set", c), Handle("timeout", c), ready)
  BY <1>1, TakenAndWoken DEF Kinds, CallOK, HandlesOK
<1>3. LoopOK'
  BY <1>1, <1>2, SamePlace DEF InClientNow
<1>4. ASSUME NEW d \in Calls, d # c
      PROVE  CallOK(d)'
  BY <1>1, <1>2, <1>4, SameKeepsCall DEF SameCall
<1>5. CallOK(c)'
  <2>1. HandlesOK(c)' /\ PostsOnce(c)'
    BY <1>1, <1>2 DEF CallOK, HandlesOK, PostsOnce, NotPosted, Waiting, Need, fixed
  <2>2. AnswersOK(c)'
    <3>1. Partial(c)' <=> Partial(c)
      BY <1>1 DEF Partial, fixed
    <3>2. CASE ~Partial(c)
      BY <1>1, <1>2, <3>1, <3>2 DEF CallOK, AnswersOK, NothingYet, InTime
    <3>3. QED
      BY <3>1, <3>2 DEF AnswersOK
  <2>3. QED
    BY <2>1, <2>2 DEF CallOK
<1>6. QED
  BY <1>3, <1>4, <1>5

(* The coroutine ends: with the answer if that was posted first.           *)
LEMMA ResumeKeeps ==
  ASSUME Inv, NEW c \in Calls, Resume(c)
  PROVE  LoopOK' /\ \A d \in Calls : CallOK(d)'
<1> USE DEF Inv, Types
<1>1. /\ Takes("wake", c) /\ ready' = Tail(ready)
      /\ UNCHANGED <<fixed, future, inCall, item, found, cb, cancelled, first>>
      /\ \A d \in Calls \ {c} : phase'[d] = phase[d] /\ outcome'[d] = outcome[d]
      /\ \/ c \in cancelled /\ phase'[c] = "raised"
         \/ /\ c \notin cancelled /\ phase'[c] = "done"
            /\ outcome'[c] = IF Partial(c) THEN LatestAnswer(c) ELSE WholeAnswer(c)
  BY DEF Resume, client
<1>2. /\ ready' \in Seq(Handles) /\ IsInjective(ready') /\ Ready("wake", c)
      /\ \A h : Contains(ready', h) <=> Contains(ready, h) /\ h # Handle("wake", c)
      /\ \A h, g : Ahead(h, g, ready) /\ h # Handle("wake", c) => Ahead(h, g, ready')
  BY <1>1, Taken
<1>3. Waiting(c)
  BY <1>2 DEF CallOK, HandlesOK
<1>4. LoopOK'
  <2>1. \A d \in Calls : InClientNow(d)' <=> InClientNow(d)
    BY <1>1, <1>3 DEF InClientNow, Waiting
  <2>2. QED
    BY <1>1, <1>2, <2>1, SamePlace
<1>5. ASSUME NEW d \in Calls, d # c
      PROVE  CallOK(d)'
  <2>1. SameQueue(d)
    BY <1>2, <1>5, OtherQueue
  <2>2. SameCall(d)
    BY <1>1, <1>5 DEF SameCall
  <2>3. QED
    BY <1>1, <2>1, <2>2, SameKeepsCall
<1>6. CallOK(c)'
  <2>1. ~Ready("wake", c)' /\ \A w \in Kinds \ {"wake"} : Ready(w, c)' <=> Ready(w, c)
    BY <1>2, HandlesDiffer DEF Ready
  <2>2. HandlesOK(c)' /\ PostsOnce(c)'
    BY <1>1, <1>3, <2>1
    DEF Kinds, CallOK, HandlesOK, PostsOnce, NotPosted, Waiting, Need, fixed
  <2>3. AnswersOK(c)'
    <3>1. (Partial(c)' <=> Partial(c)) /\ phase'[c] \in {"done", "raised"}
      BY <1>1 DEF Partial, fixed
    <3>2. CASE ~Partial(c) /\ c \notin cancelled
      <4>1. first[c] = "answer" => future[c] = "result"
        BY <1>2, <1>3, <3>2 DEF CallOK, AnswersOK, InTime, Waiting
      <4>2. first[c] = "answer" => outcome'[c] = 1
        BY <1>1, <3>2, <4>1 DEF WholeAnswer, Need, Partial
      <4>3. first[c] # "none"
        BY <1>2, <3>2 DEF CallOK, AnswersOK, NothingYet
      <4>4. QED
        BY <1>1, <3>1, <3>2, <4>2, <4>3 DEF AnswersOK
    <3>3. CASE Partial(c) \/ c \in cancelled
      BY <1>1, <3>1, <3>3 DEF AnswersOK
    <3>4. QED
      BY <3>2, <3>3
  <2>4. QED
    BY <2>2, <2>3 DEF CallOK
<1>7. QED
  BY <1>4, <1>5, <1>6

(* A handle of c that is not in the queue is added to it.                  *)
LEMMA Added ==
  ASSUME LoopOK, NEW c \in Calls, NEW v \in Kinds \ {"set"},
         \/ ~Ready(v, c) /\ ready' = Append(ready, Handle(v, c))
         \/ v = "wake" /\ ready' = Woken(c, ready)
  PROVE  /\ ready' \in Seq(Handles) /\ IsInjective(ready')
         /\ \A d \in Calls : d # c => SameQueue(d)
         /\ Ready(v, c)'
         /\ \A w \in Kinds \ {v} : Ready(w, c)' <=> Ready(w, c)
         /\ Ready("set", c) \/ v # "timeout" =>
              (Ahead(Handle("set", c), Handle("timeout", c), ready) =>
                 Ahead(Handle("set", c), Handle("timeout", c), ready'))
<1>1. /\ ready' \in Seq(Handles) /\ IsInjective(ready')
      /\ \A h : Contains(ready', h) <=> Contains(ready, h) \/ h = Handle(v, c)
      /\ \A h, g : Ahead(h, g, ready) /\ (g # Handle(v, c) \/ Contains(ready, h)) =>
                     Ahead(h, g, ready')
  <2>1. /\ ready \in Seq(Handles) /\ IsInjective(ready)
        /\ Handle(v, c) \in Handles
    BY HandlesAreHandles DEF LoopOK
  <2>2. CASE ~Ready(v, c) /\ ready' = Append(ready, Handle(v, c))
    BY <2>1, <2>2, AppendOfHandles DEF Ready
  <2>3. CASE v = "wake" /\ ready' = Woken(c, ready) /\ Ready(v, c)
    BY <2>1, <2>3 DEF Woken, Ready
  <2>4. QED
    BY <2>2, <2>3 DEF Woken, Ready
<1>2. ASSUME NEW d \in Calls, d # c
      PROVE  SameQueue(d)
  BY <1>1, <1>2, OtherQueue
<1>3. QED
  BY <1>1, <1>2, HandlesDiffer DEF Ready

(* The task is cancelled.                                                  *)
LEMMA CancelKeeps ==
  ASSUME Inv, NEW c \in Calls, Cancel(c)
  PROVE  LoopOK' /\ \A d \in Calls : CallOK(d)'
<1> USE DEF Inv, Types
<1>1. /\ Waiting(c) /\ ready' = Woken(c, ready)
      /\ UNCHANGED <<fixed, phase, outcome, inCall, item, found, cb, first>>
      /\ \A d \in Calls \ {c} : future'[d] = future[d] /\ (d \in cancelled' <=> d \in cancelled)
      /\ c \in cancelled' /\ future'[c] \in {future[c], "cancelled"}
  BY DEF Cancel, client
<1>2. /\ ready' \in Seq(Handles) /\ IsInjective(ready')
      /\ \A d \in Calls : d # c => SameQueue(d)
      /\ \A w \in Kinds \ {"wake"} : Ready(w, c)' <=> Ready(w, c)
  <2>1. "wake" \in Kinds \ {"set"} /\ LoopOK
    BY DEF Kinds
  <2>2. QED
    BY <1>1, <2>1, Added
<1>3. LoopOK'
  BY <1>1, <1>2, SamePlace DEF InClientNow
<1>4. ASSUME NEW d \in Calls, d # c
      PROVE  CallOK(d)'
  BY <1>1, <1>2, <1>4, SameKeepsCall DEF SameCall
<1>5. CallOK(c)'
  BY <1>1, <1>2 DEF CallOK, HandlesOK, PostsOnce, NotPosted, AnswersOK, Kinds, Waiting,
                    Need, Partial, fixed
<1>6. QED
  BY <1>3, <1>4, <1>5

(* The timeout becomes due, behind an answer that is in the queue.         *)
LEMMA TimeKeeps ==
  ASSUME Inv, NEW c \in Calls, TimeIsOver(c)
  PROVE  LoopOK' /\ \A d \in Calls : CallOK(d)'
<1> USE DEF Inv, Types
<1>1. /\ Waiting(c) /\ c \in limited
      /\ ~Ready("timeout", c) /\ ready' = Append(ready, Handle("timeout", c))
      /\ UNCHANGED <<fixed, phase, future, outcome, inCall, item, found, cb, cancelled>>
      /\ \A d \in Calls \ {c} : first'[d] = first[d]
      /\ first'[c] = IF first[c] = "none" THEN "timeout" ELSE first[c]
  BY DEF TimeIsOver, Expires, Ready, task, client
<1>2. /\ ready' \in Seq(Handles) /\ IsInjective(ready')
      /\ \A d \in Calls : d # c => SameQueue(d)
      /\ \A w \in Kinds \ {"timeout"} : Ready(w, c)' <=> Ready(w, c)
      /\ Ready("set", c) /\ Ahead(Handle("set", c), Handle("timeout", c), ready) =>
           Ahead(Handle("set", c), Handle("timeout", c), ready')
  BY <1>1, Added DEF Kinds
<1>3. LoopOK'
  BY <1>1, <1>2, SamePlace DEF InClientNow
<1>4. ASSUME NEW d \in Calls, d # c
      PROVE  CallOK(d)'
  BY <1>1, <1>2, <1>4, SameKeepsCall DEF SameCall
<1>5. CallOK(c)'
  <2>1. HandlesOK(c)' /\ PostsOnce(c)'
    BY <1>1, <1>2 DEF CallOK, HandlesOK, PostsOnce, NotPosted, Kinds, Waiting, Need, fixed
  <2>2. InTime(c) => InTime(c)'
    BY <1>1, <1>2 DEF InTime, Kinds
  <2>3. AnswersOK(c)'
    BY <1>1, <2>2 DEF CallOK, AnswersOK, Partial, fixed, Waiting
  <2>4. QED
    BY <2>1, <2>3 DEF CallOK
<1>6. QED
  BY <1>3, <1>4, <1>5

(* The processing thread, but for its post; and the end of the client.     *)
LEMMA ProcessingKeeps ==
  ASSUME Inv, NEW c \in Calls, Announce(c) \/ CallbackTest(c) \/ CallbackAssign(c)
  PROVE  LoopOK' /\ \A d \in Calls : CallOK(d)'
<1> USE DEF Inv, Types
<1>1. /\ UNCHANGED <<fixed, phase, future, outcome, ready, inCall, cancelled, first>>
      /\ \A d \in Calls \ {c} : item'[d] = item[d] /\ found'[d] = found[d] /\ cb'[d] = cb[d]
  BY DEF Announce, CallbackTest, CallbackAssign, task, client
<1>2. LoopOK'
  BY <1>1, SamePlace DEF LoopOK, InClientNow
<1>3. ASSUME NEW d \in Calls, d # c
      PROVE  CallOK(d)'
  BY <1>1, <1>3, SameKeepsCall DEF SameQueue, SameCall
<1>4. \A w \in Kinds : Ready(w, c)' <=> Ready(w, c)
  BY <1>1 DEF Ready
<1>5. HandlesOK(c)' /\ AnswersOK(c)'
  BY <1>1, <1>4 DEF CallOK, HandlesOK, AnswersOK, NothingYet, InTime, Kinds, Waiting, Partial, fixed
<1>6. PostsOnce(c)'
  <2>1. PostsOnce(c) /\ (NotPosted(c)' <=> NotPosted(c)) /\ Need(c)' = Need(c) /\ Need(c) \in Nat
    BY <1>1, <1>4, NeedsParts DEF CallOK, NotPosted, Kinds, Need, fixed
  <2>2. CASE Announce(c)
    <3>1. /\ item[c] = "waiting" /\ cb[c] = "idle" /\ cb'[c] = "test"
          /\ found'[c] = found[c] + 1 /\ found[c] < Need(c) /\ NotPosted(c)
          /\ item'[c] = IF found[c] + 1 = Need(c) THEN "done" ELSE item[c]
      BY <2>1, <2>2 DEF Announce, PostsOnce
    <3>2. QED
      BY <1>1, <2>1, <3>1 DEF PostsOnce, NotPosted
  <2>3. CASE CallbackTest(c)
    <3>1. /\ cb[c] = "test" /\ UNCHANGED <<item, found>>
          /\ \/ found[c] = Need(c) /\ cb'[c] = "post"
             \/ cb'[c] \in {"idle", "assign"}
      BY <2>3 DEF CallbackTest, Resolves, Complete, AfterPost, client
    <3>2. QED
      BY <1>1, <1>4, <2>1, <3>1 DEF PostsOnce, NotPosted, Kinds
  <2>4. CASE CallbackAssign(c)
    <3>1. cb[c] = "assign" /\ cb'[c] = "idle" /\ UNCHANGED <<item, found>>
      BY <2>4 DEF CallbackAssign, client
    <3>2. QED
      BY <1>1, <1>4, <2>1, <3>1 DEF PostsOnce, NotPosted, Kinds
  <2>5. QED
    BY <2>2, <2>3, <2>4
<1>7. QED
  BY <1>2, <1>3, <1>5, <1>6 DEF CallOK

LEMMA CloseKeeps ==
  ASSUME Inv, CloseClient
  PROVE  LoopOK' /\ \A d \in Calls : CallOK(d)'
<1> USE DEF Inv, Types
<1>1. /\ UNCHANGED <<fixed, phase, future, outcome, ready, inCall, found, cb, cancelled, first>>
      /\ \A d \in Calls : item'[d] = item[d] \/ (item[d] = "waiting" /\ item'[d] = "done")
  BY DEF CloseClient, task
<1>2. LoopOK'
  BY <1>1, SamePlace DEF LoopOK, InClientNow
<1>3. ASSUME NEW d \in Calls
      PROVE  CallOK(d)'
  BY <1>1, <1>3 DEF CallOK, HandlesOK, PostsOnce, NotPosted, AnswersOK, InTime, NothingYet,
                    Ready, Waiting, Need, Partial, fixed
<1>4. QED
  BY <1>2, <1>3

(* A future that was cancelled remains so, and the only handle that        *)
(* resolves one finds it pending or cancelled.                             *)
LEMMA ErrorsKept ==
  ASSUME Inv, [Next]_vars
  PROVE  ResolvedOnce'
<1> USE DEF Inv, Types, ResolvedOnce
<1>1. ASSUME NEW c \in Calls, Resolve(c)
      PROVE  ResolvedOnce'
  <2>1. Ready("set", c)
    BY <1>1, Taken DEF Resolve
  <2>2. future[c] # "result"
    BY <2>1 DEF CallOK, PostsOnce
  <2>3. QED
    BY <1>1, <2>2 DEF Resolve
<1>2. ASSUME NEW c \in Calls, LoopStep(c), ~Resolve(c)
      PROVE  ResolvedOnce'
  BY <1>2 DEF LoopStep, InClient, Start, Register, ReturnEarly, CallBackAtOnce, ReadValue,
              Await, Expire, Resume
<1>3. ASSUME NEW c \in Calls, Cancel(c) \/ TimeIsOver(c) \/ Announce(c) \/ Callback(c)
      PROVE  ResolvedOnce'
  BY <1>3 DEF Cancel, TimeIsOver, Announce, Callback, CallbackTest, CallbackPost,
              CallbackAssign, task
<1>4. ASSUME CloseClient \/ UNCHANGED vars
      PROVE  ResolvedOnce'
  BY <1>4 DEF CloseClient, vars, task
<1>5. QED
  BY <1>1, <1>2, <1>3, <1>4 DEF Next

-----------------------------------------------------------------------------
LEMMA InvInit == Init => Inv
<1> SUFFICES ASSUME Init
             PROVE  Inv
  OBVIOUS
<1>1. Types
  <2>1. method \in [Calls -> Queries \cup Reads \cup Waits] /\ limited \subseteq Calls
    BY DEF Init
  <2>2. /\ partialAnswer \in [Calls -> 0..Parts] /\ outcome \in [Calls -> 0..Parts]
        /\ found \in [Calls -> 0..Parts] /\ closes \in 0..MaxCloses
    BY BoundsAssumption, PartsAssumption DEF Init
  <2>3. QED
    BY <2>1, <2>2 DEF Init, Types, Places
<1>2. /\ ready \in Seq(Handles) /\ IsInjective(ready)
      /\ \A h : Contains(ready, h) => h \in {Handle("start", c) : c \in Calls}
  BY FirstHandles DEF Init
<1>3. LoopOK
  BY <1>2 DEF Init, LoopOK, InClientNow
<1>4. ASSUME NEW c \in Calls
      PROVE  CallOK(c)
  <2>1. ~Ready("set", c) /\ ~Ready("timeout", c) /\ ~Ready("wake", c)
    BY <1>2, HandlesDiffer DEF Ready
  <2>2. QED
    BY <2>1 DEF Init, CallOK, HandlesOK, PostsOnce, NotPosted, AnswersOK, NothingYet
<1>5. QED
  BY <1>1, <1>3, <1>4 DEF Inv, Init, ResolvedOnce

LEMMA InvStep == Inv /\ [Next]_vars => Inv'
<1> SUFFICES ASSUME Inv, [Next]_vars
             PROVE  Inv'
  OBVIOUS
<1>1. Types' /\ ResolvedOnce'
  BY TypesKept, ErrorsKept
<1>2. ASSUME NEW c \in Calls, LoopStep(c)
      PROVE  LoopOK' /\ \A d \in Calls : CallOK(d)'
  BY <1>2, StartKeeps, RegisterKeeps, CallBackAtOnceKeeps, ReturnKeeps, ResolveKeeps,
     ExpireKeeps, ResumeKeeps DEF LoopStep, InClient
<1>3. ASSUME NEW c \in Calls, Cancel(c) \/ TimeIsOver(c) \/ Announce(c) \/ Callback(c)
      PROVE  LoopOK' /\ \A d \in Calls : CallOK(d)'
  BY <1>3, CancelKeeps, TimeKeeps, ProcessingKeeps, CallbackPostKeeps DEF Callback
<1>4. CASE UNCHANGED vars
  <2>1. LoopOK' /\ \A d \in Calls : SameQueue(d) /\ SameCall(d) /\ UNCHANGED fixed
    BY <1>4, SamePlace DEF Inv, LoopOK, vars, task, client, InClientNow, SameQueue, SameCall
  <2>2. QED
    BY <1>1, <2>1, SameKeepsCall DEF Inv
<1>5. QED
  BY <1>1, <1>2, <1>3, <1>4, CloseKeeps DEF Next, Inv

LEMMA InvHolds == Spec => []Inv
BY InvInit, InvStep, PTL DEF Spec

(* The event loop: its ready queue holds each handle once and only of the  *)
(* calls' kinds, and it is inside the client for one call at most          *)
(* (client_async.py 44-91).                                                *)
THEOREM AsyncCallsTypes == Spec => []TypeOK
<1>1. Inv => TypeOK
  BY DEF Inv, Types, LoopOK, InClientNow, TypeOK
<1>2. QED
  BY <1>1, InvHolds, PTL

(* The callback resolves the future of a call once: InvalidStateError is   *)
(* raised in the loop only for a future that was cancelled between the     *)
(* callback's look at it and the loop's turn (client_async.py 51, 64, 82). *)
THEOREM FuturesAreResolvedOnce == Spec => []ResolvedOnce
<1>1. Inv => ResolvedOnce
  BY DEF Inv
<1>2. QED
  BY <1>1, InvHolds, PTL

(* A whole answer that was posted before the timeout came due is what the  *)
(* coroutine returns, whatever other tasks, cancellations and callbacks    *)
(* run between (client_async.py 50-57, 63-71).                             *)
THEOREM AnswersBeatTimeouts == Spec => []AnswerBeatsTimeout
<1>1. Inv => AnswerBeatsTimeout
  BY DEF Inv, CallOK, AnswersOK, AnswerBeatsTimeout
<1>2. QED
  BY <1>1, InvHolds, PTL
=============================================================================
