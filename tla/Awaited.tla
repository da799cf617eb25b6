-------------------------------- MODULE Awaited --------------------------------
(***************************************************************************)
(* AwaitedCollection and Awaited of src/client/awaited.h: how a call such  *)
(* as get_message or wait_nodes waits for something that another thread    *)
(* announces with check, until a deadline or a cancel.                     *)
(*                                                                         *)
(* Actors: one thread per wait, the thread that announces events, and the  *)
(* one that cancels (Client::stop).  The mutex of the collection guards    *)
(* the list of items; each item has a mutex and a condition variable of    *)
(* its own.  `complete' is read and written outside both: by check before  *)
(* it locks, by the waiting thread after a timeout.                        *)
(*                                                                         *)
(* One collection is modelled, of one of three kinds, which Init chooses:  *)
(*   single     AwaitedMessage, AwaitedNode, AwaitedTarget                 *)
(*   nodes      AwaitedNodes, with the callers wait_nodes and wait_node    *)
(*   variables  AwaitedVariables: an event is one part of the answer       *)
(***************************************************************************)
EXTENDS Integers, FiniteSets, SequencesExt

CONSTANTS
  Kinds,      \* some of single, nodes and variables
  Waits,      \* calls of wait
  Events,     \* what can be announced
  NoEvent,    \* not one of them
  Want,       \* of a wait: the events that match it
  Need,       \* of a wait: how many nodes or parts complete it
  Timed,      \* of a kind: the waits with wait_ms > 0
  Called,     \* of a kind: the waits with a callback
  MaxChecks,  \* bound: announcements
  MaxCancels  \* bound: calls of cancel

ASSUME KindAssumption == Kinds \subseteq {"single", "nodes", "variables"}
ASSUME NoEventAssumption == NoEvent \notin Events
ASSUME WantAssumption == Want \in [Waits -> SUBSET Events]
ASSUME NeedAssumption == Need \in [Waits -> Nat \ {0}]
ASSUME SubsetsAssumption ==
  Timed \in [Kinds -> SUBSET Waits] /\ Called \in [Kinds -> SUBSET Waits]
ASSUME BoundsAssumption == MaxChecks \in Nat /\ MaxCancels \in Nat

VARIABLES
  kind,       \* which collection this is
  items,      \* the list of items, in order; an item is named by its wait
  phase,      \* where the thread of a wait is
  complete,   \* Awaited::complete
  got,        \* what update has collected
  late,       \* the waits whose deadline has passed
  notified,   \* the waits whose cv was notified
  world,      \* for nodes: the nodes that are connected
  event, at, todo,   \* the announcing thread: event, place, items to check
  cancelling, \* cancel holds the mutex of the collection
  checks, cancels,   \* how many so far
  result,     \* what a wait returned
  start,      \* history: the value a wait began with
  heard,      \* history: matching events announced since it registered
  calls,      \* history: callbacks made with a complete answer
  answered,   \* history: waits completed by an event before their deadline
  orphans     \* history: waits whose item was destroyed while they used it

waiting == <<phase, result, start>>
item == <<complete, got, notified>>
checking == <<event, at, todo, checks>>
canceling == <<cancelling, cancels>>
vars == <<kind, items, phase, complete, got, late, notified, world, event, at, todo,
          cancelling, checks, cancels, result, start, heard, calls, answered,
          orphans>>

Phases == {"new", "ready", "enter", "blocked", "reading", "done"}
Using == {"enter", "blocked", "reading"}
Places == {"idle", "begin", "read", "lock", "call", "notify"}

TypeOK ==
  /\ kind \in Kinds
  /\ items \in Seq(Waits) /\ IsInjective(items)
  /\ phase \in [Waits -> Phases]
  /\ complete \in [Waits -> BOOLEAN]
  /\ got \in [Waits -> SUBSET Events] /\ result \in [Waits -> SUBSET Events]
  /\ late \subseteq Timed[kind] /\ notified \subseteq Waits
  /\ world \subseteq Events
  /\ event \in Events \cup {NoEvent}
  /\ at \in Places /\ IsSuffix(todo, items)
  /\ cancelling \in BOOLEAN /\ (cancelling => at \in {"idle", "begin"})
  /\ checks \in 0..MaxChecks /\ cancels \in 0..MaxCancels
  /\ calls \in [Waits -> Nat]
  /\ answered \subseteq Waits /\ orphans \subseteq Waits

Init ==
  /\ kind \in Kinds
  /\ items = <<>>
  /\ phase = [w \in Waits |-> "new"]
  /\ complete = [w \in Waits |-> FALSE]
  /\ got = [w \in Waits |-> {}] /\ result = [w \in Waits |-> {}]
  /\ late = {} /\ notified = {}
  /\ world = {}
  /\ event = NoEvent /\ at = "idle" /\ todo = <<>>
  /\ cancelling = FALSE /\ checks = 0 /\ cancels = 0
  /\ start = [w \in Waits |-> {}] /\ heard = [w \in Waits |-> <<>>]
  /\ calls = [w \in Waits |-> 0]
  /\ answered = {} /\ orphans = {}

-----------------------------------------------------------------------------
(* The mutex of the collection is held during a whole check or cancel. *)
MutexFree == ~cancelling /\ at \in {"idle", "begin"}

(* The mutex of an item is held while the callback runs. *)
ItemFree(w) == ~(at = "call" /\ Head(todo) = w)

Enough(w, collected) ==
  Cardinality(collected) >= (IF kind = "single" THEN 1 ELSE Need[w])

(* AwaitedVariables assigns its value only when it has all the parts. *)
Value(w) ==
  IF kind = "variables" /\ ~Enough(w, got[w]) THEN start[w] ELSE got[w]

(* What is left of a list by remove_if: the items of `kept', in their order *)
(* (SelectSeq, by the positions of the items).                              *)
Remaining(list, kept) ==
  LET places == {i \in DOMAIN list : list[i] \in kept}
      Rank(i) == Cardinality({j \in places : j <= i})
  IN  [k \in 1..Cardinality(places) |-> list[CHOOSE i \in places : Rank(i) = k]]

(* Items leave the list and are destroyed, in use or not. *)
Destroy(gone) ==
  orphans' = orphans \cup {w \in gone : phase[w] \in Using}

-----------------------------------------------------------------------------
(* Mutated forms of the operations below, each with one plausible mistake; *)
(* they are never part of Next.                                            *)
CheckReadAlways ==  \* no early return for complete items
  /\ at = "read" /\ todo # <<>>
  /\ at' = "lock"
  /\ UNCHANGED <<kind, items, waiting, item, late, world, event, todo, canceling,
                 checks, heard, calls, answered, orphans>>

TimeoutDiscarding(w) ==  \* the value is dropped when the deadline comes first
  /\ phase[w] = "blocked" /\ w \in late /\ ItemFree(w) /\ w \notin orphans
  /\ phase' = [phase EXCEPT ![w] = "reading"]
  /\ complete' = [complete EXCEPT ![w] = TRUE]
  /\ got' = [got EXCEPT ![w] = start[w]]
  /\ UNCHANGED <<kind, items, result, start, notified, late, world, checking,
                 canceling, heard, calls, answered, orphans>>

TimeoutNever(w) ==  \* cv.wait instead of cv.wait_until
  /\ phase[w] = "blocked" /\ w \in late /\ complete[w] /\ ItemFree(w)
  /\ w \notin orphans
  /\ phase' = [phase EXCEPT ![w] = "reading"]
  /\ UNCHANGED <<kind, items, result, start, item, late, world, checking,
                 canceling, heard, calls, answered, orphans>>

-----------------------------------------------------------------------------
(* What the caller does before wait: wait_nodes collects the nodes that    *)
(* are already connected and returns them if their number is the one       *)
(* asked for; the others go straight to wait.                              *)
Peek(w) ==
  /\ phase[w] = "new"
  /\ LET current == IF kind = "nodes" THEN world \cap Want[w] ELSE {}
         met == kind = "nodes" /\ Cardinality(current) = Need[w]
     IN  /\ start' = [start EXCEPT ![w] = current]
         /\ phase' = [phase EXCEPT ![w] = IF met THEN "done" ELSE "ready"]
         /\ IF met THEN result' = [result EXCEPT ![w] = current]
            ELSE UNCHANGED result
         /\ calls' = IF met /\ w \in Called[kind] THEN [calls EXCEPT ![w] = @ + 1]
                     ELSE calls
  /\ UNCHANGED <<kind, items, item, late, world, checking, canceling, heard,
                 answered, orphans>>

(* wait(): without a timeout and a callback it returns at once, *)
ReturnAtOnce(w) ==
  /\ phase[w] = "ready" /\ w \notin Timed[kind] \cup Called[kind]
  /\ result' = [result EXCEPT ![w] = start[w]]
  /\ phase' = [phase EXCEPT ![w] = "done"]
  /\ UNCHANGED <<kind, items, start, item, late, world, checking, canceling,
                 heard, calls, answered, orphans>>

(* else it removes the complete items, whoever uses them, and adds its own; *)
(* only a wait with a timeout waits for it.                                 *)
Register(w) ==
  /\ phase[w] = "ready" /\ w \in Timed[kind] \cup Called[kind]
  /\ MutexFree
  /\ items' = Append(Remaining(items, {i \in Waits : ~complete[i]}), w)
  /\ Destroy({i \in Range(items) : complete[i]})
  /\ got' = [got EXCEPT ![w] = start[w]]
  /\ phase' = [phase EXCEPT ![w] = IF w \in Timed[kind] THEN "enter" ELSE "reading"]
  /\ UNCHANGED <<kind, complete, notified, result, start, late, world, checking,
                 canceling, heard, calls, answered>>

(* Awaited::wait(): returns at once if complete, else blocks. *)
Enter(w) ==
  /\ phase[w] = "enter" /\ w \notin orphans
  /\ complete[w] \/ ItemFree(w)
  /\ phase' = [phase EXCEPT ![w] = IF complete[w] THEN "reading" ELSE "blocked"]
  /\ UNCHANGED <<kind, items, result, start, item, late, world, checking,
                 canceling, heard, calls, answered, orphans>>

(* A notified thread evaluates complete again; both ways set complete.     *)
Wake(w) ==
  /\ phase[w] = "blocked" /\ w \in notified /\ ItemFree(w) /\ w \notin orphans
  /\ notified' = notified \ {w}
  /\ IF complete[w] THEN phase' = [phase EXCEPT ![w] = "reading"]
     ELSE UNCHANGED phase
  /\ UNCHANGED <<kind, items, result, start, complete, got, late, world,
                 checking, canceling, heard, calls, answered, orphans>>

Timeout(w) ==
  /\ phase[w] = "blocked" /\ w \in late /\ ItemFree(w) /\ w \notin orphans
  /\ phase' = [phase EXCEPT ![w] = "reading"]
  /\ complete' = [complete EXCEPT ![w] = TRUE]
  /\ UNCHANGED <<kind, items, result, start, got, notified, late, world,
                 checking, canceling, heard, calls, answered, orphans>>

(* The end of wait: reads the value of the item, without its mutex. *)
Return(w) ==
  /\ phase[w] = "reading" /\ w \notin orphans
  /\ result' = [result EXCEPT ![w] = Value(w)]
  /\ phase' = [phase EXCEPT ![w] = "done"]
  /\ UNCHANGED <<kind, items, start, item, late, world, checking, canceling,
                 heard, calls, answered, orphans>>

(* A wait whose item was destroyed under it: it wakes or not, and reads    *)
(* what it finds.                                                          *)
ReadDestroyed(w) ==
  /\ phase[w] \in Using /\ w \in orphans
  /\ \E found \in SUBSET Events : result' = [result EXCEPT ![w] = found]
  /\ phase' = [phase EXCEPT ![w] = "done"]
  /\ UNCHANGED <<kind, items, start, item, late, world, checking, canceling,
                 heard, calls, answered, orphans>>

(* Time: the deadline of a wait passes. *)
Deadline(w) ==
  /\ w \in Timed[kind] \ late /\ phase[w] \in Using
  /\ late' = late \cup {w}
  /\ UNCHANGED <<kind, items, waiting, item, world, checking, canceling, heard,
                 calls, answered, orphans>>

-----------------------------------------------------------------------------
(* Something happens: a message arrives, a node connects; its thread will  *)
(* announce it.                                                            *)
Happen(e) ==
  /\ at = "idle" /\ checks < MaxChecks
  /\ event' = e /\ at' = "begin" /\ checks' = checks + 1
  /\ world' = IF kind = "nodes" THEN world \cup {e} ELSE world
  /\ UNCHANGED <<kind, items, waiting, item, late, todo, canceling, heard, calls,
                 answered, orphans>>

(* AwaitedCollection::check(): with its mutex, item after item, *)
BeginCheck ==
  /\ at = "begin" /\ MutexFree
  /\ at' = "read" /\ todo' = items
  /\ heard' = [w \in Waits |->
                 IF Contains(items, w) /\ event \in Want[w]
                 THEN Append(heard[w], event) ELSE heard[w]]
  /\ UNCHANGED <<kind, items, waiting, item, late, world, event, canceling,
                 checks, calls, answered, orphans>>

(* Awaited::check(): reads complete without the mutex of the item,         *)
CheckRead ==
  /\ at = "read" /\ todo # <<>>
  /\ IF complete[Head(todo)] THEN todo' = Tail(todo) /\ UNCHANGED at
     ELSE at' = "lock" /\ UNCHANGED todo
  /\ UNCHANGED <<kind, items, waiting, item, late, world, event, canceling,
                 checks, heard, calls, answered, orphans>>

(* then, with it, overwrites complete with what update returns, whatever   *)
(* it has become meanwhile; the callback runs unless the deadline passed.  *)
CheckUpdate ==
  /\ at = "lock"
  /\ LET w == Head(todo)
         collected == IF event \in Want[w] THEN got[w] \cup {event} ELSE got[w]
         done == event \in Want[w] /\ Enough(w, collected)
         call == w \in Called[kind] /\ (done \/ kind = "nodes") /\ w \notin late
     IN  /\ got' = [got EXCEPT ![w] = collected]
         /\ complete' = [complete EXCEPT ![w] = done]
         /\ answered' = IF done /\ w \notin late THEN answered \cup {w} ELSE answered
         /\ at' = IF call THEN "call" ELSE IF done THEN "notify" ELSE "read"
         /\ todo' = IF call \/ done THEN todo ELSE Tail(todo)
  /\ UNCHANGED <<kind, items, waiting, notified, late, world, event, canceling,
                 checks, heard, calls, orphans>>

CheckCall ==
  /\ at = "call"
  /\ LET w == Head(todo)
     IN  IF complete[w]
         THEN calls' = [calls EXCEPT ![w] = @ + 1] /\ at' = "notify" /\ UNCHANGED todo
         ELSE at' = "read" /\ todo' = Tail(todo) /\ UNCHANGED calls
  /\ UNCHANGED <<kind, items, waiting, item, late, world, event, canceling,
                 checks, heard, answered, orphans>>

CheckNotify ==
  /\ at = "notify"
  /\ notified' = notified \cup {Head(todo)}
  /\ todo' = Tail(todo) /\ at' = "read"
  /\ UNCHANGED <<kind, items, waiting, complete, got, late, world, event,
                 canceling, checks, heard, calls, answered, orphans>>

EndCheck ==
  /\ at = "read" /\ todo = <<>>
  /\ at' = "idle" /\ event' = NoEvent
  /\ UNCHANGED <<kind, items, waiting, item, late, world, todo, canceling,
                 checks, heard, calls, answered, orphans>>

-----------------------------------------------------------------------------
(* cancel(): completes and notifies every item, *)
BeginCancel ==
  /\ MutexFree /\ cancels < MaxCancels
  /\ cancelling' = TRUE /\ cancels' = cancels + 1
  /\ LET open == {w \in Range(items) : ~complete[w]}
     IN  /\ complete' = [w \in Waits |-> w \in open \/ complete[w]]
         /\ notified' = notified \cup open
  /\ UNCHANGED <<kind, items, waiting, got, late, world, checking, heard, calls,
                 answered, orphans>>

(* and destroys them all. *)
EndCancel ==
  /\ cancelling
  /\ items' = <<>>
  /\ Destroy(Range(items))
  /\ cancelling' = FALSE
  /\ UNCHANGED <<kind, waiting, item, late, world, checking, cancels, heard,
                 calls, answered>>

-----------------------------------------------------------------------------
WaitStep(w) ==
  \/ ReturnAtOnce(w) \/ Register(w) \/ Enter(w) \/ Wake(w) \/ Timeout(w)
  \/ Return(w)

CheckStep ==
  BeginCheck \/ CheckRead \/ CheckUpdate \/ CheckCall \/ CheckNotify \/ EndCheck

Next ==
  \/ \E w \in Waits : Peek(w) \/ WaitStep(w) \/ ReadDestroyed(w) \/ Deadline(w)
  \/ \E e \in Events : Happen(e)
  \/ CheckStep
  \/ BeginCancel
  \/ EndCancel

(* Threads run, callbacks return, and deadlines pass. *)
Fairness ==
  /\ \A w \in Waits : WF_vars(WaitStep(w)) /\ WF_vars(Deadline(w))
  /\ WF_vars(CheckStep) /\ WF_vars(EndCancel)

Spec == Init /\ [][Next]_vars /\ Fairness
-----------------------------------------------------------------------------
(* A wait is answered once: its callback gets at most one complete answer, *)
(* although check may undo a complete that the waiting thread has set      *)
(* after a timeout (awaited.h 74-93, 106-116).                             *)
CalledOnce == \A w \in Waits : calls[w] <= 1

(* No lost wakeup: a thread blocked on a complete item has been notified,  *)
(* or the announcing thread is about to notify it (awaited.h 74-116).      *)
NoLostWakeup ==
  \A w \in Waits \ orphans :
    phase[w] = "blocked" /\ complete[w] =>
      w \in notified \/ (at \in {"call", "notify"} /\ Head(todo) = w)

(* A wait returns the first matching events announced since it registered, *)
(* in order and no more than it needs, or a part of them when its deadline *)
(* comes first, a late answer and a cancel included.                       *)
Before(w, n) == start[w] \cup ToSet(SubSeq(heard[w], 1, n))

ResultIsHeard ==
  \A w \in Waits \ orphans :
    phase[w] = "done" =>
      \E n \in 0..Len(heard[w]) :
        /\ result[w] = Before(w, n)
        /\ \A m \in 1..(n - 1) : ~Enough(w, Before(w, m))

(* get_variable and get_all_variables return all the parts of the answer,  *)
(* of whatever messages, or nothing (awaited.h 294-312).                   *)
AllOrNothing ==
  \A w \in Waits \ orphans :
    kind = "variables" /\ phase[w] = "done" => result[w] = {} \/ Enough(w, result[w])

(* An answer that came in time is returned, even if the deadline passes    *)
(* before its thread runs again (wait_until).  Only others can take it     *)
(* from the thread, between the answer and its reading of it: another wait *)
(* that registers, which destroys the complete items (awaited.h 152), or a *)
(* cancel (141).  A thread that waits alone and is not cancelled never     *)
(* loses it (python.cpp 1403: "A message or None if not received in        *)
(* time."; with others the code breaks this, see ReceivedInTime).          *)
LostToOthers(w) ==
  /\ w \in orphans /\ complete[w]
  /\ cancels > 0 \/ \E v \in Waits \ {w} : phase[v] \notin {"new", "ready"}

AnswersAreLostToOthers ==
  \A w \in Timed[kind] \cap answered :
    phase[w] = "done" => Enough(w, result[w]) \/ LostToOthers(w)

(* Every wait with a timeout returns, unless its item is destroyed first:  *)
(* the announcing thread, a cancel and the other waits cannot hold it for  *)
(* ever (awaited.h 106-116, 144-159).                                      *)
WaitsReturn ==
  \A w \in Waits :
    (w \in Timed[kind] /\ phase[w] = "ready") ~> (phase[w] = "done" \/ w \in orphans)

(* A message received in time is returned by get_message (python.cpp 1403: *)
(* "A message or None if not received in time.").                          *)
ReceivedInTime ==
  \A w \in Timed[kind] \cap answered : phase[w] = "done" => Enough(w, result[w])

(* wait_nodes does not wait for more nodes than it was asked for           *)
(* (python.cpp 976: "Waits until one node is discovered.").                *)
MetDoesNotWait ==
  \A w \in Waits : phase[w] = "blocked" => ~Enough(w, start[w])

(* A node discovered before wait_nodes blocks is not missed (python.cpp    *)
(* 953: "Waits until nodes are discovered.").                              *)
DiscoveredIsNotMissed ==
  \A w \in Waits :
    phase[w] = "blocked" /\ at = "idle" /\ ~complete[w] =>
      world \cap Want[w] \subseteq got[w]
=============================================================================
