------------------------------ MODULE AsyncCalls ------------------------------
(***************************************************************************)
(* The asynchronous client of client/client_async.py: how a coroutine of   *)
(* ClientAsync calls the client without blocking the event loop, with a    *)
(* callback that resolves a future, and how it returns.                    *)
(*                                                                         *)
(* Actors: the event loop, which runs one handle of its ready queue after  *)
(* the other; the client's processing thread, which makes the callbacks    *)
(* and posts handles with call_soon_threadsafe; and time.  While the loop  *)
(* is inside a call of the client it has released the interpreter lock     *)
(* (awaited.h 150), and the processing thread runs.                        *)
(*                                                                         *)
(* There are three wrappers.  call_async and call_async_tuple ("whole")    *)
(* await the answer; call_async_partial ("partial") also keeps the latest  *)
(* partial answer.  An answer is the number of parts received, of the      *)
(* Parts that make it complete; a message is one part.                     *)
(***************************************************************************)
EXTENDS Naturals, Sequences, FiniteSets, SequencesExt

CONSTANTS
  Calls,         \* calls, each in a task of its own
  Callable,       \* the coroutines that each may be a call of
  Parts,         \* the parts of a complete answer to a partial call
  MaxCancels,    \* bound on the tasks that are cancelled
  MaxCloses      \* bound on the times that the client is closed

ASSUME CallsAssumption == IsFiniteSet(Calls)
ASSUME PartsAssumption == Parts \in Nat \ {0}
ASSUME BoundsAssumption == MaxCancels \in Nat /\ MaxCloses \in Nat

(* The coroutines, by the wrapper they use and what the client may do      *)
(* instead of waiting: return at once without a callback ("early": the     *)
(* node is known, or unknown, the event or variable is not there, the      *)
(* connection is open), or make the callback before it returns ("met").    *)
Coroutine(form, early, met) == [form |-> form, early |-> early, met |-> met]

(* scan, query_description, query_description_fragment, query_device_info, *)
(* query_device_name, query_device_uuid, query_thymio_rf_settings.         *)
Queries ==
  {Coroutine("partial", FALSE, FALSE), Coroutine("whole", TRUE, FALSE),
   Coroutine("whole", FALSE, FALSE)}

(* get_message; get_event, get_variable, get_all_variables and             *)
(* get_changed_variables.                                                  *)
Reads == {Coroutine("whole", FALSE, FALSE), Coroutine("whole", TRUE, FALSE)}

(* wait_nodes; wait_connection and wait_disconnection; wait_node and       *)
(* wait_node_disconnection.                                                *)
Waits ==
  {Coroutine("partial", FALSE, TRUE), Coroutine("whole", TRUE, FALSE),
   Coroutine("whole", FALSE, TRUE)}

VARIABLES
  method,        \* the coroutine of each call
  limited,       \* the calls with wait_ms > 0
  phase,         \* where the coroutine is
  future,        \* its future
  partialAnswer, \* p of call_async_partial
  expired,       \* calls whose timeout has run
  outcome,       \* parts returned
  ready,         \* the ready queue of the event loop
  inCall,        \* the loop is inside a call of the client
  item,          \* the wait that the client registered for a call
  found,         \* parts that it has received
  cb,            \* where the processing thread is in its callback
  cancelled,     \* calls whose task was cancelled
  closes,
  first,         \* history: what was posted first, the answer or the timeout
  errors         \* history: calls whose future was resolved when it could not be

task == <<phase, future, partialAnswer, expired, outcome>>
client == <<item, found>>
fixed == <<method, limited>>
vars == <<fixed, task, ready, inCall, client, cb, cancelled, closes, first, errors>>

Handle(what, c) == [what |-> what, of |-> c]
Handles == [what : {"start", "set", "timeout", "wake"}, of : Calls]
Places == {"new", "asking", "asked", "returning", "waiting", "done", "raised"}
Need(c) == IF method[c].form = "partial" THEN Parts ELSE 1

TypeOK ==
  /\ method \in [Calls -> Queries \cup Reads \cup Waits] /\ limited \subseteq Calls
  /\ phase \in [Calls -> Places]
  /\ future \in [Calls -> {"pending", "result", "cancelled"}]
  /\ partialAnswer \in [Calls -> 0..Parts] /\ outcome \in [Calls -> 0..Parts]
  /\ expired \subseteq limited /\ cancelled \subseteq Calls
  /\ ready \in Seq(Handles) /\ IsInjective(ready)
  /\ inCall <=> \E c \in Calls : phase[c] \in {"asking", "asked", "returning"}
  /\ item \in [Calls -> {"none", "waiting", "done"}] /\ found \in [Calls -> 0..Parts]
  /\ cb \in [Calls -> {"idle", "test", "post", "assign"}]
  /\ closes \in 0..MaxCloses
  /\ first \in [Calls -> {"none", "answer", "timeout"}] /\ errors \subseteq Calls

Init ==
  /\ method \in [Calls -> Queries \cup Reads \cup Waits]
  /\ \A c \in Calls : method[c] \in Callable[c]
  /\ limited \in SUBSET Calls
  /\ phase = [c \in Calls |-> "new"] /\ future = [c \in Calls |-> "pending"]
  /\ partialAnswer = [c \in Calls |-> 0] /\ outcome = [c \in Calls |-> 0]
  /\ expired = {} /\ cancelled = {} /\ closes = 0
  /\ ready = SetToSeq({Handle("start", c) : c \in Calls})
  /\ inCall = FALSE
  /\ item = [c \in Calls |-> "none"] /\ found = [c \in Calls |-> 0]
  /\ cb = [c \in Calls |-> "idle"]
  /\ first = [c \in Calls |-> "none"] /\ errors = {}

-----------------------------------------------------------------------------
Partial(c) == method[c].form = "partial"
Waiting(c) == phase[c] = "waiting"
Complete(c) == found[c] = Need(c)

(* The coroutine runs again, once. *)
Woken(c, q) == IF Contains(q, Handle("wake", c)) THEN q ELSE Append(q, Handle("wake", c))

(* The loop takes its next handle. *)
Takes(what, c) == ~inCall /\ ready # <<>> /\ Head(ready) = Handle(what, c)

(* Mutated forms of what follows; never part of Next. *)
Untested(c) ==  \* the callback of a partial call always resolves the future
  future[c] # "cancelled"

WholeAnswerFirst(c) ==  \* asyncio.wait_for for whole answers: r when it timed out
  IF c \in expired THEN 0 ELSE Need(c)

PostNothing(c) ==  \* the loop is not told
  UNCHANGED <<ready, first>>

Post(c) ==
  /\ ready' = Append(ready, Handle("set", c))
  /\ first' = IF first[c] = "none" THEN [first EXCEPT ![c] = "answer"] ELSE first

-----------------------------------------------------------------------------
(* The task starts and calls the client, f(wait_ms=0, callback=cb). *)
Start(c) ==
  /\ Takes("start", c)
  /\ ready' = Tail(ready) /\ inCall' = TRUE
  /\ phase' = [phase EXCEPT ![c] = "asking"]
  /\ UNCHANGED <<fixed, future, partialAnswer, expired, outcome, client, cb,
                 cancelled, closes, first, errors>>

Asked(c) == phase[c] = "asking" /\ phase' = [phase EXCEPT ![c] = "asked"]

(* The client registers a wait with the callback, *)
Register(c) ==
  /\ Asked(c)
  /\ item' = [item EXCEPT ![c] = "waiting"]
  /\ UNCHANGED <<fixed, future, partialAnswer, expired, outcome, ready, inCall, found,
                 cb, cancelled, closes, first, errors>>

(* or returns without one, *)
ReturnEarly(c) ==
  /\ method[c].early /\ Asked(c)
  /\ UNCHANGED <<fixed, future, partialAnswer, expired, outcome, ready, inCall, client,
                 cb, cancelled, closes, first, errors>>

(* or makes the callback itself, in the loop's thread. *)
CallBackAtOnce(c) ==
  /\ method[c].met /\ Asked(c)
  /\ found' = [found EXCEPT ![c] = Need(c)]
  /\ Post(c)
  /\ UNCHANGED <<fixed, future, partialAnswer, expired, outcome, inCall, item,
                 cb, cancelled, closes, errors>>

(* It reads the value to return, *)
ReadValue(c) ==
  /\ phase[c] = "asked"
  /\ phase' = [phase EXCEPT ![c] = "returning"]
  /\ outcome' = [outcome EXCEPT ![c] = found[c]]
  /\ UNCHANGED <<fixed, future, partialAnswer, expired, ready, inCall, client,
                 cb, cancelled, closes, first, errors>>

(* and returns: p = f(...) in call_async_partial, whatever the callback    *)
(* has assigned to p meanwhile.  The coroutine awaits its future; wait_for *)
(* without time cancels it.                                                *)
Await(c) ==
  /\ phase[c] = "returning"
  /\ phase' = [phase EXCEPT ![c] = "waiting"] /\ inCall' = FALSE
  /\ partialAnswer' = IF Partial(c) THEN [partialAnswer EXCEPT ![c] = outcome[c]]
                      ELSE partialAnswer
  /\ IF Partial(c) /\ c \notin limited
     THEN future' = [future EXCEPT ![c] = "cancelled"] /\ ready' = Woken(c, ready)
     ELSE UNCHANGED <<future, ready>>
  /\ outcome' = [outcome EXCEPT ![c] = 0]
  /\ UNCHANGED <<fixed, expired, client, cb, cancelled, closes, first, errors>>

(* set_result: the coroutine runs next; a future that is not pending makes *)
(* it raise InvalidStateError.                                             *)
Resolve(c) ==
  /\ Takes("set", c)
  /\ IF future[c] = "pending"
     THEN /\ future' = [future EXCEPT ![c] = "result"]
          /\ ready' = IF Waiting(c) THEN Woken(c, Tail(ready)) ELSE Tail(ready)
          /\ UNCHANGED errors
     ELSE errors' = errors \cup {c} /\ ready' = Tail(ready) /\ UNCHANGED future
  /\ UNCHANGED <<fixed, phase, partialAnswer, expired, outcome, inCall, client,
                 cb, cancelled, closes, first>>

(* The time is over: asyncio.wait leaves the future as it is, wait_for     *)
(* cancels the task, and with it a pending future.                         *)
Expires(c) == c \in limited

Expire(c) ==
  /\ Takes("timeout", c)
  /\ IF Waiting(c)
     THEN /\ expired' = expired \cup {c}
          /\ ready' = Woken(c, Tail(ready))
          /\ future' = IF Partial(c) /\ future[c] = "pending"
                       THEN [future EXCEPT ![c] = "cancelled"] ELSE future
     ELSE ready' = Tail(ready) /\ UNCHANGED <<expired, future>>
  /\ UNCHANGED <<fixed, phase, partialAnswer, outcome, inCall, client, cb,
                 cancelled, closes, first, errors>>

(* What the coroutine returns: the result of the future, or what the       *)
(* client returned, or the latest partial answer.                          *)
WholeAnswer(c) == IF future[c] = "result" THEN Need(c) ELSE 0

LatestAnswer(c) ==
  IF c \in expired \/ future[c] = "cancelled" THEN partialAnswer[c] ELSE Parts

Resume(c) ==
  /\ Takes("wake", c)
  /\ ready' = Tail(ready)
  /\ IF c \in cancelled
     THEN phase' = [phase EXCEPT ![c] = "raised"] /\ UNCHANGED outcome
     ELSE /\ phase' = [phase EXCEPT ![c] = "done"]
          /\ outcome' = [outcome EXCEPT ![c] = IF Partial(c) THEN LatestAnswer(c)
                                               ELSE WholeAnswer(c)]
  /\ UNCHANGED <<fixed, future, partialAnswer, expired, inCall, client, cb,
                 cancelled, closes, first, errors>>

(* Another task of the loop cancels the task: the future it awaits is      *)
(* cancelled, not one inside asyncio.wait.                                 *)
Cancel(c) ==
  /\ ~inCall /\ Waiting(c) /\ c \notin cancelled /\ Cardinality(cancelled) < MaxCancels
  /\ cancelled' = cancelled \cup {c}
  /\ future' = IF future[c] = "pending" /\ (Partial(c) \/ c \notin limited)
               THEN [future EXCEPT ![c] = "cancelled"] ELSE future
  /\ ready' = Woken(c, ready)
  /\ UNCHANGED <<fixed, phase, partialAnswer, expired, outcome, inCall, client,
                 cb, closes, first, errors>>

-----------------------------------------------------------------------------
(* Time: the timeout of a coroutine that waits becomes due, once. *)
TimeIsOver(c) ==
  /\ Waiting(c) /\ Expires(c) /\ c \notin expired
  /\ ~Contains(ready, Handle("timeout", c))
  /\ ready' = Append(ready, Handle("timeout", c))
  /\ first' = IF first[c] = "none" THEN [first EXCEPT ![c] = "timeout"] ELSE first
  /\ UNCHANGED <<fixed, task, inCall, client, cb, cancelled, closes, errors>>

(* A part of an answer comes: the wait is updated, and calls back if it is *)
(* complete or the answer partial.                                         *)
Announce(c) ==
  /\ item[c] = "waiting" /\ \A d \in Calls : cb[d] = "idle"
  /\ found' = [found EXCEPT ![c] = @ + 1]
  /\ item' = IF found[c] + 1 = Need(c) THEN [item EXCEPT ![c] = "done"] ELSE item
  /\ cb' = [cb EXCEPT ![c] = "test"]
  /\ UNCHANGED <<fixed, task, ready, inCall, cancelled, closes, first, errors>>

(* The callback: `if complete and not future.cancelled()', *)
Resolves(c) == Complete(c) /\ future[c] # "cancelled"

AfterPost(c) == IF Partial(c) THEN "assign" ELSE "idle"

CallbackTest(c) ==
  /\ cb[c] = "test"
  /\ cb' = [cb EXCEPT ![c] = IF Resolves(c) THEN "post" ELSE AfterPost(c)]
  /\ UNCHANGED <<fixed, task, ready, inCall, client, cancelled, closes, first, errors>>

(* call_soon_threadsafe, *)
CallbackPost(c) ==
  /\ cb[c] = "post"
  /\ Post(c)
  /\ cb' = [cb EXCEPT ![c] = AfterPost(c)]
  /\ UNCHANGED <<fixed, task, inCall, client, cancelled, closes, errors>>

(* and `p = arg' in a partial call. *)
CallbackAssign(c) ==
  /\ cb[c] = "assign"
  /\ partialAnswer' = [partialAnswer EXCEPT ![c] = found[c]]
  /\ cb' = [cb EXCEPT ![c] = "idle"]
  /\ UNCHANGED <<fixed, phase, future, expired, outcome, ready, inCall, client,
                 cancelled, closes, first, errors>>

(* Closing the client cancels all waits, and makes no callback. *)
CloseClient ==
  /\ ~inCall /\ closes < MaxCloses
  /\ closes' = closes + 1
  /\ item' = [c \in Calls |-> IF item[c] = "waiting" THEN "done" ELSE item[c]]
  /\ UNCHANGED <<fixed, task, ready, inCall, found, cb, cancelled, first, errors>>

-----------------------------------------------------------------------------
InClient(c) == Register(c) \/ ReturnEarly(c) \/ CallBackAtOnce(c) \/ ReadValue(c) \/ Await(c)

LoopStep(c) == Start(c) \/ InClient(c) \/ Resolve(c) \/ Expire(c) \/ Resume(c)

Callback(c) == CallbackTest(c) \/ CallbackPost(c) \/ CallbackAssign(c)

Next ==
  \/ \E c \in Calls : LoopStep(c) \/ Cancel(c) \/ TimeIsOver(c) \/ Announce(c) \/ Callback(c)
  \/ CloseClient

(* The loop runs its handles, calls of the client and callbacks return, *)
(* and timeouts become due.  Nobody is obliged to answer.               *)
Fairness ==
  /\ \A c \in Calls : WF_vars(LoopStep(c)) /\ WF_vars(TimeIsOver(c))
  /\ \A c \in Calls : WF_vars(Callback(c))

Spec == Init /\ [][Next]_vars /\ Fairness
-----------------------------------------------------------------------------
Ended(c) == phase[c] \in {"done", "raised"}

(* A call with wait_ms > 0, or of a partial answer, returns whatever the   *)
(* client and the other tasks do (client_async.py 55, 69, 88), and one     *)
(* whose complete answer came returns, limited or not (51, 64, 82).        *)
CoroutinesReturn ==
  \A c \in Calls :
    (\/ phase[c] = "asking" /\ (c \in limited \/ Partial(c))
     \/ Complete(c) /\ closes = 0) ~> Ended(c)

(* An answer posted before the timeout is returned, even if the timeout    *)
(* comes due before the coroutine runs again (55-56, 69-70).               *)
AnswerBeatsTimeout ==
  \A c \in Calls : ~Partial(c) /\ phase[c] = "done" /\ first[c] = "answer" => outcome[c] = 1

(* A future is resolved once: the loop raises InvalidStateError only for a *)
(* future that was cancelled after the callback had looked (51, 64, 82).   *)
ResolvedOnce == \A c \in errors : future[c] = "cancelled"

(* The answer of a partial call is the latest that the client announced    *)
(* when the coroutine ended (80-91).  Between the callback's post and its  *)
(* assignment, and between the client's read and its return, it is not.    *)
LatestIsReturned ==
  [][\A c \in Calls :
       phase[c] # "done" /\ phase'[c] = "done" /\ Partial(c) /\ cb[c] = "idle" =>
         outcome'[c] = found[c]]_vars

(* "Asynchronous version of pyaseba.client.Client.query_description"       *)
(* (client_async.py 118), which returns at once if the node is known: so   *)
(* does its asynchronous version, at last.                                 *)
EarlyReturns ==
  \A c \in Calls :
    (phase[c] = "waiting" /\ item[c] = "none" /\ ~Complete(c)) ~> Ended(c)

(* After the client is closed no coroutine waits for it any more. *)
ClosedReturns == \A c \in Calls : (phase[c] = "asking") ~> (closes = 0 \/ Ended(c))
=============================================================================
