# A formal model of pyaseba

pyaseba binds the C++ code that talks to Aseba robots to Python: a *client* that
connects to networks of nodes, discovers them, reads and writes their variables, loads
scripts and waits for events; and a *network*, a server that runs virtual nodes. This
directory holds TLA+ models of the parts where threads, messages, time and failures
meet, the TLC runs that check them on small instances, and proofs that TLAPS checks for
all instances. `PROJECT.json` lists, machine readably, the components, the runs, the
lines of code that each definition models, the hazards and the theorems.

Paths below are relative to the root of the repository (the C++ code is in `src/`).

## The system

### Threads of a client

| thread | code | what it does |
|---|---|---|
| hub | `Client::run`, client.h 310 | Dashel's `step`: reads messages into `in_msgs`, opens and closes streams; then sends `out_msgs` and closes the streams users asked to close |
| processing | `Queue::process`, queue.h 88, with `process_in_message`, client.h 279 | takes a message from `in_msgs`: updates the table of nodes, calls message callbacks, completes waits |
| ping | `run_ping`, client.h 539 | every period: lists the nodes, expires silent ones, asks again for descriptions |
| users | Python | call the client's methods, wait, and run callbacks under the interpreter lock |

### Components

**Message queue** (`src/client/queue.h`). State: a bounded queue; the flags `stopped`,
`paused`, `step`; a thread; two condition variables. Operations: put (drops when full),
get, next, pause, clear, process, start, stop. *Correct when* messages are delivered in
order and at most once, no wakeup is lost, a pause holds and a resume releases, and stop
returns with no thread left. *Hard*: stop against the birth of the thread, the gate
against the flags.

**Node descriptions** (`src/client/description_manager.h`). State: per target and id, a
description with counters, `connected`, `complete`, `lastSeen`; the ignored nodes; a
recursive mutex. Operations: `process_message`, `ping_network`, `disconnect`, `reset`.
Tells node connections and disconnections to the client. *Correct when* only completely
described nodes are connected, a complete description is the one the node sent, and every
connection and disconnection is told once, in order. *Hard*: three threads; callbacks made
after the mutex is released; interrupted and repeated descriptions.

**Awaited results** (`src/client/awaited.h`). State: a collection of waits, each with a
mutex, a condition variable, a deadline, a value and `complete`. Operations: wait, check
(announce), cancel. *Correct when* a wait returns what was announced in time, calls back at
most once, and always returns. *Hard*: announcements, deadlines, cancels and the
destruction of completed waits race; the caller looks at the world before it waits.

**Streams and life of a client** (`src/client/streams_manager.h`, `client.h`). State: maps
between streams, indices and target names; the streams to be closed; `stopped`; the hub
and ping threads. Operations: connect, start, stop, close, close_all, ping period.
*Correct when* an index leads to an open stream of its target, the hub closes what it was
asked to and nothing twice, and calls return, truthfully. *Hard*: users and peers close
the same stream; a stop in the middle of a closing; two streams of one target.

**Asynchronous client** (`pyaseba/client/client_async.py`). State: per coroutine a future,
and what the client holds of its wait. Operations: each method calls the client with a
callback that posts the answer to the event loop, and awaits the future, with a timeout or
without. *Correct when* a coroutine returns the answer that came in time, resolves its
future once, and returns. *Hard*: the client's thread looks at the future, the loop resolves
it later; tasks are cancelled; the client returns early and never calls back.

**Node and its asynchronous version** (`pyaseba/client/node/node.py`, `node_async.py`).
State: the client, the connection and the id of the remote node; whether it mirrors; the
callbacks; three dictionaries of variables (shown, pending, known to be in the remote node).
Operations: connect, close, start_mirroring, load_script, run, pause, stop, reset, wait,
set_callback; set, sync, get, update, set_controller. *Correct when* the cache agrees with
the remote node once all is handled, what is pending is forwarded, callbacks are called for
the events of the node's own remote node, a node that says it mirrors does, and clients are
closed with the nodes that made them. *Hard*: events change the cache between two steps of
the program; names of events depend on the script of the moment; connections fail and drop.

**Mirroring and Thymio** (`node/mirroring.py`, `thymio/thymio.py`). State: windows, sums and
counters of the generated script; the round whose proximity messages are recorded.
*Correct when* what the client reads out of an event is what the script has put in, and the
buffer of messages is that of one round. *Hard*: 16 bit counters and sums, events that are
lost, recording and mirroring that are switched in between.

**Network server** (`src/network/network.h`, `network.cpp`, `node.h`, `description.h`).
State: the client that is served, the streams to refuse, `spinning`, the time of the next
tick. *Correct when* each client is served or told, and messages reach the nodes and answers
the client. *Hard*: the thread calls Python; start and stop race it.

**Example programs and shells** (`examples/`, `node/shell.py`). Bridges between networks,
ping pong of a client and a network, programs that drive a Thymio: they compose the parts
above, and show whether these work together. *Correct when* a bridge loses nothing, the ball
comes back, and a robot stops in front of an obstacle and stands when it is closed.

**Client requests** (`client.h` 575-1156): send a message, await the answer.
**Callbacks** (`client.h` 58-94): called under a mutex and the interpreter lock.
**Targets, bindings, zeroconf, helpers**: text, declarations, logging.

### How they interact

```
 program --- Node / NodeAsync --- Mirroring, Thymio
    |            | calls   ^ events
    |            v         |
    |       Client, ClientAsync (event loop)
    |            |         ^
 user threads --connect/close/stop--> Client ----> StreamsManager
      |  ^                              |hub thread
      |  | callbacks, results           v
      |  +---- Awaited <----+     Dashel streams <----> remote nodes, Network
      |                     |          |incoming
   requests            processing <-- in_msgs (Queue)
      |                  thread
      v                     |process_message
   out_msgs (Queue) <---- DescriptionManager <---- ping thread
      +---> hub thread ---> streams
```

## Modules

| module | models | how state and actions correspond |
|---|---|---|
| `BoundedFifo` | what a queue promises | a sequence of pending messages: put, drop when full, deliver, clear |
| `MsgQueue` | `queue.h` | one variable per field; `proc` and `ctl` are the program counters of `process` and of `start`/`stop`; a step is what happens under one lock or between two |
| `Descriptions` | `description_manager.h` | the table as sets of known, connected and stale nodes and the fragments stored; `pingPc`, `hubAt`, `msgUp`, `msgDown`, `pingDown` say how far the three threads are with the calls they owe. Messages come in any order and number; `echo` marks the call that a Disconnected of a node that is not connected makes |
| `Discovery` | `client.h`, composed with `Descriptions` | adds the streams, the two queues, the hub thread and devices that answer requests; each action conjoins an action of `Descriptions` with what the queues and streams do |
| `Awaited` | `awaited.h`, `wait_nodes` | `phase` is the program counter of a wait, `at`, `event`, `todo` that of the announcing thread; `orphans` are waits whose item was destroyed under them |
| `Connections` | `streams_manager.h`, and start, stop, connect, close, run, run_ping of `client.h` | `hub` is the program counter of `run`, `ctl` and `call` that of the user's call; `index`, `byIndex`, `nameIndex`, `closing` are the fields of `StreamsManager` |
| `AsyncCalls` | `client_async.py`, with the waits of `client.h` and asyncio's event loop | `phase` is where a coroutine is, `ready` the queue of handles of the loop, `item` and `found` what the client holds, `cb` where its callback is. The methods of `ClientAsync` differ only in the wrapper they use and in what the client may do instead of waiting: these are the values of `Callable` |
| `NodeCache` | `set`, `sync`, `get`, `update`, `_event_cb`, properties and `set_controller` of `node.py` and `node_async.py`, over a remote node | `values`, `next`, `prev` are the three dictionaries, `alias` tells which share a list; `pc`, `todo`, `arg`, `got` say how far a thread is; `up` and `down` are the messages |
| `NodeSession` | `connect`, `close`, mirroring, scripts, `stop`, `wait`, `set_callback` of two nodes; `targets.py` | fields of a node by their names; per client its connections, the remote nodes it knows and the nodes that hear its events; per remote node whose script it has, and whether it runs. The reset of `connect` happens as soon as there is a connection, before a node is found or not |
| `Mirroring` | `mirroring.py`, and `call` and `_set_changes` of `node.py` | operators for what the generated script does (windows, sums, quotients, counters, payloads) and for what reads it; actions that local events, updates and calls make of them |
| `Thymio` | `thymio.py`, extends `Mirroring` | the counter, the rounds that are recorded and the buffer that is shown; an event is a local event of `Mirroring` followed by `_extra_event_cb` |
| `Bridge` | `examples/client/bridge` | the three bridges over one queue and one wait, reduced from `MsgQueue` and `Awaited` to what they use |
| `Network` | `network.h`, `network.cpp`, `examples/ping_pong/client_network` | `net` is the program counter of `spin`, `main` that of the program that starts and stops it, `ready` what a step of the hub has found; per client a connection and two queues |
| `Controllers` | `examples/thymio/node`, `examples/thymio/client`, `Thymio.stop`, `set_controller`, `sync`, `_event_cb`, `NodeShell` | `main` is the thread of the program, `reader` that of the client; `next`, `prev` and `seen` are the entries of the cache that matter; `up` and `down` the messages; the robot is `target`, `script`, `period` |
| `ClientProofs` | | theorems about `MsgQueue`, `Descriptions` and `Discovery` |
| `ExamplesProofs` | | theorems about `Bridge` and `Controllers` |
| `ConnectionsProofs`, `AwaitedProofs`, `AsyncCallsProofs`, `NodeCacheProofs`, `NodeSessionProofs`, `ThymioProofs` | | theorems about the modules of those names |
| `MCAsyncCalls`, `MCAwaited`, `MCConnections`, `MCDescriptions`, `MCDiscovery`, `MCNodeCache`, `MCNodeSession`, `MCThymio` | | values for the constants of small instances |

Variables marked *history* in the modules record what happened for the properties to
speak of; they never decide whether a step is taken or what it does to the program's state. Definitions introduced as *mutated forms* are
deliberate mistakes that the project uses to make sure that a property can fail; no
specification includes them.

### What is external

Dashel and Aseba are submodules; asyncio, the remote node and the user are modelled by how
the code uses them: the event loop runs its ready handles in order; a remote node handles
messages in order, runs the script it was last sent and emits events when it likes. A stream
delivers in order what was sent while it is open; `step` opens and closes streams and reads
messages, one at a time; `Hub::stop` makes `step` return false. `Connections` assumes that a
`Hub::stop` that nobody waited for does not survive the thread it was meant for; were it to,
the next start would end at once. The stream a client listens on is not one of `Streams`: in
the code it is in `StreamsManager` too, where it takes index 1 and makes `is_connected` true
for as long as the client lives.

## Runs

Each run is `tlc -config <cfg> <module>`; all of them pass. Their bounds, and why these are
enough:

| run | question and bounds |
|---|---|
| `MsgQueue.cfg` | No lost wakeup, one message at most after stop, the order of `BoundedFifo`, messages taken, stop returning. Capacity 2, three puts, three calls of next, two starts and two stops: a full queue, a drop, a token left behind, and a second run of the thread all happen. `SettledStop` keeps stop away from the first instruction of a new thread; `MsgQueueStopRace.cfg` shows why |
| `Descriptions.cfg` | The table of nodes and the calls it owes. One node on each of two targets, described by one and by two fragments, one of them of the old protocol: every kind of message in any order and state of the node, also Disconnected of one that was expired or is partly described, with ping, timeout, disconnection and reset at any point. Every change of a `connected` flag is reported by one call; only such a Disconnected makes one call more. The last call about a node is true, unless calls of two threads overlapped when it last changed |
| `Discovery.cfg` | Devices are discovered with the description they sent, and left when closed. One target, opened once, with a device of two fragments; inboxes of three and queues of three: the description is requested, sent, assembled, and the device forgotten after the stream closes |
| `Awaited.cfg` | Waits are woken, called once, given what was announced, and return; an answer that came in time is lost only if another wait or a cancel destroys the completed item before its thread has read it, which the code does (`ReceivedInTime` below). Two waits with overlapping matches, two events, two announcements, one cancel, for each of three kinds of collection: two waits race one announcement, an announcement races a deadline, a cancel races both; one wait needs two nodes or two parts of an answer; waits have a timeout, a callback, both or neither |
| `Connections.cfg` | Indices are sound, streams are closed once, calls return. Three streams, two of them of one target, in a client that listens; each stream is opened once |
| `AsyncCalls.cfg` | Coroutines return, with the answer that came in time. Two calls, one of any coroutine and one of `get_message`; a complete answer of two parts, one cancelled task, one end of the client: a callback races a timeout and a cancel, handles of two tasks are in the loop together, an answer is partial |
| `NodeCache.cfg` | The cache agrees with the remote node and follows its events, and what is pending is forwarded. A variable the node measures and one the program sets, of two values, four operations and one event: set, sync, set back, sync, with an event, a late answer or a reload between any two. The properties speak of variables that are not `unsure`: see the abstractions below |
| `NodeSession.cfg` | Scripts and clients are kept apart, and a callback is called if and only if it was set, and not removed, while the node mirrored. Callbacks are set and removed at any time, before connecting too. A `Node` and a `NodeAsync` on one network with two robots, each with its own client; two calls of connect each, one lost connection: a connect that fails after another has made its client, mirroring that stops and starts again, a robot that is reset by the other's connect |
| `Thymio.cfg` | Script and reading of payloads agree; the buffer is that of a round; changes and calls reach. What is read is the mean of the samples whenever their total fits 16 bits. Three variables, one of two cells, three events, one of them averaged over three; values 0 and 20000, of which two in a window do not fit any more; four local events, heard or lost, two changes of variables, one restart, one switch of recording; the ids 1, 2^15 - 1, 2^15, whose calls are never made, and 2^16 - 1. Calls, which do not depend on the variables, are made before these change |
| `Bridge.cfg` | The bridges send each message on, at most once and in order; the one that uses a callback loses none. Three peers that send two messages each, a queue of two: it fills up, and each program meets a message from each of two others while it sends |
| `Network.cfg` | Each client is served or told; the ball comes back. Two clients, one of them asynchronous; the three styles of answer and both ways to spin: the second client is refused, or served when the first has left, what comes on a stream that is not served is left unread, and the network is started and stopped again under them |
| `Controllers.cfg` | The robot stands once it is closed, and stops in front of an obstacle; only a program that the user has interrupted may drive it on, by a control step that syncs after the reset (`ClosedStands` below). Every program may be interrupted in its loop. All fourteen programs, two events of a kind on their way, two moves of the obstacle, three commands of the shell or questions in a row: an obstacle comes and goes before the callback runs, and stops in front of events that are older |

Type invariants (`TypeOK` of each module) hold of all of these configurations; those of
`MsgQueue`, `Descriptions`, `Discovery`, `Connections`, `Awaited`, `AsyncCalls`, `NodeCache`,
`NodeSession`, `Bridge` and `Controllers` are proved, the others were checked with the runs while the
modules were written and are not part of them: their properties are spent on the hazards.

### Further configurations

These are not runs of the project, because they violate a property or only vary a run. Each
checks one property that a doc or a comment states, against what the code does. The first
table has its own configuration files; the second gives what to change in the run's file.

| configuration | property | what the code does |
|---|---|---|
| `MsgQueueStopRace.cfg` | `StopReturns` | queue.h 89 overwrites a stop that came before the thread ran: stop never returns |
| `AsyncCallsEarly.cfg` | `EarlyReturns` | client_async.py 57: a request that the client answers at once, without its callback, is awaited for ever when there is no limit |
| `AsyncCallsClosed.cfg` | `ClosedReturns` | the end of the client cancels its waits without calling back: coroutines without a limit never return |
| `NodeCacheSync.cfg` | `SyncForwards` | node.py 644: an uncached set leaves what sync compares with as it was; a cached set of that old value is dropped |
| `NodeCacheAnswer.cfg` | `OwnAnswer` | a read takes any answer of the node: after a deadline the next read gets the answer to the one before |
| `NodeSessionEarly.cfg` | `CallbackIsCalled` | node.py 565: a callback set before mirroring starts is registered under the local name and never called |
| `NodeSessionHome.cfg` | `CommandsStayHome` | the reset of connect (389), load_script and cmd_run give no connection: a node with the same id on another one gets them too |
| `NodeSessionMirror.cfg` | `MirroringIsTrue` | node.py 389: connect with an id resets the remote node as soon as there is a connection, and a node that was mirroring, or never gets to mirror again, still says it does |
| `ThymioWrap.cfg` | `RoundIsWhole` | thymio.py 136: the difference of two 16 bit counters modulo 0xFFFF instead of 0x10000; a round is shown in parts when the counter wraps |
| `ThymioOverflow.cfg` | `ReadsBetweenSamples` | mirroring.py 150-155: the sum of a window overflows 16 bits, and what is read is no average |
| `BridgeAsync.cfg` | `AwaitsForward` | as its comment says (bridge_async.py 2), messages are lost between the first call of `get_message` and the pause |
| `NetworkStop.cfg` | `StopReturns` | network/python.cpp 355: stop joins the thread holding the interpreter lock, which the thread needs to tick or to call a function |

| module, property | change | what the code does |
|---|---|---|
| `MsgQueue`, `PauseKeeps` | | a step token left by an earlier next lets a message through a later pause |
| `MsgQueue`, `ResumeProcesses` | | resuming does not wake the thread at the gate |
| `MCDescriptions`, `DisconnectedWasConnected` | | a Disconnected of a node that the ping has expired, or that is only partly described, is reported as a disconnection (description_manager.h 347-354) |
| `MCDescriptions`, `LastCallIsAlwaysTrue` | | calls of two threads outside the mutex may come in the wrong order |
| `MCDiscovery`, `WellAssembled` | `InboxMax = 2`, `MaxConnects = 2` | a reconnection in the middle of a description mixes two descriptions |
| `MCDiscovery`, `Discovered` | `NTargets = 2`, `InboxMax = 2`, `TxMax = 0`, `MaxConnects = 2` | an interrupted description is never asked for again while another node is connected |
| `MCAwaited`, `ReceivedInTime` | `Kinds = {"single"}`, `Timed <- TimedAll`, `MaxCancels = 0` | a wait destroys completed waits that have not yet been read |
| `MCAwaited`, `DiscoveredIsNotMissed` | `Kinds = {"nodes"}`, `Want <- WantAll`, `Need <- NeedOne`, `Timed <- TimedAll`, `MaxCancels = 0` | a node discovered between the look and the wait is missed |
| `MCAwaited`, `MetDoesNotWait` | the same | a wait for one node with two connected waits for a third (client.h 1062, `num == number`) |
| `MCConnections`, `ClosingIsDone` | two streams of two targets | a request to close between get_closing and clear_closing is lost |
| `MCConnections`, `CloseAnswerIsTrue` | | close_connection answers true although the stream is open (client.h 426) |
| `MCConnections`, `ClosingSparesOthers` | `HasIn = FALSE` | closing one connection of a client without a port stops the client (client.h 421) |
| `MCConnections`, `PingResumes`, `RestartPings` | | a ping period of zero ends pings for good (client.h 363); stop leaves it zero (388) |
| `MCConnections`, `IsConnectedTells` | | the first of two streams of one target to close hides the other (streams_manager.h 48) |
| `MCConnections`, `DisconnectionIsReported` | | closing all connections reports none (client.h 411) |
| `MCConnections`, `FailedConnectIsZero` | | a failed connection looks up an uninitialised pointer (client.h 548) |
| `MCAsyncCalls`, `LatestIsReturned` | `Callable <- Partials`, `MaxCancels = 0`, `MaxCloses = 0` | a partial answer that comes between the client's read and its return is lost |
| `MCNodeCache`, `EventsShow` | `Program <- Cautious`, `Timeouts = FALSE` | an event between an answer and its storing is overwritten by the older answer (node.py 133 promises otherwise) |
| `MCNodeCache`, `SyncForwards` | `Program <- Modifying`, `Timeouts = FALSE`, `MaxOps = 3`, `MaxEvents = 0` | a list that `get` has shown and the program changes in place is also the one that sync compares with |
| `MCNodeCache`, `Agreement` | `Program <- Concurrent`, `Controller = TRUE`, `Timeouts = FALSE`, `MaxEvents = 2` | the controller's sync clears what the program has just cached (node.py 661) |
| `MCNodeSession`, `OwnClientCloses`, `NothingLeaks` | `Asks <- Changing` | a node that made its client and is then told to share one never closes its own (node.py 378-381); a `NodeAsync` makes another one each time (node_async.py 48) |
| `MCNodeSession`, `OwnEvents` | `Async = {}`, `Asks <- TwoNetworks`, `Remotes <- Alike`, `MaxConnects = 1` | `_event_cb` looks at the id alone: a node hears the other robot of that id |
| `MCNodeSession`, `TargetIsTrue` | the same, or with `Remotes <- Apart` | without connections to include, a node may find the other's remote node |
| `MCNodeSession`, `MirroringIsTrue` | `Async = {}`, `Asks <- SharedAsks` | a call of connect that fails has reset the robot (node.py 389), and a node that shares its client stays connected and says it mirrors |
| `MCNodeSession`, `MirroringIsTrueAgain` | | the same for a `NodeAsync` that connects again: it keeps its new client if that is connected (node_async.py 69) |
| `MCNodeSession`, `CallbackIsCalled` | `MaxConnects = 1` | `NodeAsync` does not register `_event_cb` with its client |
| `MCThymio`, `ProxShowsItsRound` | `Config <- ProxAveraged` | the counter of an averaged event is averaged too |
| `MCThymio`, `MirroringStarts` | `Config <- ProxOff` | an event that counts with the counter of one that is left out does not compile |
| `MCThymio`, `RoundIsWhole` | `Start = 0` | mirroring that starts again in the middle of a round numbers the next one alike, and the two are joined |
| `MCThymio`, `ChangesRefresh` | | a script that is loaded empties the cache, and an update by changes fills in only what has changed since the last report |
| `MCThymio`, `AllCallsReach` | | utils.py 6: 2^15 itself is not converted, and a call to a node of that id is never made |
| `Bridge`, `PausedForwards` | two peers, `Bridges = {"sync"}` | a token left by `next` lets a message through while nobody waits for it |
| `Network`, `OneBall` | | in the style of `variable_sync.py` the pong of a client that has left is answered to the next one, which then has two balls |
| `Controllers`, `ClosedStands` | | of `controller_sync.py` and `behavior.py` when they are interrupted, a control step between the reset and the end of the client drives the robot off again |
| `Controllers`, `ClosedStands` | without `~Bare` | the programs of `examples/thymio/client` close their client right after `cmd_reset`, without the pause that `Node.close` makes (node.py 523): the reset may still be on its way |
| `Controllers`, `AllStopAtObstacle` | | `NodeAsync` hears no events; callbacks set before connecting are never called |
| `Controllers`, `StandsWhenOver` | `Programs = {"wait_sync"}` | an update that comes late leaves the cache empty, the program raises and leaves the robot driving |

Variations that pass: `NodeCache` with `RecordsPrev = FALSE` (the asynchronous node; `MaxOps
= 3`, `MaxEvents = 0`) and with a controller (`Program <- Controlling`, `Controller = TRUE`,
`Timeouts = FALSE`, `MaxOps = 3`, `MaxEvents = 2`); `NodeSession` with a shared client
(`Async = {}`, `Asks <- SharedAsks`) for `SyncCallbackIsCalled`,
`OwnClientCloses` and `TargetIsTrue`; `InOrder`, `OneMessagePerNext`, `AllOrNothing`,
`NoLostWakeup` of `Awaited`, `OneIndexPerName` and `CompleteIsFinal` with the runs of their
modules.

### Deadlock

Deadlock is checked in `MsgQueue`, `Descriptions`, `Discovery` and `Connections`. The others
may stop: when all waits and coroutines have returned and everything that is bounded
(announcements, operations, events, messages, connections, commands) has been used up, or
when the program has ended.

### Fairness

Threads that can run do: weak fairness of the processing thread, of a stop under way
(`MsgQueue`), of the hub, processing and ping threads and of what a stream delivers
(`Discovery`), of waits and announcements (`Awaited`), of calls, ping and hub
(`Connections`), of the event loop, of callbacks under way and of timeouts (`AsyncCalls`),
of operations under way, delivery and the remote node (`NodeCache`), of the processing
thread and the program (`Bridge`), of the network's thread, of time and of clients that play
(`Network`), of the program, the client's thread, the robot's events and its handling of
commands (`Controllers`). Deadlines pass, because `wait_until` and asyncio's timeouts are
given one. Nobody is obliged to call, connect, announce, answer, send, leave or close.
Mutexes and the interpreter lock are held for finitely many steps, so weak fairness suffices;
where a thread keeps the lock while it waits (`Network`), the model says so.
`NodeSession` and `Thymio` have safety properties and action properties only.

## Proofs

All theorems hold for every value of the constants that the named assumptions allow.

`ClientProofs`, about `MsgQueue`. `Base` (types and `StoppedMeansJoined`) is inductive and
carries the others: `TokensAreCounted` relates the step token and the messages let through
to the calls of next; `WakeupsAreNotLost` needs that a sleeping thread with a stopped queue
means that the notification is still to come; `StopDrains` strengthens its property by where
the thread is (`Drains`), and needs `SettledStop`; `DeliveryInOrder` is inductive as it is,
given the types; `ImplementsFifo` maps the message the thread holds and the queue to the
pending sequence of `BoundedFifo` and shows that every step is one of its steps or changes
nothing there.

`ClientProofs`, about `Descriptions`. The invariant is built in layers, because the types of
the table need the bound on the fragments, and the other way round: `TableOK /\
ConnectedComplete` first, with one lemma for each change of the table; then `RestOK`
(threads and the calls they owe), then the queue of requests; together they give
`DescriptionsTypes`. `CallbacksAreBalanced` adds that each thread owes at most one kind of call
at a time (`Pending1`), and counts apart the calls that report no change (`echo`).
`LastCallsAreTrue` follows each node through the call under way: if no other thread owed one
when its flag last changed, that call, or the last one when it has been made, agrees with the
flag. `CompleteDescriptionsAreFinal` and `NodesFollowLifecycle` are action
properties that follow from the table's invariant, one step at a time.

`ClientProofs`, about `Discovery`. A step of the client with its queues, streams and devices
is a step of `Descriptions`, or the closing of a stream, which only forgets for whom
descriptions were asked (`StepOfTable`); so the table behind the queues keeps its types and
its promises (`DiscoveryTypes`, `DiscoveryKeepsTheTable`). `DescriptionsAreAssembled`, that
a complete description is the one that the device sent, is about all the places where
fragments are at once: a table entry has stored, per kind, a first part of the fragments
(`Stored`, `InPlace`), and what is on its way (the inbox, as far as it is from that device,
and then the stream) is what comes next: the rest of the description under way, and then
whole ones, or up to where the stream was closed (`OnTheWay`). `Reads` says so by counting
fragments kind by kind; `ReadsDescription`, by induction over the order of kinds, that what a
device sends reads as a description. The theorem supposes `Unbroken`: no message is lost
and a stream to a target is opened at most once. With a second opening the property fails
(`MaxConnects = 2` above), as the counters of the first description are not reset. There may
be any number of targets, devices and fragments, and queues of any size. `Induction` and
`FlattenDef` are those of `ThymioProofs`.

`ConnectionsProofs`. Five parts are inductive together: `ManagerOK` (the tables of the
manager), `StreamsOK`, `HubOK`, `UserOK` and `TargetOK`. `OneIndexPerName` needs that
indices never exceed the number of names met so far (`Counted`), and hence that names are
finitely many; `LookupIsSound` survives a removal because two streams that are found by
index never have the same index; the type of the hub needs `RunsUnlessStopped`,
strengthened by where a call of stop is, because a start resets the thread without
resetting the stream it was about to report.

`ExamplesProofs`, about `Bridge`. A message stands in one place on its way from the queue
over the processing thread and the answer to the peers, and what is further on the way was
sent earlier: `WayOK` says this of each pair of places, and `ForwardsInOrder` is its last
part. `BridgeTypes` adds that the thread holds a message whenever it is not at the loop's
head.

`AsyncCallsProofs`. The queue of the loop has no handle twice (`LoopOK`), which handles a
call may have there depends on where it is (`HandlesOK`), and its answer is posted once,
by the client in the loop's thread or by the processing thread (`PostsOnce`): a future
is resolved again only if it was cancelled in between (`FuturesAreResolvedOnce`).
`AnswersBeatTimeouts` needs the order of the queue: the handle that resolves the future is
ahead of the timeout's (`InTime`). The number of calls is assumed to be finite
(`CallsAssumption`), which the end of the client needs, as it calls back in some order.

`AwaitedProofs`. `ListOK` says that nobody changes the list while a check goes through it,
so that a check looks at each item once. Around it, per wait: `ItemOK` (when it has an
item), `CallsOK`, `CollectsOK` (what an item has collected is a first part of the events
that matched since it registered, but for the one under way), `ResultOK`, `AnswerOK` and
`WakeOK`. They depend on each other through the item that a check has read as incomplete
and whose `complete` the waiting thread sets meanwhile (`AtLock`): such an item may not have
been answered in time. An item that is destroyed under its thread is complete, and another
wait has registered or a cancel has come: hence `OnlyOthersLoseAnswers`, which is all that
the code grants of "received in time" (python.cpp 1403). `CallbacksAreCalledOnce`,
`WakeupsAreNotLost`, `ResultsAreHeard` and `VariablesAreWhole` follow, too. Two lemmas about lists carry the
registrations: `RanksCountOff` and `RemainingKeeps`, what `remove_if` leaves. `Remaining`
defines this by the positions of the items, because nothing can be proved about the
recursive `SelectSeq`; an assumption of `MCAwaited` lets TLC compare the two on short lists.

`ExamplesProofs`, about `Controllers`. `ThymioStandsAtTheEnd` needs that once a program is
at its end the brake (the reset of `close`, or the motors' stop of the shell) is on its way
with nothing behind it that drives, or the motors are still with nothing on its way that
drives (`Braked`); and for the one program whose controller runs until then, that what it
syncs from its last round on is standing (`ControllersOK`), unless the user has interrupted
it. There is no hypothesis: the property itself names the one exception, an interrupted
program whose control step has set the speed after the reset, and of a program that ends by
itself it says that there is none. `ControllersTypes` is the type invariant.

`NodeSessionProofs`. `Inv` holds without hypotheses and gives `NodeSessionTypes`: clients
know remote nodes of their connections (`KnownOK`); the client of a node is its own or a
shared one and has its callback (`ClientOK`); the connection and id of a node are those of a
remote node (`RemoteOK`). The theorems then need what the code needs to keep its promises:
`OwnClientsAreClosed` that a node is always given a client or never (`SharesOrOwns`; the
further configurations show a violation without it). `CallbacksHaveTheirNames` needs no
hypothesis: the callbacks under the name that messages carry are those that were set in
mirroring, and nothing but a call in mirroring adds or removes one (`WantedOK`). `MirroringIsKept` supposes `Separate`: nodes have clients and positive ids of their own
and mirror from the beginning, as in the run. It rests on `MirrorInv`: the commands of a node
reach only remote nodes of the ids it asks for (`IdOK`), so that the others' scripts stay, and
an asynchronous node mirrors only after its first call of connect has succeeded (`FirstOK`).
Connections may be lost, calls may fail, and the robots may have any number.

`NodeCacheProofs`. `TypeOK` is inductive with `ArgOK`. `CacheAgrees` and `CacheFollows` share
one invariant, `CacheInv`, over everything that is on its way. `WillHold` says what a
variable is in the node once it has handled the messages sent to it: what is cached and not
pending is that (`ShownOK`), or an event is on its way that tells; so is the value that sync
compares with, what a read has answered and nobody has stored yet (`ReceivedOK`), and what
sync has already looked at (`SyncOK`). `AwaitOK` says that the read under way is the last
message to the node, or that its answer is the last from it but for events: without it an
older answer could overwrite what is newer. The theorems suppose that one thread operates on
the cache (`OneByOne`; another may load scripts), since a second one may cache a value that
the first one's sync clears (`Program <- Concurrent` above); events, late answers, reloads,
the controller and the two kinds of node are all included.

`ThymioProofs`. `RoundsAreWhole` and `ProxShowsTheRound` rest on `RoundInv`: the script gives
each round a number (`NumberOf`), the counter of the prox event that ends it, restarts
included (`CountOK`); what is being recorded is the messages of one round, the one whose
number was last heard (`HoldsRound`); the buffer is that of a round that is over. Two
rounds must not have one number: `CountersDiffer` supposes that the counter does not wrap,
and that mirroring starts again at most once and then stays below the numbers used before;
`ThymioWrap.cfg` and `Start = 0` violate `RoundIsWhole` without it. `CountsRounds` is the
configuration of thymio.py 41-48, with any other events beside. `CallsAreMade` shows, for any
list of argument sizes, that the slices the script cuts are the arguments that were given, in
order (`SlicesJoin`, `SlicesAreWhole`), and that the id is recognised
(`IntIsWrapped`), but for 2^15, with which no message is made. `FlattenSeq` and the sums of sizes are
recursive functions; what they compute is shown by induction over the set of lengths for
which it holds (`Induction`, from the well-foundedness of the naturals), because the
library's own induction theorems have an operator as a parameter and cannot be used.
`AveragesAreRead` has no hypothesis: what is read is the quotient of the total of the samples
as 16 bits have it, which is their mean whenever the total fits (`ReadsBetweenSamples`, which
does not look at the total, fails: `ThymioOverflow.cfg`). `PiecesStand` and `CellAt` say where
the cells of a variable stand in the payload of the mirror event; `AverageInv` says that each
cell of the sum is the wrapped total of the samples, although the script wraps after each
addition (`WrapsJoin`). `ChangesAreFollowed` supposes `NamesDiffer`,
that variables are told apart by their names. Reported runs are values of the cells as they
are, each begins at its own address, and every cell that has changed is in one
(`ChangesAreRuns`, with the `Least` address at which a run may begin and end); the part that
is cut out of a run for a variable is all of the run that lies in it, at its place (`CutIs`);
so after the runs that begin before an address the cells they reach are right and the others
are as last reported (`PartlySet`), and after all of them, all cells are.

Only model-checked: liveness (outside TLAPS's reach: `MessagesAreTaken`, `StopReturns`,
`Discovered`, `ClosedIsLeft`, `WaitsReturn`, `CallsReturn`, `CoroutinesReturn`,
`SureIsForwarded`, `CallbacksForward`, `EveryOpenIsSettled`, `BallComesBack`,
`StopsAtObstacle`), and hence `Network`, whose two properties are of this kind. Every
invariant and every action property of the runs is a theorem.
No module with theorems reaches a RECURSIVE operator.

## Abstractions

A message is a number or a record of what the handlers distinguish; a description is the
sequence of fragment numbers stored per kind; time is a deadline that may have passed, a
tick that is due or a node that has become stale; payloads, names, text, logging and
serialisation are left out. Values of variables are the set of parts that have arrived
(`Awaited`), one of a few contents (`NodeCache`), or numbers of 16 bits where sums, counters
and ids are what matters (`Mirroring`, `Thymio`). The generated script is modelled by what a
remote node does when it runs it. What makes the cache unsure by design (uncached sets,
changes in place, late answers) is remembered in `unsure`, which the properties of
`NodeCache` leave out and the further configurations do not.

## Not modelled

- `CallbackCollection` and the mutexes of waits under the interpreter lock: lock order
  between the hub, the processing and Python threads, and callbacks that wait or stop.
- The life of a client and its queue together: a message that is put after stop.
- Scans, device information, Thymio radio settings, the texts of scripts.
- Layout of variables and descriptions of server nodes, breakpoints, more nodes than one in a
  network, time steps below a millisecond.
- The discovery of robots by zeroconf (external), tables of names of the Thymio, the commands
  of shells that print, examples that make one call after the other, bindings, build files.
- The Aseba virtual machine and Dashel themselves (external).

## Plan

1. Done: the C++ client (`MsgQueue`, `Descriptions`, `Discovery`, `Awaited`, `Connections`),
   the Python client and nodes (`AsyncCalls`, `NodeCache`, `NodeSession`, `Mirroring`,
   `Thymio`), the network and the programs (`Network`, `Bridge`, `Controllers`).
2. Done: every invariant and action property of the runs, and the refinement of
   `BoundedFifo`, as theorems.
3. Left: the types of `Thymio` and `Network`, which are checked, not proved;
   the client's queue composed with its life (a message put after stop).
