------------------------------ MODULE Connections ------------------------------
(***************************************************************************)
(* The connections of a client and its life: StreamsManager of             *)
(* src/client/streams_manager.h, and start, stop, connect, close and the   *)
(* hub and ping threads of src/client/client.h.                            *)
(*                                                                         *)
(* Actors: one user thread, which calls connect, close_connection, close,  *)
(* _start, _stop and ping_period_ms one after the other; the hub thread    *)
(* (Client::run); the ping thread (run_ping); and the peers, which open    *)
(* and close streams at any time.  A stream is opened at most once; two    *)
(* streams may have the same target name.  The queues and the waits that   *)
(* start and stop also handle are the subjects of MsgQueue and Awaited.    *)
(***************************************************************************)
EXTENDS Integers, FiniteSets, Functions

CONSTANTS
  Streams,    \* data streams that can be opened
  NoStream,   \* none of them
  Names,      \* target names
  NameOf,     \* the target name of a stream
  HasIn       \* the client listens: has_in(), and the hub accepts streams

ASSUME NamesAssumption == IsFiniteSet(Names)
ASSUME NoStreamAssumption == NoStream \notin Streams
ASSUME NameOfAssumption == NameOf \in [Streams -> Names]
ASSUME HasInAssumption == HasIn \in BOOLEAN

VARIABLES
  data,       \* dataStreams: the open data streams
  index,      \* indices: stream -> index
  byIndex,    \* streams: index -> stream
  nameIndex,  \* target_indices: name -> index
  closing,    \* streams_to_be_closed
  stopped,    \* Client::stopped
  hub,        \* where the hub thread is
  todo,       \* its copy of streams_to_be_closed
  victim,     \* the stream whose closing it is reporting
  pingMs,     \* whether ping_ms > 0
  pinger,     \* the ping thread: none, on, or ended but not joined
  ctl,        \* where the user thread is
  call,       \* what it called: connect, close, closeAll, stop or none
  target,     \* the stream and index that close is about, or what connect gave
  used,       \* streams that have been opened
  reported,   \* history: streams whose disconnection callbacks were called
  asked,      \* history: whether the user last asked for a ping
  wanted      \* history: the user connected or started, and did not stop since

manager == <<index, byIndex, nameIndex>>
hubVars == <<hub, todo, victim>>
pingVars == <<pingMs, pinger>>
user == <<ctl, call, target>>
history == <<used, reported, asked, wanted>>
vars == <<data, index, byIndex, nameIndex, closing, stopped, hub, todo, victim,
          pingMs, pinger, ctl, call, target, used, reported, asked, wanted>>

Indices == 1..Cardinality(Names)
HubPlaces == {"none", "test", "step", "report", "forget", "close", "clear", "done"}
CtlPlaces ==
  {"idle", "failed", "start", "decide", "flag", "joinPing", "joinHub", "wait",
   "waiting", "answer"}

Alive == hub \notin {"none", "done"}

TypeOK ==
  /\ data \subseteq used /\ used \subseteq Streams /\ closing \subseteq used
  /\ index \in [data -> Indices]
  /\ DOMAIN byIndex \subseteq Indices /\ Range(byIndex) \subseteq data
  /\ DOMAIN nameIndex \subseteq Names /\ Range(nameIndex) \subseteq Indices
  /\ stopped \in BOOLEAN
  /\ hub \in HubPlaces /\ todo \subseteq used
  /\ victim \in used \cup {NoStream}
  /\ (victim = NoStream <=> hub \notin {"report", "forget"})
  /\ pingMs \in BOOLEAN /\ pinger \in {"none", "on", "ended"}
  /\ ctl \in CtlPlaces /\ call \in {"none", "_connect", "connect", "close", "closeAll", "stop"}
  /\ (ctl = "idle" <=> call = "none")
  /\ target.stream \in used \cup {NoStream} /\ target.index \in {0} \cup Indices
  /\ reported \subseteq used /\ asked \in BOOLEAN /\ wanted \in BOOLEAN

NoTarget == [stream |-> NoStream, index |-> 0]

Init ==
  /\ data = {} /\ closing = {}
  /\ index = [s \in {} |-> 0] /\ byIndex = [i \in {} |-> NoStream]
  /\ nameIndex = [n \in {} |-> 0]
  /\ stopped = ~HasIn
  /\ hub = (IF HasIn THEN "test" ELSE "none") /\ todo = {} /\ victim = NoStream
  /\ pingMs = TRUE /\ pinger = (IF HasIn THEN "on" ELSE "none")
  /\ ctl = "idle" /\ call = "none" /\ target = NoTarget
  /\ used = {} /\ reported = {} /\ asked = TRUE /\ wanted = HasIn

-----------------------------------------------------------------------------
(* A mutated form of Remove, below; it is never part of Next.              *)
RemoveStream(s) ==  \* the index stays
  /\ index' = Restrict(index, DOMAIN index \ {s})
  /\ UNCHANGED <<byIndex, nameIndex>>

(* StreamsManager::add(): a target keeps its index; of several streams of  *)
(* one target the first is the one found by index (emplace).               *)
Add(s) ==
  LET n == NameOf[s]
      i == IF n \in DOMAIN nameIndex THEN nameIndex[n]
           ELSE Cardinality(DOMAIN nameIndex) + 1
  IN  /\ nameIndex' = [m \in DOMAIN nameIndex \cup {n} |->
                         IF m = n THEN i ELSE nameIndex[m]]
      /\ index' = [t \in DOMAIN index \cup {s} |-> IF t = s THEN i ELSE index[t]]
      /\ byIndex' = [j \in DOMAIN byIndex \cup {i} |->
                       IF j \in DOMAIN byIndex THEN byIndex[j] ELSE s]

(* StreamsManager::remove(): the index is erased, whichever stream it      *)
(* stands for.                                                             *)
Remove(s) ==
  /\ byIndex' = Restrict(byIndex, DOMAIN byIndex \ {index[s]})
  /\ index' = Restrict(index, DOMAIN index \ {s})
  /\ UNCHANGED nameIndex

(* A stream opens: Dashel counts it, and connectionCreated adds it and     *)
(* calls the callbacks.                                                    *)
Open(s) ==
  /\ s \notin used
  /\ used' = used \cup {s}
  /\ data' = data \cup {s}
  /\ Add(s)

-----------------------------------------------------------------------------
(* Mutated forms of the operations below, each with one plausible mistake; *)
(* they are never part of Next.                                            *)
HubCloseUnchecked ==  \* dataStreams.count(stream) is not tested
  /\ hub = "close"
  /\ IF todo # {} THEN hub' = "report" /\ victim' \in todo ELSE hub' = "clear" /\ UNCHANGED victim
  /\ UNCHANGED <<data, manager, closing, stopped, todo, pingVars, user, history>>

StopFlagPinging ==  \* set_ping_period_ms(0) is missing
  /\ ctl = "flag"
  /\ stopped' = TRUE
  /\ ctl' = "joinPing"
  /\ UNCHANGED <<data, manager, closing, hubVars, pingVars, call, target, history>>

JoinHubDetached ==  \* the hub thread is not joined
  /\ ctl = "joinHub"
  /\ ctl' = (IF call = "close" THEN "wait" ELSE "idle")
  /\ call' = (IF call = "close" THEN call ELSE "none")
  /\ UNCHANGED <<data, manager, closing, stopped, hubVars, pingVars, target, history>>

-----------------------------------------------------------------------------
(* _connect(): try_to_connect opens the stream.  connect() starts a stopped *)
(* client after that.                                                      *)
Connect(s, starting) ==
  /\ ctl = "idle"
  /\ Open(s)
  /\ IF starting /\ stopped THEN ctl' = "start" /\ call' = "connect"
     ELSE UNCHANGED <<ctl, call>>
  /\ wanted' = (wanted \/ starting)
  /\ UNCHANGED <<closing, stopped, hubVars, pingVars, target, reported, asked>>

(* When Dashel throws, the pointer that is looked up is uninitialised: no  *)
(* index is found, or that of any stream the manager knows,                *)
ConnectFails(what) ==
  /\ ctl = "idle"
  /\ ctl' = "failed" /\ call' = what
  /\ \E i \in {0} \cup Range(index) : target' = [stream |-> NoStream, index |-> i]
  /\ UNCHANGED <<data, manager, closing, stopped, hubVars, pingVars, history>>

(* and an index is taken for a connection. *)
ConnectFailed ==
  /\ ctl = "failed"
  /\ target' = NoTarget
  /\ IF call = "connect" /\ target.index # 0 /\ stopped
     THEN ctl' = "start" /\ UNCHANGED call
     ELSE ctl' = "idle" /\ call' = "none"
  /\ UNCHANGED <<data, manager, closing, stopped, hubVars, pingVars, history>>

(* start(), for a stopped client. *)
StartThreads ==
  /\ stopped' = FALSE
  /\ hub' = "test"
  /\ pinger' = IF pingMs /\ pinger = "none" THEN "on" ELSE pinger

Start ==
  /\ \/ ctl = "start"
     \/ ctl = "idle" /\ stopped
  /\ StartThreads
  /\ ctl' = "idle" /\ call' = "none" /\ wanted' = TRUE
  /\ UNCHANGED <<data, manager, closing, todo, victim, pingMs, target, used, reported,
                 asked>>

(* set_ping_period_ms(): a thread that has ended but was not joined counts *)
(* as a thread.                                                            *)
SetPing(value) ==
  /\ ctl = "idle" /\ value # pingMs
  /\ pingMs' = value /\ asked' = value
  /\ pinger' = IF value /\ pinger = "none" THEN "on" ELSE pinger
  /\ UNCHANGED <<data, manager, closing, stopped, hubVars, user, used, reported,
                 wanted>>

(* stop(true), and stop_and_close(), which then closes all the streams. *)
Stop(what) ==
  /\ ctl = "idle"
  /\ ctl' = "flag" /\ call' = what
  /\ wanted' = FALSE
  /\ UNCHANGED <<data, manager, closing, stopped, hubVars, pingVars, target, used,
                 reported, asked>>

(* close(index): asks the hub thread to close the stream that the index    *)
(* stands for,                                                             *)
Close(i) ==
  /\ ctl = "idle" /\ i \in DOMAIN byIndex
  /\ closing' = closing \cup {byIndex[i]}
  /\ target' = [stream |-> byIndex[i], index |-> i]
  /\ ctl' = "decide" /\ call' = "close"
  /\ UNCHANGED <<data, manager, stopped, hubVars, pingVars, history>>

(* stops the client when it was the last one, or when it does not listen,  *)
CloseDecide ==
  /\ ctl = "decide"
  /\ ctl' = (IF Cardinality(data) = 1 \/ ~HasIn THEN "flag" ELSE "wait")
  /\ UNCHANGED <<data, manager, closing, stopped, hubVars, pingVars, call, target,
                 history>>

(* and waits for the disconnection if the index still stands for a stream; *)
CloseWait ==
  /\ ctl = "wait"
  /\ ctl' = (IF target.index \in DOMAIN byIndex THEN "waiting" ELSE "answer")
  /\ UNCHANGED <<data, manager, closing, stopped, hubVars, pingVars, call, target,
                 history>>

(* the wait ends with the report of a disconnection (see HubReport) or     *)
(* with its timeout,                                                       *)
CloseTimeout ==
  /\ ctl = "waiting"
  /\ ctl' = "answer"
  /\ UNCHANGED <<data, manager, closing, stopped, hubVars, pingVars, call, target,
                 history>>

(* and the answer is true in both cases. *)
CloseAnswer ==
  /\ ctl = "answer"
  /\ ctl' = "idle" /\ call' = "none" /\ target' = NoTarget
  /\ UNCHANGED <<data, manager, closing, stopped, hubVars, pingVars, history>>

-----------------------------------------------------------------------------
(* stop(): flags; the queues are stopped; the ping period becomes zero;    *)
StopFlag ==
  /\ ctl = "flag"
  /\ stopped' = TRUE
  /\ pingMs' = FALSE
  /\ ctl' = "joinPing"
  /\ UNCHANGED <<data, manager, closing, hubVars, pinger, call, target, history>>

(* joins the ping thread; *)
JoinPing ==
  /\ ctl = "joinPing" /\ pinger # "on"
  /\ pinger' = "none"
  /\ ctl' = "joinHub"
  /\ UNCHANGED <<data, manager, closing, stopped, hubVars, pingMs, call, target, history>>

(* joins the hub thread; close goes on to its wait, and stop_and_close to  *)
(* close_all, which reports nothing.                                       *)
JoinHub ==
  /\ ctl = "joinHub" /\ ~Alive
  /\ hub' = "none"
  /\ ctl' = (IF call = "close" THEN "wait" ELSE "idle")
  /\ call' = (IF call = "close" THEN call ELSE "none")
  /\ IF call = "closeAll"
     THEN /\ data' = {}
          /\ index' = Restrict(index, {}) /\ UNCHANGED nameIndex
          /\ byIndex' = Restrict(byIndex, DOMAIN byIndex \ Range(index))
     ELSE UNCHANGED <<data, manager>>
  /\ UNCHANGED <<closing, stopped, todo, victim, pingVars, target, history>>

(* run_ping(): a round of ping_network (see Descriptions) and a sleep, as   *)
(* long as the period is positive.                                         *)
Ping ==
  /\ pinger = "on"
  /\ pinger' = (IF pingMs THEN "on" ELSE "ended")
  /\ UNCHANGED <<data, manager, closing, stopped, hubVars, pingMs, user, history>>

-----------------------------------------------------------------------------
(* run(): the loop condition, then step. *)
HubTest ==
  /\ hub = "test"
  /\ hub' = (IF stopped THEN "done" ELSE "step")
  /\ UNCHANGED <<data, manager, closing, stopped, todo, victim, pingVars, user, history>>

(* In step, Dashel accepts a stream, *)
HubAccept(s) ==
  /\ hub = "step" /\ HasIn
  /\ Open(s)
  /\ UNCHANGED <<closing, stopped, hubVars, pingVars, user, reported, asked, wanted>>

(* or finds that a peer closed one, *)
HubPeerCloses(s) ==
  /\ hub = "step" /\ s \in data
  /\ victim' = s /\ hub' = "report"
  /\ UNCHANGED <<data, manager, closing, stopped, todo, pingVars, user, history>>

(* or was told to stop, which ends the loop. *)
HubStops ==
  /\ hub = "step" /\ ctl = "joinHub" /\ call # "close"
  /\ hub' = "done"
  /\ UNCHANGED <<data, manager, closing, stopped, todo, victim, pingVars, user, history>>

(* After step: a copy of the streams to be closed, *)
HubCollect ==
  /\ hub = "step"
  /\ todo' = closing
  /\ hub' = "close"
  /\ UNCHANGED <<data, manager, closing, stopped, victim, pingVars, user, history>>

(* those that are still open are closed one by one, *)
HubClose ==
  /\ hub = "close"
  /\ IF todo \cap data # {}
     THEN hub' = "report" /\ victim' \in todo \cap data /\ UNCHANGED todo
     ELSE hub' = "clear" /\ todo' = {} /\ UNCHANGED victim
  /\ UNCHANGED <<data, manager, closing, stopped, pingVars, user, history>>

(* and the original is cleared. *)
HubClear ==
  /\ hub = "clear"
  /\ closing' = {}
  /\ hub' = "test"
  /\ UNCHANGED <<data, manager, stopped, todo, victim, pingVars, user, history>>

(* connectionClosed(): callbacks, the waits for the disconnection, the     *)
(* nodes of the target;                                                    *)
HubReport ==
  /\ hub = "report"
  /\ reported' = reported \cup {victim}
  /\ ctl' = (IF ctl = "waiting" /\ index[victim] = target.index THEN "answer" ELSE ctl)
  /\ hub' = "forget"
  /\ UNCHANGED <<data, manager, closing, stopped, todo, victim, pingVars, call, target,
                 used, asked, wanted>>

(* then the manager forgets the stream, and Dashel deletes it. *)
HubForget ==
  /\ hub = "forget"
  /\ Remove(victim)
  /\ data' = data \ {victim} /\ todo' = todo \ {victim} /\ victim' = NoStream
  /\ hub' = (IF victim \in todo THEN "close" ELSE "step")
  /\ UNCHANGED <<closing, stopped, pingVars, user, history>>

-----------------------------------------------------------------------------
Calls ==
  \/ \E s \in Streams, starting \in BOOLEAN : Connect(s, starting)
  \/ \E what \in {"_connect", "connect"} : ConnectFails(what)
  \/ Start
  \/ \E value \in BOOLEAN : SetPing(value)
  \/ \E what \in {"stop", "closeAll"} : Stop(what)
  \/ \E i \in Indices : Close(i)

CallStep ==
  \/ ConnectFailed \/ CloseDecide \/ CloseWait \/ CloseTimeout \/ CloseAnswer
  \/ StopFlag \/ JoinPing \/ JoinHub

(* What the hub thread does of itself, and what its peers make it do.      *)
HubStep ==
  \/ HubTest \/ HubStops \/ HubCollect \/ HubClose \/ HubClear
  \/ HubReport \/ HubForget

Peers == \E s \in Streams : HubAccept(s) \/ HubPeerCloses(s)

Next == Calls \/ CallStep \/ Ping \/ HubStep \/ Peers

(* Threads run, waits time out; users and peers owe nothing.               *)
Fairness ==
  /\ WF_vars(CallStep) /\ WF_vars(ctl = "start" /\ Start)
  /\ WF_vars(Ping) /\ WF_vars(HubStep)

Spec == Init /\ [][Next]_vars /\ Fairness
-----------------------------------------------------------------------------
(* Properties.                                                             *)

(* What get(index) returns is an open stream of that index: add and remove *)
(* of streams that share an index never leave a stale entry.               *)
LookupIsSound ==
  \A i \in DOMAIN byIndex : byIndex[i] \in DOMAIN index /\ index[byIndex[i]] = i

(* Streams have the same index exactly when they have the same target: a   *)
(* target that is opened again gets its old index back.                    *)
OneIndexPerName ==
  /\ \A s \in DOMAIN index : NameOf[s] \in DOMAIN nameIndex
                             /\ nameIndex[NameOf[s]] = index[s]
  /\ IsInjective(nameIndex)

(* The hub thread reports and deletes only streams that are open, whether  *)
(* a user asked for it, a peer closed, or both.                            *)
ClosesOpenStreams == hub \in {"report", "forget"} => victim \in data

(* Between the calls of its user, a client has a hub thread exactly when   *)
(* it is not stopped: no call leaves a second thread or none behind.       *)
RunsUnlessStopped == ctl = "idle" => (stopped <=> hub = "none")

(* Every call of the user returns: stop joins threads that do end, and     *)
(* close waits for a limited time.                                         *)
CallsReturn == (ctl # "idle") ~> (ctl = "idle")

(* "Whether the connection has been closed." (close_connection): when the  *)
(* call answers true, the stream is closed.                                *)
CloseAnswerIsTrue == ctl = "answer" => target.stream \notin data

(* "Closes a connection.": closing one connection does not stop a client   *)
(* that has others.                                                        *)
ClosingSparesOthers ==
  (ctl = "answer" /\ wanted /\ data \ {target.stream} # {}) => ~stopped

(* "Closes a connection.": a stream whose closing was requested from a     *)
(* client that then keeps running is eventually closed.                    *)
ClosingIsDone ==
  \A s \in Streams :
     (s \in closing /\ ctl = "decide") ~> (s \notin data \/ stopped)

(* "The period in milliseconds to broadcast node discovery messages": a    *)
(* running client whose period is positive has a thread that broadcasts.   *)
PingResumes == (ctl = "idle" /\ ~stopped /\ pingMs) => pinger = "on"

(* "Starts the client.": a stop and a start leave the period as the user   *)
(* has set it.                                                             *)
RestartPings == (ctl = "idle" /\ ~stopped /\ asked) => pingMs

(* "Whether at least the client has at least one open connection."         *)
(* (is_connected): between two steps of the hub, it is true if and only if *)
(* a stream is open.                                                       *)
IsConnectedTells == DOMAIN byIndex # {} <=> data # {}

(* "Adds a callback called when a connection is closed.": a stream that    *)
(* was opened, and is no longer, was reported.                             *)
DisconnectionIsReported == used \ data \subseteq reported

(* "or ``0`` in case of failure" (_connect): a failed connection gives 0.  *)
FailedConnectIsZero == ctl = "failed" => target.index = 0
=============================================================================
