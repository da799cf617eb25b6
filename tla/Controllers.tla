------------------------------ MODULE Controllers ------------------------------
(***************************************************************************)
(* The programs of examples/thymio and the Thymio shell: a Thymio drives   *)
(* until it is in front of an obstacle, or as the user says, and the       *)
(* program closes it, or resets it and closes its client.                  *)
(*                                                                         *)
(* The thread of the program ("main") connects, sets the speed of the      *)
(* motors, waits and closes.  The thread of the client that processes      *)
(* messages ("reader") hears events, updates the cache and calls the       *)
(* control callback, which is followed by sync().  The Thymio emits prox   *)
(* events with what is in front of it, and timer events once it has a      *)
(* period, while it runs the mirroring script.  The programs of            *)
(* examples/thymio/client have no node: they load a script of their own,   *)
(* or ask for prox.horizontal, with a client.                              *)
(*                                                                         *)
(* Of the variables there are two: the target of the motors (Still or      *)
(* Fast, both motors alike) and prox.horizontal, near an obstacle or not.  *)
(* An entry of the node's dictionaries is the set of what it holds, empty  *)
(* for None and for an empty list.                                         *)
(***************************************************************************)
EXTENDS Naturals, Sequences, SequencesExt

CONSTANTS
  Programs,      \* the programs that are run, by the names below
  QueueMax,      \* bound on the events of a kind that are on their way
  MaxMoves,      \* bound on the moves of the obstacle
  MaxCommands    \* bound on the commands of the shell, and questions in a row

Still == "still"
Fast == "fast"

-----------------------------------------------------------------------------
(* The programs: the event that triggers the callback or is waited for;    *)
(* how events are used: a controller set when connected, a callback set    *)
(* before, a wait, a callback of a bare client, its questions, or not at   *)
(* all; how the first speed is set; whether the callback drives on when    *)
(* nothing is near; and what an interrupt does.                            *)

ControllerSync ==
  [event |-> "prox", uses |-> "controller", first |-> "cached", drives |-> FALSE,
   async |-> FALSE, interrupted |-> "close"]

ControllerAsync == [ControllerSync EXCEPT !.async = TRUE, !.interrupted = "dead"]

WaitSync ==
  [event |-> "prox", uses |-> "wait", first |-> "synced", drives |-> FALSE,
   async |-> FALSE, interrupted |-> "dead"]

WaitAsync == [WaitSync EXCEPT !.async = TRUE]

CallbacksSync ==
  [event |-> "prox", uses |-> "callback", first |-> "none", drives |-> FALSE,
   async |-> FALSE, interrupted |-> "dead"]

CallbacksAsync == [CallbacksSync EXCEPT !.async = TRUE]

(* The control event of a Thymio is timer0. *)
Behavior ==
  [event |-> "timer0", uses |-> "controller", first |-> "none", drives |-> TRUE,
   async |-> FALSE, interrupted |-> "close"]

Shell ==
  [event |-> "none", uses |-> "shell", first |-> "none", drives |-> FALSE,
   async |-> FALSE, interrupted |-> "dead"]

(* The script of the program emits prox.horizontal with every prox event. *)
EventSync ==
  [event |-> "prox", uses |-> "client", first |-> "set", drives |-> FALSE,
   async |-> FALSE, interrupted |-> "dead"]

EventAsync == [EventSync EXCEPT !.async = TRUE]

(* The script drives, and emits an event when an obstacle is near. *)
ScriptSync == [EventSync EXCEPT !.first = "script"]

ScriptAsync == [ScriptSync EXCEPT !.async = TRUE]

(* No script: the program asks for prox.horizontal, at most 100 times. *)
VariablesSync == [EventSync EXCEPT !.event = "none", !.uses = "questions"]

VariablesAsync == [VariablesSync EXCEPT !.async = TRUE]

Names ==
  {"controller_sync", "controller_async", "wait_sync", "wait_async", "callbacks_sync",
   "callbacks_async", "behavior", "shell", "event_sync", "event_async", "script_sync",
   "script_async", "variables_sync", "variables_async"}

Named(name) ==
  CASE name = "controller_sync" -> ControllerSync [] name = "controller_async" -> ControllerAsync
    [] name = "wait_sync" -> WaitSync             [] name = "wait_async" -> WaitAsync
    [] name = "callbacks_sync" -> CallbacksSync   [] name = "callbacks_async" -> CallbacksAsync
    [] name = "behavior" -> Behavior              [] name = "shell" -> Shell
    [] name = "event_sync" -> EventSync           [] name = "event_async" -> EventAsync
    [] name = "script_sync" -> ScriptSync         [] name = "script_async" -> ScriptAsync
    [] name = "variables_sync" -> VariablesSync   [] name = "variables_async" -> VariablesAsync

ASSUME BoundsAssumption == QueueMax \in Nat /\ MaxMoves \in Nat /\ MaxCommands \in Nat
ASSUME ProgramsAssumption == Programs \subseteq Names

VARIABLES
  program, \* the name of the program
  main,    \* where its thread is
  done,    \* its flag, or future: the obstacle has been reached
  reader,  \* where the processing thread is
  callback, \* the event that the callback is registered for
  mirroring, \* whether the node mirrors
  next, prev, \* the cached target, and what the Thymio is known to have
  seen,    \* the cached prox.horizontal
  up, down, \* events from the Thymio, and commands to it
  script,  \* the Thymio runs the mirroring script, or that of the program
  target,  \* the speed of its motors
  period,  \* its timer has a period
  near,    \* it is near an obstacle
  interrupted, \* history: the user has interrupted the program
  late,    \* history: a control step has set the speed to Fast after the reset of close
  moves, commands

node == <<callback, mirroring, next, prev, seen>>
channels == <<up, down>>
thymio == <<script, target, period, near>>
history == <<interrupted, late>>
bounds == <<moves, commands>>
vars == <<program, main, done, reader, node, channels, thymio, history, bounds>>

Runs == Named(program)
NoEvent == [event |-> "none", mirrored |-> FALSE]
Over == main \in {"closed", "dead"}

(* The program has a client and no node. *)
Bare == Runs.uses \in {"client", "questions"}

TypeOK ==
  /\ program \in Programs
  /\ main \in {"create", "connect", "start", "loop", "close", "rest", "closed", "dead"}
  /\ done \in BOOLEAN /\ reader \in {"idle", "control", "sync"}
  /\ callback.event \in {"none", "prox", "timer0"} /\ callback.mirrored \in BOOLEAN
  /\ mirroring \in BOOLEAN
  /\ next \in SUBSET {Still, Fast} /\ prev \in SUBSET {Still, Fast} /\ seen \in SUBSET BOOLEAN
  /\ \A m \in ToSet(up) : m.event \in {"prox", "timer0"} /\ m.near \in BOOLEAN
  /\ \A m \in ToSet(down) : m \in {Still, Fast, "reset", "stop", "start", "run", "period"}
  /\ script \in BOOLEAN /\ target \in {Still, Fast} /\ period \in BOOLEAN /\ near \in BOOLEAN
  /\ interrupted \in BOOLEAN /\ late \in BOOLEAN
  /\ moves \in 0..MaxMoves /\ commands \in 0..MaxCommands

Init ==
  /\ program \in Programs /\ main = "create" /\ done = FALSE /\ reader = "idle"
  /\ callback = NoEvent /\ mirroring = FALSE
  /\ next = {} /\ prev = {} /\ seen = {}
  /\ up = <<>> /\ down = <<>>
  /\ script = FALSE /\ target = Still /\ period = FALSE /\ near \in BOOLEAN
  /\ interrupted = FALSE /\ late = FALSE /\ moves = 0 /\ commands = 0

-----------------------------------------------------------------------------
(* What is sent: commands to the Thymio, in order; a target that is set is *)
(* a command of its own.                                                   *)
Send(ms) == down' = down \o ms

StopOnly == <<"stop">>  \* a mutated form of Stop: the motors are left alone

(* Thymio.stop stops the script and then the motors, uncached. *)
Stop == <<"stop", Still>>

Reset == <<"reset">>

(* sync: a cached target that differs from the one the Thymio is known to  *)
(* have is forwarded.                                                      *)
Sync ==
  /\ next' = {}
  /\ IF next # {} /\ next # prev
     THEN Send(SetToSeq(next)) /\ prev' = next
     ELSE UNCHANGED <<down, prev>>

(* _event_name: the name that a callback is registered under is that of    *)
(* the mirrored event only if the node mirrors already.                    *)
EventName(event) == [event |-> event, mirrored |-> mirroring]

-----------------------------------------------------------------------------
(* The program *)

(* Thymio(), and set_callback of callbacks_sync.py and callbacks_async.py. *)
Create ==
  /\ main = "create" /\ main' = "connect"
  /\ callback' = IF Runs.uses = "callback" THEN EventName(Runs.event) ELSE callback
  /\ UNCHANGED <<program, done, reader, mirroring, next, prev, seen, channels, thymio, history, bounds>>

(* connect(start_mirroring=True): the update that follows may come late,   *)
(* and then the cache has no values.                                       *)
Connect ==
  /\ main = "connect" /\ main' = "start"
  /\ IF Bare THEN UNCHANGED <<mirroring, script>> ELSE mirroring' = TRUE /\ script' = TRUE
  /\ \/ ~Bare /\ seen' = {near} /\ prev' = {target}
     \/ UNCHANGED <<seen, prev>>
  /\ UNCHANGED <<program, done, reader, callback, next, channels, target, period, near, history, bounds>>

(* No Thymio: the program closes a node that has no client. *)
ConnectFails ==
  /\ main = "connect" /\ main' = "dead"
  /\ UNCHANGED <<program, done, reader, node, channels, thymio, history, bounds>>

(* The first speed is cached for the callback to sync, or synced. *)
FirstSpeed ==
  /\ next' = IF Runs.first = "cached" THEN {Fast} ELSE next
  /\ prev' = IF Runs.first = "synced" THEN {Fast} ELSE prev

FirstCommands ==
  IF Runs.first = "set" \/ (Runs.first = "synced" /\ prev # {Fast}) THEN <<Fast>> ELSE <<>>

(* load_script and cmd_run of a bare client *)
RunScript == IF Runs.uses = "client" THEN <<"run">> ELSE <<>>

(* set_control_period of a Thymio concerns its timers. *)
SetControlPeriod == IF Runs.event = "timer0" THEN <<"period">> ELSE <<>>

(* set_controller: a callback for the event, and its period; or            *)
(* add_event_callback of a bare client.                                    *)
SetController ==
  callback' = IF Runs.uses \in {"controller", "client"} THEN EventName(Runs.event) ELSE callback

Start ==
  /\ main = "start" /\ main' = "loop"
  /\ FirstSpeed /\ SetController
  /\ Send(FirstCommands \o SetControlPeriod \o RunScript)
  /\ UNCHANGED <<program, done, reader, mirroring, seen, up, thymio, history, bounds>>

(* while not done: sleep; or await done. *)
Leave ==
  /\ main = "loop" /\ done
  /\ main' = "close"
  /\ UNCHANGED <<program, done, reader, node, channels, thymio, history, bounds>>

(* A wait ends with its event or its deadline; then prox.horizontal is     *)
(* read from the cache, which raises an exception when it has no value.    *)
Look ==
  /\ main = "loop" /\ Runs.uses = "wait"
  /\ main' = IF seen = {} THEN "dead" ELSE IF TRUE \in seen THEN "close" ELSE "loop"
  /\ UNCHANGED <<program, done, reader, node, channels, thymio, history, bounds>>

(* prox.horizontal is asked for until an answer shows an obstacle; answers *)
(* that come too late count, and so do those that show none.               *)
Ask ==
  /\ main = "loop" /\ Runs.uses = "questions"
  /\ \/ near /\ main' = "close" /\ UNCHANGED commands
     \/ commands < MaxCommands /\ commands' = commands + 1 /\ UNCHANGED main
     \/ commands = MaxCommands /\ main' = "close" /\ UNCHANGED commands
  /\ UNCHANGED <<program, done, reader, node, channels, thymio, history, moves>>

(* A KeyboardInterrupt: controller_sync.py and behavior.py handle it and   *)
(* go on to close the Thymio; the other programs end.                      *)
Interrupt ==
  /\ main = "loop" /\ main' = Runs.interrupted
  /\ interrupted' = TRUE
  /\ UNCHANGED <<program, done, reader, node, channels, thymio, late, bounds>>

(* close: a reset, or the stop of a Thymio, *)
Close ==
  /\ main = "close" /\ main' = "rest"
  /\ mirroring' = FALSE
  /\ Send(IF Runs.uses = "shell" THEN Stop ELSE Reset)
  /\ UNCHANGED <<program, done, reader, callback, next, prev, seen, up, thymio, history, bounds>>

(* 0.1 s, in which what close has sent leaves, and the end of the client,  *)
(* which waits for the callback and forgets what else is on its way.       *)
(* The programs with a bare client close it at once.                       *)
CloseClient ==
  /\ main = "rest" /\ reader = "idle"
  /\ Bare \/ ToSet(down) \cap {"reset", "stop"} = {}
  /\ Runs.uses = "shell" => down = <<>>
  /\ main' = "closed"
  /\ up' = <<>> /\ down' \in {down, <<>>}
  /\ UNCHANGED <<program, done, reader, node, thymio, history, bounds>>

-----------------------------------------------------------------------------
(* The shell: commands of its user that change something *)

Prompt ==
  /\ main = "loop" /\ Runs.uses = "shell"
  /\ UNCHANGED <<program, done, reader, callback, next, prev, seen, up, thymio, history, moves>>

Command == Prompt /\ commands < MaxCommands /\ commands' = commands + 1

ShellSet(speed) == Command /\ Send(<<speed>>) /\ UNCHANGED <<main, mirroring>>

ShellStop == Command /\ mirroring' = FALSE /\ Send(Stop) /\ UNCHANGED main

ShellStart == Command /\ mirroring' = TRUE /\ Send(<<"start">>) /\ UNCHANGED main

ShellQuit == Prompt /\ main' = "close" /\ UNCHANGED <<mirroring, down, commands>>

-----------------------------------------------------------------------------
(* The processing thread *)

HearStale ==  \* a mutated form of Hear: the variables of the event are not read
  /\ reader = "idle" /\ up # <<>> /\ ~Over /\ ~Bare
  /\ up' = Tail(up)
  /\ reader' = IF ~Runs.async /\ callback = [event |-> Head(up).event, mirrored |-> TRUE]
               THEN "control" ELSE "idle"
  /\ UNCHANGED <<program, main, done, node, down, thymio, history, bounds>>

(* _event_cb, which an asynchronous node does not register with its        *)
(* client: the variables of the event are read if the node still mirrors,  *)
(* and the callback is called.                                             *)
Hear ==
  /\ reader = "idle" /\ up # <<>> /\ ~Over /\ ~Bare
  /\ up' = Tail(up)
  /\ IF Runs.async THEN UNCHANGED <<seen, reader>>
     ELSE LET m == Head(up)
          IN  /\ seen' = IF mirroring /\ m.event = "prox" THEN {m.near} ELSE seen
              /\ reader' = IF callback = [event |-> m.event, mirrored |-> TRUE]
                           THEN "control" ELSE "idle"
  /\ UNCHANGED <<program, main, done, callback, mirroring, next, prev, down, thymio, history, bounds>>

(* The callback of a bare client looks at what the event has brought; a    *)
(* future is resolved by the loop, soon.                                   *)
Told ==
  /\ Bare /\ up # <<>> /\ ~Over
  /\ up' = Tail(up)
  /\ done' = (done \/ (callback.event = Head(up).event /\ Head(up).near))
  /\ UNCHANGED <<program, main, reader, node, down, thymio, history, bounds>>

(* control: in front of an obstacle it tells the program that it is done   *)
(* and sets the target.  What behaviors do is not part of pyaseba; they    *)
(* stop in front of an obstacle and drive on when there is none.           *)
Control ==
  /\ reader = "control" /\ reader' = "sync" /\ main # "dead"
  /\ IF TRUE \in seen
     THEN next' = {Still} /\ done' = (done \/ ~Runs.drives)
     ELSE next' = (IF Runs.drives THEN {Fast} ELSE next) /\ UNCHANGED done
  /\ UNCHANGED <<program, main, callback, mirroring, prev, seen, channels, thymio, history, bounds>>

(* node.sync() of the callback that set_controller has made. *)
ControlSync ==
  /\ reader = "sync" /\ reader' = "idle" /\ main # "dead"
  /\ Sync
  /\ late' = (late \/ (main \in {"rest", "closed"} /\ down' # down /\ Fast \in next))
  /\ UNCHANGED <<program, main, done, callback, mirroring, seen, up, thymio, interrupted, bounds>>

-----------------------------------------------------------------------------
(* The Thymio *)

Emit(event) ==
  /\ script /\ ~Over /\ (event = "timer0" => period)
  /\ Runs.first = "script" => near
  /\ Len(SelectSeq(up, LAMBDA m : m.event = event)) < QueueMax
  /\ up' = Append(up, [event |-> event, near |-> near])
  /\ UNCHANGED <<program, main, done, reader, node, down, thymio, history, bounds>>

(* Commands; a reset ends the script and stops the motors, and some        *)
(* scripts start them.                                                     *)
Handle ==
  /\ down # <<>> /\ down' = Tail(down)
  /\ LET m == Head(down)
     IN  /\ script' = IF m \in {"reset", "stop"} THEN FALSE ELSE IF m \in {"start", "run"} THEN TRUE ELSE script
         /\ target' = IF m = "reset" THEN Still ELSE IF m \in {Still, Fast} THEN m
                      ELSE IF m = "run" /\ Runs.first = "script" THEN Fast ELSE target
         /\ period' = IF m = "reset" THEN FALSE ELSE IF m = "period" THEN TRUE ELSE period
  /\ UNCHANGED <<program, main, done, reader, node, up, near, history, bounds>>

Move ==
  /\ moves < MaxMoves /\ moves' = moves + 1
  /\ near' = ~near
  /\ UNCHANGED <<program, main, done, reader, node, channels, script, target, period, history,
                 commands>>

-----------------------------------------------------------------------------
Main ==
  \/ Create \/ Connect \/ ConnectFails \/ Start \/ Leave \/ Look \/ Ask \/ Close \/ CloseClient

Commands == (\E speed \in {Still, Fast} : ShellSet(speed)) \/ ShellStop \/ ShellStart \/ ShellQuit

Reader == Hear \/ Told \/ Control \/ ControlSync

Next ==
  \/ Main \/ Interrupt \/ Commands \/ Reader \/ Move
  \/ \E event \in {"prox", "timer0"} : Emit(event)
  \/ Handle

(* The threads run, and the Thymio emits events and handles commands; the  *)
(* user and the obstacle do as they like.                                  *)
Fairness ==
  /\ WF_vars(Main) /\ WF_vars(Reader) /\ WF_vars(Handle)
  /\ WF_vars(Emit("prox")) /\ WF_vars(Emit("timer0"))

Spec == Init /\ [][Next]_vars /\ Fairness
-----------------------------------------------------------------------------
(* A Thymio that has been closed stands still, whatever its callback and   *)
(* the shell have sent before, and whatever is still on its way (node.py   *)
(* 512-526, thymio.py 171-174).  There is one exception: the client of a   *)
(* program that has been interrupted (controller_sync.py 31, behavior.py   *)
(* 55) still calls the controller while close sleeps, whose sync may set   *)
(* the speed after the reset.  A controller that ends its program itself   *)
(* does not.  (The reset of a bare client may not leave before its         *)
(* connection is closed.)                                                  *)
StandsAtTheEnd ==
  main = "closed" /\ ~Bare /\ down = <<>> => target = Still \/ (interrupted /\ late)

Stops ==
  <>[]near => /\ <>[](target = Still \/ main = "dead" \/ (interrupted /\ late)) \/ Bare
              /\ Runs.drives \/ <>Over

(* A program whose callback is called, or that waits, stops in front of an *)
(* obstacle that stays, through its events, the cache and sync, and ends,  *)
(* if need be because it has read a value that is not there                *)
(* (examples/thymio/node); one with a bare client sees it, resets and ends *)
(* (examples/thymio/client).                                               *)
StopsAtObstacle == program \in {"controller_sync", "wait_sync", "behavior"} \/ Bare => Stops

(* All of them do. *)
AllStopAtObstacle == program # "shell" => Stops

(* A Thymio that has been closed stands still. *)
ClosedStands == main = "closed" /\ ~Bare /\ down = <<>> => target = Still

(* A program that ends leaves the Thymio still, however it ends. *)
StandsWhenOver == Over /\ down = <<>> => target = Still
=============================================================================
