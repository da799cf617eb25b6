------------------------------- MODULE NodeCache -------------------------------
(***************************************************************************)
(* The cache of variables of pyaseba.client.Node (client/node/node.py) and *)
(* NodeAsync (client/node/node_async.py), over a remote node.              *)
(*                                                                         *)
(* Three dictionaries of the Node:                                         *)
(*   values   _variable_values          what get and the properties show   *)
(*   next     _next_variables_values    cached changes, for sync           *)
(*   prev     _prev_variables_values    what the remote node is known to   *)
(*                                      hold: sync forwards only what      *)
(*                                      differs from it                    *)
(* Entries are lists, and the same list may be in two dictionaries: alias  *)
(* says in which others the list that values holds is, too.                *)
(*                                                                         *)
(* Actors: the program ("user"), the thread that processes messages        *)
(* ("processing"), which calls _event_cb and, if there is a controller,    *)
(* its callback followed by sync; and the remote node.  Python threads     *)
(* switch between two steps: sync goes from variable to variable, what an  *)
(* event or an answer brings is stored in one step.  Messages go up to the *)
(* node and down from it, in order.                                        *)
(***************************************************************************)
EXTENDS Naturals, Sequences, FiniteSets

CONSTANTS
  Vars,          \* the variables of the node
  Mirrored,      \* those that its events carry
  Synced,        \* those that sync_include and sync_exclude select
  Written,       \* those that the program sets
  Lists,         \* those of more than one slot: get shows the list itself
  Values,        \* contents of a variable
  None,          \* no entry in a dictionary
  Empty,         \* the empty list: not known
  Whole,         \* the contents of all the variables, stored for one of them
  Program,       \* the operations that each thread performs
  Controller,    \* set_controller: events call a callback, then sync
  RecordsPrev,   \* FALSE for NodeAsync, which does not record what it reads
  Timeouts,      \* reads may reach their deadline
  MaxOps,        \* bound on the operations of the program
  MaxEvents      \* bound on the events of the node

Threads == {"user", "processing"}
Operations == {"cache", "now", "modify", "sync", "get", "update", "reload"}

ASSUME VarsAssumption ==
  /\ Mirrored \subseteq Vars /\ Synced \subseteq Vars
  /\ Written \subseteq Vars /\ Lists \subseteq Vars
ASSUME ValuesAssumption ==
  /\ 0 \in Values /\ {None, Empty, Whole} \cap Values = {}
  /\ None \notin {Empty, Whole}
ASSUME ProgramAssumption == Program \in [Threads -> SUBSET Operations]
ASSUME FlagsAssumption ==
  Controller \in BOOLEAN /\ RecordsPrev \in BOOLEAN /\ Timeouts \in BOOLEAN
ASSUME BoundsAssumption == MaxOps \in Nat /\ MaxEvents \in Nat

VARIABLES
  values, next, prev, alias,
  mem,           \* the variables in the remote node
  up, down,      \* messages to and from it
  pc,            \* where each thread is
  arg,           \* the variable it gets
  todo,          \* the variables its sync has not yet looked at
  got,           \* the values it was sent
  ops, events,
  unsure         \* history: the variables whose entries may be out of date,
                 \* because they were set uncached or modified in place, or
                 \* read while an earlier answer was due, or changed by an
                 \* event between the answer to a read and its storing; until
                 \* they are forwarded, or what is read or received is recorded

cache == <<values, next, prev, alias>>
node == <<mem, events>>
channels == <<up, down>>
threads == <<pc, arg, todo, got>>
vars == <<cache, node, channels, threads, ops, unsure>>

Stored == Values \cup {Empty, Whole}
Contents == UNION {[of -> Values] : of \in SUBSET Vars}
Requests ==
  [op : {"set"}, var : Vars, val : Values] \cup [op : {"get"}, of : SUBSET Vars]
Answers == [event : BOOLEAN, val : Contents]
Places == {"idle", "run", "sync", "get", "update", "got", "refresh"}

TypeOK ==
  /\ values \in [Vars -> Stored]
  /\ next \in [Vars -> Values \cup {None}] /\ prev \in [Vars -> Stored \cup {None}]
  /\ alias \in [Vars -> SUBSET {"next", "prev"}]
  /\ \A v \in Vars : \* the same list has the same contents
       /\ "next" \in alias[v] => next[v] = values[v]
       /\ "prev" \in alias[v] => prev[v] = values[v]
  /\ mem \in [Vars -> Values] /\ events \in 0..MaxEvents
  /\ up \in Seq(Requests) /\ down \in Seq(Answers)
  /\ pc \in [Threads -> Places] /\ arg \in [Threads -> Vars \cup {None}]
  /\ todo \in [Threads -> SUBSET Synced] /\ got \in [Threads -> Contents]
  /\ ops \in 0..MaxOps /\ unsure \subseteq Vars

(* connect ends with update: the cache shows the node's variables, or      *)
(* empty lists if the answer did not come in time.                         *)
Init ==
  /\ mem = [v \in Vars |-> 0]
  /\ \/ /\ values = mem
        /\ prev = [v \in Vars |-> IF RecordsPrev THEN mem[v] ELSE None]
        /\ alias = [v \in Vars |-> IF RecordsPrev THEN {"prev"} ELSE {}]
     \/ /\ values = [v \in Vars |-> Empty]
        /\ prev = [v \in Vars |-> None]
        /\ alias = [v \in Vars |-> {}]
  /\ next = [v \in Vars |-> None]
  /\ up = <<>> /\ down = <<>>
  /\ pc = [t \in Threads |-> IF t = "user" THEN "run" ELSE "idle"]
  /\ arg = [t \in Threads |-> None] /\ todo = [t \in Threads |-> {}]
  /\ got = [t \in Threads |-> <<>>]
  /\ ops = 0 /\ events = 0 /\ unsure = {}

-----------------------------------------------------------------------------
(* dict.update: the entries of f, and what g has besides. *)
Over(f, g) ==
  [x \in DOMAIN f \cup DOMAIN g |-> IF x \in DOMAIN f THEN f[x] ELSE g[x]]

Begin(t, op, place) ==
  /\ pc[t] = "run" /\ op \in Program[t]
  /\ ops < MaxOps /\ ops' = ops + 1
  /\ pc' = [pc EXCEPT ![t] = place]

(* A list read from the node is in values and prev, the same in both. *)
Read(f) ==
  /\ values' = [v \in Vars |-> IF v \in DOMAIN f THEN f[v] ELSE values[v]]
  /\ prev' = [v \in Vars |-> IF RecordsPrev /\ v \in DOMAIN f THEN f[v] ELSE prev[v]]
  /\ alias' = [v \in Vars |-> IF v \notin DOMAIN f THEN alias[v]
                              ELSE IF RecordsPrev THEN {"prev"} ELSE {}]

SendFirst(v, x) ==  \* a mutated form: the last change is sent first
  up' = <<[op |-> "set", var |-> v, val |-> x]>> \o up

(* set(name, value, cached=False) sends a copy. *)
Send(v, x) == up' = Append(up, [op |-> "set", var |-> v, val |-> x])

(* Mutated forms of what follows; never part of Next. *)
SyncVariableUnrecorded(t, v) ==  \* what is forwarded is not recorded
  /\ pc[t] = "sync" /\ v \in todo[t]
  /\ todo' = [todo EXCEPT ![t] = @ \ {v}]
  /\ IF next[v] \notin {None, prev[v]}
     THEN /\ Send(v, next[v])
          /\ values' = [values EXCEPT ![v] = next[v]]
          /\ alias' = [alias EXCEPT ![v] = {}]
          /\ unsure' = unsure \ {v}
     ELSE UNCHANGED <<values, alias, up, unsure>>
  /\ UNCHANGED <<next, prev, node, down, pc, arg, got, ops>>

EventUpdateMissing(f) ==  \* only what is not yet known is stored
  LET g == [v \in {w \in DOMAIN f : values[w] = Empty} |-> f[v]]
  IN  /\ values' = Over(g, values) /\ prev' = Over(g, prev)
      /\ alias' = Over([v \in DOMAIN g |-> {"prev"}], alias)

-----------------------------------------------------------------------------
(* set(name, value, cached=True), or the property assigned a list or a     *)
(* number: the same list is in next and values.                            *)
SetCached(t, v, x) ==
  /\ v \in Written /\ Begin(t, "cache", "run")
  /\ next' = [next EXCEPT ![v] = x] /\ values' = [values EXCEPT ![v] = x]
  /\ alias' = [alias EXCEPT ![v] = {"next"}]
  /\ UNCHANGED <<prev, node, channels, arg, todo, got, unsure>>

SetNow(t, v, x) ==
  /\ v \in Written /\ Begin(t, "now", "run")
  /\ Send(v, x)
  /\ values' = [values EXCEPT ![v] = x] /\ alias' = [alias EXCEPT ![v] = {}]
  /\ unsure' = unsure \cup {v}
  /\ UNCHANGED <<next, prev, node, down, arg, todo, got>>

(* vs = node.p; vs[i] = x; node.p = vs.  The getter shows the list itself  *)
(* and the setter stores it: what else holds that list is changed as well. *)
Modify(t, v, x) ==
  /\ v \in Lists \cap Written /\ values[v] \in Values
  /\ Begin(t, "modify", "run")
  /\ values' = [values EXCEPT ![v] = x] /\ next' = [next EXCEPT ![v] = x]
  /\ prev' = IF "prev" \in alias[v] THEN [prev EXCEPT ![v] = x] ELSE prev
  /\ alias' = [alias EXCEPT ![v] = @ \cup {"next"}]
  /\ unsure' = IF "prev" \in alias[v] THEN unsure \cup {v} ELSE unsure
  /\ UNCHANGED <<node, channels, arg, todo, got>>

(* sync: variable after variable, in any order, *)
SyncBegin(t) ==
  /\ pc[t] = "run" /\ "sync" \in Program[t]
  /\ pc' = [pc EXCEPT ![t] = "sync"]
  /\ IF Controller THEN UNCHANGED ops ELSE ops < MaxOps /\ ops' = ops + 1
  /\ todo' = [todo EXCEPT ![t] = Synced]
  /\ UNCHANGED <<cache, node, channels, arg, got, unsure>>

(* what differs from prev is set uncached: values gets a copy of the list, *)
SyncVariable(t, v) ==
  /\ pc[t] = "sync" /\ v \in todo[t]
  /\ todo' = [todo EXCEPT ![t] = @ \ {v}]
  /\ IF next[v] \notin {None, prev[v]}
     THEN /\ Send(v, next[v])
          /\ values' = [values EXCEPT ![v] = next[v]]
          /\ prev' = [prev EXCEPT ![v] = next[v]]
          /\ alias' = [alias EXCEPT ![v] = {}]
          /\ unsure' = unsure \ {v}
     ELSE UNCHANGED <<values, prev, alias, up, unsure>>
  /\ UNCHANGED <<next, node, down, pc, arg, got, ops>>

(* and at the end all changes are forgotten. *)
SyncEnd(t) ==
  /\ pc[t] = "sync" /\ todo[t] = {}
  /\ next' = [v \in Vars |-> None]
  /\ alias' = [v \in Vars |-> alias[v] \ {"next"}]
  /\ pc' = [pc EXCEPT ![t] = IF t = "user" THEN "run" ELSE "idle"]
  /\ UNCHANGED <<values, prev, node, channels, arg, todo, got, ops, unsure>>

(* get(name, cached=False), update and get_all(cached=False) ask the node  *)
(* and wait; get is given the next Variables message of the node, whatever *)
(* it was the answer to; update waits until all variables have come.  (An  *)
(* answer that comes before the wait is registered is as good as late.)    *)
Get(t, v) ==
  /\ Begin(t, "get", "get")
  /\ up' = Append(up, [op |-> "get", of |-> {v}])
  /\ arg' = [arg EXCEPT ![t] = v] /\ got' = [got EXCEPT ![t] = <<>>]
  /\ UNCHANGED <<cache, node, down, todo, unsure>>

Update(t) ==
  /\ Begin(t, "update", "update")
  /\ up' = Append(up, [op |-> "get", of |-> Vars])
  /\ got' = [got EXCEPT ![t] = <<>>]
  /\ UNCHANGED <<cache, node, down, arg, todo, unsure>>

(* What get stores: the values of the message, as those of its variable.   *)
Found(t) ==
  LET of == DOMAIN got[t]
  IN  IF of = {} THEN Empty
      ELSE IF Cardinality(of) = 1 THEN got[t][CHOOSE v \in of : TRUE] ELSE Whole

GetStore(t) ==
  /\ pc[t] = "got"
  /\ Read([v \in {arg[t]} |-> Found(t)])
  /\ pc' = [pc EXCEPT ![t] = "run"] /\ arg' = [arg EXCEPT ![t] = None]
  /\ got' = [got EXCEPT ![t] = <<>>]
  /\ UNCHANGED <<next, node, channels, todo, ops, unsure>>

UpdateStore(t) ==
  /\ pc[t] = "refresh"
  /\ Read(got[t])
  /\ pc' = [pc EXCEPT ![t] = "run"] /\ got' = [got EXCEPT ![t] = <<>>]
  /\ UNCHANGED <<next, node, channels, arg, todo, ops, unsure>>

(* The deadline: get stores an empty list, update only warns.  A read in a *)
(* callback always ends so, because its thread would process the answer.   *)
Timeout(t) ==
  /\ Timeouts \/ t = "processing"
  /\ \/ pc[t] = "get" /\ pc' = [pc EXCEPT ![t] = "got"] /\ UNCHANGED got
     \/ /\ pc[t] = "update" /\ pc' = [pc EXCEPT ![t] = "run"]
        /\ got' = [got EXCEPT ![t] = <<>>]
  /\ UNCHANGED <<cache, node, channels, arg, todo, ops, unsure>>

(* load_script and start_mirroring: _init_variables makes new, empty lists *)
(* for the values, and leaves next and prev.                               *)
Reload(t) ==
  /\ Begin(t, "reload", "run")
  /\ values' = [v \in Vars |-> Empty] /\ alias' = [v \in Vars |-> {}]
  /\ UNCHANGED <<next, prev, node, channels, arg, todo, got, unsure>>

-----------------------------------------------------------------------------
(* Is another answer to come than the one that is received now? *)
Due ==
  \/ \E i \in DOMAIN up : up[i].op = "get"
  \/ \E i \in DOMAIN down \ {1} : ~down[i].event

Asked(t) ==
  CASE pc[t] \in {"get", "got"} -> {arg[t]} [] pc[t] \in {"update", "refresh"} -> Vars
    [] OTHER -> {}

(* The processing thread takes a Variables message: it completes the waits *)
(* of get, and those of update that now have all variables.                *)
Answered ==
  /\ pc["processing"] = "idle" /\ down # <<>> /\ ~Head(down).event
  /\ LET val == Head(down).val
         sum == [t \in Threads |-> Over(val, got[t])]
     IN  /\ got' = [t \in Threads |-> CASE pc[t] = "get" -> val
                                        [] pc[t] = "update" -> sum[t]
                                        [] OTHER -> got[t]]
         /\ pc' = [t \in Threads |->
                     CASE pc[t] = "get" -> "got"
                       [] pc[t] = "update" /\ DOMAIN sum[t] = Vars -> "refresh"
                       [] OTHER -> pc[t]]
         /\ unsure' = LET read == UNION {Asked(t) : t \in {u \in Threads : pc[u] # pc'[u]}}
                      IN  IF Due THEN unsure \cup read
                         ELSE IF RecordsPrev THEN unsure \ read ELSE unsure
  /\ down' = Tail(down)
  /\ UNCHANGED <<cache, node, up, arg, todo, ops>>

(* _event_cb: the variables of the event are read into the cache. *)
EventUpdate(f) ==
  /\ values' = Over(f, values) /\ prev' = Over(f, prev)
  /\ alias' = Over([v \in DOMAIN f |-> {"prev"}], alias)

EventReceived ==
  /\ pc["processing"] = "idle" /\ down # <<>> /\ Head(down).event
  /\ EventUpdate(Head(down).val)
  /\ unsure' =
       LET answered == UNION {Asked(t) : t \in {u \in Threads : pc[u] \in {"got", "refresh"}}}
       IN  (unsure \ DOMAIN Head(down).val) \cup (DOMAIN Head(down).val \cap answered)
  /\ pc' = IF Controller THEN [pc EXCEPT !["processing"] = "run"] ELSE pc
  /\ down' = Tail(down)
  /\ UNCHANGED <<next, node, up, arg, todo, got, ops>>

(* The remote node handles messages in order, changes the variables it     *)
(* measures, and emits an event with them.                                 *)
NodeHandles ==
  /\ up # <<>>
  /\ up' = Tail(up)
  /\ LET m == Head(up)
     IN  \/ /\ m.op = "set"
            /\ mem' = [mem EXCEPT ![m.var] = m.val] /\ UNCHANGED down
         \/ /\ m.op = "get"
            /\ down' = Append(down, [event |-> FALSE, val |-> [v \in m.of |-> mem[v]]])
            /\ UNCHANGED mem
  /\ UNCHANGED <<cache, threads, ops, events, unsure>>

NodeEmits ==
  /\ events < MaxEvents /\ Mirrored # {}
  /\ events' = events + 1
  /\ \E measured \in [Mirrored -> Values] :
       /\ mem' = Over(measured, mem)
       /\ down' = Append(down, [event |-> TRUE, val |-> measured])
  /\ UNCHANGED <<cache, up, threads, ops, unsure>>

-----------------------------------------------------------------------------
Operation(t) ==
  \/ \E v \in Vars, x \in Values : SetCached(t, v, x) \/ SetNow(t, v, x) \/ Modify(t, v, x)
  \/ SyncBegin(t)
  \/ \E v \in Vars : Get(t, v)
  \/ Update(t) \/ Reload(t)

Running(t) ==
  (\E v \in Synced : SyncVariable(t, v)) \/ SyncEnd(t) \/ GetStore(t) \/ UpdateStore(t)

Next ==
  \/ \E t \in Threads : Operation(t) \/ Running(t) \/ Timeout(t)
  \/ Answered \/ EventReceived \/ NodeHandles \/ NodeEmits

(* Operations under way go on, messages are delivered and handled, and a   *)
(* callback returns, which begins the sync of a controller.                *)
Fairness ==
  /\ \A t \in Threads : WF_vars(Running(t)) /\ WF_vars(Timeout(t))
  /\ WF_vars(SyncBegin("processing"))
  /\ WF_vars(Answered \/ EventReceived) /\ WF_vars(NodeHandles)

Spec == Init /\ [][Next]_vars /\ Fairness
-----------------------------------------------------------------------------
(* One thread uses the node, and the other may load scripts. *)
OneByOne == \E t \in Threads : \A u \in Threads \ {t} : Program[u] \subseteq {"reload"}

(* No operation is under way and what was sent has been handled. *)
Settled ==
  /\ up = <<>> /\ \A m \in {down[i] : i \in DOMAIN down} : m.event
  /\ \A t \in Threads : pc[t] \in {"run", "idle"}

(* Of a variable that the node does not change itself, once the changes    *)
(* are forwarded the cache shows what the node holds, if it shows any      *)
(* value: the comparison with prev (node.py 657-660) has skipped no        *)
(* change.  This does not speak of a variable that is unsure: one that was *)
(* set uncached or modified in place, or read with the answer of an        *)
(* earlier read, and not written or read again since (see SyncForwards and *)
(* OwnAnswer for those).                                                   *)
Agreement ==
  Settled => \A v \in Synced \ (Mirrored \cup unsure) :
               next[v] # None \/ values[v] \in {Empty, mem[v]}

(* The cache follows the events: a mirrored variable that is not about to  *)
(* be written shows the last value received (node.py 426-429, 743, 774).   *)
(* This does not speak of a variable that is unsure: an event about it     *)
(* came between the answer to a read and its storing by another thread, or *)
(* the answer was that of another read (see EventsShow for those).         *)
MirrorsFollow ==
  Settled /\ down = <<>> =>
    \A v \in Mirrored \ (Written \cup unsure) : values[v] \in {Empty, mem[v]}

(* What is pending when sync begins comes to be in the node, if its entry   *)
(* is up to date (node.py 654-661).                                        *)
SureIsForwarded ==
  \A t \in Threads, v \in Synced, x \in Values :
    (pc[t] = "sync" /\ todo[t] = Synced /\ next[v] = x /\ v \notin unsure) ~> (mem[v] = x)

(* "Forwards cached variables changes to the remote node." (node.py 648):  *)
(* what was pending when sync began comes to be in the node.               *)
SyncForwards ==
  \A t \in Threads, v \in Synced, x \in Values :
    (pc[t] = "sync" /\ todo[t] = Synced /\ next[v] = x) ~> (mem[v] = x)

(* "and `a` will be updated without further explicit synchronization"      *)
(* (node.py 133), whatever reads are made.                                 *)
EventsShow ==
  Settled /\ down = <<>> => \A v \in Mirrored \ Written : values[v] \in {Empty, mem[v]}

(* "Gets the value of an Aseba variable" (node.py 753): of that variable.  *)
OwnAnswer == \A t \in Threads : pc[t] = "got" => DOMAIN got[t] \in {{}, {arg[t]}}
=============================================================================
