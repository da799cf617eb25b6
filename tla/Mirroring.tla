------------------------------- MODULE Mirroring -------------------------------
(***************************************************************************)
(* How a node mirrors its remote node (client/node/mirroring.py): a script *)
(* makes the remote node emit, for each local event that is configured, an *)
(* event with the values of some of its variables, or their averages over  *)
(* a window of local events, and a counter; the node reads the variables   *)
(* out of the payload (read_variables) into its cache.  The cache is also  *)
(* updated by asking for the variables that have changed since the remote  *)
(* node was last asked (Node._set_changes).                                *)
(*                                                                         *)
(* The script is modelled by what the remote node does when it runs it.    *)
(* Values of variables, sums and counters have 16 bits.                    *)
(***************************************************************************)
EXTENDS Integers, Sequences, SequencesExt

CONSTANTS
  Layout,      \* the variables of the remote node, in order: name and size
  Config,      \* per local event, its EventSpec
  Functions,   \* per function of the remote node, the sizes of its arguments
  NodeIds,     \* the id of the remote node, 16 bits
  Values,      \* the values that variables of the remote node take
  Start,       \* counters when the model starts, long after start_mirroring
  MaxSenses,   \* bound on the changes of variables
  MaxEvents,   \* bound on the local events
  MaxStarts,   \* bound on the calls of start_mirroring
  MaxUpdates   \* bound on the updates of the cache

Positions == DOMAIN Layout
Names == {Layout[k].name : k \in Positions}
Size(v) == Layout[CHOOSE k \in Positions : Layout[k].name = v].size
Events == DOMAIN Config

ASSUME MirroringAssumption ==
  /\ [k \in Positions |-> Layout[k].size] \in Seq(Nat)
  /\ \A e \in Events : Config[e].variables \in Seq(Names) /\ Config[e].window \in Nat
  /\ \A f \in DOMAIN Functions : Functions[f] \in Seq(Nat)
  /\ {MaxSenses, MaxEvents, MaxStarts, MaxUpdates} \subseteq Nat

ASSUME WordsAssumption ==
  /\ \A x \in Values : x \in Int /\ -32768 <= x /\ x <= 32767
  /\ \A id \in NodeIds : id \in Nat /\ id < 65536

(* Of a sequence of numbers, the sum of the first k: of sizes, where the   *)
(* next begins.                                                            *)
SumOfFirst(numbers, k) ==
  LET sum[n \in 0..Len(numbers)] == IF n = 0 THEN 0 ELSE sum[n - 1] + numbers[n]
  IN  sum[k]

Wrap16(x) == ((x + 32768) % 65536) - 32768

VARIABLES
  loaded,      \* the remote node runs the mirroring script
  memory,      \* its variables
  counter,     \* the counters of its script
  sums, window, \* the payload that is summed over a window, and its events
  reported,    \* the variables as it last reported changes
  values,      \* the node's _variable_values
  samples,     \* history: the memories that have been summed in the window
  read,        \* history: per variable that the last step read, its samples
  call,        \* history: the call that the last step made
  senses, events, starts, updates

NoCall == [id |-> 0, meant |-> <<>>, made |-> <<>>]

script == <<loaded, counter, sums, window, samples>>
mirroringVars == <<loaded, memory, counter, sums, window, reported, values, samples, read, call,
                   senses, events, starts, updates>>

-----------------------------------------------------------------------------
(* The script.  Events with an empty window are left out; an event that    *)
(* counts with no counter of another declares its own.                     *)
Mirrored == {e \in Events : Config[e].window > 0}
Declares(e) == e \in Mirrored /\ Config[e].use_counter /\ Config[e].external_counter = ""
CounterOf(e) == IF Config[e].external_counter = "" THEN e ELSE Config[e].external_counter

(* The sizes of the first k variables of an event. *)
SizeOfFirst(e, k) ==
  SumOfFirst([n \in DOMAIN Config[e].variables |-> Size(Config[e].variables[n])], k)

MessageSize(e) ==
  SizeOfFirst(e, Len(Config[e].variables)) + (IF Config[e].use_counter THEN 1 ELSE 0)

(* The payload is left out when there are no variables. *)
EmittedSize(e) == IF Config[e].variables = <<>> THEN 0 ELSE MessageSize(e)

(* The compiler accepts the script: counters are declared, and events have *)
(* payloads of their size.                                                 *)
Compiles ==
  \A e \in Mirrored :
    /\ EmittedSize(e) = MessageSize(e)
    /\ Config[e].use_counter => Declares(CounterOf(e))

Averages(e) == Config[e].window > 1 /\ Config[e].variables # <<>>

-----------------------------------------------------------------------------
(* What the remote node does at a local event. *)
Zeros(n) == [k \in 1..n |-> 0]

Sample(e) ==
  FlattenSeq([k \in DOMAIN Config[e].variables |-> memory[Config[e].variables[k]]])
    \o (IF Config[e].use_counter THEN <<counter[CounterOf(e)]>> ELSE <<>>)

Sum(e) == [k \in 1..MessageSize(e) |-> Wrap16(sums[e][k] + Sample(e)[k])]

(* Division truncates towards zero. *)
Quotient(x, n) == IF x >= 0 THEN x \div n ELSE - ((- x) \div n)

Emits(e) == ~Averages(e) \/ window[e] + 1 = Config[e].window

Payload(e) ==
  IF Averages(e) THEN [k \in 1..MessageSize(e) |-> Quotient(Sum(e)[k], Config[e].window)]
  ELSE IF Config[e].variables = <<>> THEN <<>> ELSE Sample(e)

(* Where read_variables finds a variable in the payload. *)
Offset(e, v) ==
  LET vs == Config[e].variables
  IN  SizeOfFirst(e, (CHOOSE k \in DOMAIN vs : vs[k] = v) - 1)

(* Mutated forms of what follows; never part of Next. *)
ReadVariablesFirst(e, data) ==  \* the offset does not move on
  [v \in ToSet(Config[e].variables) |-> SubSeq(data, 1, Size(v))]

(* read_variables: slices of the payload, one after the other. *)
ReadVariables(e, data) ==
  [v \in ToSet(Config[e].variables) |-> SubSeq(data, Offset(e, v) + 1, Offset(e, v) + Size(v))]

ResetWindow(e) ==
  /\ window' = [window EXCEPT ![e] = 0]
  /\ sums' = [sums EXCEPT ![e] = Zeros(MessageSize(e))]

(* A local event: the window moves on, the counter is incremented after it *)
(* has been used, and the event that is emitted is heard by the node, or   *)
(* lost on its way.                                                        *)
LocalEvent(e, heard) ==
  /\ loaded /\ e \in Mirrored /\ events < MaxEvents
  /\ heard => Emits(e)
  /\ counter' = IF Declares(e) THEN [counter EXCEPT ![e] = Wrap16(@ + 1)] ELSE counter
  /\ IF ~Averages(e) THEN UNCHANGED <<window, sums, samples>>
     ELSE IF Emits(e) THEN ResetWindow(e) /\ samples' = [samples EXCEPT ![e] = <<>>]
     ELSE /\ window' = [window EXCEPT ![e] = @ + 1]
          /\ sums' = [sums EXCEPT ![e] = Sum(e)]
          /\ samples' = [samples EXCEPT ![e] = Append(@, memory)]
  /\ IF heard
     THEN LET rs == ReadVariables(e, Payload(e))
              seen == Append(samples[e], memory)
          IN  /\ values' = [v \in Names |-> IF v \in DOMAIN rs THEN rs[v] ELSE values[v]]
              /\ read' = [v \in DOMAIN rs |-> [k \in DOMAIN seen |-> seen[k][v]]]
     ELSE UNCHANGED values /\ read' = <<>>
  /\ events' = events + 1 /\ call' = NoCall
  /\ UNCHANGED <<loaded, memory, reported, senses, starts, updates>>

(* A variable of the remote node changes. *)
Sense(v, k, x) ==
  /\ senses < MaxSenses /\ memory[v][k] # x
  /\ memory' = [memory EXCEPT ![v][k] = x]
  /\ senses' = senses + 1 /\ read' = <<>> /\ call' = NoCall
  /\ UNCHANGED <<script, reported, values, events, starts, updates>>

(* start_mirroring loads the script, which sets counters and sums to zero, *)
(* and empties the cache (_init_variables); unless the compiler fails.     *)
StartMirroring ==
  /\ starts < MaxStarts /\ starts' = starts + 1
  /\ IF Compiles
     THEN /\ loaded' = TRUE
          /\ counter' = [e \in DOMAIN counter |-> 0]
          /\ sums' = [e \in Mirrored |-> Zeros(MessageSize(e))]
          /\ window' = [e \in Mirrored |-> 0]
          /\ samples' = [e \in Mirrored |-> <<>>]
          /\ values' = [v \in Names |-> <<>>]
     ELSE UNCHANGED <<script, values>>
  /\ read' = <<>> /\ call' = NoCall
  /\ UNCHANGED <<memory, reported, senses, events, updates>>

(* update: all variables. *)
Update ==
  /\ updates < MaxUpdates /\ updates' = updates + 1
  /\ values' = memory /\ read' = <<>> /\ call' = NoCall
  /\ UNCHANGED <<script, memory, reported, senses, events, starts>>

-----------------------------------------------------------------------------
(* Functions are called by events.  The first word of the payload is the   *)
(* id of the node, as int16 makes it.                                      *)
Int16Never(x) ==  \* a mutated form
  x

Int16(x) == IF x > 32768 THEN x - 65536 ELSE x

(* The script's slices of event.args, the first of which is the id. *)
Arguments(sizes, data) ==
  [k \in DOMAIN sizes |->
    SubSeq(data, SumOfFirst(sizes, k - 1) + 2, SumOfFirst(sizes, k) + 1)]

(* call: the message is made of 16 bit words, or not at all; the remote    *)
(* node compares the first with its _id.  (A bound: calls are made before  *)
(* variables change, on which they do not depend.)                         *)
MadeCall(f, nodeId, args) ==
  LET data == <<Int16(nodeId)>> \o args
      isMade == -32768 <= data[1] /\ data[1] <= 32767 /\ data[1] = Wrap16(nodeId)
  IN  IF isMade THEN FlattenSeq(Arguments(Functions[f], data)) ELSE <<>>

CallFunction(f, nodeId, args) ==
  /\ loaded /\ senses = 0 /\ events = 0
  /\ call' = [id |-> nodeId, meant |-> args, made |-> MadeCall(f, nodeId, args)]
  /\ read' = <<>>
  /\ UNCHANGED <<script, memory, reported, values, senses, events, starts, updates>>

-----------------------------------------------------------------------------
(* The remote node reports the runs of cells that have changed since it    *)
(* last reported, wherever variables begin and end: address and values.    *)
Cells(m) == FlattenSeq([k \in Positions |-> m[Layout[k].name]])

Changes ==
  LET now == Cells(memory)  old == Cells(reported)
      differ(k) == k \in DOMAIN now /\ now[k] # old[k]
      firsts == {k \in DOMAIN now : differ(k) /\ ~differ(k - 1)}
      last(k) == CHOOSE l \in k..Len(now) :
                   ~differ(l + 1) /\ \A j \in k..l : differ(j)
  IN  {[at |-> k - 1, data |-> SubSeq(now, k, last(k))] : k \in firsts}

(* list[j:j+l] = data *)
Slice(list, j, data) ==
  LET first == IF j < Len(list) THEN j ELSE Len(list)
      next == IF j + Len(data) < Len(list) THEN j + Len(data) ELSE Len(list)
  IN  SubSeq(list, 1, first) \o data \o SubSeq(list, next + 1, Len(list))

Address(v) ==
  LET k == CHOOSE k \in Positions : Layout[k].name = v
  IN  SumOfFirst([n \in Positions |-> Layout[n].size], k - 1)

CutWhole(c, v) ==  \* a mutated form: the run's place in the variable is forgotten
  LET from == IF Address(v) > c.at THEN Address(v) - c.at ELSE 0
      to == Address(v) + Size(v) - c.at
  IN  [j |-> 0, data |-> SubSeq(c.data, from + 1, IF to < Len(c.data) THEN to ELSE Len(c.data))]

(* The part of a run that a variable covers, and its place in it. *)
Cut(c, v) ==
  LET from == IF Address(v) > c.at THEN Address(v) - c.at ELSE 0
      to == Address(v) + Size(v) - c.at
  IN  [j |-> IF c.at > Address(v) THEN c.at - Address(v) ELSE 0,
       data |-> SubSeq(c.data, from + 1, IF to < Len(c.data) THEN to ELSE Len(c.data))]

Covers(c, v) == c.at < Address(v) + Size(v) /\ Address(v) < c.at + Len(c.data)

(* The variable's cells of the run at an address, if there is one. *)
SetRun(list, changes, at, v) ==
  IF \E c \in changes : c.at = at /\ Covers(c, v)
  THEN LET c == CHOOSE c \in changes : c.at = at
       IN  Slice(list, Cut(c, v).j, Cut(c, v).data)
  ELSE list

(* _set_changes: each run, in order of address, goes through the variables *)
(* it covers, from the one in which it begins.                             *)
SetChanges(changes) ==
  [v \in Names |->
    LET set[n \in 0..Len(Cells(memory))] ==
          IF n = 0 THEN values[v] ELSE SetRun(set[n - 1], changes, n - 1, v)
    IN  set[Len(Cells(memory))]]

UpdateChanged ==
  /\ updates < MaxUpdates /\ updates' = updates + 1
  /\ values' = SetChanges(Changes) /\ reported' = memory
  /\ read' = <<>> /\ call' = NoCall
  /\ UNCHANGED <<script, memory, senses, events, starts>>
=============================================================================
