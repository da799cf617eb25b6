--------------------------------- MODULE Thymio ---------------------------------
(***************************************************************************)
(* pyaseba.client.thymio.Thymio (client/thymio/thymio.py): a node that     *)
(* mirrors the events of a Thymio.  Between two prox events, which have a  *)
(* counter, a Thymio emits a prox.comm event for each message it receives  *)
(* from other robots, with the counter of the prox event to come.  The     *)
(* node groups these messages by round: prox_comm_buffer are those of the  *)
(* last round.                                                             *)
(***************************************************************************)
EXTENDS Mirroring, FiniteSets

CONSTANTS Prox, Comm,    \* the events prox and prox.comm
          Rx,            \* the variable prox.comm.rx
          MaxRecords     \* bound on the changes of record_prox_comm

ASSUME ThymioAssumption ==
  Prox \in Events /\ Comm \in Events /\ Rx \in Names /\ MaxRecords \in Nat /\ 0 \in Values

VARIABLES
  recording,   \* _should_record_prox_comm
  last,        \* _prox_comm_counter
  next,        \* _next_prox_comm_buffers: messages, by counter
  buffer,      \* prox_comm_buffer
  round,       \* history: the rounds of the robot
  heard,       \* history: what has been heard while recording, by round
  records

thymioVars == <<recording, last, next, buffer, round, heard, records>>
vars == <<mirroringVars, thymioVars>>

Rounds == 0..(MaxEvents + MaxStarts)
Messages == [rx : Values, round : Rounds]

TypeOK ==
  /\ loaded \in BOOLEAN /\ recording \in BOOLEAN
  /\ \A v \in Names : memory[v] \in [1..Size(v) -> Values] /\ DOMAIN reported[v] = 1..Size(v)
  /\ \A v \in Names : Len(values[v]) <= Size(v)
  /\ \A e \in Mirrored : sums[e] \in [1..MessageSize(e) -> -32768..32767]
  /\ \A e \in Mirrored : window[e] = Len(samples[e]) /\ window[e] < Config[e].window
  /\ \A e \in DOMAIN counter : counter[e] \in -32768..32767
  /\ last \in Nat /\ DOMAIN next \subseteq Nat /\ Cardinality(DOMAIN next) <= 1
  /\ ToSet(buffer) \subseteq Messages
  /\ round \in Rounds /\ DOMAIN heard = Rounds
  /\ senses \in 0..MaxSenses /\ events \in 0..MaxEvents /\ starts \in 0..MaxStarts
  /\ updates \in 0..MaxUpdates /\ records \in 0..MaxRecords

(* A Thymio that has been mirrored, and recorded, for a while. *)
Init ==
  /\ loaded = Compiles
  /\ memory = [v \in Names |-> [k \in 1..Size(v) |-> 0]]
  /\ reported = memory /\ values = memory
  /\ counter = [e \in {x \in Events : Declares(x)} |-> Start]
  /\ sums = [e \in Mirrored |-> Zeros(MessageSize(e))]
  /\ window = [e \in Mirrored |-> 0]
  /\ samples = [e \in Mirrored |-> <<>>] /\ read = <<>> /\ call = NoCall
  /\ senses = 0 /\ events = 0 /\ starts = 0 /\ updates = 0
  /\ recording = TRUE /\ last = Start /\ next = <<>> /\ buffer = <<>>
  /\ round = 0 /\ heard = [r \in Rounds |-> <<>>] /\ records = 0

-----------------------------------------------------------------------------
(* The counter that the node goes by: 16 bits unwrapped, modulo 0xFFFF. *)
ProxCounter(count) == last + ((count - last) % 65535)

(* Mutated forms of what follows; never part of Next. *)
AppendAlways(count, message) ==  \* messages are not told apart by their round
  LET c == ProxCounter(count)
  IN  /\ last' = c
      /\ next' = [k \in {c} |-> IF DOMAIN next = {} THEN <<message>>
                               ELSE Append(next[CHOOSE n \in DOMAIN next : TRUE], message)]
      /\ UNCHANGED buffer

ShowRoundKept(count) ==  \* without messages the buffer is not emptied
  LET c == ProxCounter(count)
  IN  /\ last' = c /\ next' = <<>>
      /\ buffer' = IF c \in DOMAIN next THEN next[c] ELSE buffer

(* _append_to_prox_comm_buffer: a message of the round that is being       *)
(* recorded, or of another one.  That of the round before is then over,    *)
(* although its prox event has been lost.                                  *)
AppendToBuffer(count, message) ==
  LET c == ProxCounter(count)
  IN  /\ last' = c
      /\ IF c \in DOMAIN next
         THEN next' = [next EXCEPT ![c] = Append(@, message)] /\ UNCHANGED buffer
         ELSE /\ next' = [k \in {c} |-> <<message>>]
              /\ buffer' = IF c - 1 \in DOMAIN next THEN next[c - 1] ELSE buffer

(* _update_prox_comm_buffer: a prox event shows the messages of its round. *)
UpdateBuffer(count) ==
  LET c == ProxCounter(count)
  IN  /\ last' = c /\ next' = <<>>
      /\ buffer' = IF c \in DOMAIN next THEN next[c] ELSE <<>>

(* _extra_event_cb: what a Thymio does with an event, after Node has read  *)
(* the variables.                                                          *)
ExtraEventCb(e) ==
  LET data == Payload(e)
      count == data[Len(data)]
      message == [rx |-> values'[Rx][1], round |-> round]
  IN  IF e = Comm THEN /\ AppendToBuffer(count, message)
                       /\ heard' = [heard EXCEPT ![round] = Append(@, message)]
      ELSE IF e = Prox THEN UpdateBuffer(count) /\ UNCHANGED heard
      ELSE UNCHANGED <<last, next, buffer, heard>>

Event(e, isHeard) ==
  /\ LocalEvent(e, isHeard)
  /\ IF isHeard /\ recording THEN ExtraEventCb(e)
     ELSE UNCHANGED <<last, next, buffer, heard>>
  /\ round' = IF e = Prox THEN round + 1 ELSE round
  /\ UNCHANGED <<recording, records>>

Restart ==
  /\ StartMirroring /\ round' = round + 1
  /\ UNCHANGED <<recording, last, next, buffer, heard, records>>

(* The setter of record_prox_comm. *)
Record(value) ==
  /\ records < MaxRecords /\ records' = records + 1
  /\ recording' = value
  /\ IF value THEN UNCHANGED <<next, buffer, heard>>
     ELSE next' = <<>> /\ buffer' = <<>> /\ heard' = [r \in Rounds |-> <<>>]
  /\ read' = <<>> /\ call' = NoCall
  /\ UNCHANGED <<script, memory, reported, values, senses, events, starts, updates, last, round>>

Other == UNCHANGED thymioVars

Next ==
  \/ \E e \in Events, isHeard \in BOOLEAN : Event(e, isHeard)
  \/ Restart
  \/ \E value \in BOOLEAN : Record(value)
  \/ \E v \in Names, x \in Values : \E k \in 1..Size(v) : Sense(v, k, x) /\ Other
  \/ \E f \in DOMAIN Functions, nodeId \in NodeIds :
       \E args \in [1..SumOfFirst(Functions[f], Len(Functions[f])) -> Values] :
         CallFunction(f, nodeId, args) /\ Other
  \/ Update /\ Other
  \/ UpdateChanged /\ Other

Spec == Init /\ [][Next]_vars
-----------------------------------------------------------------------------
(* What is read out of an event is, for each cell of each variable, the    *)
(* mean of its samples at the local events of the window, rounded towards  *)
(* zero, whenever their total fits in 16 bits, whatever the sums in        *)
(* between, the other cells and the windows before have done.  A total     *)
(* that does not fit wraps, and the mean is off by a multiple of 2^16      *)
(* before it is divided (mirroring.py 151-158, 172-178).                   *)
ReadsTheAverage ==
  \A v \in DOMAIN read : \A k \in 1..Size(v) :
    LET n == Len(read[v])
        total == SumOfFirst([j \in DOMAIN read[v] |-> read[v][j][k]], n)
    IN  values[v][k] = Quotient(Wrap16(total), n)

(* What is read out of an event is between two samples of the window, as   *)
(* an average is (mirroring.py 151-158).                                   *)
ReadsBetweenSamples ==
  \A v \in DOMAIN read : \A k \in 1..Size(v) :
    \E i, j \in DOMAIN read[v] : /\ read[v][i][k] <= values[v][k]
                                 /\ values[v][k] <= read[v][j][k]

(* The messages that are shown are those of one round, all that have been  *)
(* heard of it, whatever events are lost (thymio.py 111: "Whether to       *)
(* record all prox.comm events emitted in-between prox events").           *)
RoundIsWhole == buffer # <<>> => \E r \in Rounds : buffer = heard[r]

(* When the program hears of a prox event, it is shown the messages of the *)
(* round that the event ends, not those of an older one.                   *)
ProxShowsItsRound ==
  [][recording /\ round' # round /\ read' # <<>> => buffer' = heard[round]]_vars

(* A function that is called with all its arguments is called by the       *)
(* remote node, with the same ones (mirroring.py 97-110, node.py 608),     *)
(* whatever the id of the node, but for 2^15: int16 leaves that id alone   *)
(* (utils.py 6), it is no word of a message, and the call is never made.   *)
CallsReach == call.made = IF call.id = 32768 THEN <<>> ELSE call.meant

(* A function that is called is called by the remote node, whatever its id *)
(* (mirroring.py 97-110).                                                  *)
AllCallsReach == call.made = call.meant

(* Asking for the changes keeps the cached values right that were so when  *)
(* the remote node last reported: every cell of every run gets its value   *)
(* (node.py 691-717).                                                      *)
ChangesKeepAgreement ==
  [][reported' # reported =>
       \A v \in Names : values[v] = reported[v] => values'[v] = memory'[v]]_vars

(* Asking for the changes makes the cache that of the remote node (node.py *)
(* 728: "Refresh the cache with the current (remote) value of all          *)
(* variables").                                                            *)
ChangesRefresh == [][reported' # reported => values' = memory']_vars

(* Mirroring that is started is running (node.py 330: "Starts a mirroring  *)
(* local events and native functions").                                    *)
MirroringStarts == [][starts' # starts => loaded']_vars
=============================================================================
