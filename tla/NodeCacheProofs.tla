---------------------------- MODULE NodeCacheProofs ----------------------------
(***************************************************************************)
(* Proofs about NodeCache, for any variables, values and numbers of        *)
(* operations and events.                                                  *)
(***************************************************************************)
EXTENDS NodeCache, FiniteSetTheorems, TLAPS

(* The types of the cache, of the node with the messages, and of threads.  *)
CacheTypes ==
  /\ values \in [Vars -> Stored]
  /\ next \in [Vars -> Values \cup {None}] /\ prev \in [Vars -> Stored \cup {None}]
  /\ alias \in [Vars -> SUBSET {"next", "prev"}]
  /\ \A v \in Vars : /\ "next" \in alias[v] => next[v] = values[v]
                     /\ "prev" \in alias[v] => prev[v] = values[v]

NodeTypes ==
  /\ mem \in [Vars -> Values] /\ events \in 0..MaxEvents
  /\ up \in Seq(Requests) /\ down \in Seq(Answers)

ThreadTypes ==
  /\ pc \in [Threads -> Places] /\ arg \in [Threads -> Vars \cup {None}]
  /\ todo \in [Threads -> SUBSET Synced] /\ got \in [Threads -> Contents]
  /\ ops \in 0..MaxOps /\ unsure \subseteq Vars

LEMMA TypesTogether == TypeOK <=> CacheTypes /\ NodeTypes /\ ThreadTypes
  BY Zenon DEF TypeOK, CacheTypes, NodeTypes, ThreadTypes

(* A thread that reads one variable knows which. *)
ArgOK == \A t \in Threads : pc[t] \in {"get", "got"} => arg[t] \in Vars

(* What a message contains. *)
LEMMA ContentsFacts ==
  ASSUME NEW f \in Contents
  PROVE  DOMAIN f \subseteq Vars /\ f \in [DOMAIN f -> Values]
<1>1. PICK of \in SUBSET Vars : f \in [of -> Values]
  BY DEF Contents
<1>2. QED
  BY <1>1

LEMMA ContentsOf ==
  ASSUME NEW of \in SUBSET Vars, NEW f \in [of -> Values]
  PROVE  f \in Contents
BY DEF Contents

LEMMA NothingIsContents == <<>> \in Contents
<1>1. <<>> \in [{} -> Values]
  OBVIOUS
<1>2. QED
  BY <1>1, ContentsOf

(* One content over another, and over entries for all the variables. *)
LEMMA OverContents ==
  ASSUME NEW f \in Contents, NEW g \in Contents
  PROVE  /\ Over(f, g) \in Contents
         /\ DOMAIN f = Vars => Over(f, g) = f
<1>1. DOMAIN f \subseteq Vars /\ f \in [DOMAIN f -> Values]
  BY ContentsFacts
<1>2. DOMAIN g \subseteq Vars /\ g \in [DOMAIN g -> Values]
  BY ContentsFacts
<1>3. Over(f, g) \in [DOMAIN f \cup DOMAIN g -> Values]
  BY <1>1, <1>2 DEF Over
<1>4. ASSUME DOMAIN f = Vars
      PROVE  Over(f, g) = f
  <2>1. Over(f, g) = [v \in DOMAIN f |-> f[v]]
    BY <1>4, <1>1, <1>2 DEF Over
  <2>2. QED
    BY <2>1, <1>1
<1>5. QED
  BY <1>1, <1>2, <1>3, <1>4, ContentsOf

LEMMA OverEntries ==
  ASSUME NEW f, NEW S, NEW g \in [Vars -> S], DOMAIN f \subseteq Vars,
         \A v \in DOMAIN f : f[v] \in S
  PROVE  /\ Over(f, g) \in [Vars -> S]
         /\ \A v \in DOMAIN f : Over(f, g)[v] = f[v]
         /\ \A v \in Vars \ DOMAIN f : Over(f, g)[v] = g[v]
BY DEF Over

-----------------------------------------------------------------------------
(* Types.  Reading contents into the cache keeps them, *)
LEMMA ReadTypes ==
  ASSUME CacheTypes, NEW f, DOMAIN f \subseteq Vars,
         \A v \in DOMAIN f : f[v] \in Stored, Read(f), UNCHANGED next
  PROVE  CacheTypes'
<1>1. values' \in [Vars -> Stored] /\ prev' \in [Vars -> Stored \cup {None}]
  BY DEF CacheTypes, Read
<1>2. alias' \in [Vars -> SUBSET {"next", "prev"}]
  BY DEF CacheTypes, Read
<1>3. ASSUME NEW v \in Vars
      PROVE  /\ "next" \in alias'[v] => next'[v] = values'[v]
             /\ "prev" \in alias'[v] => prev'[v] = values'[v]
  BY DEF CacheTypes, Read
<1>4. QED
  BY <1>1, <1>2, <1>3 DEF CacheTypes

(* and so does what an event brings. *)
LEMMA EventTypes ==
  ASSUME CacheTypes, NEW f \in Contents, EventUpdate(f), UNCHANGED next
  PROVE  CacheTypes'
<1>1. DOMAIN f \subseteq Vars /\ \A v \in DOMAIN f : f[v] \in Stored
  BY ContentsFacts DEF Stored
<1>2. /\ values' \in [Vars -> Stored]
      /\ \A v \in DOMAIN f : values'[v] = f[v]
      /\ \A v \in Vars \ DOMAIN f : values'[v] = values[v]
  <2>1. values' = Over(f, values) /\ values \in [Vars -> Stored]
    BY DEF EventUpdate, CacheTypes
  <2>2. QED
    BY <1>1, <2>1 DEF Over
<1>3. /\ prev' \in [Vars -> Stored \cup {None}]
      /\ \A v \in DOMAIN f : prev'[v] = f[v]
      /\ \A v \in Vars \ DOMAIN f : prev'[v] = prev[v]
  <2>1. prev' = Over(f, prev) /\ prev \in [Vars -> Stored \cup {None}]
    BY DEF EventUpdate, CacheTypes
  <2>2. QED
    BY <1>1, <2>1 DEF Over
<1>4. /\ alias' \in [Vars -> SUBSET {"next", "prev"}]
      /\ \A v \in DOMAIN f : alias'[v] = {"prev"}
      /\ \A v \in Vars \ DOMAIN f : alias'[v] = alias[v]
  <2> DEFINE g == [v \in DOMAIN f |-> {"prev"}]
  <2>1. DOMAIN g \subseteq Vars /\ \A v \in DOMAIN g : g[v] \in SUBSET {"next", "prev"}
    BY <1>1
  <2>2. alias' = Over(g, alias) /\ alias \in [Vars -> SUBSET {"next", "prev"}]
    BY DEF EventUpdate, CacheTypes
  <2>3. QED
    BY <2>1, <2>2 DEF Over
<1>5. QED
  BY <1>1, <1>2, <1>3, <1>4 DEF CacheTypes

(* What get stores is a value, no value, or that of all the variables. *)
LEMMA FoundFacts ==
  ASSUME NEW t \in Threads, got[t] \in Contents
  PROVE  /\ Found(t) \in Stored
         /\ got[t] = <<>> => Found(t) = Empty
         /\ \A v : DOMAIN got[t] = {v} => Found(t) = got[t][v]
<1>1. got[t] \in [DOMAIN got[t] -> Values]
  BY ContentsFacts
<1>2. Found(t) \in Stored
  BY <1>1 DEF Found, Stored
<1>3. ASSUME NEW v, DOMAIN got[t] = {v}
      PROVE  Found(t) = got[t][v]
  <2>1. Cardinality(DOMAIN got[t]) = 1
    BY <1>3, FS_Singleton
  <2>2. (CHOOSE w \in DOMAIN got[t] : TRUE) = v
    BY <1>3
  <2>3. QED
    BY <1>3, <2>1, <2>2 DEF Found
<1>4. got[t] = <<>> => Found(t) = Empty
  BY DEF Found
<1>5. QED
  BY <1>2, <1>3, <1>4

LEMMA CacheTypesStep ==
  ASSUME TypeOK, ArgOK, [Next]_vars
  PROVE  CacheTypes'
<1>1. CacheTypes /\ NodeTypes /\ ThreadTypes
  BY TypesTogether
<1> USE <1>1 DEF cache, node, channels, threads
<1>2. CASE UNCHANGED <<values, next, prev, alias>>
  BY <1>2 DEF CacheTypes
<1>3. ASSUME NEW t \in Threads, NEW v \in Vars, NEW x \in Values,
             SetCached(t, v, x) \/ SetNow(t, v, x) \/ Modify(t, v, x)
      PROVE  CacheTypes'
  BY <1>3 DEF CacheTypes, SetCached, SetNow, Modify, Stored
<1>4. ASSUME NEW t \in Threads, NEW v \in Synced, SyncVariable(t, v)
      PROVE  CacheTypes'
  BY <1>4, VarsAssumption DEF CacheTypes, SyncVariable, Stored
<1>5. ASSUME NEW t \in Threads, SyncEnd(t) \/ Reload(t)
      PROVE  CacheTypes'
  BY <1>5 DEF CacheTypes, SyncEnd, Reload, Stored
<1>6. ASSUME NEW t \in Threads, GetStore(t)
      PROVE  CacheTypes'
  <2>1. got[t] \in Contents /\ arg[t] \in Vars
    BY <1>6 DEF ThreadTypes, ArgOK, GetStore
  <2> DEFINE f == [v \in {arg[t]} |-> Found(t)]
  <2>2. DOMAIN f \subseteq Vars /\ \A v \in DOMAIN f : f[v] \in Stored
    BY <2>1, FoundFacts
  <2>3. QED
    BY <1>6, <2>2, ReadTypes DEF GetStore
<1>7. ASSUME NEW t \in Threads, UpdateStore(t)
      PROVE  CacheTypes'
  <2>1. DOMAIN got[t] \subseteq Vars /\ \A v \in DOMAIN got[t] : got[t][v] \in Stored
    BY ContentsFacts DEF ThreadTypes, Stored
  <2>2. QED
    BY <1>7, <2>1, ReadTypes DEF UpdateStore
<1>8. ASSUME EventReceived
      PROVE  CacheTypes'
  <2>1. Head(down).val \in Contents
    <3>1. Head(down) \in Answers
      BY <1>8 DEF NodeTypes, EventReceived
    <3>2. QED
      BY <3>1 DEF Answers
  <2>2. QED
    BY <1>8, <2>1, EventTypes DEF EventReceived
<1>9. ASSUME NEW t \in Threads,
             SyncBegin(t) \/ (\E v \in Vars : Get(t, v)) \/ Update(t) \/ Timeout(t)
      PROVE  UNCHANGED <<values, next, prev, alias>>
  BY <1>9 DEF SyncBegin, Get, Update, Timeout
<1>10. ASSUME Answered \/ NodeHandles \/ NodeEmits
       PROVE  UNCHANGED <<values, next, prev, alias>>
  BY <1>10 DEF Answered, NodeHandles, NodeEmits
<1>11. QED
  BY <1>2, <1>3, <1>4, <1>5, <1>6, <1>7, <1>8, <1>9, <1>10 DEF Next, Operation, Running, vars

LEMMA AppendToSeq ==
  ASSUME NEW S, NEW q \in Seq(S), NEW x \in S
  PROVE  /\ Append(q, x) \in Seq(S) /\ Len(Append(q, x)) = Len(q) + 1
         /\ Append(q, x)[Len(q) + 1] = x
         /\ \A i \in 1..Len(q) : Append(q, x)[i] = q[i]
  OBVIOUS

LEMMA TailOfSeq ==
  ASSUME NEW S, NEW q \in Seq(S), q # <<>>
  PROVE  /\ Head(q) = q[1] /\ Head(q) \in S /\ Tail(q) \in Seq(S)
         /\ Len(q) > 0 /\ Len(Tail(q)) = Len(q) - 1
         /\ \A i \in 1..Len(q) - 1 : Tail(q)[i] = q[i + 1]
  OBVIOUS

(* What is sent are requests, and what the node sends are contents. *)
LEMMA NodeTypesStep ==
  ASSUME TypeOK, [Next]_vars
  PROVE  NodeTypes'
<1>1. CacheTypes /\ NodeTypes /\ ThreadTypes
  BY TypesTogether
<1> USE <1>1 DEF cache, node, channels, threads
<1>2. ASSUME UNCHANGED <<mem, events, down>>, UNCHANGED up
             \/ (\E m \in Requests : up' = Append(up, m))
      PROVE  NodeTypes'
  BY <1>2, AppendToSeq DEF NodeTypes
<1>3. ASSUME NEW t \in Threads, NEW v \in Vars, NEW x \in Values, SetNow(t, v, x)
      PROVE  NodeTypes'
  BY <1>3, <1>2 DEF SetNow, Send, Requests
<1>4. ASSUME NEW t \in Threads, NEW v \in Synced, SyncVariable(t, v)
      PROVE  NodeTypes'
  <2>1. CASE next[v] \in {None, prev[v]}
    BY <2>1, <1>2, <1>4 DEF SyncVariable
  <2>2. CASE next[v] \notin {None, prev[v]}
    <3>1. next[v] \in Values
      BY <2>2, VarsAssumption DEF CacheTypes
    <3>2. QED
      BY <3>1, <2>2, <1>2, <1>4, VarsAssumption DEF SyncVariable, Send, Requests
  <2>3. QED
    BY <2>1, <2>2
<1>5. ASSUME NEW t \in Threads, Update(t) \/ \E v \in Vars : Get(t, v)
      PROVE  NodeTypes'
  BY <1>5, <1>2 DEF Update, Get, Requests
<1>6. ASSUME NEW t \in Threads,
             \/ \E v \in Vars, x \in Values : SetCached(t, v, x) \/ Modify(t, v, x)
             \/ SyncBegin(t) \/ Reload(t) \/ SyncEnd(t) \/ GetStore(t) \/ UpdateStore(t)
             \/ Timeout(t)
      PROVE  UNCHANGED <<mem, events, down, up>>
  BY <1>6 DEF SetCached, Modify, SyncBegin, Reload, SyncEnd, GetStore, UpdateStore, Timeout
<1>7. ASSUME Answered \/ EventReceived
      PROVE  NodeTypes'
  BY <1>7, TailOfSeq DEF NodeTypes, Answered, EventReceived
<1>8. ASSUME NodeHandles
      PROVE  NodeTypes'
  <2>1. Head(up) \in Requests /\ Tail(up) \in Seq(Requests)
    BY <1>8, TailOfSeq DEF NodeTypes, NodeHandles
  <2>2. CASE Head(up).op = "set"
    <3>1. Head(up).var \in Vars /\ Head(up).val \in Values
      BY <2>1, <2>2 DEF Requests
    <3>2. QED
      BY <1>8, <2>1, <2>2, <3>1 DEF NodeTypes, NodeHandles
  <2>3. CASE Head(up).op = "get"
    <3>1. Head(up).of \in SUBSET Vars
      BY <2>1, <2>3 DEF Requests
    <3>2. [v \in Head(up).of |-> mem[v]] \in Contents
      BY <3>1, ContentsOf DEF NodeTypes
    <3>3. [event |-> FALSE, val |-> [v \in Head(up).of |-> mem[v]]] \in Answers
      BY <3>2 DEF Answers
    <3>4. QED
      BY <1>8, <2>1, <2>3, <3>3, AppendToSeq DEF NodeTypes, NodeHandles
  <2>4. QED
    BY <1>8, <2>2, <2>3 DEF NodeHandles
<1>9. ASSUME NodeEmits
      PROVE  NodeTypes'
  <2>1. PICK measured \in [Mirrored -> Values] :
          /\ mem' = Over(measured, mem)
          /\ down' = Append(down, [event |-> TRUE, val |-> measured])
    BY <1>9 DEF NodeEmits
  <2>2. [event |-> TRUE, val |-> measured] \in Answers
    BY VarsAssumption, ContentsOf DEF Answers
  <2>3. mem' \in [Vars -> Values]
    BY <2>1, VarsAssumption DEF Over, NodeTypes
  <2>4. events' \in 0..MaxEvents /\ UNCHANGED up
    BY <1>9, BoundsAssumption DEF NodeEmits, NodeTypes
  <2>5. QED
    BY <2>1, <2>2, <2>3, <2>4, AppendToSeq DEF NodeTypes
<1>10. QED
  BY <1>2, <1>3, <1>4, <1>5, <1>6, <1>7, <1>8, <1>9 DEF Next, Operation, Running, vars

(* Threads: what they wait for and what they have been given. *)
LEMMA AskedVars ==
  ASSUME ThreadTypes, ArgOK, NEW t \in Threads
  PROVE  Asked(t) \subseteq Vars
BY DEF ThreadTypes, ArgOK, Asked

LEMMA ThreadTypesStep ==
  ASSUME TypeOK, ArgOK, [Next]_vars
  PROVE  ThreadTypes' /\ ArgOK'
<1>1. CacheTypes /\ NodeTypes /\ ThreadTypes
  BY TypesTogether
<1> USE <1>1, BoundsAssumption DEF cache, node, channels, threads, ThreadTypes, ArgOK
<1>2. CASE UNCHANGED vars
  BY <1>2 DEF vars
<1>3. ASSUME NEW t \in Threads, NEW v \in Vars, NEW x \in Values,
             SetCached(t, v, x) \/ SetNow(t, v, x) \/ Modify(t, v, x)
      PROVE  ThreadTypes' /\ ArgOK'
  BY <1>3 DEF SetCached, SetNow, Modify, Begin, Places
<1>4. ASSUME NEW t \in Threads, SyncBegin(t) \/ Reload(t)
      PROVE  ThreadTypes' /\ ArgOK'
  BY <1>4 DEF SyncBegin, Reload, Begin, Places
<1>5. ASSUME NEW t \in Threads, NEW v \in Synced, SyncVariable(t, v)
      PROVE  ThreadTypes' /\ ArgOK'
  BY <1>5 DEF SyncVariable
<1>6. ASSUME NEW t \in Threads, SyncEnd(t)
      PROVE  ThreadTypes' /\ ArgOK'
  BY <1>6 DEF SyncEnd, Places
<1>7. ASSUME NEW t \in Threads, NEW v \in Vars, Get(t, v)
      PROVE  ThreadTypes' /\ ArgOK'
  BY <1>7, NothingIsContents DEF Get, Begin, Places
<1>8. ASSUME NEW t \in Threads, Update(t)
      PROVE  ThreadTypes' /\ ArgOK'
  BY <1>8, NothingIsContents DEF Update, Begin, Places
<1>9. ASSUME NEW t \in Threads, GetStore(t) \/ UpdateStore(t) \/ Timeout(t)
      PROVE  ThreadTypes' /\ ArgOK'
  BY <1>9, NothingIsContents DEF GetStore, UpdateStore, Timeout, Places
<1>10. ASSUME Answered
       PROVE  ThreadTypes' /\ ArgOK'
  <2> DEFINE val == Head(down).val
  <2>1. val \in Contents
    <3>1. Head(down) \in Answers
      BY <1>10, TailOfSeq DEF NodeTypes, Answered
    <3>2. QED
      BY <3>1 DEF Answers
  <2>2. \A t \in Threads : Over(val, got[t]) \in Contents
    BY <2>1, OverContents
  <2>3. got' \in [Threads -> Contents]
    BY <1>10, <2>1, <2>2 DEF Answered
  <2>4. pc' \in [Threads -> Places]
    BY <1>10 DEF Answered, Places
  <2>5. unsure' \subseteq Vars
    <3>1. PICK read : /\ read \subseteq UNION {Asked(t) : t \in Threads}
                      /\ unsure' \subseteq unsure \cup read
      BY <1>10 DEF Answered
    <3>2. UNION {Asked(t) : t \in Threads} \subseteq Vars
      BY AskedVars
    <3>3. QED
      BY <3>1, <3>2
  <2>6. ArgOK'
    BY <1>10 DEF Answered
  <2>7. QED
    BY <1>10, <2>3, <2>4, <2>5, <2>6 DEF Answered
<1>11. ASSUME EventReceived
       PROVE  ThreadTypes' /\ ArgOK'
  <2>1. pc' \in [Threads -> Places] /\ ArgOK'
    BY <1>11 DEF EventReceived, Places, Threads
  <2>2. DOMAIN Head(down).val \subseteq Vars
    <3>1. Head(down) \in Answers
      BY <1>11, TailOfSeq DEF NodeTypes, EventReceived
    <3>2. Head(down).val \in Contents
      BY <3>1 DEF Answers
    <3>3. QED
      BY <3>2, ContentsFacts
  <2>3. unsure' \subseteq unsure \cup DOMAIN Head(down).val
    BY <1>11 DEF EventReceived
  <2>4. QED
    BY <1>11, <2>1, <2>2, <2>3 DEF EventReceived
<1>12. ASSUME NodeHandles \/ NodeEmits
       PROVE  ThreadTypes' /\ ArgOK'
  <2>1. UNCHANGED <<pc, arg, todo, got, ops, unsure>>
    BY <1>12 DEF NodeHandles, NodeEmits
  <2>2. QED
    BY <2>1
<1>13. QED
  BY <1>2, <1>3, <1>4, <1>5, <1>6, <1>7, <1>8, <1>9, <1>10, <1>11, <1>12
     DEF Next, Operation, Running

LEMMA TypesInit == Init => TypeOK /\ ArgOK
<1> SUFFICES ASSUME Init PROVE TypeOK /\ ArgOK
  OBVIOUS
<1>1. CacheTypes
  BY ValuesAssumption DEF Init, CacheTypes, Stored
<1>2. NodeTypes
  BY ValuesAssumption, BoundsAssumption DEF Init, NodeTypes
<1>3. ThreadTypes /\ ArgOK
  BY NothingIsContents, BoundsAssumption DEF Init, ThreadTypes, ArgOK, Places, Threads
<1>4. QED
  BY <1>1, <1>2, <1>3, TypesTogether

LEMMA TypesInvariant == Spec => [](TypeOK /\ ArgOK)
<1>1. TypeOK /\ ArgOK /\ [Next]_vars => (TypeOK /\ ArgOK)'
  <2>1. TypeOK' <=> CacheTypes' /\ NodeTypes' /\ ThreadTypes'
    BY Zenon DEF TypeOK, CacheTypes, NodeTypes, ThreadTypes
  <2>2. QED
    BY <2>1, CacheTypesStep, NodeTypesStep, ThreadTypesStep
<1>2. QED
  BY <1>1, TypesInit, PTL DEF Spec

(* Type correctness of the cache, the messages and the threads: what two   *)
(* dictionaries share has the same contents in both, and a list of all the *)
(* variables is never among the changes.                                   *)
THEOREM NodeCacheTypes == Spec => []TypeOK
BY TypesInvariant, PTL

-----------------------------------------------------------------------------
(* The invariant when one thread uses the node.  The user: *)
User == CHOOSE t \in Threads : \A u \in Threads \ {t} : Program[u] \subseteq {"reload"}

(* The variables that the program sets and sync forwards, and those that   *)
(* only the node changes, with its events.                                 *)
Followed == (Synced \ Mirrored) \cup (Mirrored \ Written)

(* What v is in the node once it has handled the messages on their way.    *)
IsSet(m, v) == m.op = "set" /\ m.var = v

WillHold(v, x) ==
  \/ mem[v] = x /\ \A i \in DOMAIN up : ~IsSet(up[i], v)
  \/ \E i \in DOMAIN up : /\ IsSet(up[i], v) /\ up[i].val = x
                          /\ \A j \in DOMAIN up : j > i => ~IsSet(up[j], v)

(* It is that, or an event is on its way that tells. *)
EventDue == \E i \in DOMAIN down : down[i].event

Current(v, x) == WillHold(v, x) \/ (v \in Mirrored /\ EventDue)

OthersOK == \A u \in Threads \ {User} : pc[u] \in {"run", "idle"}

(* Only variables that the program sets are changed and sent, and the last *)
(* event tells what the variables are that only the node changes.          *)
SetsOK ==
  /\ \A i \in DOMAIN up : up[i].op = "set" => up[i].var \in Written
  /\ \A v \in Vars \ Written : next[v] = None

EventsOK ==
  \A i \in DOMAIN down : down[i].event =>
    /\ DOMAIN down[i].val = Mirrored
    /\ \A v \in Mirrored \ Written :
         down[i].val[v] = mem[v] \/ \E j \in DOMAIN down : j > i /\ down[j].event

(* A read that waits is the last message to the node, or its answer, which *)
(* is current, is the last one from it.  It has been given nothing, if it   *)
(* reads one variable.                                                     *)
IsAnswer(i) ==
  /\ i \in DOMAIN down /\ ~down[i].event
  /\ \A j \in DOMAIN down : j > i => down[j].event
  /\ DOMAIN down[i].val = Asked(User)
  /\ \A v \in Asked(User) \cap Followed :
       down[i].val[v] = mem[v] \/ (v \in Mirrored /\ i < Len(down))

AwaitOK ==
  /\ pc[User] = "get" => got[User] = <<>>
  /\ pc[User] \in {"get", "update"} =>
       \/ up # <<>> /\ up[Len(up)] = [op |-> "get", of |-> Asked(User)]
       \/ up = <<>> /\ \E i \in DOMAIN down : IsAnswer(i)

(* What has been read and not yet stored is current. *)
Received == pc[User] \in {"got", "refresh"}

ReceivedOK ==
  Received =>
    /\ pc[User] = "refresh" => DOMAIN got[User] = Vars
    /\ \A v \in (Asked(User) \cap Followed) \ unsure :
         got[User] = <<>> \/ (DOMAIN got[User] = Asked(User) /\ Current(v, got[User][v]))

(* So is what is shown, if it is not a change; and prev, by which sync     *)
(* tells whether there is one.  An entry about to be overwritten need not. *)
Overwritten(v) == RecordsPrev /\ Received /\ v \in Asked(User)

Shown(v) ==
  /\ values[v] \in {Empty, next[v]} \/ Current(v, values[v])
  /\ prev[v] \in Values /\ v \notin Mirrored => WillHold(v, prev[v])

ShownOK == \A v \in Followed \ unsure : Overwritten(v) \/ Shown(v)

(* A change that sync has looked at is forwarded. *)
SyncOK ==
  pc[User] = "sync" =>
    \A v \in (Synced \ Mirrored) \ (todo[User] \cup unsure) :
      next[v] = None \/ WillHold(v, next[v])

CacheInv ==
  /\ TypeOK /\ ArgOK /\ OthersOK /\ SetsOK /\ EventsOK
  /\ AwaitOK /\ ReceivedOK /\ ShownOK /\ SyncOK

LEMMA UserIsAlone ==
  ASSUME OneByOne
  PROVE  User \in Threads /\ \A u \in Threads \ {User} : Program[u] \subseteq {"reload"}
BY DEF OneByOne, User

(* The steps that change the cache or the node. *)
LEMMA UserSteps ==
  ASSUME OneByOne, OthersOK, NEW t \in Threads, Operation(t) \/ Running(t) \/ Timeout(t)
  PROVE  Reload(t) \/ t = User
<1>1. (Program[t] \subseteq {"reload"} /\ pc[t] \in {"run", "idle"}) \/ t = User
  BY UserIsAlone DEF OthersOK
<1>2. CASE t = User
  BY <1>2
<1>3. CASE Program[t] \subseteq {"reload"} /\ pc[t] \in {"run", "idle"}
  BY <1>3 DEF Operation, Running, Timeout, SetCached, SetNow, Modify, SyncBegin, Get, Update, Begin,
       SyncVariable, SyncEnd, GetStore, UpdateStore
<1>4. QED
  BY <1>1, <1>2, <1>3

LEMMA OthersStep ==
  ASSUME OneByOne, TypeOK, OthersOK, [Next]_vars
  PROVE  OthersOK'
<1>1. pc \in [Threads -> Places]
  BY DEF TypeOK
<1> USE <1>1 DEF OthersOK
<1>2. ASSUME NEW t \in Threads, Operation(t) \/ Running(t) \/ Timeout(t), t = User
      PROVE  OthersOK'
  <2>1. \E place : pc' = [pc EXCEPT ![t] = place] \/ UNCHANGED pc
    BY <1>2 DEF Operation, Running, Timeout, SetCached, SetNow, Modify, SyncBegin, Get, Update, Begin,
         SyncVariable, SyncEnd, GetStore, UpdateStore, Reload, cache, node, channels, threads
  <2>2. QED
    BY <1>2, <2>1
<1>3. ASSUME NEW t \in Threads, Reload(t)
      PROVE  OthersOK'
  BY <1>3 DEF Reload, Begin
<1>4. ASSUME Answered
      PROVE  OthersOK'
  BY <1>4 DEF Answered
<1>5. ASSUME EventReceived
      PROVE  OthersOK'
  BY <1>5 DEF EventReceived
<1>6. CASE NodeHandles \/ NodeEmits \/ UNCHANGED vars
  BY <1>6 DEF NodeHandles, NodeEmits, threads, vars
<1>7. QED
  BY <1>2, <1>3, <1>4, <1>5, <1>6, UserSteps DEF Next

(* What a variable will hold: it stays when other messages are sent, when  *)
(* the node handles one, and when it changes other variables.              *)
LEMMA HoldsSent ==
  ASSUME TypeOK, NEW m \in Requests, up' = Append(up, m), UNCHANGED mem, NEW v
  PROVE  /\ \A x : WillHold(v, x) /\ ~IsSet(m, v) => WillHold(v, x)'
         /\ IsSet(m, v) => WillHold(v, m.val)'
<1>1. up \in Seq(Requests)
  BY DEF TypeOK
<1>2. /\ DOMAIN up = 1..Len(up) /\ DOMAIN up' = 1..Len(up) + 1 /\ Len(up) \in Nat
      /\ up'[Len(up) + 1] = m /\ \A i \in 1..Len(up) : up'[i] = up[i]
  BY <1>1, AppendToSeq
<1>3. ASSUME NEW x, WillHold(v, x), ~IsSet(m, v)
      PROVE  WillHold(v, x)'
  <2>1. CASE mem[v] = x /\ \A i \in DOMAIN up : ~IsSet(up[i], v)
    <3>1. \A i \in DOMAIN up' : ~IsSet(up'[i], v)
      BY <1>2, <1>3, <2>1
    <3>2. QED
      BY <2>1, <3>1 DEF WillHold
  <2>2. ASSUME NEW i \in DOMAIN up, IsSet(up[i], v), up[i].val = x,
               \A j \in DOMAIN up : j > i => ~IsSet(up[j], v)
        PROVE  WillHold(v, x)'
    <3>1. i \in DOMAIN up' /\ IsSet(up'[i], v) /\ up'[i].val = x
      BY <1>2, <2>2
    <3>2. \A j \in DOMAIN up' : j > i => ~IsSet(up'[j], v)
      BY <1>2, <1>3, <2>2
    <3>3. QED
      BY <3>1, <3>2 DEF WillHold
  <2>3. QED
    BY <1>3, <2>1, <2>2 DEF WillHold
<1>4. ASSUME IsSet(m, v)
      PROVE  WillHold(v, m.val)'
  <2>1. Len(up) + 1 \in DOMAIN up' /\ \A j \in DOMAIN up' : ~(j > Len(up) + 1)
    BY <1>2
  <2>2. IsSet(up'[Len(up) + 1], v) /\ up'[Len(up) + 1].val = m.val
    BY <1>2, <1>4
  <2>3. QED
    BY <2>1, <2>2 DEF WillHold
<1>5. QED
  BY <1>3, <1>4

LEMMA HoldsHandled ==
  ASSUME TypeOK, NodeHandles, NEW v \in Vars, NEW x, WillHold(v, x)
  PROVE  WillHold(v, x)'
<1>1. up \in Seq(Requests) /\ up # <<>> /\ mem \in [Vars -> Values]
  BY DEF TypeOK, NodeHandles
<1>2. /\ up' = Tail(up) /\ Head(up) = up[1] /\ Len(up) \in Nat /\ Len(up) > 0
      /\ DOMAIN up = 1..Len(up) /\ DOMAIN up' = 1..Len(up) - 1
      /\ \A i \in 1..Len(up) - 1 : up'[i] = up[i + 1]
  BY <1>1, TailOfSeq DEF NodeHandles
<1>3. mem'[v] = IF IsSet(up[1], v) THEN up[1].val ELSE mem[v]
  BY <1>1, <1>2 DEF NodeHandles, IsSet
<1>4. CASE mem[v] = x /\ \A i \in DOMAIN up : ~IsSet(up[i], v)
  <2>1. \A i \in DOMAIN up' : ~IsSet(up'[i], v)
    BY <1>2, <1>4
  <2>2. mem'[v] = x
    BY <1>2, <1>3, <1>4
  <2>3. QED
    BY <2>1, <2>2 DEF WillHold
<1>5. ASSUME NEW i \in DOMAIN up, IsSet(up[i], v), up[i].val = x,
             \A j \in DOMAIN up : j > i => ~IsSet(up[j], v)
      PROVE  WillHold(v, x)'
  <2>1. CASE i = 1
    <3>1. \A j \in DOMAIN up' : ~IsSet(up'[j], v)
      BY <1>2, <1>5, <2>1
    <3>2. mem'[v] = x
      BY <1>3, <1>5, <2>1
    <3>3. QED
      BY <3>1, <3>2 DEF WillHold
  <2>2. CASE i # 1
    <3>1. i - 1 \in DOMAIN up' /\ up'[i - 1] = up[i]
      BY <1>2, <2>2
    <3>2. \A j \in DOMAIN up' : j > i - 1 => ~IsSet(up'[j], v)
      BY <1>2, <1>5
    <3>3. QED
      BY <3>1, <3>2, <1>5 DEF WillHold
  <2>3. QED
    BY <2>1, <2>2
<1>6. QED
  BY <1>4, <1>5 DEF WillHold

LEMMA HoldsElse ==
  ASSUME NEW v, NEW x, UNCHANGED up, mem'[v] = mem[v]
  PROVE  WillHold(v, x)' <=> WillHold(v, x)
BY DEF WillHold

(* The steps by what they do to the channels. *)
LEMMA SendingSteps ==
  ASSUME TypeOK, SetsOK, [Next]_vars
  PROVE  \/ UNCHANGED <<up, mem>>
         \/ \E m \in Requests : up' = Append(up, m) /\ UNCHANGED mem
                                /\ (m.op = "set" => m.var \in Written)
         \/ NodeHandles
         \/ NodeEmits
<1> USE DEF cache, node, channels, threads
<1>1. /\ next \in [Vars -> Values \cup {None}] /\ Written \subseteq Vars /\ Synced \subseteq Vars
      /\ \A v \in Vars \ Written : next[v] = None
  BY VarsAssumption DEF TypeOK, SetsOK
<1>2. ASSUME NEW t \in Threads, NEW v \in Vars, NEW x \in Values, SetNow(t, v, x)
      PROVE  \E m \in Requests : up' = Append(up, m) /\ UNCHANGED mem
                                /\ (m.op = "set" => m.var \in Written)
  BY <1>2 DEF SetNow, Send, Requests
<1>3. ASSUME NEW t \in Threads, NEW v \in Synced, SyncVariable(t, v), next[v] \notin {None, prev[v]}
      PROVE  \E m \in Requests : up' = Append(up, m) /\ UNCHANGED mem
                                /\ (m.op = "set" => m.var \in Written)
  <2>1. v \in Vars /\ v \in Written /\ next[v] \in Values
    BY <1>1, <1>3
  <2>2. QED
    BY <1>3, <2>1 DEF SyncVariable, Send, Requests
<1>4. ASSUME NEW t \in Threads, NEW v \in Synced, SyncVariable(t, v), next[v] \in {None, prev[v]}
      PROVE  UNCHANGED <<up, mem>>
  BY <1>4 DEF SyncVariable
<1>5. ASSUME NEW t \in Threads, Update(t) \/ \E v \in Vars : Get(t, v)
      PROVE  \E m \in Requests : up' = Append(up, m) /\ UNCHANGED mem
                                /\ (m.op = "set" => m.var \in Written)
  <2>1. CASE Update(t)
    <3>1. [op |-> "get", of |-> Vars] \in Requests
      BY DEF Requests
    <3>2. QED
      BY <2>1, <3>1 DEF Update
  <2>2. ASSUME NEW v \in Vars, Get(t, v)
        PROVE  \E m \in Requests : up' = Append(up, m) /\ UNCHANGED mem
                                  /\ (m.op = "set" => m.var \in Written)
    <3>1. [op |-> "get", of |-> {v}] \in Requests
      BY DEF Requests
    <3>2. QED
      BY <2>2, <3>1 DEF Get
  <2>3. QED
    BY <1>5, <2>1, <2>2
<1>6. ASSUME NEW t \in Threads,
             \/ \E v \in Vars, x \in Values : SetCached(t, v, x) \/ Modify(t, v, x)
             \/ SyncBegin(t) \/ Reload(t) \/ SyncEnd(t) \/ GetStore(t) \/ UpdateStore(t)
             \/ Timeout(t)
      PROVE  UNCHANGED <<up, mem>>
  BY <1>6 DEF SetCached, Modify, SyncBegin, Reload, SyncEnd, GetStore, UpdateStore, Timeout
<1>7. ASSUME Answered \/ EventReceived \/ UNCHANGED vars
      PROVE  UNCHANGED <<up, mem>>
  <2>1. CASE UNCHANGED vars
    BY <2>1 DEF vars
  <2>2. CASE Answered
    BY <2>2 DEF Answered
  <2>3. CASE EventReceived
    BY <2>3 DEF EventReceived
  <2>4. QED
    BY <1>7, <2>1, <2>2, <2>3
<1> DEFINE Sends == \E m \in Requests : up' = Append(up, m) /\ UNCHANGED mem
                                           /\ (m.op = "set" => m.var \in Written)
<1>8. ASSUME NEW t \in Threads, Operation(t)
      PROVE  UNCHANGED <<up, mem>> \/ Sends
  BY <1>2, <1>5, <1>6, <1>8 DEF Operation
<1>9. ASSUME NEW t \in Threads, Running(t)
      PROVE  UNCHANGED <<up, mem>> \/ Sends
  BY <1>3, <1>4, <1>6, <1>9 DEF Running
<1>10. ASSUME NEW t \in Threads, Timeout(t)
       PROVE  UNCHANGED <<up, mem>>
  BY <1>6, <1>10
<1> HIDE DEF Sends
<1>11. UNCHANGED <<up, mem>> \/ Sends \/ NodeHandles \/ NodeEmits
  BY <1>7, <1>8, <1>9, <1>10 DEF Next
<1>12. QED
  BY <1>11 DEF Sends

LEMMA SetsStep ==
  ASSUME TypeOK, SetsOK, [Next]_vars
  PROVE  SetsOK'
<1>1. up \in Seq(Requests) /\ next \in [Vars -> Values \cup {None}]
  BY DEF TypeOK
<1>2. \A i \in DOMAIN up' : up'[i].op = "set" => up'[i].var \in Written
  <2>1. CASE UNCHANGED <<up, mem>>
    BY <2>1 DEF SetsOK
  <2>2. ASSUME NEW m \in Requests, up' = Append(up, m), m.op = "set" => m.var \in Written
        PROVE  \A i \in DOMAIN up' : up'[i].op = "set" => up'[i].var \in Written
    <3>1. /\ DOMAIN up = 1..Len(up) /\ DOMAIN up' = 1..Len(up) + 1 /\ Len(up) \in Nat
          /\ up'[Len(up) + 1] = m /\ \A i \in 1..Len(up) : up'[i] = up[i]
      BY <1>1, <2>2, AppendToSeq
    <3>2. ASSUME NEW i \in DOMAIN up', up'[i].op = "set"
          PROVE  up'[i].var \in Written
      <4>1. CASE i = Len(up) + 1
        BY <2>2, <3>1, <3>2, <4>1
      <4>2. CASE i \in 1..Len(up)
        BY <3>1, <3>2, <4>2 DEF SetsOK
      <4>3. QED
        BY <3>1, <4>1, <4>2
    <3>3. QED
      BY <3>2
  <2>3. CASE NodeHandles
    <3>1. /\ DOMAIN up = 1..Len(up) /\ DOMAIN up' = 1..Len(up) - 1 /\ Len(up) \in Nat
          /\ \A i \in 1..Len(up) - 1 : up'[i] = up[i + 1]
      BY <1>1, <2>3, TailOfSeq DEF NodeHandles
    <3>2. \A i \in DOMAIN up' : i + 1 \in DOMAIN up /\ up'[i] = up[i + 1]
      BY <3>1
    <3>3. QED
      BY <3>2 DEF SetsOK
  <2>4. CASE NodeEmits
    BY <2>4 DEF NodeEmits, SetsOK
  <2>5. QED
    BY <2>1, <2>2, <2>3, <2>4, SendingSteps
<1>3. \A v \in Vars \ Written : next'[v] = None
  <2> USE <1>1 DEF SetsOK
  <2>1. ASSUME NEW t \in Threads, NEW v \in Vars, NEW x \in Values, SetCached(t, v, x) \/ Modify(t, v, x)
        PROVE  \A w \in Vars \ Written : next'[w] = None
    BY <2>1 DEF SetCached, Modify
  <2>2. ASSUME NEW t \in Threads, SyncEnd(t)
        PROVE  \A w \in Vars \ Written : next'[w] = None
    BY <2>2 DEF SyncEnd
  <2>3. \/ UNCHANGED next
        \/ \E t \in Threads : SyncEnd(t) \/ \E v \in Vars, x \in Values : SetCached(t, v, x) \/ Modify(t, v, x)
    <3> USE DEF cache
    <3>1. ASSUME NEW t \in Threads, Operation(t)
          PROVE  UNCHANGED next \/ \E v \in Vars, x \in Values : SetCached(t, v, x) \/ Modify(t, v, x)
      <4>1. CASE \E v \in Vars, x \in Values : SetNow(t, v, x)
        BY <4>1 DEF SetNow
      <4>2. CASE SyncBegin(t) \/ Update(t) \/ Reload(t) \/ \E v \in Vars : Get(t, v)
        BY <4>2 DEF SyncBegin, Update, Reload, Get
      <4>3. QED
        BY <3>1, <4>1, <4>2 DEF Operation
    <3>2. ASSUME NEW t \in Threads, Running(t) \/ Timeout(t)
          PROVE  UNCHANGED next \/ SyncEnd(t)
      BY <3>2 DEF Running, SyncVariable, GetStore, UpdateStore, Timeout
    <3>3. CASE Answered \/ EventReceived \/ NodeHandles \/ NodeEmits \/ UNCHANGED vars
      BY <3>3 DEF Answered, EventReceived, NodeHandles, NodeEmits, vars
    <3>4. QED
      BY <3>1, <3>2, <3>3 DEF Next
  <2>4. QED
    BY <2>1, <2>2, <2>3
<1>4. QED
  BY <1>2, <1>3 DEF SetsOK

(* The steps by what the processing thread takes and the node sends. *)
LEMMA ReceivingSteps ==
  ASSUME [Next]_vars
  PROVE  Answered \/ EventReceived \/ NodeHandles \/ NodeEmits \/ UNCHANGED <<down, mem>>
<1> USE DEF cache, node, channels, threads
<1>1. ASSUME NEW t \in Threads, Operation(t)
      PROVE  UNCHANGED <<down, mem>>
  <2>1. CASE \E v \in Vars, x \in Values : SetCached(t, v, x) \/ SetNow(t, v, x) \/ Modify(t, v, x)
    BY <2>1 DEF SetCached, SetNow, Modify
  <2>2. CASE SyncBegin(t) \/ Update(t) \/ Reload(t)
    BY <2>2 DEF SyncBegin, Update, Reload
  <2>3. CASE \E v \in Vars : Get(t, v)
    BY <2>3 DEF Get
  <2>4. QED
    BY <1>1, <2>1, <2>2, <2>3 DEF Operation
<1>2. ASSUME NEW t \in Threads, Running(t) \/ Timeout(t)
      PROVE  UNCHANGED <<down, mem>>
  BY <1>2 DEF Running, SyncVariable, SyncEnd, GetStore, UpdateStore, Timeout
<1>3. CASE UNCHANGED vars
  BY <1>3 DEF vars
<1>4. QED
  BY <1>1, <1>2, <1>3 DEF Next

LEMMA TakenFacts ==
  ASSUME TypeOK, Answered \/ EventReceived
  PROVE  /\ UNCHANGED <<mem, up>> /\ down \in Seq(Answers)
         /\ Head(down) = down[1] /\ down[1] \in Answers /\ Len(down) \in Nat /\ Len(down) > 0
         /\ DOMAIN down = 1..Len(down) /\ DOMAIN down' = 1..Len(down) - 1
         /\ Len(down') = Len(down) - 1
         /\ \A i \in 1..Len(down) - 1 : down'[i] = down[i + 1]
         /\ Answered => ~down[1].event
         /\ EventReceived => down[1].event
<1>1. down \in Seq(Answers) /\ down # <<>> /\ down' = Tail(down) /\ UNCHANGED <<mem, up>>
      /\ (Answered => ~Head(down).event) /\ (EventReceived => Head(down).event)
  BY DEF TypeOK, Answered, EventReceived, node
<1>2. QED
  BY <1>1, TailOfSeq

LEMMA EmittedFacts ==
  ASSUME TypeOK, NodeEmits
  PROVE  /\ UNCHANGED up /\ down \in Seq(Answers) /\ Len(down) \in Nat
         /\ DOMAIN down = 1..Len(down) /\ DOMAIN down' = 1..Len(down) + 1
         /\ Len(down') = Len(down) + 1
         /\ \A i \in 1..Len(down) : down'[i] = down[i]
         /\ LET last == down'[Len(down) + 1]
            IN  /\ last.event /\ DOMAIN last.val = Mirrored
                /\ \A v \in Mirrored : last.val[v] = mem'[v]
         /\ \A v \in Vars \ Mirrored : mem'[v] = mem[v]
<1>1. PICK measured \in [Mirrored -> Values] :
        /\ mem' = Over(measured, mem)
        /\ down' = Append(down, [event |-> TRUE, val |-> measured])
  BY DEF NodeEmits
<1>2. mem \in [Vars -> Values] /\ down \in Seq(Answers) /\ UNCHANGED up
  BY DEF TypeOK, NodeEmits
<1>3. [event |-> TRUE, val |-> measured] \in Answers
  BY VarsAssumption, ContentsOf DEF Answers
<1>4. /\ \A v \in Mirrored : mem'[v] = measured[v]
      /\ \A v \in Vars \ Mirrored : mem'[v] = mem[v]
  BY <1>1, <1>2, VarsAssumption DEF Over
<1>5. QED
  BY <1>1, <1>2, <1>3, <1>4, AppendToSeq

LEMMA HandledFacts ==
  ASSUME TypeOK, NodeHandles
  PROVE  /\ up # <<>> /\ up \in Seq(Requests) /\ up' = Tail(up) /\ down \in Seq(Answers)
         /\ Len(down) \in Nat /\ DOMAIN down = 1..Len(down)
         /\ \/ /\ up[1].op = "set" /\ UNCHANGED down
               /\ \A v \in Vars : v # up[1].var => mem'[v] = mem[v]
            \/ /\ up[1].op = "get" /\ UNCHANGED mem
               /\ DOMAIN down' = 1..Len(down) + 1 /\ Len(down') = Len(down) + 1
               /\ \A i \in 1..Len(down) : down'[i] = down[i]
               /\ down'[Len(down) + 1] = [event |-> FALSE, val |-> [v \in up[1].of |-> mem[v]]]
<1>1. /\ up # <<>> /\ up \in Seq(Requests) /\ up' = Tail(up) /\ down \in Seq(Answers)
      /\ mem \in [Vars -> Values]
  BY DEF TypeOK, NodeHandles
<1>2. Head(up) = up[1] /\ up[1] \in Requests
  BY <1>1, TailOfSeq
<1>3. CASE up[1].op = "set" /\ mem' = [mem EXCEPT ![up[1].var] = up[1].val] /\ UNCHANGED down
  BY <1>1, <1>3
<1>4. CASE /\ up[1].op = "get" /\ UNCHANGED mem
           /\ down' = Append(down, [event |-> FALSE, val |-> [v \in up[1].of |-> mem[v]]])
  <2>1. up[1].of \in SUBSET Vars
    BY <1>2, <1>4 DEF Requests
  <2>2. [event |-> FALSE, val |-> [v \in up[1].of |-> mem[v]]] \in Answers
    BY <1>1, <2>1, ContentsOf DEF Answers
  <2>3. QED
    BY <1>1, <1>4, <2>2, AppendToSeq
<1>5. QED
  BY <1>2, <1>3, <1>4 DEF NodeHandles

LEMMA EventsStep ==
  ASSUME TypeOK, SetsOK, EventsOK, [Next]_vars
  PROVE  EventsOK'
<1> USE DEF EventsOK
<1>1. CASE UNCHANGED <<down, mem>>
  BY <1>1
<1>2. CASE Answered \/ EventReceived
  <2> SUFFICES ASSUME NEW i \in DOMAIN down', down'[i].event
               PROVE  /\ DOMAIN down'[i].val = Mirrored
                      /\ \A v \in Mirrored \ Written :
                           down'[i].val[v] = mem'[v] \/ \E j \in DOMAIN down' : j > i /\ down'[j].event
    OBVIOUS
  <2>1. i + 1 \in DOMAIN down /\ down'[i] = down[i + 1] /\ UNCHANGED mem
    BY <1>2, TakenFacts
  <2>2. ASSUME NEW j \in DOMAIN down, j > i + 1, down[j].event
        PROVE  j - 1 \in DOMAIN down' /\ j - 1 > i /\ down'[j - 1].event
    <3>1. /\ Len(down) \in Nat /\ DOMAIN down = 1..Len(down) /\ DOMAIN down' = 1..Len(down) - 1
          /\ \A k \in 1..Len(down) - 1 : down'[k] = down[k + 1]
      BY <1>2, TakenFacts
    <3>2. i \in Nat /\ j \in Nat /\ j - 1 > i /\ j - 1 \in 1..Len(down) - 1
      BY <2>2, <3>1
    <3>3. down'[j - 1] = down[(j - 1) + 1] /\ (j - 1) + 1 = j
      BY <3>1, <3>2
    <3>4. QED
      BY <2>2, <3>1, <3>2, <3>3
  <2>3. QED
    BY <2>1, <2>2
<1>3. CASE NodeHandles
  <2>1. CASE up[1].op = "set" /\ UNCHANGED down /\ \A v \in Vars : v # up[1].var => mem'[v] = mem[v]
    <3>1. up[1].var \in Written
      BY <1>3, <2>1, HandledFacts, TailOfSeq DEF SetsOK
    <3>2. \A v \in Mirrored \ Written : mem'[v] = mem[v]
      BY <2>1, <3>1, VarsAssumption
    <3>3. QED
      BY <2>1, <3>2
  <2>2. CASE /\ UNCHANGED mem /\ DOMAIN down' = 1..Len(down) + 1 /\ DOMAIN down = 1..Len(down)
             /\ \A i \in 1..Len(down) : down'[i] = down[i]
             /\ ~down'[Len(down) + 1].event /\ Len(down) \in Nat
    <3>1. \A i \in DOMAIN down' : down'[i].event => i \in DOMAIN down /\ down'[i] = down[i]
      BY <2>2
    <3>2. \A j \in DOMAIN down : j \in DOMAIN down' /\ down'[j] = down[j]
      BY <2>2
    <3>3. QED
      BY <3>1, <3>2, <2>2
  <2>3. QED
    BY <1>3, <2>1, <2>2, HandledFacts
<1>4. CASE NodeEmits
  <2> DEFINE n == Len(down) + 1
  <2>1. /\ DOMAIN down' = 1..n /\ n \in DOMAIN down' /\ Len(down) \in Nat
        /\ DOMAIN down = 1..Len(down) /\ \A i \in 1..Len(down) : down'[i] = down[i]
        /\ down'[n].event /\ DOMAIN down'[n].val = Mirrored
        /\ \A v \in Mirrored : down'[n].val[v] = mem'[v]
    BY <1>4, EmittedFacts
  <2>2. ASSUME NEW i \in DOMAIN down', down'[i].event
        PROVE  /\ DOMAIN down'[i].val = Mirrored
               /\ \A v \in Mirrored \ Written :
                    down'[i].val[v] = mem'[v] \/ \E j \in DOMAIN down' : j > i /\ down'[j].event
    <3>1. CASE i = n
      BY <2>1, <3>1
    <3>2. CASE i \in 1..Len(down)
      BY <2>1, <2>2, <3>2
    <3>3. QED
      BY <2>1, <3>1, <3>2
  <2>3. QED
    BY <2>2
<1>5. QED
  BY <1>1, <1>2, <1>3, <1>4, ReceivingSteps

(* The step does not send a change of v. *)
NotSet(v) == \A m \in Requests : up' = Append(up, m) => ~IsSet(m, v)

(* What is current stays so, unless the user sets the variable or an event *)
(* that tells about it is received.                                        *)
LEMMA CurrentStep ==
  ASSUME TypeOK, SetsOK, EventsOK, [Next]_vars, NEW v \in Followed, NEW x, Current(v, x),
         ~(EventReceived /\ v \in Mirrored),
         NotSet(v)
  PROVE  Current(v, x)'
<1>1. v \in Vars
  BY VarsAssumption DEF Followed
<1>2. CASE v \in Mirrored /\ EventDue
  <2>1. PICK i \in DOMAIN down : down[i].event
    BY <1>2 DEF EventDue
  <2>2. CASE Answered
    <3>1. i \in 2..Len(down)
      BY <2>1, <2>2, TakenFacts
    <3>2. i - 1 \in DOMAIN down' /\ down'[i - 1].event
      BY <2>1, <2>2, <3>1, TakenFacts
    <3>3. QED
      BY <1>2, <3>2 DEF Current, EventDue
  <2>3. CASE NodeHandles
    <3>1. i \in DOMAIN down' /\ down'[i] = down[i]
      BY <2>1, <2>3, HandledFacts
    <3>2. QED
      BY <1>2, <2>1, <3>1 DEF Current, EventDue
  <2>4. CASE NodeEmits
    <3>1. i \in DOMAIN down' /\ down'[i] = down[i]
      BY <2>1, <2>4, EmittedFacts
    <3>2. QED
      BY <1>2, <2>1, <3>1 DEF Current, EventDue
  <2>5. CASE UNCHANGED <<down, mem>>
    BY <1>2, <2>5 DEF Current, EventDue
  <2>6. QED
    BY <1>2, <2>2, <2>3, <2>4, <2>5, ReceivingSteps
<1>3. CASE WillHold(v, x)
  <2>1. CASE UNCHANGED <<up, mem>>
    BY <1>3, <2>1, HoldsElse DEF Current
  <2>2. ASSUME NEW m \in Requests, up' = Append(up, m), UNCHANGED mem
        PROVE  Current(v, x)'
    BY <1>3, <2>2, HoldsSent DEF Current, NotSet
  <2>3. CASE NodeHandles
    BY <1>1, <1>3, <2>3, HoldsHandled DEF Current
  <2>4. CASE NodeEmits
    <3>1. CASE v \in Mirrored
      <4>1. Len(down) + 1 \in DOMAIN down' /\ down'[Len(down) + 1].event
        BY <2>4, EmittedFacts
      <4>2. QED
        BY <3>1, <4>1 DEF Current, EventDue
    <3>2. CASE v \notin Mirrored
      BY <1>1, <1>3, <2>4, <3>2, EmittedFacts, HoldsElse DEF Current
    <3>3. QED
      BY <3>1, <3>2
  <2>5. QED
    BY <2>1, <2>2, <2>3, <2>4, SendingSteps
<1>4. QED
  BY <1>2, <1>3 DEF Current

(* Whether a request was sent. *)
LEMMA SentFacts ==
  ASSUME TypeOK, NEW m \in Requests
  PROVE  /\ UNCHANGED up => up' # Append(up, m)
         /\ NodeHandles => up' # Append(up, m)
         /\ \A n \in Requests : up' = Append(up, n) /\ up' = Append(up, m) => n = m
<1>1. up \in Seq(Requests)
  BY DEF TypeOK
<1>2. Len(Append(up, m)) = Len(up) + 1 /\ Len(up) \in Nat
  BY <1>1, AppendToSeq
<1>3. NodeHandles => Len(up') = Len(up) - 1
  BY <1>1, TailOfSeq DEF NodeHandles
<1>4. ASSUME NEW n \in Requests, up' = Append(up, n), up' = Append(up, m)
      PROVE  n = m
  <2>1. Append(up, n)[Len(up) + 1] = n /\ Append(up, m)[Len(up) + 1] = m
    BY <1>1, AppendToSeq
  <2>2. QED
    BY <1>4, <2>1
<1>5. QED
  BY <1>2, <1>3, <1>4

LEMMA LastSent ==
  ASSUME TypeOK, NEW m \in Requests, up' = Append(up, m)
  PROVE  up' # <<>> /\ up'[Len(up')] = m
<1>1. up \in Seq(Requests)
  BY DEF TypeOK
<1>2. Len(up') = Len(up) + 1 /\ up'[Len(up) + 1] = m /\ Len(up) \in Nat
  BY <1>1, AppendToSeq
<1>3. QED
  BY <1>2

LEMMA NothingSet ==
  ASSUME TypeOK, NEW v
  PROVE  /\ UNCHANGED up => NotSet(v)
         /\ NodeHandles => NotSet(v)
         /\ \A m \in Requests : up' = Append(up, m) /\ ~IsSet(m, v) => NotSet(v)
BY SentFacts DEF NotSet

(* While a thread waits, what it asked for is the same. *)
LEMMA SameAsked ==
  ASSUME pc'[User] = pc[User], UNCHANGED arg
  PROVE  Asked(User)' = Asked(User)
BY DEF Asked

LEMMA AwaitStep ==
  ASSUME OneByOne, TypeOK, ArgOK, OthersOK, SetsOK, EventsOK, AwaitOK, [Next]_vars
  PROVE  AwaitOK'
<1> DEFINE Waits == pc[User] \in {"get", "update"}
<1>1. /\ User \in Threads /\ pc \in [Threads -> Places] /\ arg \in [Threads -> Vars \cup {None}]
      /\ got \in [Threads -> Contents] /\ up \in Seq(Requests) /\ down \in Seq(Answers)
  BY UserIsAlone DEF TypeOK
<1>2. ASSUME ~(pc'[User] \in {"get", "update"})
      PROVE  AwaitOK'
  BY <1>2 DEF AwaitOK
<1>3. ASSUME pc'[User] = pc[User], UNCHANGED <<up, arg, got>>, UNCHANGED <<mem, down>>
      PROVE  AwaitOK'
  BY <1>3, SameAsked DEF AwaitOK, IsAnswer
<1>4. ASSUME NEW v \in Vars, Get(User, v)
      PROVE  AwaitOK'
  <2>1. pc'[User] = "get" /\ arg'[User] = v /\ got'[User] = <<>>
        /\ up' = Append(up, [op |-> "get", of |-> {v}])
    BY <1>1, <1>4 DEF Get, Begin
  <2>2. [op |-> "get", of |-> {v}] \in Requests
    BY DEF Requests
  <2>3. up' # <<>> /\ up'[Len(up')] = [op |-> "get", of |-> {v}]
    BY <2>1, <2>2, LastSent
  <2>4. Asked(User)' = {v}
    BY <2>1 DEF Asked
  <2>5. QED
    BY <2>1, <2>3, <2>4 DEF AwaitOK
<1>5. ASSUME Update(User)
      PROVE  AwaitOK'
  <2>1. pc'[User] = "update" /\ up' = Append(up, [op |-> "get", of |-> Vars])
    BY <1>1, <1>5 DEF Update, Begin
  <2>2. [op |-> "get", of |-> Vars] \in Requests
    BY DEF Requests
  <2>3. up' # <<>> /\ up'[Len(up')] = [op |-> "get", of |-> Vars]
    BY <2>1, <2>2, LastSent
  <2>4. Asked(User)' = Vars
    BY <2>1 DEF Asked
  <2>5. QED
    BY <2>1, <2>3, <2>4 DEF AwaitOK
<1>6. ASSUME Operation(User), \A v \in Vars : ~Get(User, v), ~Update(User)
      PROVE  AwaitOK'
  <2>1. pc'[User] \in {"run", "sync"}
    BY <1>1, <1>6 DEF Operation, SetCached, SetNow, Modify, SyncBegin, Reload, Begin
  <2>2. QED
    BY <2>1, <1>2
<1>7. ASSUME Running(User) \/ Timeout(User)
      PROVE  AwaitOK'
  <2>1. pc'[User] \notin {"get", "update"}
    BY <1>1, <1>7 DEF Running, SyncVariable, SyncEnd, GetStore, UpdateStore, Timeout
  <2>2. QED
    BY <2>1, <1>2
<1>8. ASSUME NEW t \in Threads \ {User}, Reload(t)
      PROVE  AwaitOK'
  BY <1>1, <1>3, <1>8 DEF Reload, Begin, channels, node
<1>9. ASSUME Answered
      PROVE  AwaitOK'
  <2> SUFFICES ASSUME pc'[User] \in {"get", "update"}
               PROVE  AwaitOK'
    BY <1>2
  <2> DEFINE sum == Over(Head(down).val, got[User])
  <2>1. pc[User] = "update" /\ DOMAIN sum # Vars /\ pc'[User] = pc[User] /\ UNCHANGED arg
    BY <1>1, <1>9 DEF Answered
  <2>2. Asked(User)' = Asked(User) /\ Asked(User) = Vars
    BY <2>1, SameAsked DEF Asked
  <2>3. CASE up # <<>> /\ up[Len(up)] = [op |-> "get", of |-> Asked(User)]
    BY <1>9, <2>1, <2>2, <2>3 DEF Answered, AwaitOK
  <2>4. ASSUME up = <<>>, NEW i \in DOMAIN down, IsAnswer(i)
        PROVE  AwaitOK'
    <3>1. Head(down) = down[1] /\ i \in 1..Len(down) /\ Len(down) \in Nat
      BY <1>9, <2>4, TakenFacts
    <3>2. CASE i = 1
      <4>1. DOMAIN Head(down).val = Vars
        BY <2>2, <2>4, <3>1, <3>2 DEF IsAnswer
      <4>2. DOMAIN sum = Vars
        <5>1. DOMAIN got[User] \subseteq Vars
          BY <1>1, ContentsFacts
        <5>2. QED
          BY <4>1, <5>1 DEF Over
      <4>3. QED
        BY <2>1, <4>2
    <3>3. CASE i # 1
      <4>1. i - 1 \in 1..Len(down) - 1 /\ (i - 1) + 1 = i
        BY <3>1, <3>3
      <4>2. i - 1 \in DOMAIN down' /\ down'[i - 1] = down[i] /\ Len(down') = Len(down) - 1
            /\ UNCHANGED <<mem, up>>
        BY <1>9, <4>1, TakenFacts
      <4>3. \A j \in DOMAIN down' : j > i - 1 => down'[j].event
        <5>1. ASSUME NEW j \in DOMAIN down', j > i - 1
              PROVE  j + 1 \in DOMAIN down /\ j + 1 > i /\ down'[j] = down[j + 1]
          BY <1>9, <3>1, <5>1, TakenFacts
        <5>2. QED
          BY <2>4, <5>1 DEF IsAnswer
      <4>4. IsAnswer(i - 1)'
        BY <2>2, <2>4, <3>1, <4>1, <4>2, <4>3 DEF IsAnswer
      <4>5. QED
        BY <2>1, <2>4, <4>2, <4>4 DEF AwaitOK
    <3>4. QED
      BY <3>2, <3>3
  <2>5. QED
    BY <2>1, <2>3, <2>4 DEF AwaitOK
<1>10. ASSUME EventReceived
       PROVE  AwaitOK'
  <2> SUFFICES ASSUME pc'[User] \in {"get", "update"}
               PROVE  AwaitOK'
    BY <1>2
  <2>1. pc'[User] = pc[User] /\ UNCHANGED <<arg, got>>
    BY <1>1, <1>10 DEF EventReceived
  <2>2. Asked(User)' = Asked(User)
    BY <2>1, SameAsked
  <2>3. CASE up # <<>> /\ up[Len(up)] = [op |-> "get", of |-> Asked(User)]
    BY <1>10, <2>1, <2>2, <2>3 DEF EventReceived, AwaitOK
  <2>4. ASSUME up = <<>>, NEW i \in DOMAIN down, IsAnswer(i)
        PROVE  AwaitOK'
    <3>1. i \in 2..Len(down) /\ Len(down) \in Nat
      BY <1>10, <2>4, TakenFacts DEF IsAnswer
    <3>2. i - 1 \in 1..Len(down) - 1 /\ (i - 1) + 1 = i
      BY <3>1
    <3>3. i - 1 \in DOMAIN down' /\ down'[i - 1] = down[i] /\ Len(down') = Len(down) - 1
          /\ UNCHANGED <<mem, up>>
      BY <1>10, <3>2, TakenFacts
    <3>4. \A j \in DOMAIN down' : j > i - 1 => down'[j].event
      <4>1. ASSUME NEW j \in DOMAIN down', j > i - 1
            PROVE  j + 1 \in DOMAIN down /\ j + 1 > i /\ down'[j] = down[j + 1]
        BY <1>10, <3>1, <4>1, TakenFacts
      <4>2. QED
        BY <2>4, <4>1 DEF IsAnswer
    <3>5. IsAnswer(i - 1)'
      BY <2>2, <2>4, <3>1, <3>2, <3>3, <3>4 DEF IsAnswer
    <3>6. QED
      BY <2>1, <2>4, <3>3, <3>5 DEF AwaitOK
  <2>5. QED
    BY <2>1, <2>3, <2>4 DEF AwaitOK
<1>11. ASSUME NodeHandles
       PROVE  AwaitOK'
  <2> SUFFICES ASSUME pc'[User] \in {"get", "update"}
               PROVE  AwaitOK'
    BY <1>2
  <2>1. pc' = pc /\ UNCHANGED <<arg, got>>
    BY <1>11 DEF NodeHandles, threads
  <2>2. Asked(User)' = Asked(User)
    BY <2>1, SameAsked
  <2>3. up # <<>> /\ up[Len(up)] = [op |-> "get", of |-> Asked(User)]
    BY <1>11, <2>1 DEF AwaitOK, NodeHandles
  <2>4. /\ up' = Tail(up) /\ Len(up) \in Nat /\ Len(up) > 0 /\ Len(up') = Len(up) - 1
        /\ \A i \in 1..Len(up) - 1 : up'[i] = up[i + 1]
        /\ up' \in Seq(Requests)
    BY <1>1, <2>3, <1>11, TailOfSeq DEF NodeHandles
  <2>5. CASE Len(up) = 1
    <3>1. up' = <<>>
      BY <2>4, <2>5
    <3>2. up[1].op = "get" /\ up[1].of = Asked(User)
      BY <2>3, <2>5
    <3>3. /\ UNCHANGED mem /\ DOMAIN down' = 1..Len(down) + 1 /\ Len(down) \in Nat
          /\ down'[Len(down) + 1] = [event |-> FALSE, val |-> [v \in up[1].of |-> mem[v]]]
      BY <1>11, <3>2, HandledFacts
    <3>4. ~down'[Len(down) + 1].event /\ down'[Len(down) + 1].val = [v \in Asked(User) |-> mem[v]]
      BY <3>2, <3>3
    <3>5. PICK n : n = Len(down) + 1
      OBVIOUS
    <3>6. n \in DOMAIN down' /\ ~down'[n].event /\ \A j \in DOMAIN down' : ~(j > n)
      BY <3>3, <3>4, <3>5
    <3>7. DOMAIN down'[n].val = Asked(User) /\ \A v \in Asked(User) : down'[n].val[v] = mem'[v]
      BY <3>3, <3>4, <3>5
    <3>8. IsAnswer(n)'
      BY <2>2, <3>6, <3>7 DEF IsAnswer
    <3>9. QED
      BY <2>1, <3>1, <3>6, <3>8 DEF AwaitOK
  <2>6. CASE Len(up) > 1
    <3>1. up' # <<>> /\ up'[Len(up')] = up[Len(up)]
      BY <2>4, <2>6
    <3>2. QED
      BY <2>1, <2>2, <2>3, <3>1 DEF AwaitOK
  <2>7. QED
    BY <2>4, <2>5, <2>6
<1>12. ASSUME NodeEmits
       PROVE  AwaitOK'
  <2> SUFFICES ASSUME pc'[User] \in {"get", "update"}
               PROVE  AwaitOK'
    BY <1>2
  <2>1. pc' = pc /\ UNCHANGED <<arg, got, up>>
    BY <1>12 DEF NodeEmits, threads
  <2>2. Asked(User)' = Asked(User)
    BY <2>1, SameAsked
  <2>3. CASE up # <<>> /\ up[Len(up)] = [op |-> "get", of |-> Asked(User)]
    BY <2>1, <2>2, <2>3 DEF AwaitOK
  <2>4. ASSUME up = <<>>, NEW i \in DOMAIN down, IsAnswer(i)
        PROVE  AwaitOK'
    <3>1. i \in 1..Len(down) /\ i \in DOMAIN down' /\ down'[i] = down[i] /\ i < Len(down')
      BY <1>12, EmittedFacts
    <3>2. \A j \in DOMAIN down' : j > i => down'[j].event
      BY <1>12, <2>4, EmittedFacts DEF IsAnswer
    <3>3. \A v \in Asked(User) : v \in Mirrored \/ mem'[v] = mem[v]
      <4>1. Asked(User) \subseteq Vars
        BY <1>1, AskedVars DEF TypeOK, ThreadTypes
      <4>2. QED
        BY <1>12, <4>1, EmittedFacts
    <3>4. IsAnswer(i)'
      BY <2>2, <2>4, <3>1, <3>2, <3>3 DEF IsAnswer
    <3>5. QED
      BY <2>1, <2>4, <3>1, <3>4 DEF AwaitOK
  <2>5. QED
    BY <2>1, <2>3, <2>4 DEF AwaitOK
<1>13. CASE UNCHANGED vars
  BY <1>3, <1>13 DEF vars, threads, node, channels
<1>14. ASSUME NEW t \in Threads, Operation(t) \/ Running(t) \/ Timeout(t)
       PROVE  AwaitOK'
  BY <1>4, <1>5, <1>6, <1>7, <1>8, <1>14, UserSteps
<1>15. QED
  BY <1>9, <1>10, <1>11, <1>12, <1>13, <1>14 DEF Next

(* The wait of the user ends with the answer to it, unless another is due. *)
LEMMA AnsweredFacts ==
  ASSUME OneByOne, TypeOK, ArgOK, OthersOK, AwaitOK, Answered
  PROVE  /\ UNCHANGED <<cache, node, up, arg, todo>>
         /\ \/ pc'[User] = pc[User] /\ UNCHANGED unsure
               /\ (pc[User] # "update" => UNCHANGED got)
            \/ /\ \/ pc[User] = "get" /\ pc'[User] = "got"
                  \/ pc[User] = "update" /\ pc'[User] = "refresh"
               /\ pc'[User] = "refresh" => DOMAIN got'[User] = Vars
               /\ \/ Asked(User) \subseteq unsure' /\ unsure \subseteq unsure'
                  \/ /\ unsure' = IF RecordsPrev THEN unsure \ Asked(User) ELSE unsure
                     /\ IsAnswer(1) /\ up = <<>> /\ got'[User] = Head(down).val
<1>1. /\ User \in Threads /\ pc \in [Threads -> Places] /\ arg \in [Threads -> Vars \cup {None}]
      /\ got \in [Threads -> Contents] /\ up \in Seq(Requests)
  BY UserIsAlone DEF TypeOK
<1> DEFINE val == Head(down).val
           read == UNION {Asked(t) : t \in {u \in Threads : pc[u] # pc'[u]}}
<1>2. /\ UNCHANGED <<cache, node, up, arg, todo>>
      /\ got' = [t \in Threads |-> CASE pc[t] = "get" -> val
                                     [] pc[t] = "update" -> Over(val, got[t])
                                     [] OTHER -> got[t]]
      /\ pc' = [t \in Threads |->
                  CASE pc[t] = "get" -> "got"
                    [] pc[t] = "update" /\ DOMAIN Over(val, got[t]) = Vars -> "refresh"
                    [] OTHER -> pc[t]]
      /\ unsure' = IF Due THEN unsure \cup read
                   ELSE IF RecordsPrev THEN unsure \ read ELSE unsure
  BY DEF Answered
<1>3. \A u \in Threads \ {User} : pc'[u] = pc[u] /\ got'[u] = got[u]
  BY <1>1, <1>2 DEF OthersOK
<1>4. CASE pc'[User] = pc[User]
  <2>1. read = {}
    BY <1>3, <1>4
  <2>2. UNCHANGED unsure
    BY <1>2, <2>1, FlagsAssumption
  <2>3. pc[User] # "get"
    BY <1>1, <1>2, <1>4
  <2>4. ASSUME pc[User] # "update"
        PROVE  UNCHANGED got
    BY <1>1, <1>2, <1>3, <2>3, <2>4
  <2>5. QED
    BY <1>2, <1>4, <2>2, <2>4
<1>5. CASE pc'[User] # pc[User]
  <2>1. read = Asked(User)
    BY <1>1, <1>3, <1>5
  <2>2. \/ pc[User] = "get" /\ pc'[User] = "got"
        \/ pc[User] = "update" /\ pc'[User] = "refresh"
    <3>1. CASE pc[User] = "get"
      <4>1. pc'[User] = "got"
        BY <1>1, <1>2, <3>1
      <4>2. QED
        BY <3>1, <4>1
    <3>2. CASE pc[User] = "update"
      <4>1. pc'[User] \in {"refresh", pc[User]}
        BY <1>1, <1>2, <3>2
      <4>2. QED
        BY <1>5, <3>2, <4>1
    <3>3. CASE pc[User] \notin {"get", "update"}
      BY <1>1, <1>2, <1>5, <3>3
    <3>4. QED
      BY <3>1, <3>2, <3>3
  <2>3. pc'[User] = "refresh" => DOMAIN got'[User] = Vars
    BY <1>1, <1>2, <2>2
  <2>4. CASE Due
    BY <1>2, <2>1, <2>2, <2>3, <2>4
  <2>5. CASE ~Due
    <3>1. up = <<>>
      <4>1. ASSUME up # <<>>, up[Len(up)] = [op |-> "get", of |-> Asked(User)]
            PROVE  Due
        BY <1>1, <4>1 DEF Due
      <4>2. QED
        BY <2>2, <2>5, <4>1 DEF AwaitOK
    <3>2. PICK i \in DOMAIN down : IsAnswer(i)
      BY <2>2, <3>1 DEF AwaitOK
    <3>3. i = 1
      BY <2>5, <3>2 DEF Due, IsAnswer
    <3>4. DOMAIN val = Asked(User)
      BY <3>2, <3>3, TakenFacts DEF IsAnswer
    <3>5. got'[User] = val
      <4>1. CASE pc[User] = "get"
        BY <1>1, <1>2, <4>1
      <4>2. CASE pc[User] = "update"
        <5>1. DOMAIN val = Vars
          BY <3>4, <4>2 DEF Asked
        <5>2. val \in Contents
          BY TakenFacts DEF Answers
        <5>3. Over(val, got[User]) = val
          BY <1>1, <5>1, <5>2, OverContents
        <5>4. QED
          BY <1>1, <1>2, <4>2, <5>3
      <4>3. QED
        BY <2>2, <4>1, <4>2
    <3>6. QED
      BY <1>2, <2>1, <2>2, <2>3, <2>5, <3>1, <3>2, <3>3, <3>5
  <2>6. QED
    BY <2>4, <2>5
<1>6. QED
  BY <1>4, <1>5

(* While what is read is to be stored, an event tells what is unsure. *)
LEMMA EventFacts ==
  ASSUME OneByOne, TypeOK, EventsOK, EventReceived
  PROVE  /\ UNCHANGED <<next, node, up, arg, todo, got>>
         /\ Head(down) = down[1] /\ DOMAIN Head(down).val = Mirrored
         /\ (pc[User] = "idle" /\ pc'[User] = "run") \/ pc'[User] = pc[User]
         /\ unsure \ Mirrored \subseteq unsure' /\ unsure' \subseteq unsure \cup Mirrored
         /\ Received => Asked(User) \cap Mirrored \subseteq unsure'
<1>1. User \in Threads /\ pc \in [Threads -> Places]
  BY UserIsAlone DEF TypeOK
<1>2. Head(down) = down[1] /\ DOMAIN Head(down).val = Mirrored
  BY TakenFacts DEF EventsOK
<1>3. (pc[User] = "idle" /\ pc'[User] = "run") \/ pc'[User] = pc[User]
  BY <1>1 DEF EventReceived
<1> DEFINE answered == UNION {Asked(t) : t \in {u \in Threads : pc[u] \in {"got", "refresh"}}}
<1>4. unsure' = (unsure \ Mirrored) \cup (Mirrored \cap answered)
  BY <1>2 DEF EventReceived
<1>5. Received => Asked(User) \subseteq answered
  BY <1>1 DEF Received
<1> HIDE DEF answered
<1>6. UNCHANGED <<next, node, up, arg, todo, got>>
  BY DEF EventReceived
<1>7. QED
  BY <1>2, <1>3, <1>4, <1>5, <1>6

LEMMA ReceivedStep ==
  ASSUME OneByOne, TypeOK, ArgOK, OthersOK, SetsOK, EventsOK, AwaitOK, ReceivedOK, [Next]_vars
  PROVE  ReceivedOK'
<1>1. /\ User \in Threads /\ pc \in [Threads -> Places] /\ arg \in [Threads -> Vars \cup {None}]
      /\ got \in [Threads -> Contents] /\ mem \in [Vars -> Values]
  BY UserIsAlone DEF TypeOK
<1>2. ASSUME ~(pc'[User] \in {"got", "refresh"})
      PROVE  ReceivedOK'
  BY <1>2 DEF ReceivedOK, Received
<1>3. ASSUME pc'[User] = pc[User], UNCHANGED <<arg, got, up>> \/ (UNCHANGED <<arg, got>> /\ NodeHandles),
             ~EventReceived, UNCHANGED unsure
      PROVE  ReceivedOK'
  <2>1. Asked(User)' = Asked(User) /\ Received' = Received
    BY <1>3, SameAsked DEF Received
  <2>2. ASSUME Received, NEW v \in (Asked(User) \cap Followed) \ unsure, Current(v, got[User][v])
        PROVE  Current(v, got[User][v])'
    <3>1. NotSet(v)
      BY <1>3, NothingSet
    <3>2. PICK x : x = got[User][v]
      OBVIOUS
    <3>3. Current(v, x)'
      BY <1>3, <2>2, <3>1, <3>2, CurrentStep
    <3>4. got'[User][v] = x
      BY <1>3, <3>2
    <3>5. QED
      BY <3>3, <3>4 DEF Current, WillHold
  <2>3. ASSUME Received'
        PROVE  /\ pc'[User] = "refresh" => DOMAIN got'[User] = Vars
               /\ \A v \in (Asked(User) \cap Followed) \ unsure :
                    got'[User] = <<>> \/ (DOMAIN got'[User] = Asked(User) /\ Current(v, got[User][v])')
    <3>1. Received /\ UNCHANGED got
      BY <1>3, <2>1, <2>3
    <3>2. QED
      BY <1>3, <2>2, <3>1 DEF ReceivedOK
  <2>4. QED
    BY <1>3, <2>1, <2>3 DEF ReceivedOK
<1>4. ASSUME Operation(User)
      PROVE  ReceivedOK'
  <2>1. pc'[User] \in {"run", "sync", "get", "update"}
    BY <1>1, <1>4 DEF Operation, SetCached, SetNow, Modify, SyncBegin, Get, Update, Reload, Begin
  <2>2. QED
    BY <2>1, <1>2
<1>5. ASSUME Running(User)
      PROVE  ReceivedOK'
  <2>1. pc'[User] \in {"run", "sync", "idle"}
    BY <1>1, <1>5 DEF Running, SyncVariable, SyncEnd, GetStore, UpdateStore
  <2>2. QED
    BY <2>1, <1>2
<1>6. ASSUME Timeout(User)
      PROVE  ReceivedOK'
  <2>1. CASE pc[User] = "update" /\ pc' = [pc EXCEPT ![User] = "run"]
    <3>1. pc'[User] = "run"
      BY <1>1, <2>1
    <3>2. QED
      BY <3>1, <1>2
  <2>2. CASE pc[User] = "get" /\ pc' = [pc EXCEPT ![User] = "got"] /\ UNCHANGED got
    <3>1. got'[User] = <<>> /\ pc'[User] = "got"
      BY <1>1, <2>2 DEF AwaitOK
    <3>2. QED
      BY <3>1 DEF ReceivedOK
  <2>3. QED
    BY <1>6, <2>1, <2>2 DEF Timeout
<1>7. ASSUME NEW t \in Threads \ {User}, Reload(t)
      PROVE  ReceivedOK'
  <2>1. pc'[User] = pc[User] /\ UNCHANGED <<arg, got, up, unsure, down>>
    BY <1>1, <1>7 DEF Reload, Begin, channels
  <2>2. ~EventReceived
    <3>1. EventReceived => Len(down') = Len(down) - 1 /\ Len(down) \in Nat
      BY TakenFacts
    <3>2. QED
      BY <2>1, <3>1
  <2>3. QED
    BY <1>3, <2>1, <2>2
<1>8. ASSUME Answered
      PROVE  ReceivedOK'
  <2>1. ~EventReceived
    BY <1>8 DEF Answered, EventReceived
  <2>2. CASE pc'[User] = pc[User] /\ UNCHANGED unsure /\ (pc[User] # "update" => UNCHANGED got)
    <3>1. CASE pc[User] = "update"
      BY <1>2, <2>2, <3>1
    <3>2. CASE pc[User] # "update"
      BY <1>3, <1>8, <2>1, <2>2, <3>2, AnsweredFacts
    <3>3. QED
      BY <3>1, <3>2
  <2>3. ASSUME pc'[User] = "refresh" => DOMAIN got'[User] = Vars,
               Asked(User) \subseteq unsure',
               \/ pc[User] = "get" /\ pc'[User] = "got"
               \/ pc[User] = "update" /\ pc'[User] = "refresh"
        PROVE  ReceivedOK'
    <3>1. Asked(User)' = Asked(User)
      BY <1>8, <2>3, AnsweredFacts DEF Asked
    <3>2. QED
      BY <2>3, <3>1 DEF ReceivedOK
  <2>4. ASSUME pc'[User] = "refresh" => DOMAIN got'[User] = Vars,
               IsAnswer(1), up = <<>>, got'[User] = Head(down).val,
               \/ pc[User] = "get" /\ pc'[User] = "got"
               \/ pc[User] = "update" /\ pc'[User] = "refresh"
        PROVE  ReceivedOK'
    <3>1. Asked(User)' = Asked(User)
      BY <1>8, <2>4, AnsweredFacts DEF Asked
    <3>2. /\ DOMAIN got'[User] = Asked(User) /\ UNCHANGED <<mem, up>>
          /\ \A j \in DOMAIN down : j > 1 => down[j].event
          /\ \A v \in Asked(User) \cap Followed :
               got'[User][v] = mem[v] \/ (v \in Mirrored /\ 1 < Len(down))
      BY <1>8, <2>4, TakenFacts DEF IsAnswer
    <3>3. ASSUME NEW v \in Asked(User) \cap Followed
          PROVE  Current(v, got[User][v])'
      <4>1. CASE got'[User][v] = mem[v]
        <5>1. up' = <<>> /\ mem'[v] = mem[v]
          BY <2>4, <3>2
        <5>2. \A i \in DOMAIN up' : ~IsSet(up'[i], v)
          BY <5>1
        <5>3. QED
          BY <4>1, <5>1, <5>2 DEF Current, WillHold
      <4>2. CASE v \in Mirrored /\ 1 < Len(down)
        <5>1. 1 \in DOMAIN down' /\ down'[1] = down[2] /\ 2 \in DOMAIN down
          <6>1. Len(down) \in Nat /\ DOMAIN down = 1..Len(down) /\ DOMAIN down' = 1..Len(down) - 1
                /\ \A i \in 1..Len(down) - 1 : down'[i] = down[i + 1]
            BY <1>8, TakenFacts
          <6>2. 1 \in 1..Len(down) - 1 /\ 2 \in 1..Len(down)
            BY <4>2, <6>1
          <6>3. down'[1] = down[1 + 1]
            BY <6>1, <6>2
          <6>4. QED
            BY <6>1, <6>2, <6>3
        <5>2. down'[1].event
          BY <3>2, <5>1
        <5>3. QED
          BY <4>2, <5>1, <5>2 DEF Current, EventDue
      <4>3. QED
        BY <3>2, <4>1, <4>2
    <3>4. QED
      BY <2>4, <3>1, <3>2, <3>3 DEF ReceivedOK
  <2>5. QED
    BY <1>8, <2>2, <2>3, <2>4, AnsweredFacts
<1>9. ASSUME EventReceived
      PROVE  ReceivedOK'
  <2> SUFFICES ASSUME pc'[User] \in {"got", "refresh"}
               PROVE  ReceivedOK'
    BY <1>2
  <2>1. pc'[User] = pc[User] /\ Received /\ UNCHANGED <<arg, got, up>>
    BY <1>9, EventFacts DEF Received
  <2>2. Asked(User)' = Asked(User)
    BY <2>1, SameAsked
  <2>3. ASSUME NEW v \in (Asked(User) \cap Followed) \ unsure'
        PROVE  got'[User] = <<>> \/ (DOMAIN got'[User] = Asked(User) /\ Current(v, got[User][v])')
    <3>1. v \notin Mirrored /\ v \notin unsure
      BY <1>9, <2>1, <2>3, EventFacts
    <3>2. got[User] = <<>> \/ (DOMAIN got[User] = Asked(User) /\ Current(v, got[User][v]))
      BY <2>1, <2>3, <3>1 DEF ReceivedOK
    <3>3. PICK x : x = got[User][v]
      OBVIOUS
    <3>4. NotSet(v)
      BY <2>1, NothingSet
    <3>5. Current(v, x) => Current(v, x)'
      BY <2>3, <3>1, <3>4, CurrentStep
    <3>6. got'[User][v] = x
      BY <2>1, <3>3
    <3>7. Current(v, x)' => Current(v, got[User][v])'
      BY <3>6 DEF Current, WillHold
    <3>8. QED
      BY <2>1, <3>2, <3>3, <3>5, <3>7
  <2>4. QED
    BY <2>1, <2>2, <2>3 DEF ReceivedOK
<1>10. ASSUME NodeHandles \/ NodeEmits
       PROVE  ReceivedOK'
  <2>1. /\ pc' = pc /\ UNCHANGED <<arg, got, unsure>>
        /\ NodeEmits => UNCHANGED up
    BY <1>10 DEF NodeHandles, NodeEmits, threads
  <2>2. ~EventReceived
    <3>1. EventReceived => Len(down') = Len(down) - 1 /\ Len(down) \in Nat
      BY TakenFacts
    <3>2. Len(down') \in {Len(down), Len(down) + 1}
      BY <1>10, HandledFacts, EmittedFacts
    <3>3. QED
      BY <3>1, <3>2
  <2>3. QED
    BY <1>3, <1>10, <2>1, <2>2
<1>11. CASE UNCHANGED vars
  <2>1. pc' = pc /\ UNCHANGED <<arg, got, up, unsure, down>>
    BY <1>11 DEF vars, threads, channels
  <2>2. ~EventReceived
    <3>1. EventReceived => Len(down') = Len(down) - 1 /\ Len(down) \in Nat
      BY TakenFacts
    <3>2. QED
      BY <2>1, <3>1
  <2>3. QED
    BY <1>3, <2>1, <2>2
<1>12. ASSUME NEW t \in Threads, Operation(t) \/ Running(t) \/ Timeout(t)
       PROVE  ReceivedOK'
  BY <1>4, <1>5, <1>6, <1>7, <1>12, UserSteps
<1>13. QED
  BY <1>8, <1>9, <1>10, <1>11, <1>12 DEF Next

LEMMA ShownKept ==
  ASSUME TypeOK, SetsOK, EventsOK, [Next]_vars, NEW v \in Followed, NotSet(v), Shown(v),
         values'[v] = values[v], next'[v] = next[v], prev'[v] = prev[v],
         ~(EventReceived /\ v \in Mirrored)
  PROVE  Shown(v)'
<1>1. Current(v, values[v]) => Current(v, values[v])'
  <2>1. PICK x : x = values[v]
    OBVIOUS
  <2>2. Current(v, x) => Current(v, x)'
    BY CurrentStep
  <2>3. x = values'[v]
    BY <2>1
  <2>4. QED
    BY <2>1, <2>2, <2>3
<1>2. WillHold(v, prev[v]) /\ v \notin Mirrored => WillHold(v, prev[v])'
  <2>1. PICK x : x = prev[v]
    OBVIOUS
  <2>2. Current(v, x) => Current(v, x)'
    BY CurrentStep
  <2>3. x = prev'[v]
    BY <2>1
  <2>4. QED
    BY <2>1, <2>2, <2>3 DEF Current
<1>3. QED
  BY <1>1, <1>2 DEF Shown

(* What the user does when it is not reading. *)
LEMMA ShownUser ==
  ASSUME OneByOne, TypeOK, ArgOK, SetsOK, EventsOK, ShownOK, SyncOK, Operation(User) \/ Running(User),
         ~Received, [Next]_vars
  PROVE  ShownOK'
<1> SUFFICES ASSUME NEW v \in Followed, v \notin unsure'
             PROVE  Shown(v)'
  BY DEF ShownOK
<1>1. /\ User \in Threads /\ v \in Vars /\ Synced \subseteq Vars /\ Written \subseteq Vars
      /\ values \in [Vars -> Stored] /\ next \in [Vars -> Values \cup {None}]
      /\ prev \in [Vars -> Stored \cup {None}]
  BY UserIsAlone, VarsAssumption DEF TypeOK, Followed
<1>2. ~EventReceived
  <2>1. EventReceived => Len(down') = Len(down) - 1 /\ Len(down) \in Nat
    BY TakenFacts
  <2>2. UNCHANGED down
    BY DEF Operation, Running, SetCached, SetNow, Modify, SyncBegin, Get, Update, Reload, SyncVariable,
           SyncEnd, GetStore, UpdateStore, channels
  <2>3. QED
    BY <2>1, <2>2
<1>3. v \notin unsure => Shown(v)
  BY DEF ShownOK, Overwritten
<1>4. ASSUME NEW w \in Vars, NEW x \in Values, SetCached(User, w, x)
      PROVE  Shown(v)'
  <2>1. UNCHANGED <<up, mem, prev, down, unsure>>
    BY <1>4 DEF SetCached, channels, node
  <2>2. CASE v = w
    <3>1. values'[v] = next'[v]
      BY <1>1, <1>4, <2>2 DEF SetCached
    <3>2. WillHold(v, prev[v]) => WillHold(v, prev[v])'
      BY <2>1 DEF WillHold
    <3>3. QED
      BY <1>3, <2>1, <3>1, <3>2 DEF Shown
  <2>3. CASE v # w
    <3>1. values'[v] = values[v] /\ next'[v] = next[v] /\ prev'[v] = prev[v]
      BY <1>1, <1>4, <2>1, <2>3 DEF SetCached
    <3>2. NotSet(v)
      BY <2>1, NothingSet
    <3>3. QED
      BY <1>2, <1>3, <2>1, <3>1, <3>2, ShownKept
  <2>4. QED
    BY <2>2, <2>3
<1>5. ASSUME NEW w \in Vars, NEW x \in Values, SetNow(User, w, x)
      PROVE  Shown(v)'
  <2>1. v # w /\ v \notin unsure
    BY <1>5 DEF SetNow
  <2>2. values'[v] = values[v] /\ next'[v] = next[v] /\ prev'[v] = prev[v]
    BY <1>1, <1>5, <2>1 DEF SetNow
  <2>3. NotSet(v)
    <3>1. [op |-> "set", var |-> w, val |-> x] \in Requests
      BY DEF Requests
    <3>2. QED
      BY <1>5, <2>1, <3>1, NothingSet DEF SetNow, Send, IsSet
  <2>4. QED
    BY <1>2, <1>3, <2>1, <2>2, <2>3, ShownKept
<1>6. ASSUME NEW w \in Vars, NEW x \in Values, Modify(User, w, x)
      PROVE  Shown(v)'
  <2>1. UNCHANGED <<up, mem, down>> /\ v \notin unsure
    BY <1>6 DEF Modify, channels, node
  <2>2. prev'[v] = prev[v]
    BY <1>1, <1>6 DEF Modify
  <2>3. CASE v = w
    <3>1. values'[v] = next'[v]
      BY <1>1, <1>6, <2>3 DEF Modify
    <3>2. PICK y : y = prev[v]
      OBVIOUS
    <3>3. WillHold(v, y) => WillHold(v, y)'
      BY <2>1 DEF WillHold
    <3>4. prev'[v] = y
      BY <2>2, <3>2
    <3>5. QED
      BY <1>3, <2>1, <3>1, <3>2, <3>3, <3>4 DEF Shown
  <2>4. CASE v # w
    <3>1. values'[v] = values[v] /\ next'[v] = next[v]
      BY <1>1, <1>6, <2>4 DEF Modify
    <3>2. NotSet(v)
      BY <2>1, NothingSet
    <3>3. QED
      BY <1>2, <1>3, <2>1, <2>2, <3>1, <3>2, ShownKept
  <2>5. QED
    BY <2>3, <2>4
<1>7. ASSUME SyncBegin(User)
      PROVE  Shown(v)'
  <2>1. UNCHANGED <<values, next, prev, up, unsure>>
    BY <1>7 DEF SyncBegin, cache, channels
  <2>2. QED
    BY <1>2, <1>3, <2>1, NothingSet, ShownKept
<1>8. ASSUME NEW w \in Vars, Get(User, w)
      PROVE  Shown(v)'
  <2>1. UNCHANGED <<values, next, prev, unsure>> /\ up' = Append(up, [op |-> "get", of |-> {w}])
    BY <1>8 DEF Get, cache
  <2>2. [op |-> "get", of |-> {w}] \in Requests
    BY DEF Requests
  <2>3. NotSet(v)
    BY <2>1, <2>2, NothingSet DEF IsSet
  <2>4. QED
    BY <1>2, <1>3, <2>1, <2>3, ShownKept
<1>9. ASSUME Update(User)
      PROVE  Shown(v)'
  <2>1. UNCHANGED <<values, next, prev, unsure>> /\ up' = Append(up, [op |-> "get", of |-> Vars])
    BY <1>9 DEF Update, cache
  <2>2. [op |-> "get", of |-> Vars] \in Requests
    BY DEF Requests
  <2>3. NotSet(v)
    BY <2>1, <2>2, NothingSet DEF IsSet
  <2>4. QED
    BY <1>2, <1>3, <2>1, <2>3, ShownKept
<1>10. ASSUME Reload(User)
       PROVE  Shown(v)'
  <2>1. UNCHANGED <<prev, up, mem, unsure>> /\ values'[v] = Empty
    BY <1>1, <1>10 DEF Reload, channels, node
  <2>2. WillHold(v, prev[v]) => WillHold(v, prev[v])'
    BY <2>1 DEF WillHold
  <2>3. QED
    BY <1>3, <2>1, <2>2 DEF Shown
<1>11. ASSUME NEW w \in Synced, SyncVariable(User, w)
       PROVE  Shown(v)'
  <2>1. CASE next[w] \in {None, prev[w]}
    <3>1. UNCHANGED <<values, next, prev, up, unsure>>
      BY <1>11, <2>1 DEF SyncVariable
    <3>2. QED
      BY <1>2, <1>3, <3>1, NothingSet, ShownKept
  <2>2. CASE next[w] \notin {None, prev[w]}
    <3>1. /\ UNCHANGED <<next, mem>> /\ unsure' = unsure \ {w}
          /\ up' = Append(up, [op |-> "set", var |-> w, val |-> next[w]])
          /\ values' = [values EXCEPT ![w] = next[w]] /\ prev' = [prev EXCEPT ![w] = next[w]]
      BY <1>11, <2>2 DEF SyncVariable, Send, node
    <3>2. [op |-> "set", var |-> w, val |-> next[w]] \in Requests
      BY <1>1, <2>2 DEF Requests
    <3>3. CASE v = w
      <4>1. values'[v] = next'[v] /\ prev'[v] = next[v]
        BY <1>1, <3>1, <3>3
      <4>2. PICK x : x = next[v]
        OBVIOUS
      <4>3. WillHold(v, x)'
        BY <3>1, <3>2, <3>3, <4>2, HoldsSent DEF IsSet
      <4>4. WillHold(v, prev[v])'
        BY <4>1, <4>2, <4>3
      <4>5. QED
        BY <4>1, <4>4 DEF Shown
    <3>4. CASE v # w
      <4>1. values'[v] = values[v] /\ prev'[v] = prev[v] /\ v \notin unsure
        BY <1>1, <3>1, <3>4
      <4>2. NotSet(v)
        BY <3>1, <3>2, <3>4, NothingSet DEF IsSet
      <4>3. QED
        BY <1>2, <1>3, <3>1, <4>1, <4>2, ShownKept
    <3>5. QED
      BY <3>3, <3>4
  <2>3. QED
    BY <2>1, <2>2
<1>12. ASSUME SyncEnd(User)
       PROVE  Shown(v)'
  <2>1. UNCHANGED <<values, prev, mem, up, down, unsure>> /\ todo[User] = {} /\ pc[User] = "sync"
    BY <1>12 DEF SyncEnd, node, channels
  <2>2. Shown(v)
    BY <1>3, <2>1
  <2>3. \A x : Current(v, x) => Current(v, x)'
    BY <2>1 DEF Current, WillHold, EventDue
  <2>4. WillHold(v, prev[v]) => WillHold(v, prev[v])'
    BY <2>1 DEF WillHold
  <2>5. values[v] = Empty \/ Current(v, values[v])
    <3>1. CASE v \in Synced \ Mirrored
      <4>1. next[v] = None \/ WillHold(v, next[v])
        BY <2>1, <3>1 DEF SyncOK
      <4>2. values[v] # None
        BY <1>1, ValuesAssumption DEF Stored
      <4>3. QED
        BY <2>2, <4>1, <4>2 DEF Shown, Current
    <3>2. CASE v \in Mirrored \ Written
      <4>1. next[v] = None
        BY <1>1, <3>2 DEF SetsOK
      <4>2. values[v] # None
        BY <1>1, ValuesAssumption DEF Stored
      <4>3. QED
        BY <2>2, <4>1, <4>2 DEF Shown
    <3>3. QED
      BY <3>1, <3>2 DEF Followed
  <2>6. PICK x : x = values[v]
    OBVIOUS
  <2>7. values'[v] = Empty \/ Current(v, values[v])'
    <3>1. x = values'[v]
      BY <2>1, <2>6
    <3>2. x = Empty \/ Current(v, x)'
      BY <2>3, <2>5, <2>6
    <3>3. QED
      BY <3>1, <3>2
  <2>8. QED
    BY <2>1, <2>2, <2>4, <2>7 DEF Shown
<1>13. ~GetStore(User) /\ ~UpdateStore(User)
  BY DEF GetStore, UpdateStore, Received
<1>14. CASE Operation(User)
  BY <1>4, <1>5, <1>6, <1>7, <1>8, <1>9, <1>10, <1>14 DEF Operation
<1>15. CASE Running(User)
  BY <1>11, <1>12, <1>13, <1>15 DEF Running
<1>16. QED
  BY <1>14, <1>15

(* What is read is stored. *)
LEMMA ShownRead ==
  ASSUME OneByOne, TypeOK, ArgOK, ReceivedOK, ShownOK, GetStore(User) \/ UpdateStore(User)
  PROVE  ShownOK'
<1> SUFFICES ASSUME NEW v \in Followed, v \notin unsure'
             PROVE  Shown(v)'
  BY DEF ShownOK
<1>1. /\ User \in Threads /\ v \in Vars /\ got \in [Threads -> Contents]
      /\ values \in [Vars -> Stored] /\ prev \in [Vars -> Stored \cup {None}]
  BY UserIsAlone, VarsAssumption DEF TypeOK, Followed
<1>2. /\ UNCHANGED <<next, mem, up, down, unsure>> /\ Received
      /\ pc[User] = "got" => arg[User] \in Vars
  BY <1>1 DEF GetStore, UpdateStore, channels, node, Received, ArgOK
<1>3. \A x : /\ Current(v, x)' <=> Current(v, x)
             /\ WillHold(v, x)' <=> WillHold(v, x)
  BY <1>2 DEF Current, WillHold, EventDue
<1>4. ASSUME values'[v] = values[v], prev'[v] = prev[v], Shown(v)
      PROVE  Shown(v)'
  <2>1. PICK x, y : x = values[v] /\ y = prev[v]
    OBVIOUS
  <2>2. /\ Current(v, x)' <=> Current(v, x)
        /\ WillHold(v, y)' <=> WillHold(v, y)
    BY <1>3
  <2>3. x = values'[v] /\ y = prev'[v]
    BY <1>4, <2>1
  <2>4. QED
    BY <1>2, <1>4, <2>1, <2>2, <2>3 DEF Shown
<1>5. ASSUME NEW f, v \in DOMAIN f, Read(f), ~RecordsPrev => Shown(v),
             f[v] = Empty \/ Current(v, f[v])
      PROVE  Shown(v)'
  <2>1. values'[v] = f[v] /\ prev'[v] = IF RecordsPrev THEN f[v] ELSE prev[v]
    BY <1>1, <1>5 DEF Read
  <2>2. values'[v] = Empty \/ Current(v, values[v])'
    <3>1. PICK x : x = f[v]
      OBVIOUS
    <3>2. x = Empty \/ Current(v, x)'
      BY <1>3, <1>5, <3>1
    <3>3. x = values'[v]
      BY <2>1, <3>1
    <3>4. QED
      BY <3>2, <3>3
  <2>3. CASE RecordsPrev
    <3>1. prev'[v] = values'[v] /\ Empty \notin Values
      BY <2>1, <2>3, ValuesAssumption
    <3>2. QED
      BY <2>2, <3>1 DEF Shown, Current
  <2>4. CASE ~RecordsPrev
    <3>1. PICK y : y = prev[v]
      OBVIOUS
    <3>2. WillHold(v, y)' <=> WillHold(v, y)
      BY <1>3
    <3>3. y = prev'[v]
      BY <2>1, <2>4, <3>1
    <3>4. QED
      BY <1>5, <2>2, <2>4, <3>1, <3>2, <3>3 DEF Shown
  <2>5. QED
    BY <2>3, <2>4
<1>6. CASE GetStore(User)
  <2> DEFINE f == [w \in {arg[User]} |-> Found(User)]
  <2>1. Read(f) /\ pc[User] = "got" /\ Asked(User) = {arg[User]}
    BY <1>6 DEF GetStore, Asked
  <2>2. CASE v # arg[User]
    <3>1. Shown(v)
      BY <1>2, <2>1, <2>2 DEF ShownOK, Overwritten
    <3>2. values'[v] = values[v] /\ prev'[v] = prev[v]
      BY <1>1, <2>1, <2>2 DEF Read
    <3>3. QED
      BY <1>4, <3>1, <3>2
  <2>3. CASE v = arg[User]
    <3>1. ~RecordsPrev => Shown(v)
      BY <1>2 DEF ShownOK, Overwritten
    <3>2. got[User] = <<>> \/ (DOMAIN got[User] = {v} /\ Current(v, got[User][v]))
      BY <1>2, <2>1, <2>3 DEF ReceivedOK
    <3>3. Found(User) = Empty \/ Current(v, Found(User))
      BY <1>1, <3>2, FoundFacts
    <3>4. v \in DOMAIN f /\ f[v] = Found(User)
      BY <2>3
    <3>5. f[v] = Empty \/ Current(v, f[v])
      BY <3>3, <3>4
    <3>6. QED
      BY <1>5, <2>1, <3>1, <3>4, <3>5
  <2>4. QED
    BY <2>2, <2>3
<1>7. CASE UpdateStore(User)
  <2>1. Read(got[User]) /\ pc[User] = "refresh" /\ Asked(User) = Vars
    BY <1>7 DEF UpdateStore, Asked
  <2>2. DOMAIN got[User] = Vars
    BY <1>2, <2>1 DEF ReceivedOK
  <2>3. got[User] # <<>>
    BY <1>1, <2>2
  <2>4. Current(v, got[User][v])
    BY <1>1, <1>2, <2>1, <2>3 DEF ReceivedOK
  <2>5. ~RecordsPrev => Shown(v)
    BY <1>2 DEF ShownOK, Overwritten
  <2>6. QED
    BY <1>1, <1>5, <2>1, <2>2, <2>4, <2>5
<1>8. QED
  BY <1>6, <1>7

LEMMA ShownStep ==
  ASSUME OneByOne, CacheInv, [Next]_vars
  PROVE  ShownOK'
<1> USE DEF CacheInv
<1>1. /\ User \in Threads /\ pc \in [Threads -> Places] /\ Followed \subseteq Vars
      /\ values \in [Vars -> Stored]
  BY UserIsAlone, VarsAssumption DEF TypeOK, Followed
<1>2. ASSUME UNCHANGED <<values, next, prev>>, ~EventReceived,
             UNCHANGED up \/ NodeHandles,
             \A v \in Followed \ unsure' : Overwritten(v)' \/ (Shown(v) /\ v \notin unsure)
      PROVE  ShownOK'
  <2>1. ASSUME NEW v \in Followed \ unsure'
        PROVE  Overwritten(v)' \/ Shown(v)'
    <3>1. NotSet(v)
      BY <1>2, NothingSet
    <3>2. QED
      BY <1>2, <3>1, ShownKept
  <2>2. QED
    BY <2>1 DEF ShownOK
<1>3. ~(EventReceived /\ (UNCHANGED down \/ Answered \/ NodeHandles \/ NodeEmits))
  <2>1. EventReceived => Len(down') = Len(down) - 1 /\ Len(down) \in Nat
    BY TakenFacts
  <2>2. NodeHandles \/ NodeEmits => Len(down') \in {Len(down), Len(down) + 1}
    BY HandledFacts, EmittedFacts
  <2>3. ~(EventReceived /\ Answered)
    BY DEF EventReceived, Answered
  <2>4. QED
    BY <2>1, <2>2, <2>3
<1>4. ASSUME pc'[User] = pc[User], UNCHANGED arg
      PROVE  \A v : Overwritten(v)' <=> Overwritten(v)
  BY <1>4, SameAsked DEF Overwritten, Received
<1>5. ASSUME Timeout(User)
      PROVE  ShownOK'
  <2>1. UNCHANGED <<values, next, prev, up, down, unsure>> /\ ~Received
    BY <1>5 DEF Timeout, cache, channels, Received
  <2>2. \A v \in Followed \ unsure : Shown(v)
    BY <2>1 DEF ShownOK, Overwritten
  <2>3. QED
    BY <1>2, <1>3, <2>1, <2>2
<1>6. ASSUME NEW t \in Threads \ {User}, Reload(t)
      PROVE  ShownOK'
  <2>1. /\ UNCHANGED <<prev, up, mem, unsure, arg>> /\ \A v \in Vars : values'[v] = Empty
        /\ pc'[User] = pc[User]
    BY <1>1, <1>6 DEF Reload, Begin, channels, node
  <2>2. ASSUME NEW v \in Followed \ unsure
        PROVE  Overwritten(v)' \/ Shown(v)'
    <3>1. WillHold(v, prev[v]) => WillHold(v, prev[v])'
      BY <2>1 DEF WillHold
    <3>2. Shown(v) => Shown(v)'
      BY <1>1, <2>1, <3>1 DEF Shown
    <3>3. QED
      BY <1>4, <2>1, <3>2 DEF ShownOK
  <2>3. QED
    BY <2>1, <2>2 DEF ShownOK
<1>7. ASSUME Answered
      PROVE  ShownOK'
  <2>1. UNCHANGED <<values, next, prev, up, arg>> /\ ~EventReceived
    BY <1>3, <1>7, AnsweredFacts DEF cache
  <2>2. CASE pc'[User] = pc[User] /\ UNCHANGED unsure
    <3>1. \A v \in Followed \ unsure' : Overwritten(v)' \/ (Shown(v) /\ v \notin unsure)
      BY <1>4, <2>1, <2>2 DEF ShownOK
    <3>2. QED
      BY <1>2, <2>1, <3>1
  <2>3. ASSUME \/ pc[User] = "get" /\ pc'[User] = "got"
               \/ pc[User] = "update" /\ pc'[User] = "refresh",
               \/ unsure \subseteq unsure'
               \/ unsure' = IF RecordsPrev THEN unsure \ Asked(User) ELSE unsure
        PROVE  ShownOK'
    <3>1. ~Received /\ Received' /\ Asked(User)' = Asked(User)
      BY <2>1, <2>3 DEF Received, Asked
    <3>2. \A v \in Followed \ unsure : Shown(v)
      BY <3>1 DEF ShownOK, Overwritten
    <3>3. ASSUME NEW v \in Followed \ unsure', v \in unsure
          PROVE  Overwritten(v)'
      <4>1. RecordsPrev /\ v \in Asked(User)
        BY <2>3, <3>3, FlagsAssumption
      <4>2. QED
        BY <3>1, <4>1 DEF Overwritten
    <3>4. QED
      BY <1>2, <2>1, <3>2, <3>3
  <2>4. QED
    BY <1>7, <2>2, <2>3, AnsweredFacts
<1>8. ASSUME EventReceived
      PROVE  ShownOK'
  <2> DEFINE f == Head(down).val
  <2>1. /\ UNCHANGED <<next, mem, up, arg>> /\ f = down[1].val /\ DOMAIN f = Mirrored
        /\ unsure \ Mirrored \subseteq unsure' /\ EventUpdate(f)
    BY <1>8, EventFacts DEF node, EventReceived
  <2>2. ASSUME NEW v \in Followed, v \in Mirrored
        PROVE  Shown(v)'
    <3>1. v \in Mirrored \ Written
      BY <2>2 DEF Followed
    <3>2. values'[v] = f[v]
      BY <1>1, <2>1, <2>2 DEF EventUpdate, Over
    <3>3. CASE f[v] = mem[v]
      <4>1. \A i \in DOMAIN up : ~IsSet(up[i], v)
        BY <3>1 DEF SetsOK, IsSet
      <4>2. WillHold(v, values[v])'
        BY <2>1, <3>2, <3>3, <4>1 DEF WillHold
      <4>3. QED
        BY <2>2, <4>2 DEF Shown, Current
    <3>4. CASE f[v] # mem[v]
      <4>1. 1 \in DOMAIN down /\ down[1].event
        BY <1>8, TakenFacts
      <4>2. PICK j \in DOMAIN down : j > 1 /\ down[j].event
        BY <2>1, <3>1, <3>4, <4>1 DEF EventsOK
      <4>3. j - 1 \in DOMAIN down' /\ down'[j - 1] = down[j]
        <5>1. /\ Len(down) \in Nat /\ DOMAIN down = 1..Len(down) /\ DOMAIN down' = 1..Len(down) - 1
              /\ \A i \in 1..Len(down) - 1 : down'[i] = down[i + 1]
          BY <1>8, TakenFacts
        <5>2. j - 1 \in 1..Len(down) - 1 /\ (j - 1) + 1 = j
          BY <4>2, <5>1
        <5>3. QED
          BY <5>1, <5>2
      <4>4. QED
        BY <2>2, <4>2, <4>3 DEF Shown, Current, EventDue
    <3>5. QED
      BY <3>3, <3>4
  <2>3. ASSUME NEW v \in Followed \ unsure', v \notin Mirrored
        PROVE  Overwritten(v)' \/ Shown(v)'
    <3>1. v \notin unsure
      BY <2>1, <2>3
    <3>2. values'[v] = values[v] /\ prev'[v] = prev[v] /\ next'[v] = next[v]
      <4>1. prev \in [Vars -> Stored \cup {None}]
        BY DEF TypeOK
      <4>2. QED
        BY <1>1, <2>1, <2>3, <4>1 DEF EventUpdate, Over
    <3>3. Shown(v) => Shown(v)'
      BY <2>1, <2>3, <3>2, NothingSet, ShownKept
    <3>4. Overwritten(v) => Overwritten(v)'
      <4>1. Received => pc'[User] = pc[User]
        BY <1>8, EventFacts DEF Received
      <4>2. QED
        BY <1>4, <2>1, <4>1 DEF Overwritten
    <3>5. QED
      BY <3>1, <3>3, <3>4 DEF ShownOK
  <2>4. QED
    BY <2>2, <2>3 DEF ShownOK
<1>9. ASSUME NodeHandles \/ NodeEmits \/ UNCHANGED vars
       PROVE  ShownOK'
  <2>1. /\ UNCHANGED <<values, next, prev, unsure, arg>> /\ pc'[User] = pc[User]
        /\ UNCHANGED up \/ NodeHandles
    BY <1>9 DEF NodeHandles, NodeEmits, cache, threads, vars, channels
  <2>2. ~EventReceived
    BY <1>3, <1>9 DEF vars, channels
  <2>3. \A v \in Followed \ unsure' : Overwritten(v)' \/ (Shown(v) /\ v \notin unsure)
    BY <1>4, <2>1 DEF ShownOK
  <2>4. QED
    BY <1>2, <2>1, <2>2, <2>3
<1>10. ASSUME Operation(User) \/ Running(User)
       PROVE  ShownOK'
  <2>1. CASE Received
    <3>1. GetStore(User) \/ UpdateStore(User)
      BY <1>10, <2>1 DEF Received, Operation, Running, SetCached, SetNow, Modify, SyncBegin, Get, Update,
           Reload, Begin, SyncVariable, SyncEnd
    <3>2. QED
      BY <3>1, ShownRead
  <2>2. CASE ~Received
    BY <1>10, <2>2, ShownUser
  <2>3. QED
    BY <2>1, <2>2
<1>11. ASSUME NEW t \in Threads, Operation(t) \/ Running(t) \/ Timeout(t)
       PROVE  ShownOK'
  BY <1>5, <1>6, <1>10, <1>11, UserSteps
<1>12. QED
  BY <1>7, <1>8, <1>9, <1>11 DEF Next

LEMMA SyncStep ==
  ASSUME OneByOne, CacheInv, [Next]_vars
  PROVE  SyncOK'
<1> USE DEF CacheInv
<1>1. /\ User \in Threads /\ pc \in [Threads -> Places] /\ Synced \subseteq Vars
      /\ todo \in [Threads -> SUBSET Synced] /\ next \in [Vars -> Values \cup {None}]
  BY UserIsAlone, VarsAssumption DEF TypeOK
<1>2. ASSUME pc'[User] # "sync"
      PROVE  SyncOK'
  BY <1>2 DEF SyncOK
<1>3. ASSUME pc'[User] = pc[User], UNCHANGED <<next, todo>>, UNCHANGED up \/ NodeHandles,
             unsure \ Mirrored \subseteq unsure'
      PROVE  SyncOK'
  <2> SUFFICES ASSUME pc[User] = "sync", NEW v \in (Synced \ Mirrored) \ (todo[User] \cup unsure')
               PROVE  next'[v] = None \/ WillHold(v, next[v])'
    BY <1>3 DEF SyncOK
  <2>1. next[v] = None \/ WillHold(v, next[v])
    BY <1>3 DEF SyncOK
  <2>2. PICK x : x = next[v]
    OBVIOUS
  <2>3. NotSet(v) /\ v \in Followed
    BY <1>3, NothingSet DEF Followed
  <2>4. Current(v, x) => Current(v, x)'
    BY <2>3, CurrentStep
  <2>5. x = next'[v]
    BY <1>3, <2>2
  <2>6. QED
    BY <2>1, <2>2, <2>4, <2>5 DEF Current
<1>4. ASSUME Operation(User)
      PROVE  SyncOK'
  <2>1. CASE SyncBegin(User)
    <3>1. todo'[User] = Synced
      BY <1>1, <2>1 DEF SyncBegin
    <3>2. QED
      BY <3>1 DEF SyncOK
  <2>2. CASE ~SyncBegin(User)
    <3>1. pc'[User] \in {"run", "get", "update"}
      BY <1>1, <1>4, <2>2 DEF Operation, SetCached, SetNow, Modify, Get, Update, Reload, Begin
    <3>2. QED
      BY <3>1, <1>2
  <2>3. QED
    BY <2>1, <2>2
<1>5. ASSUME NEW w \in Synced, SyncVariable(User, w)
      PROVE  SyncOK'
  <2>1. pc[User] = "sync" /\ todo'[User] = todo[User] \ {w} /\ UNCHANGED <<next, mem>>
        /\ unsure' \subseteq unsure /\ unsure \subseteq unsure' \cup {w}
    BY <1>1, <1>5 DEF SyncVariable, node
  <2> SUFFICES ASSUME NEW v \in (Synced \ Mirrored) \ (todo'[User] \cup unsure')
               PROVE  next'[v] = None \/ WillHold(v, next[v])'
    BY DEF SyncOK
  <2>2. v # w => next[v] = None \/ WillHold(v, next[v])
    BY <2>1 DEF SyncOK
  <2>3. PICK x : x = next[v]
    OBVIOUS
  <2>4. x = next'[v]
    BY <2>1, <2>3
  <2>5. CASE next[w] \in {None, prev[w]}
    <3>1. UNCHANGED <<up, unsure>>
      BY <1>5, <2>5 DEF SyncVariable
    <3>2. next[v] = None \/ WillHold(v, next[v])
      <4>1. CASE v = w /\ next[v] # None
        <5>1. next[v] = prev[v] /\ prev[v] \in Values
          BY <1>1, <2>5, <4>1
        <5>2. v \in Followed \ unsure /\ ~Overwritten(v)
          BY <2>1, <3>1 DEF Followed, Overwritten, Received
        <5>3. Shown(v)
          BY <5>2 DEF ShownOK
        <5>4. QED
          BY <5>1, <5>3 DEF Shown
      <4>2. QED
        BY <2>2, <4>1
    <3>3. WillHold(v, x) => WillHold(v, x)'
      BY <2>1, <3>1 DEF WillHold
    <3>4. QED
      BY <2>3, <2>4, <3>2, <3>3
  <2>6. CASE next[w] \notin {None, prev[w]}
    <3>1. up' = Append(up, [op |-> "set", var |-> w, val |-> next[w]])
      BY <1>5, <2>6 DEF SyncVariable, Send
    <3>2. [op |-> "set", var |-> w, val |-> next[w]] \in Requests
      BY <1>1, <2>6 DEF Requests
    <3>3. v = w => WillHold(v, x)'
      BY <2>1, <2>3, <3>1, <3>2, HoldsSent DEF IsSet
    <3>4. v # w /\ WillHold(v, x) => WillHold(v, x)'
      BY <2>1, <3>1, <3>2, HoldsSent DEF IsSet
    <3>5. QED
      BY <2>2, <2>3, <2>4, <3>3, <3>4
  <2>7. QED
    BY <2>5, <2>6
<1>6. ASSUME SyncEnd(User) \/ GetStore(User) \/ UpdateStore(User) \/ Timeout(User)
      PROVE  SyncOK'
  <2>1. pc'[User] # "sync"
    BY <1>1, <1>6 DEF SyncEnd, GetStore, UpdateStore, Timeout
  <2>2. QED
    BY <2>1, <1>2
<1>7. ASSUME NEW t \in Threads \ {User}, Reload(t)
      PROVE  SyncOK'
  BY <1>1, <1>3, <1>7 DEF Reload, Begin, channels
<1>8. ASSUME Answered
      PROVE  SyncOK'
  <2>1. UNCHANGED <<next, todo, up>>
    BY <1>8 DEF Answered, cache
  <2>2. (pc'[User] = pc[User] /\ UNCHANGED unsure) \/ pc'[User] # "sync"
    BY <1>8, AnsweredFacts
  <2>3. QED
    BY <1>2, <1>3, <2>1, <2>2
<1>9. ASSUME EventReceived
      PROVE  SyncOK'
  <2>1. UNCHANGED <<next, todo, up>> /\ unsure \ Mirrored \subseteq unsure'
    BY <1>9, EventFacts
  <2>2. pc'[User] = pc[User] \/ pc'[User] # "sync"
    BY <1>9, EventFacts
  <2>3. QED
    BY <1>2, <1>3, <2>1, <2>2
<1>10. ASSUME NodeHandles \/ NodeEmits \/ UNCHANGED vars
       PROVE  SyncOK'
  <2>1. /\ UNCHANGED <<next, todo, unsure>> /\ pc'[User] = pc[User]
        /\ UNCHANGED up \/ NodeHandles
    BY <1>10 DEF NodeHandles, NodeEmits, cache, threads, vars, channels
  <2>2. QED
    BY <1>3, <2>1
<1>11. ASSUME NEW t \in Threads, Operation(t) \/ Running(t) \/ Timeout(t)
       PROVE  SyncOK'
  <2>1. ASSUME Running(User)
        PROVE  SyncOK'
    BY <1>5, <1>6, <2>1 DEF Running
  <2>2. QED
    BY <1>4, <1>6, <1>7, <1>11, <2>1, UserSteps
<1>12. QED
  BY <1>8, <1>9, <1>10, <1>11 DEF Next

LEMMA CacheInit ==
  ASSUME OneByOne, Init
  PROVE  CacheInv
<1>1. TypeOK /\ ArgOK /\ User \in Threads
  BY TypesInit, UserIsAlone
<1>2. pc[User] \in {"run", "idle"} /\ OthersOK
  BY <1>1 DEF Init, OthersOK
<1>3. SetsOK /\ EventsOK
  BY DEF Init, SetsOK, EventsOK
<1>4. AwaitOK /\ ReceivedOK /\ SyncOK
  BY <1>2 DEF AwaitOK, ReceivedOK, Received, SyncOK
<1>5. ASSUME NEW v \in Followed
      PROVE  Shown(v)
  <2>1. v \in Vars
    BY VarsAssumption DEF Followed
  <2>2. WillHold(v, mem[v])
    BY DEF Init, WillHold
  <2>3. /\ values[v] \in {Empty, mem[v]}
        /\ prev[v] \in {None, mem[v]}
    BY <2>1 DEF Init
  <2>4. QED
    BY <2>2, <2>3, ValuesAssumption DEF Shown, Current
<1>6. QED
  BY <1>1, <1>2, <1>3, <1>4, <1>5 DEF CacheInv, ShownOK

LEMMA CacheInvariant == ASSUME OneByOne PROVE Spec => []CacheInv
<1>1. CacheInv /\ [Next]_vars => CacheInv'
  <2> SUFFICES ASSUME CacheInv, [Next]_vars
               PROVE  CacheInv'
    OBVIOUS
  <2>1. TypeOK' /\ ArgOK'
    <3>1. TypeOK' <=> CacheTypes' /\ NodeTypes' /\ ThreadTypes'
      BY Zenon DEF TypeOK, CacheTypes, NodeTypes, ThreadTypes
    <3>2. QED
      BY <3>1, CacheTypesStep, NodeTypesStep, ThreadTypesStep DEF CacheInv
  <2>2. OthersOK' /\ SetsOK' /\ EventsOK'
    BY OthersStep, SetsStep, EventsStep DEF CacheInv
  <2>3. AwaitOK' /\ ReceivedOK'
    BY AwaitStep, ReceivedStep DEF CacheInv
  <2>4. ShownOK' /\ SyncOK'
    BY ShownStep, SyncStep
  <2>5. QED
    BY <2>1, <2>2, <2>3, <2>4 DEF CacheInv
<1>2. Init => CacheInv
  BY CacheInit
<1>3. QED
  BY <1>1, <1>2, PTL DEF Spec

(* When nothing is under way, a variable is what it will hold. *)
LEMMA SettledFacts ==
  ASSUME OneByOne, Settled, ShownOK, NEW v \in Followed \ unsure
  PROVE  \/ values[v] \in {Empty, next[v], mem[v]}
         \/ v \in Mirrored /\ EventDue
<1>1. ~Overwritten(v)
  BY UserIsAlone DEF Settled, Overwritten, Received
<1>2. Shown(v)
  BY <1>1 DEF ShownOK
<1>3. \A x : WillHold(v, x) => mem[v] = x
  BY DEF Settled, WillHold
<1>4. QED
  BY <1>2, <1>3 DEF Shown, Current

(* Once its changes are forwarded, the cache shows what the node holds, or *)
(* nothing, of a variable that only the program changes and that is not    *)
(* unsure: neither set uncached nor modified in place, nor read with a     *)
(* late answer, since it was last written or read.                         *)
THEOREM CacheAgrees == ASSUME OneByOne PROVE Spec => []Agreement
<1>1. CacheInv => Agreement
  <2> SUFFICES ASSUME CacheInv, Settled, NEW v \in Synced \ (Mirrored \cup unsure), next[v] = None
               PROVE  values[v] \in {Empty, mem[v]}
    BY DEF Agreement
  <2>1. v \in Followed \ unsure /\ v \in Vars
    BY VarsAssumption DEF Followed
  <2>2. values[v] # None
    BY <2>1, ValuesAssumption DEF CacheInv, TypeOK, Stored
  <2>3. QED
    BY <2>1, <2>2, SettledFacts DEF CacheInv
<1>2. QED
  BY <1>1, CacheInvariant, PTL

(* It follows the events of a variable that only the node changes and that *)
(* is not unsure: no event came between the answer to its last read and    *)
(* the storing, and that answer was not late.                              *)
THEOREM CacheFollows == ASSUME OneByOne PROVE Spec => []MirrorsFollow
<1>1. CacheInv => MirrorsFollow
  <2> SUFFICES ASSUME CacheInv, Settled, down = <<>>, NEW v \in Mirrored \ (Written \cup unsure)
               PROVE  values[v] \in {Empty, mem[v]}
    BY DEF MirrorsFollow
  <2>1. v \in Followed \ unsure /\ v \in Vars \ Written /\ ~EventDue
    BY VarsAssumption DEF Followed, EventDue
  <2>2. next[v] = None /\ values[v] # None
    BY <2>1, ValuesAssumption DEF CacheInv, TypeOK, Stored, SetsOK
  <2>3. QED
    BY <2>1, <2>2, SettledFacts DEF CacheInv
<1>2. QED
  BY <1>1, CacheInvariant, PTL
==============================================================================
