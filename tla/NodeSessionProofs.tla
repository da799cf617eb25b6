--------------------------- MODULE NodeSessionProofs ---------------------------
(***************************************************************************)
(* Proofs about NodeSession, for any number of nodes, clients, remote      *)
(* nodes, calls and lost connections.                                      *)
(***************************************************************************)
EXTENDS NodeSession, TLAPS

(* A node is always given a client or never.                               *)
SharesOrOwns ==
  \A n \in Nodes \ Async :
    \/ \A a \in Asks[n] : a.client = None
    \/ \A a \in Asks[n] : a.client # None

(* Nodes have clients of their own, are connected to remote nodes of their *)
(* own ids, and mirror them from the beginning.                            *)
Separate ==
  \A n \in Nodes : \A a \in Asks[n] :
    /\ a.client = None /\ a.start /\ a.id > 0
    /\ \A m \in Nodes \ {n} : \A b \in Asks[m] : b.id # a.id

AllAsks == UNION {Asks[n] : n \in Nodes}

InConnect(n) == pc[n] \in {"connecting", "finding"}

Types ==
  /\ client \in [Nodes -> Clients \cup {None}] /\ shared \in [Nodes -> BOOLEAN]
  /\ conn \in [Nodes -> Targets \cup {None}]
  /\ id \in [Nodes -> Ids \cup {AnyId}]
  /\ mirroring \in [Nodes -> BOOLEAN]
  /\ callbacks \in [Nodes -> SUBSET Names]
  /\ pc \in [Nodes -> {"free", "connecting", "finding", "awaiting"}]
  /\ ask \in [Nodes -> AllAsks \cup {None}]
  /\ conns \in [Clients -> SUBSET Targets]
  /\ known \in [Clients -> SUBSET Remotes]
  /\ hears \in [Clients -> SUBSET Nodes]
  /\ script \in [Remotes -> Nodes \cup {None}]
  /\ vm \in [Remotes -> {"stopped", "running", "paused"}]
  /\ connects \in [Nodes -> Nat]

(* A client knows remote nodes of its connections.                         *)
KnownOK == \A c \in Clients : \A r \in known[c] : r.target \in conns[c]

(* What a node that connects has got so far.                               *)
CallOK(n) ==
  /\ pc[n] # "free" => client[n] # None
  /\ InConnect(n) => ask[n] \in Asks[n]

(* The client of a node is its own or a shared one, which it will not      *)
(* close, and knows the callback of a Node.                                *)
ClientOK(n) ==
  /\ client[n] \notin {None, Own[n]} => shared[n]
  /\ \A m \in Nodes : client[n] = Own[m] => m = n
  /\ n \notin Async /\ client[n] # None => n \in hears[client[n]]

(* A node that has a connection and an id has been connected to the remote *)
(* node of those.                                                          *)
RemoteOK(n) == conn[n] # None /\ id[n] # AnyId => Of(n) \in Remotes

(* What is set and removed while the node mirrors has the name of messages *)
(* and nothing else has.                                                   *)
WantedOK(n) == n \in wanted <=> "user" \in callbacks[n]

(* The own client has connections only as long as the node has it.         *)
OwnOK(n) ==
  SharesOrOwns /\ n \notin Async =>
    /\ shared[n] => client[n] # Own[n] /\ \A a \in Asks[n] : a.client # None
    /\ client[n] = Own[n] => \A a \in Asks[n] : a.client = None
    /\ conns[Own[n]] # {} => client[n] = Own[n]

Inv ==
  /\ Types /\ KnownOK
  /\ \A n \in Nodes :
       CallOK(n) /\ ClientOK(n) /\ RemoteOK(n) /\ WantedOK(n) /\ OwnOK(n)

(* The ids of the remote nodes that a node sends commands to.              *)
IdOK(n) == id[n] # AnyId => \E a \in Asks[n] : a.id = id[n]

(* Whether the node was connected with success, if it is asynchronous.     *)
FirstOK(n) ==
  n \in Async =>
    /\ connects[n] = 0 => client[n] = None /\ ~mirroring[n]
    /\ connects[n] = 1 /\ InConnect(n) => ~mirroring[n]

TruthOK(n) ==
  (n \in Async => connects[n] <= 1) /\ ~InConnect(n) /\ mirroring[n] /\ client[n] # None =>
    Of(n) \in Remotes /\ script[Of(n)] = n /\ vm[Of(n)] # "stopped"

MirrorInv ==
  \A n \in Nodes : ~shared[n] /\ IdOK(n) /\ FirstOK(n) /\ TruthOK(n)

-----------------------------------------------------------------------------
(* What the assumptions say                                                *)

LEMMA AskFacts ==
  ASSUME NEW n \in Nodes, NEW a \in Asks[n]
  PROVE  /\ a \in AllAsks /\ a.client \in Clients \cup {None} /\ a.target \in Targets
         /\ a.id \in Ids \cup {AnyId} /\ a.start \in BOOLEAN
         /\ Own[n] \in Clients
BY AsksAssumption, OwnAssumption DEF AllAsks

LEMMA RemoteFacts ==
  ASSUME NEW r \in Remotes
  PROVE  /\ r.target \in Targets /\ r.id \in Ids /\ r.id # AnyId
         /\ r.target # None /\ r = [target |-> r.target, id |-> r.id]
<1>1. r.target \in Targets /\ r.id \in Ids
  BY DEF Targets, Ids
<1>2. r = [target |-> r.target, id |-> r.id]
  BY RemotesAssumption
<1>3. r.id # AnyId
  BY <1>1, RemotesAssumption DEF AnyId
<1>4. QED
  BY <1>1, <1>2, <1>3, NoneAssumption

LEMMA OfFacts ==
  ASSUME NEW n
  PROVE  Of(n).target = conn[n] /\ Of(n).id = id[n]
BY DEF Of

-----------------------------------------------------------------------------
(* The steps: types                                                        *)

LEMMA InitInv == Init => Inv
<1> SUFFICES ASSUME Init
             PROVE  Inv
  OBVIOUS
<1> USE DEF Init
<1>1. Types
  BY DEF Types
<1>2. KnownOK
  BY DEF KnownOK
<1>3. ASSUME NEW n \in Nodes
      PROVE  CallOK(n) /\ ClientOK(n) /\ RemoteOK(n) /\ WantedOK(n) /\ OwnOK(n)
  <2>1. Own \in [Nodes -> Clients] /\ \A m \in Nodes : Own[m] # None
    BY OwnAssumption, NoneAssumption
  <2>2. CallOK(n) /\ RemoteOK(n) /\ WantedOK(n)
    BY DEF CallOK, InConnect, RemoteOK, WantedOK
  <2>3. ClientOK(n)
    BY <2>1 DEF ClientOK
  <2>4. OwnOK(n)
    BY <2>1 DEF OwnOK
  <2>5. QED
    BY <2>2, <2>3, <2>4
<1>4. QED
  BY <1>1, <1>2, <1>3 DEF Inv

LEMMA TypesKept ==
  ASSUME Inv, [Next]_vars
  PROVE  Types'
<1> USE DEF session, mirror, call, network, remote, history, bounds
<1>0. Types /\ \A n \in Nodes : CallOK(n)
  BY DEF Inv
<1>1. ASSUME NEW rs, NEW state \in {"stopped", "running", "paused"}, Command(rs, state)
      PROVE  vm' \in [Remotes -> {"stopped", "running", "paused"}]
  BY <1>0, <1>1 DEF Command, Types
<1>2. ASSUME NEW n \in Nodes, NEW a \in Asks[n], Connect(n, a)
      PROVE  Types'
  <2> DEFINE c == IF client[n] # None THEN client[n]
                  ELSE IF a.client # None THEN a.client ELSE Own[n]
  <2>1. c \in Clients /\ a \in AllAsks
    BY <1>0, AskFacts DEF Types
  <2>2. /\ UNCHANGED <<conn, id, mirroring, callbacks, conns, known, script>>
        /\ shared' = [shared EXCEPT ![n] = @ \/ a.client # None]
        /\ client' = [client EXCEPT ![n] = c]
        /\ hears' = hears \/ hears' = [hears EXCEPT ![c] = @ \cup {n}]
        /\ pc' \in {[pc EXCEPT ![n] = "connecting"], [pc EXCEPT ![n] = "finding"]}
        /\ vm' = vm \/ ResetBy(n, a, conns[c])
        /\ ask' = [ask EXCEPT ![n] = a]
        /\ connects' = [connects EXCEPT ![n] = @ + 1]
    BY <1>2 DEF Connect
  <2>3. vm' \in [Remotes -> {"stopped", "running", "paused"}]
    BY <1>0, <1>1, <2>2 DEF ResetBy, Types
  <2> HIDE DEF c
  <2>4. shared' \in [Nodes -> BOOLEAN]
    <3>1. (shared[n] \/ a.client # None) \in BOOLEAN
      OBVIOUS
    <3>2. QED
      BY <1>0, <2>2, <3>1 DEF Types
  <2>5. /\ client' \in [Nodes -> Clients \cup {None}] /\ hears' \in [Clients -> SUBSET Nodes]
        /\ ask' \in [Nodes -> AllAsks \cup {None}] /\ connects' \in [Nodes -> Nat]
    BY <1>0, <2>1, <2>2 DEF Types
  <2>6. pc' \in [Nodes -> {"free", "connecting", "finding", "awaiting"}]
    BY <1>0, <2>2 DEF Types
  <2>7. QED
    BY <1>0, <2>2, <2>3, <2>4, <2>5, <2>6 DEF Types
<1>3. ASSUME NEW n \in Nodes, NEW a \in Asks[n], ConnectAsync(n, a)
      PROVE  Types'
  <2> DEFINE c == IF a.client # None THEN a.client ELSE Own[n]
  <2>1. c \in Clients /\ a \in AllAsks
    BY AskFacts
  <2>2. /\ UNCHANGED <<conn, id, mirroring, callbacks, hears, script>>
        /\ shared' = [shared EXCEPT ![n] = @ \/ a.client # None]
        /\ client' = [client EXCEPT ![n] = c]
        /\ conns' = conns \/ conns' = [conns EXCEPT ![c] = {}]
        /\ known' = known \/ known' = [known EXCEPT ![c] = {}]
        /\ pc' \in {[pc EXCEPT ![n] = "connecting"], [pc EXCEPT ![n] = "finding"]}
        /\ vm' = vm \/ ResetBy(n, a, conns[c])
        /\ ask' = [ask EXCEPT ![n] = a]
        /\ connects' = [connects EXCEPT ![n] = @ + 1]
    BY <1>3 DEF ConnectAsync
  <2>3. vm' \in [Remotes -> {"stopped", "running", "paused"}]
    BY <1>0, <1>1, <2>2 DEF ResetBy, Types
  <2> HIDE DEF c
  <2>4. shared' \in [Nodes -> BOOLEAN]
    <3>1. (shared[n] \/ a.client # None) \in BOOLEAN
      OBVIOUS
    <3>2. QED
      BY <1>0, <2>2, <3>1 DEF Types
  <2>5. /\ client' \in [Nodes -> Clients \cup {None}] /\ conns' \in [Clients -> SUBSET Targets]
        /\ known' \in [Clients -> SUBSET Remotes]
        /\ ask' \in [Nodes -> AllAsks \cup {None}] /\ connects' \in [Nodes -> Nat]
    BY <1>0, <2>1, <2>2 DEF Types
  <2>6. pc' \in [Nodes -> {"free", "connecting", "finding", "awaiting"}]
    BY <1>0, <2>2 DEF Types
  <2>7. QED
    BY <1>0, <2>2, <2>3, <2>4, <2>5, <2>6 DEF Types
<1>4. ASSUME NEW n \in Nodes, ConnectionMade(n)
      PROVE  Types'
  <2>1. ask[n] \in Asks[n] /\ client[n] \in Clients
    BY <1>0, <1>4 DEF ConnectionMade, CallOK, InConnect, Types
  <2>2. ask[n].target \in Targets
    BY <2>1, AskFacts
  <2>3. vm' \in [Remotes -> {"stopped", "running", "paused"}]
    BY <1>1, <1>4 DEF ConnectionMade, ResetBy
  <2>4. conns' \in [Clients -> SUBSET Targets]
    BY <1>0, <1>4, <2>1, <2>2 DEF ConnectionMade, Types
  <2>5. QED
    BY <1>0, <1>4, <2>3, <2>4 DEF ConnectionMade, Types
<1>5. ASSUME NEW n \in Nodes, CloseOwn(n)
      PROVE  /\ conns' \in [Clients -> SUBSET Targets] /\ known' \in [Clients -> SUBSET Remotes]
             /\ hears' \in [Clients -> SUBSET Nodes]
  BY <1>0, <1>5 DEF CloseOwn, Types
<1>6. ASSUME NEW n \in Nodes, ConnectFails(n)
      PROVE  Types'
  <2>1. /\ UNCHANGED <<shared, conn, id, mirroring, callbacks, script, vm, connects>>
        /\ pc' = [pc EXCEPT ![n] = "free"] /\ ask' = [ask EXCEPT ![n] = None]
        /\ \/ UNCHANGED <<client, conns, known, hears>>
           \/ CloseOwn(n) /\ client' = [client EXCEPT ![n] = None]
    BY <1>6 DEF ConnectFails
  <2>2. QED
    BY <1>0, <1>5, <2>1 DEF Types
<1>7. ASSUME NEW n \in Nodes, NEW i, NEW compiles \in BOOLEAN, Mirrors(n, i, compiles)
      PROVE  /\ mirroring' \in [Nodes -> BOOLEAN]
             /\ script' \in [Remotes -> Nodes \cup {None}]
             /\ vm' \in [Remotes -> {"stopped", "running", "paused"}]
  BY <1>0, <1>1, <1>7 DEF Mirrors, Types
<1>8. ASSUME NEW n \in Nodes, NEW r \in Remotes, NEW compiles \in BOOLEAN,
             NodeFound(n, r, compiles)
      PROVE  Types'
  <2>1. /\ UNCHANGED <<client, shared, callbacks, conns, known, hears, connects>>
        /\ pc' = [pc EXCEPT ![n] = "free"] /\ ask' = [ask EXCEPT ![n] = None]
        /\ conn' = [conn EXCEPT ![n] = r.target] /\ id' = [id EXCEPT ![n] = r.id]
        /\ Mirrors(n, r.id, compiles) \/ UNCHANGED <<mirroring, script, vm>>
    BY <1>8 DEF NodeFound
  <2>2. /\ mirroring' \in [Nodes -> BOOLEAN] /\ script' \in [Remotes -> Nodes \cup {None}]
        /\ vm' \in [Remotes -> {"stopped", "running", "paused"}]
    BY <1>0, <1>7, <2>1 DEF Types
  <2>3. QED
    BY <1>0, <2>1, <2>2, RemoteFacts DEF Types
<1>9. ASSUME NEW n \in Nodes, NEW compiles \in BOOLEAN, StartMirroring(n, compiles)
      PROVE  Types'
  BY <1>0, <1>7, <1>9 DEF StartMirroring, Types
<1>10. ASSUME NEW n \in Nodes, LoadScript(n)
       PROVE  Types'
  BY <1>0, <1>1, <1>10 DEF LoadScript, Types
<1>11. ASSUME NEW n \in Nodes, SetCallback(n) \/ ClearCallback(n)
       PROVE  Types'
  <2>1. EventName(n) \in Names
    BY DEF EventName, Names
  <2>2. callbacks' \in [Nodes -> SUBSET Names]
    BY <1>0, <1>11, <2>1 DEF SetCallback, ClearCallback, Types
  <2>3. QED
    BY <1>0, <1>11, <2>2 DEF SetCallback, ClearCallback, Types
<1>12. ASSUME NEW n \in Nodes, Stop(n) \/ Run(n) \/ Pause(n)
       PROVE  Types'
  <2>1. vm' \in [Remotes -> {"stopped", "running", "paused"}]
    BY <1>1, <1>12 DEF Stop, Run, Pause
  <2>2. mirroring' \in [Nodes -> BOOLEAN]
    BY <1>0, <1>12 DEF Stop, Run, Pause, Types
  <2>3. QED
    BY <1>0, <1>12, <2>1, <2>2 DEF Stop, Run, Pause, Types
<1>13. ASSUME NEW n \in Nodes, Close(n)
       PROVE  Types'
  <2>1. vm' \in [Remotes -> {"stopped", "running", "paused"}]
    BY <1>1, <1>13 DEF Close
  <2>2. /\ UNCHANGED <<shared, callbacks, pc, ask, script, connects>>
        /\ mirroring' = [mirroring EXCEPT ![n] = FALSE]
        /\ \/ UNCHANGED <<client, conns, known, hears>>
           \/ CloseOwn(n) /\ client' = [client EXCEPT ![n] = None]
        /\ id' = id \/ id' = [id EXCEPT ![n] = AnyId]
        /\ conn' = conn \/ conn' = [conn EXCEPT ![n] = None]
    BY <1>13 DEF Close
  <2>3. /\ client' \in [Nodes -> Clients \cup {None}]
        /\ conns' \in [Clients -> SUBSET Targets] /\ known' \in [Clients -> SUBSET Remotes]
        /\ hears' \in [Clients -> SUBSET Nodes]
    BY <1>0, <1>5, <2>2 DEF Types
  <2>4. QED
    BY <1>0, <2>1, <2>2, <2>3 DEF Types
<1>14. ASSUME NEW n \in Nodes, Wait(n) \/ WaitEnds(n)
       PROVE  Types'
  BY <1>0, <1>14 DEF Wait, WaitEnds, Types
<1>15. ASSUME NEW c \in Clients, NEW r \in Remotes, Discover(c, r)
       PROVE  Types'
  BY <1>0, <1>15 DEF Discover, Types
<1>16. ASSUME NEW c \in Clients, NEW t \in Targets, Drop(c, t)
       PROVE  Types'
  BY <1>0, <1>16 DEF Drop, Types
<1>17. CASE UNCHANGED vars
  BY <1>0, <1>17 DEF vars, Types
<1>18. QED
  BY <1>2, <1>3, <1>4, <1>6, <1>8, <1>9, <1>10, <1>11, <1>12, <1>13, <1>14, <1>15, <1>16, <1>17
     DEF Next, Connecting, Using

-----------------------------------------------------------------------------
(* The steps: clients and calls                                            *)

(* Steps of a node that leave its session and the clients as they are.     *)
Quiet(n) ==
  \/ \E compiles \in BOOLEAN : StartMirroring(n, compiles)
  \/ LoadScript(n) \/ SetCallback(n) \/ ClearCallback(n)
  \/ Stop(n) \/ Pause(n) \/ Run(n) \/ Wait(n) \/ WaitEnds(n)

LEMMA QuietSteps ==
  ASSUME NEW n \in Nodes, Quiet(n)
  PROVE  /\ UNCHANGED <<client, shared, conn, id, ask, conns, known, hears, leaked, connects>>
         /\ \/ pc' = pc
            \/ pc[n] = "free" /\ client[n] # None /\ pc' = [pc EXCEPT ![n] = "awaiting"]
            \/ pc[n] = "awaiting" /\ pc' = [pc EXCEPT ![n] = "free"]
<1> USE DEF session, mirror, call, network, remote, history, bounds
<1>1. ASSUME NEW compiles \in BOOLEAN, StartMirroring(n, compiles)
      PROVE  UNCHANGED <<client, shared, conn, id, ask, conns, known, hears, leaked, connects, pc>>
  BY <1>1 DEF StartMirroring
<1>2. ASSUME LoadScript(n) \/ SetCallback(n) \/ ClearCallback(n) \/ Stop(n) \/ Pause(n) \/ Run(n)
      PROVE  UNCHANGED <<client, shared, conn, id, ask, conns, known, hears, leaked, connects, pc>>
  BY <1>2 DEF LoadScript, SetCallback, ClearCallback, Stop, Pause, Run
<1>3. ASSUME Wait(n) \/ WaitEnds(n)
      PROVE  /\ UNCHANGED <<client, shared, conn, id, ask, conns, known, hears, leaked, connects>>
             /\ \/ pc[n] = "free" /\ client[n] # None /\ pc' = [pc EXCEPT ![n] = "awaiting"]
                \/ pc[n] = "awaiting" /\ pc' = [pc EXCEPT ![n] = "free"]
  BY <1>3 DEF Wait, WaitEnds, Free
<1>4. QED
  BY <1>1, <1>2, <1>3 DEF Quiet

(* What connect begins with.                                               *)
LEMMA ConnectSteps ==
  ASSUME Types, NEW n \in Nodes, NEW a \in Asks[n], Connect(n, a)
  PROVE  /\ n \notin Async /\ pc[n] = "free"
         /\ UNCHANGED <<conn, id, mirroring, callbacks, conns, known, script, wanted>>
         /\ shared' = [shared EXCEPT ![n] = shared[n] \/ a.client # None]
         /\ \/ client[n] # None /\ client' = client /\ hears' = hears
            \/ /\ client[n] = None
               /\ \E c \in Clients :
                    /\ c = (IF a.client # None THEN a.client ELSE Own[n])
                    /\ client' = [client EXCEPT ![n] = c]
                    /\ hears' = [hears EXCEPT ![c] = hears[c] \cup {n}]
         /\ InConnect(n)' /\ \A m \in Nodes \ {n} : pc'[m] = pc[m]
         /\ ask' = [ask EXCEPT ![n] = a]
         /\ connects' = [connects EXCEPT ![n] = connects[n] + 1]
         /\ vm' = vm \/ \E ts : ResetBy(n, a, ts)
<1> DEFINE c == IF client[n] # None THEN client[n]
                ELSE IF a.client # None THEN a.client ELSE Own[n]
<1>1. /\ n \notin Async /\ pc[n] = "free"
      /\ UNCHANGED <<conn, id, mirroring, callbacks, conns, known, script, wanted>>
      /\ shared' = [shared EXCEPT ![n] = shared[n] \/ a.client # None]
      /\ client' = [client EXCEPT ![n] = c]
      /\ hears' = IF client[n] = None THEN [hears EXCEPT ![c] = hears[c] \cup {n}] ELSE hears
      /\ pc' = [pc EXCEPT ![n] = "connecting"] \/ pc' = [pc EXCEPT ![n] = "finding"]
      /\ ask' = [ask EXCEPT ![n] = a]
      /\ connects' = [connects EXCEPT ![n] = connects[n] + 1]
      /\ vm' = vm \/ ResetBy(n, a, conns[c])
  BY DEF Connect, Free, mirror
<1>2. c \in Clients
  BY AskFacts DEF Types
<1>3. InConnect(n)' /\ \A m \in Nodes \ {n} : pc'[m] = pc[m]
  BY <1>1 DEF InConnect, Types
<1>4. CASE client[n] # None
  <2>1. client' = client
    BY <1>1, <1>4 DEF Types
  <2>2. QED
    BY <1>1, <1>3, <1>4, <2>1
<1>5. CASE client[n] = None
  BY <1>1, <1>2, <1>3, <1>5
<1>6. QED
  BY <1>4, <1>5

LEMMA ConnectAsyncSteps ==
  ASSUME Types, NEW n \in Nodes, NEW a \in Asks[n], ConnectAsync(n, a)
  PROVE  /\ n \in Async /\ pc[n] = "free"
         /\ UNCHANGED <<conn, id, mirroring, callbacks, hears, script, wanted>>
         /\ shared' = [shared EXCEPT ![n] = shared[n] \/ a.client # None]
         /\ \E c \in Clients :
              /\ c = (IF a.client # None THEN a.client ELSE Own[n])
              /\ client' = [client EXCEPT ![n] = c]
              /\ \/ UNCHANGED <<conns, known>>
                 \/ conns' = [conns EXCEPT ![c] = {}] /\ known' = [known EXCEPT ![c] = {}]
         /\ InConnect(n)' /\ \A m \in Nodes \ {n} : pc'[m] = pc[m]
         /\ ask' = [ask EXCEPT ![n] = a]
         /\ connects' = [connects EXCEPT ![n] = connects[n] + 1]
         /\ vm' = vm \/ \E ts : ResetBy(n, a, ts)
<1> DEFINE c == IF a.client # None THEN a.client ELSE Own[n]
           new == a.client = None
<1>1. /\ n \in Async /\ pc[n] = "free"
      /\ UNCHANGED <<conn, id, mirroring, callbacks, hears, script, wanted>>
      /\ shared' = [shared EXCEPT ![n] = shared[n] \/ a.client # None]
      /\ client' = [client EXCEPT ![n] = c]
      /\ conns' = IF new THEN [conns EXCEPT ![c] = {}] ELSE conns
      /\ known' = IF new THEN [known EXCEPT ![c] = {}] ELSE known
      /\ pc' = [pc EXCEPT ![n] = "connecting"] \/ pc' = [pc EXCEPT ![n] = "finding"]
      /\ ask' = [ask EXCEPT ![n] = a]
      /\ connects' = [connects EXCEPT ![n] = connects[n] + 1]
      /\ vm' = vm \/ ResetBy(n, a, conns[c])
  BY DEF ConnectAsync, Free, mirror
<1>2. c \in Clients
  BY AskFacts
<1>3. InConnect(n)' /\ \A m \in Nodes \ {n} : pc'[m] = pc[m]
  BY <1>1 DEF InConnect, Types
<1> HIDE DEF c, new
<1>4. \/ UNCHANGED <<conns, known>>
      \/ conns' = [conns EXCEPT ![c] = {}] /\ known' = [known EXCEPT ![c] = {}]
  BY <1>1
<1>5. QED
  BY <1>1, <1>2, <1>3, <1>4 DEF c

(* The client of a node that fails to connect, or is closed.               *)
Closes(n) ==
  \/ UNCHANGED <<client, conns, known, hears>>
  \/ ~shared[n] /\ CloseOwn(n) /\ client' = [client EXCEPT ![n] = None]

LEMMA FailSteps ==
  ASSUME Types, NEW n \in Nodes, ConnectFails(n)
  PROVE  /\ InConnect(n) /\ Closes(n)
         /\ n \in Async \/ shared[n] \/ client' = [client EXCEPT ![n] = None]
         /\ UNCHANGED <<shared, conn, id, mirroring, callbacks, script, vm, wanted, connects>>
         /\ pc' = [pc EXCEPT ![n] = "free"] /\ ask' = [ask EXCEPT ![n] = None]
BY DEF ConnectFails, InConnect, Closes, mirror, network, remote, history, bounds

LEMMA CloseSteps ==
  ASSUME Types, NEW n \in Nodes, Close(n)
  PROVE  /\ pc[n] = "free" /\ Closes(n)
         /\ UNCHANGED <<shared, callbacks, pc, ask, script, wanted, connects>>
         /\ mirroring' = [mirroring EXCEPT ![n] = FALSE]
         /\ Command(OnConnection(n), "stopped")
         /\ \/ n \in Async /\ id' = [id EXCEPT ![n] = AnyId] /\ conn' = conn
            \/ n \notin Async /\ id' = id /\ conn' = [conn EXCEPT ![n] = None]
BY DEF Close, Free, Closes, call, network, bounds

LEMMA FoundSteps ==
  ASSUME Types, NEW n \in Nodes, NEW r \in Remotes, NEW compiles \in BOOLEAN,
         NodeFound(n, r, compiles)
  PROVE  /\ InConnect(n) /\ r \in known[client[n]]
         /\ ask[n].id > 0 => r.id = ask[n].id
         /\ UNCHANGED <<client, shared, callbacks, conns, known, hears, wanted, connects>>
         /\ pc' = [pc EXCEPT ![n] = "free"] /\ ask' = [ask EXCEPT ![n] = None]
         /\ conn' = [conn EXCEPT ![n] = r.target] /\ id' = [id EXCEPT ![n] = r.id]
         /\ \/ ask[n].start /\ Mirrors(n, r.id, compiles)
            \/ ~ask[n].start /\ UNCHANGED <<mirroring, script, vm>>
BY DEF NodeFound, Found, InConnect, network, bounds, remote

LEMMA MadeSteps ==
  ASSUME Types, NEW n \in Nodes, ConnectionMade(n)
  PROVE  /\ InConnect(n) /\ InConnect(n)' /\ \A m \in Nodes \ {n} : pc'[m] = pc[m]
         /\ UNCHANGED <<client, shared, conn, id, mirroring, callbacks, ask, known, hears,
                        script, wanted, connects>>
         /\ conns' = [conns EXCEPT ![client[n]] = conns[client[n]] \cup {ask[n].target}]
         /\ \E ts : ResetBy(n, ask[n], ts)
BY DEF ConnectionMade, InConnect, Types, session, mirror, bounds

(* Each step is one of these.                                              *)
LEMMA StepsAre ==
  ASSUME [Next]_vars
  PROVE  \/ \E n \in Nodes : \E a \in Asks[n] : Connect(n, a) \/ ConnectAsync(n, a)
         \/ \E n \in Nodes : ConnectionMade(n) \/ ConnectFails(n) \/ Quiet(n) \/ Close(n)
         \/ \E n \in Nodes, r \in Remotes, compiles \in BOOLEAN : NodeFound(n, r, compiles)
         \/ \E c \in Clients, r \in Remotes : Discover(c, r)
         \/ \E c \in Clients, t \in Targets : Drop(c, t)
         \/ UNCHANGED vars
BY DEF Next, Connecting, Using, Quiet

LEMMA OthersQuiet ==
  ASSUME \/ \E c \in Clients, r \in Remotes : Discover(c, r)
         \/ \E c \in Clients, t \in Targets : Drop(c, t)
         \/ UNCHANGED vars
  PROVE  UNCHANGED <<client, shared, conn, id, mirroring, callbacks, pc, ask, hears, script, vm,
                     wanted, connects>>
BY DEF Discover, Drop, vars, session, mirror, call, network, remote, history, bounds

LEMMA KnownKept ==
  ASSUME Inv, [Next]_vars
  PROVE  KnownOK'
<1> USE DEF KnownOK
<1>0. Types /\ KnownOK /\ \A n \in Nodes : CallOK(n)
  BY DEF Inv
<1>1. CASE UNCHANGED <<conns, known>>
  BY <1>0, <1>1
<1>2. ASSUME NEW n \in Nodes, NEW a \in Asks[n], ConnectAsync(n, a)
      PROVE  KnownOK'
  BY <1>0, <1>1, <1>2, ConnectAsyncSteps DEF Types
<1>3. ASSUME NEW n \in Nodes, ConnectionMade(n)
      PROVE  KnownOK'
  BY <1>0, <1>3, MadeSteps DEF Types
<1>4. ASSUME NEW n \in Nodes, Closes(n)
      PROVE  KnownOK'
  BY <1>0, <1>4 DEF Closes, CloseOwn, Types
<1>5. ASSUME NEW c \in Clients, NEW r \in Remotes, Discover(c, r)
      PROVE  KnownOK'
  BY <1>0, <1>5 DEF Discover, Types
<1>6. ASSUME NEW c \in Clients, NEW t \in Targets, Drop(c, t)
      PROVE  KnownOK'
  BY <1>0, <1>6 DEF Drop, Types
<1>7. CASE UNCHANGED vars
  BY <1>1, <1>7 DEF vars, network
<1>8. ASSUME NEW n \in Nodes, NEW a \in Asks[n], Connect(n, a)
      PROVE  KnownOK'
  BY <1>0, <1>1, <1>8, ConnectSteps
<1>9. ASSUME NEW n \in Nodes, ConnectFails(n) \/ Close(n)
      PROVE  KnownOK'
  BY <1>0, <1>4, <1>9, FailSteps, CloseSteps
<1>10. ASSUME NEW n \in Nodes, Quiet(n)
       PROVE  KnownOK'
  BY <1>1, <1>10, QuietSteps
<1>11. ASSUME NEW n \in Nodes, NEW r \in Remotes, NEW compiles \in BOOLEAN,
              NodeFound(n, r, compiles)
       PROVE  KnownOK'
  BY <1>0, <1>1, <1>11, FoundSteps
<1>12. QED
  BY <1>2, <1>3, <1>5, <1>6, <1>7, <1>8, <1>9, <1>10, <1>11, StepsAre

LEMMA CallsKept ==
  ASSUME Inv, [Next]_vars, NEW m \in Nodes
  PROVE  CallOK(m)'
<1> USE DEF CallOK
<1>0. Types /\ \A n \in Nodes : CallOK(n)
  BY DEF Inv
<1>1. CASE client'[m] = client[m] /\ pc'[m] = pc[m] /\ ask'[m] = ask[m]
  BY <1>0, <1>1 DEF InConnect
<1>2. ASSUME NEW n \in Nodes, NEW a \in Asks[n], Connect(n, a)
      PROVE  CallOK(m)'
  <2>1. CASE m # n
    BY <1>0, <1>1, <1>2, <2>1, ConnectSteps DEF Types
  <2>2. CASE m = n
    <3>1. client'[n] # None
      BY <1>0, <1>2, ConnectSteps, NoneAssumption DEF Types
    <3>2. ask'[n] = a
      BY <1>0, <1>2, ConnectSteps DEF Types
    <3>3. QED
      BY <2>2, <3>1, <3>2
  <2>3. QED
    BY <2>1, <2>2
<1>3. ASSUME NEW n \in Nodes, NEW a \in Asks[n], ConnectAsync(n, a)
      PROVE  CallOK(m)'
  <2>1. CASE m # n
    BY <1>0, <1>1, <1>3, <2>1, ConnectAsyncSteps DEF Types
  <2>2. CASE m = n
    <3>1. client'[n] # None
      BY <1>0, <1>3, ConnectAsyncSteps, NoneAssumption DEF Types
    <3>2. ask'[n] = a
      BY <1>0, <1>3, ConnectAsyncSteps DEF Types
    <3>3. QED
      BY <2>2, <3>1, <3>2
  <2>3. QED
    BY <2>1, <2>2
<1>4. ASSUME NEW n \in Nodes, ConnectionMade(n)
      PROVE  CallOK(m)'
  <2>1. client' = client /\ ask' = ask /\ InConnect(n) /\ (m # n => pc'[m] = pc[m])
    BY <1>0, <1>4, MadeSteps
  <2>2. CASE m = n
    BY <1>0, <2>1, <2>2 DEF InConnect
  <2>3. QED
    BY <1>1, <2>1, <2>2
<1>5. ASSUME NEW n \in Nodes, ConnectFails(n)
      PROVE  CallOK(m)'
  <2>1. CASE m # n
    BY <1>0, <1>1, <1>5, <2>1, FailSteps DEF Types, Closes
  <2>2. CASE m = n
    <3>1. pc'[n] = "free"
      BY <1>0, <1>5, FailSteps DEF Types
    <3>2. QED
      BY <2>2, <3>1 DEF InConnect
  <2>3. QED
    BY <2>1, <2>2
<1>6. ASSUME NEW n \in Nodes, NEW r \in Remotes, NEW compiles \in BOOLEAN,
             NodeFound(n, r, compiles)
      PROVE  CallOK(m)'
  <2>1. /\ client' = client /\ pc' = [pc EXCEPT ![n] = "free"]
        /\ ask' = [ask EXCEPT ![n] = None]
    BY <1>0, <1>6, FoundSteps
  <2>2. CASE m = n
    BY <1>0, <2>1, <2>2 DEF InConnect, Types
  <2>3. CASE m # n
    BY <1>0, <1>1, <2>1, <2>3 DEF Types
  <2>4. QED
    BY <2>2, <2>3
<1>7. ASSUME NEW n \in Nodes, Quiet(n)
      PROVE  CallOK(m)'
  <2>1. client' = client /\ ask' = ask
    BY <1>7, QuietSteps
  <2>2. \/ pc' = pc
        \/ m # n /\ pc'[m] = pc[m]
        \/ m = n /\ pc'[m] = "awaiting" /\ client[m] # None
        \/ m = n /\ pc'[m] = "free"
    BY <1>0, <1>7, QuietSteps DEF Types
  <2>3. QED
    BY <1>1, <2>1, <2>2 DEF InConnect
<1>8. ASSUME NEW n \in Nodes, Close(n)
      PROVE  CallOK(m)'
  <2>1. pc' = pc /\ ask' = ask /\ pc[n] = "free" /\ (m # n => client'[m] = client[m])
    BY <1>0, <1>8, CloseSteps DEF Types, Closes
  <2>2. CASE m = n
    BY <2>1, <2>2 DEF InConnect
  <2>3. QED
    BY <1>1, <2>1, <2>2
<1>9. CASE UNCHANGED <<client, pc, ask>>
  BY <1>1, <1>9
<1>10. QED
  BY <1>2, <1>3, <1>4, <1>5, <1>6, <1>7, <1>8, <1>9, StepsAre, OthersQuiet

LEMMA ClientsKept ==
  ASSUME Inv, [Next]_vars, NEW m \in Nodes
  PROVE  ClientOK(m)'
<1> USE DEF ClientOK
<1>0. Types /\ \A n \in Nodes : ClientOK(n) /\ CallOK(n)
  BY DEF Inv
<1>1. CASE UNCHANGED <<client, shared, hears>>
  BY <1>0, <1>1
<1>2. ASSUME NEW n \in Nodes, NEW a \in Asks[n], NEW c \in Clients,
             c = (IF a.client # None THEN a.client ELSE Own[n])
      PROVE  /\ c # Own[n] => a.client # None
             /\ \A k \in Nodes : c = Own[k] => k = n
  BY <1>2, OwnAssumption
<1>3. ASSUME NEW n \in Nodes, NEW a \in Asks[n], Connect(n, a)
      PROVE  ClientOK(m)'
  <2>1. shared' = [shared EXCEPT ![n] = shared[n] \/ a.client # None]
    BY <1>0, <1>3, ConnectSteps
  <2>2. shared[m] => shared'[m]
    BY <1>0, <2>1 DEF Types
  <2>3. CASE client[n] # None
    BY <1>0, <1>3, <2>2, <2>3, ConnectSteps
  <2>4. CASE client[n] = None
    <3>1. PICK c \in Clients :
            /\ c = (IF a.client # None THEN a.client ELSE Own[n])
            /\ client' = [client EXCEPT ![n] = c]
            /\ hears' = [hears EXCEPT ![c] = hears[c] \cup {n}]
      BY <1>0, <1>3, <2>4, ConnectSteps
    <3>2. CASE m = n
      <4>1. client'[m] = c /\ m \in hears'[c]
        BY <1>0, <3>1, <3>2 DEF Types
      <4>2. c # Own[m] => shared'[m]
        BY <1>0, <1>2, <2>1, <3>1, <3>2 DEF Types
      <4>3. QED
        BY <1>2, <3>1, <3>2, <4>1, <4>2
    <3>3. CASE m # n
      <4>1. client'[m] = client[m] /\ \A k \in Clients : hears[k] \subseteq hears'[k]
        BY <1>0, <3>1, <3>3 DEF Types
      <4>2. QED
        BY <1>0, <2>2, <4>1 DEF Types
    <3>4. QED
      BY <3>2, <3>3
  <2>5. QED
    BY <2>3, <2>4
<1>4. ASSUME NEW n \in Nodes, NEW a \in Asks[n], ConnectAsync(n, a)
      PROVE  ClientOK(m)'
  <2>1. /\ shared' = [shared EXCEPT ![n] = shared[n] \/ a.client # None]
        /\ n \in Async /\ hears' = hears
    BY <1>0, <1>4, ConnectAsyncSteps
  <2>2. shared[m] => shared'[m]
    BY <1>0, <2>1 DEF Types
  <2>3. PICK c \in Clients :
          /\ c = (IF a.client # None THEN a.client ELSE Own[n])
          /\ client' = [client EXCEPT ![n] = c]
    BY <1>0, <1>4, ConnectAsyncSteps
  <2>4. CASE m = n
    <3>1. client'[m] = c
      BY <1>0, <2>3, <2>4 DEF Types
    <3>2. c # Own[m] => shared'[m]
      BY <1>0, <1>2, <2>1, <2>3, <2>4 DEF Types
    <3>3. QED
      BY <1>2, <2>1, <2>3, <2>4, <3>1, <3>2
  <2>5. CASE m # n
    <3>1. client'[m] = client[m]
      BY <1>0, <2>3, <2>5 DEF Types
    <3>2. QED
      BY <1>0, <2>1, <2>2, <3>1
  <2>6. QED
    BY <2>4, <2>5
<1>5. ASSUME NEW n \in Nodes, Closes(n), shared' = shared, client[n] # None
      PROVE  ClientOK(m)'
  <2>1. CASE UNCHANGED <<client, hears>>
    BY <1>1, <1>5, <2>1
  <2>2. CASE ~shared[n] /\ CloseOwn(n) /\ client' = [client EXCEPT ![n] = None]
    <3>1. client[n] = Own[n]
      BY <1>0, <1>5, <2>2
    <3>2. hears' = [hears EXCEPT ![Own[n]] = {}]
      BY <2>2, <3>1 DEF CloseOwn
    <3>3. CASE m = n
      <4>1. client'[m] = None
        BY <1>0, <2>2, <3>3 DEF Types
      <4>2. \A k \in Nodes : Own[k] # None
        BY OwnAssumption, NoneAssumption
      <4>3. QED
        BY <4>1, <4>2
    <3>4. CASE m # n
      <4>1. client'[m] = client[m] /\ client[m] # Own[n]
        BY <1>0, <2>2, <3>4 DEF Types
      <4>2. client[m] # None => hears'[client[m]] = hears[client[m]]
        BY <1>0, <3>2, <4>1 DEF Types
      <4>3. QED
        BY <1>0, <1>5, <4>1, <4>2
    <3>5. QED
      BY <3>3, <3>4
  <2>3. QED
    BY <1>5, <2>1, <2>2 DEF Closes
<1>6. ASSUME NEW n \in Nodes, ConnectFails(n) \/ Close(n)
      PROVE  ClientOK(m)'
  <2>1. Closes(n) /\ shared' = shared
    BY <1>0, <1>6, FailSteps, CloseSteps
  <2>2. client[n] # None
    BY <1>0, <1>6 DEF ConnectFails, Close, CallOK
  <2>3. QED
    BY <1>5, <2>1, <2>2
<1>7. ASSUME NEW n \in Nodes, ConnectionMade(n) \/ Quiet(n)
      PROVE  ClientOK(m)'
  BY <1>0, <1>1, <1>7, MadeSteps, QuietSteps
<1>8. ASSUME NEW n \in Nodes, NEW r \in Remotes, NEW compiles \in BOOLEAN,
             NodeFound(n, r, compiles)
      PROVE  ClientOK(m)'
  BY <1>0, <1>1, <1>8, FoundSteps
<1>9. QED
  BY <1>1, <1>3, <1>4, <1>6, <1>7, <1>8, StepsAre, OthersQuiet

LEMMA RemotesKept ==
  ASSUME Inv, [Next]_vars, NEW m \in Nodes
  PROVE  RemoteOK(m)'
<1> USE DEF RemoteOK, Of
<1>0. Types /\ \A n \in Nodes : RemoteOK(n) /\ CallOK(n)
  BY DEF Inv
<1>1. CASE conn'[m] = conn[m] /\ id'[m] = id[m]
  BY <1>0, <1>1
<1>2. ASSUME NEW n \in Nodes, NEW a \in Asks[n], Connect(n, a) \/ ConnectAsync(n, a)
      PROVE  RemoteOK(m)'
  BY <1>0, <1>1, <1>2, ConnectSteps, ConnectAsyncSteps
<1>3. ASSUME NEW n \in Nodes, ConnectionMade(n) \/ ConnectFails(n) \/ Quiet(n)
      PROVE  RemoteOK(m)'
  BY <1>0, <1>1, <1>3, MadeSteps, FailSteps, QuietSteps
<1>4. ASSUME NEW n \in Nodes, Close(n)
      PROVE  RemoteOK(m)'
  <2>1. CASE m = n
    <3>1. id'[m] = AnyId \/ conn'[m] = None
      BY <1>0, <1>4, <2>1, CloseSteps DEF Types
    <3>2. QED
      BY <3>1
  <2>2. CASE m # n
    BY <1>0, <1>1, <1>4, <2>2, CloseSteps DEF Types
  <2>3. QED
    BY <2>1, <2>2
<1>5. ASSUME NEW n \in Nodes, NEW r \in Remotes, NEW compiles \in BOOLEAN,
             NodeFound(n, r, compiles)
      PROVE  RemoteOK(m)'
  <2>1. conn' = [conn EXCEPT ![n] = r.target] /\ id' = [id EXCEPT ![n] = r.id]
    BY <1>0, <1>5, FoundSteps
  <2>2. CASE m = n
    <3>1. conn'[m] = r.target /\ id'[m] = r.id
      BY <1>0, <2>1, <2>2 DEF Types
    <3>2. QED
      BY <3>1, RemoteFacts
  <2>3. CASE m # n
    BY <1>0, <1>1, <2>1, <2>3 DEF Types
  <2>4. QED
    BY <2>2, <2>3
<1>6. QED
  BY <1>1, <1>2, <1>3, <1>4, <1>5, StepsAre, OthersQuiet

LEMMA WantedKept ==
  ASSUME Inv, [Next]_vars, NEW m \in Nodes
  PROVE  WantedOK(m)'
<1> USE DEF WantedOK
<1>0. Types /\ \A n \in Nodes : WantedOK(n)
  BY DEF Inv
<1>1. CASE UNCHANGED <<wanted, callbacks>>
  BY <1>0, <1>1
<1>2. ASSUME NEW n \in Nodes, SetCallback(n)
      PROVE  WantedOK(m)'
  <2>1. /\ callbacks' = [callbacks EXCEPT ![n] = callbacks[n] \cup {EventName(n)}]
        /\ wanted' = IF mirroring[n] THEN wanted \cup {n} ELSE wanted
    BY <1>2 DEF SetCallback
  <2>2. QED
    BY <1>0, <2>1 DEF Types, EventName
<1>3. ASSUME NEW n \in Nodes, ClearCallback(n)
      PROVE  WantedOK(m)'
  <2>1. /\ callbacks' = [callbacks EXCEPT ![n] = callbacks[n] \ {EventName(n)}]
        /\ wanted' = IF mirroring[n] THEN wanted \ {n} ELSE wanted
    BY <1>3 DEF ClearCallback
  <2>2. QED
    BY <1>0, <2>1 DEF Types, EventName
<1>4. ASSUME NEW n \in Nodes, Quiet(n), ~SetCallback(n), ~ClearCallback(n)
      PROVE  WantedOK(m)'
  BY <1>1, <1>4 DEF Quiet, StartMirroring, LoadScript, Stop, Pause, Run, Wait, WaitEnds, mirror,
     history
<1>5. ASSUME NEW n \in Nodes, NEW a \in Asks[n], Connect(n, a) \/ ConnectAsync(n, a)
      PROVE  WantedOK(m)'
  BY <1>0, <1>1, <1>5, ConnectSteps, ConnectAsyncSteps
<1>6. ASSUME NEW n \in Nodes, ConnectionMade(n) \/ ConnectFails(n) \/ Close(n)
      PROVE  WantedOK(m)'
  BY <1>0, <1>1, <1>6, MadeSteps, FailSteps, CloseSteps
<1>7. ASSUME NEW n \in Nodes, NEW r \in Remotes, NEW compiles \in BOOLEAN,
             NodeFound(n, r, compiles)
      PROVE  WantedOK(m)'
  BY <1>0, <1>1, <1>7, FoundSteps
<1>8. QED
  BY <1>1, <1>2, <1>3, <1>4, <1>5, <1>6, <1>7, StepsAre, OthersQuiet

LEMMA OwnKept ==
  ASSUME Inv, [Next]_vars, NEW m \in Nodes
  PROVE  OwnOK(m)'
<1> USE DEF OwnOK
<1>0. Types /\ \A n \in Nodes : OwnOK(n) /\ ClientOK(n) /\ CallOK(n)
  BY DEF Inv
<1> SUFFICES ASSUME SharesOrOwns, m \notin Async
             PROVE  OwnOK(m)'
  OBVIOUS
<1>a. /\ Own[m] \in Clients /\ Own[m] # None
      /\ \A a \in Asks[m] : a.client # Own[m] /\ a \in AllAsks
      /\ \/ \A a \in Asks[m] : a.client = None
         \/ \A a \in Asks[m] : a.client # None
  BY OwnAssumption, NoneAssumption DEF SharesOrOwns, AllAsks
<1>1. ASSUME client'[m] = client[m], shared'[m] = shared[m], conns'[Own[m]] \subseteq conns[Own[m]]
      PROVE  OwnOK(m)'
  BY <1>0, <1>1
<1>2. ASSUME NEW n \in Nodes, NEW a \in Asks[n], Connect(n, a)
      PROVE  OwnOK(m)'
  <2>1. /\ UNCHANGED conns
        /\ shared' = [shared EXCEPT ![n] = shared[n] \/ a.client # None]
    BY <1>0, <1>2, ConnectSteps
  <2>2. CASE m # n
    <3>1. client'[m] = client[m] /\ shared'[m] = shared[m]
      BY <1>0, <1>2, <2>1, <2>2, ConnectSteps DEF Types
    <3>2. QED
      BY <1>1, <2>1, <3>1
  <2>3. CASE m = n
    <3>1. shared'[m] => shared[m] \/ a.client # None
      BY <1>0, <2>1, <2>3 DEF Types
    <3>2. \/ client[m] # None /\ client'[m] = client[m]
          \/ client[m] = None /\ client'[m] = IF a.client # None THEN a.client ELSE Own[m]
      BY <1>0, <1>2, <2>3, ConnectSteps DEF Types
    <3>3. shared'[m] => client'[m] # Own[m] /\ \A b \in Asks[m] : b.client # None
      BY <1>0, <1>a, <2>3, <3>1, <3>2
    <3>4. client'[m] = Own[m] => \A b \in Asks[m] : b.client = None
      BY <1>0, <1>a, <2>3, <3>2
    <3>5. conns'[Own[m]] # {} => client'[m] = Own[m]
      BY <1>0, <1>a, <2>1, <3>2
    <3>6. QED
      BY <3>3, <3>4, <3>5
  <2>4. QED
    BY <2>2, <2>3
<1>3. ASSUME NEW n \in Nodes, NEW a \in Asks[n], ConnectAsync(n, a)
      PROVE  OwnOK(m)'
  <2>1. m # n
    BY <1>0, <1>3, ConnectAsyncSteps
  <2>2. client'[m] = client[m] /\ shared'[m] = shared[m]
    BY <1>0, <1>3, <2>1, ConnectAsyncSteps DEF Types
  <2>3. conns'[Own[m]] \subseteq conns[Own[m]]
    <3>1. PICK c \in Clients : conns' = conns \/ conns' = [conns EXCEPT ![c] = {}]
      BY <1>0, <1>3, ConnectAsyncSteps
    <3>2. QED
      BY <1>0, <1>a, <3>1 DEF Types
  <2>4. QED
    BY <1>1, <2>2, <2>3
<1>4. ASSUME NEW n \in Nodes, ConnectionMade(n)
      PROVE  OwnOK(m)'
  <2>1. UNCHANGED <<client, shared>> /\ InConnect(n)
        /\ conns' = [conns EXCEPT ![client[n]] = conns[client[n]] \cup {ask[n].target}]
    BY <1>0, <1>4, MadeSteps
  <2>2. CASE client[n] = Own[m]
    <3>1. n = m
      BY <1>0, <2>2 DEF ClientOK
    <3>2. QED
      BY <1>0, <2>1, <2>2, <3>1
  <2>3. CASE client[n] # Own[m]
    BY <1>0, <1>1, <1>a, <2>1, <2>3 DEF Types
  <2>4. QED
    BY <2>2, <2>3
<1>5. ASSUME NEW n \in Nodes, Closes(n), shared' = shared, client[n] # None
      PROVE  OwnOK(m)'
  <2>1. CASE UNCHANGED <<client, conns>>
    BY <1>1, <1>5, <2>1
  <2>2. CASE ~shared[n] /\ CloseOwn(n) /\ client' = [client EXCEPT ![n] = None]
    <3>1. client[n] = Own[n] /\ conns' = [conns EXCEPT ![Own[n]] = {}]
      BY <1>0, <1>5, <2>2 DEF ClientOK, CloseOwn
    <3>2. CASE m = n
      <4>1. client'[m] = None /\ conns'[Own[m]] = {}
        BY <1>0, <1>a, <2>2, <3>1, <3>2 DEF Types
      <4>2. QED
        BY <1>5, <1>a, <2>2, <3>2, <4>1
    <3>3. CASE m # n
      <4>1. client'[m] = client[m]
        BY <1>0, <2>2, <3>3 DEF Types
      <4>2. conns'[Own[m]] \subseteq conns[Own[m]]
        BY <1>0, <1>a, <3>1 DEF Types
      <4>3. QED
        BY <1>1, <1>5, <4>1, <4>2
    <3>4. QED
      BY <3>2, <3>3
  <2>3. QED
    BY <1>5, <2>1, <2>2 DEF Closes
<1>6. ASSUME NEW n \in Nodes, ConnectFails(n) \/ Close(n)
      PROVE  OwnOK(m)'
  <2>1. Closes(n) /\ shared' = shared
    BY <1>0, <1>6, FailSteps, CloseSteps
  <2>2. client[n] # None
    BY <1>0, <1>6 DEF ConnectFails, Close, CallOK
  <2>3. QED
    BY <1>5, <2>1, <2>2
<1>7. ASSUME NEW n \in Nodes, Quiet(n)
      PROVE  OwnOK(m)'
  BY <1>1, <1>7, QuietSteps
<1>8. ASSUME NEW n \in Nodes, NEW r \in Remotes, NEW compiles \in BOOLEAN,
             NodeFound(n, r, compiles)
      PROVE  OwnOK(m)'
  BY <1>0, <1>1, <1>8, FoundSteps
<1>9. ASSUME NEW c \in Clients, NEW r \in Remotes, Discover(c, r)
      PROVE  OwnOK(m)'
  BY <1>1, <1>9, OthersQuiet DEF Discover
<1>10. ASSUME NEW c \in Clients, NEW t \in Targets, Drop(c, t)
       PROVE  OwnOK(m)'
  <2>1. conns'[Own[m]] \subseteq conns[Own[m]]
    BY <1>0, <1>10, <1>a DEF Drop, Types
  <2>2. QED
    BY <1>1, <1>10, <2>1, OthersQuiet
<1>11. CASE UNCHANGED vars
  BY <1>1, <1>11 DEF vars, session, network
<1>12. QED
  BY <1>2, <1>3, <1>4, <1>6, <1>7, <1>8, <1>9, <1>10, <1>11, StepsAre

(* The parts together are inductive.                                       *)
LEMMA Invariance == Spec => []Inv
<1>1. ASSUME Inv, [Next]_vars
      PROVE  Inv'
  BY <1>1, TypesKept, KnownKept, CallsKept, ClientsKept, RemotesKept, WantedKept, OwnKept DEF Inv
<1>2. QED
  BY InitInv, <1>1, PTL DEF Spec

-----------------------------------------------------------------------------
(* The theorems                                                            *)

(* The event that a Node mirrors calls its callback if and only if the     *)
(* program has set it while the node mirrored, whatever clients the nodes  *)
(* share and however often they connect and close (node.py 530, 560).      *)
THEOREM CallbacksHaveTheirNames == Spec => []SyncCallbackIsCalled
<1>1. ASSUME Inv
      PROVE  SyncCallbackIsCalled
  <2> SUFFICES ASSUME NEW n \in Nodes \ Async, Connected(n)
               PROVE  n \in Called(Of(n)) <=> n \in wanted
    BY DEF SyncCallbackIsCalled, Mirrored
  <2>1. n \in wanted <=> "user" \in callbacks[n]
    BY <1>1 DEF Inv, WantedOK
  <2>2. client[n] \in Clients /\ n \in hears[client[n]] /\ Of(n) \in known[client[n]]
    BY <1>1 DEF Inv, Types, ClientOK, Connected
  <2>3. Of(n).target \in conns[client[n]]
    BY <1>1, <2>2 DEF Inv, KnownOK
  <2>4. n \in Hearing(Of(n))
    BY <2>2, <2>3, OfFacts DEF Hearing
  <2>5. QED
    BY <2>1, <2>4 DEF Called
<1>2. QED
  BY <1>1, Invariance, PTL

(* If a node is always given a client or never, the client that it creates *)
(* is closed with it (node.py 514).                                        *)
THEOREM OwnClientsAreClosed == ASSUME SharesOrOwns PROVE Spec => []OwnClientCloses
<1>1. ASSUME Inv
      PROVE  OwnClientCloses
  <2> SUFFICES ASSUME NEW n \in Nodes \ Async, client[n] = None \/ shared[n]
               PROVE  conns[Own[n]] = {}
    BY DEF OwnClientCloses
  <2>1. OwnOK(n) /\ Own[n] # None
    BY <1>1, OwnAssumption, NoneAssumption DEF Inv
  <2>2. QED
    BY <2>1 DEF OwnOK
<1>2. QED
  BY <1>1, Invariance, PTL

-----------------------------------------------------------------------------
(* Nodes that mirror                                                       *)

MyIds(n) == {a.id : a \in Asks[n]}

(* The commands of a node reach remote nodes of its ids only.              *)
ReachesMine(n) ==
  \A r \in Remotes : r.id \notin MyIds(n) => script'[r] = script[r] /\ vm'[r] = vm[r]

LEMMA CommandsReachMine ==
  ASSUME Types, NEW n \in Nodes, NEW rs, NEW state, Command(rs, state),
         \A r \in rs : r.id \in MyIds(n),
         script' = script \/ \E x : script' = [r \in Remotes |-> IF r \in rs THEN x ELSE script[r]]
  PROVE  ReachesMine(n)
<1>1. \A r \in Remotes : r \notin rs => vm'[r] = vm[r] /\ script'[r] = script[r]
  BY DEF Command
<1>2. QED
  BY <1>1 DEF ReachesMine

LEMMA MineByName ==
  ASSUME Inv, MirrorInv, NEW n \in Nodes, client[n] # None
  PROVE  /\ \A r \in OnConnection(n) : r.id \in MyIds(n)
         /\ Connected(n) => Of(n) \in Remotes /\ id[n] \in MyIds(n)
<1>1. ASSUME Of(n) \in Remotes
      PROVE  id[n] \in MyIds(n)
  <2>1. id[n] # AnyId
    BY <1>1, RemoteFacts, OfFacts
  <2>2. QED
    BY <2>1 DEF MirrorInv, IdOK, MyIds
<1>2. \A r \in OnConnection(n) : r.id \in MyIds(n)
  BY <1>1, OfFacts DEF OnConnection
<1>3. ASSUME Connected(n)
      PROVE  Of(n) \in Remotes
  <2>1. client[n] \in Clients /\ Of(n) \in known[client[n]] /\ known \in [Clients -> SUBSET Remotes]
    BY <1>3 DEF Connected, Inv, Types
  <2>2. QED
    BY <2>1
<1>4. QED
  BY <1>1, <1>2, <1>3

LEMMA QuietReachesMine ==
  ASSUME Inv, MirrorInv, NEW n \in Nodes, Quiet(n) \/ Close(n)
  PROVE  ReachesMine(n)
<1> USE DEF session, mirror, call, network, remote, history, bounds
<1>0. Types
  BY DEF Inv
<1>1. CASE UNCHANGED <<script, vm>>
  BY <1>1 DEF ReachesMine
<1>2. ASSUME NEW compiles \in BOOLEAN, StartMirroring(n, compiles)
      PROVE  ReachesMine(n)
  <2>1. Connected(n) /\ Mirrors(n, id[n], compiles)
    BY <1>2 DEF StartMirroring
  <2>2. id[n] \in MyIds(n)
    BY <2>1, MineByName DEF Connected
  <2>3. CASE compiles
    <3> DEFINE rs == Everywhere(conns[client[n]], id[n])
    <3>1. /\ script' = [r \in Remotes |-> IF r \in rs THEN n ELSE script[r]]
          /\ Command(rs, "running")
      BY <2>1, <2>3 DEF Mirrors
    <3>2. \A r \in rs : r.id \in MyIds(n)
      BY <2>2 DEF Everywhere
    <3> HIDE DEF rs
    <3>3. QED
      BY <1>0, <3>1, <3>2, CommandsReachMine
  <2>4. CASE ~compiles
    BY <1>1, <2>1, <2>4 DEF Mirrors
  <2>5. QED
    BY <2>3, <2>4
<1>3. ASSUME LoadScript(n)
      PROVE  ReachesMine(n)
  <2> DEFINE rs == Everywhere(conns[client[n]], id[n])
  <2>1. /\ Connected(n) /\ Command(rs, "stopped")
        /\ script' = [r \in Remotes |-> IF r \in rs THEN None ELSE script[r]]
    BY <1>3 DEF LoadScript
  <2>2. id[n] \in MyIds(n)
    BY <2>1, MineByName DEF Connected
  <2>3. \A r \in rs : r.id \in MyIds(n)
    BY <2>2 DEF Everywhere
  <2> HIDE DEF rs
  <2>4. QED
    BY <1>0, <2>1, <2>3, CommandsReachMine
<1>4. ASSUME SetCallback(n) \/ ClearCallback(n) \/ Wait(n) \/ WaitEnds(n)
      PROVE  UNCHANGED <<script, vm>>
  BY <1>4 DEF SetCallback, ClearCallback, Wait, WaitEnds
<1>5. ASSUME Stop(n) \/ Close(n)
      PROVE  ReachesMine(n)
  <2>1. client[n] # None /\ script' = script /\ Command(OnConnection(n), "stopped")
    BY <1>5 DEF Stop, Close
  <2>2. QED
    BY <1>0, <2>1, MineByName, CommandsReachMine
<1>6. ASSUME Run(n)
      PROVE  ReachesMine(n)
  <2> DEFINE rs == {r \in OnConnection(n) : script[r] # None}
  <2>1. client[n] # None /\ script' = script /\ Command(rs, "running")
    BY <1>6 DEF Run
  <2>2. \A r \in rs : r.id \in MyIds(n)
    BY <2>1, MineByName
  <2> HIDE DEF rs
  <2>3. QED
    BY <1>0, <2>1, <2>2, CommandsReachMine
<1>7. ASSUME Pause(n)
      PROVE  ReachesMine(n)
  <2> DEFINE rs == {r \in OnConnection(n) : vm[r] = "running"}
  <2>1. client[n] # None /\ script' = script /\ Command(rs, "paused")
    BY <1>7 DEF Pause
  <2>2. \A r \in rs : r.id \in MyIds(n)
    BY <2>1, MineByName
  <2> HIDE DEF rs
  <2>3. QED
    BY <1>0, <2>1, <2>2, CommandsReachMine
<1>8. QED
  BY <1>1, <1>2, <1>3, <1>4, <1>5, <1>6, <1>7 DEF Quiet

LEMMA ResetReachesMine ==
  ASSUME Types, NEW n \in Nodes, NEW a \in Asks[n], script' = script,
         vm' = vm \/ \E ts : ResetBy(n, a, ts)
  PROVE  ReachesMine(n)
<1>1. CASE vm' = vm
  BY <1>1 DEF ReachesMine
<1>2. ASSUME NEW ts, ResetBy(n, a, ts)
      PROVE  ReachesMine(n)
  <2> DEFINE rs == IF a.id >= 0 THEN Everywhere(ts, a.id) ELSE {}
  <2>1. Command(rs, "stopped")
    BY <1>2 DEF ResetBy
  <2>2. \A r \in rs : r.id \in MyIds(n)
    BY DEF Everywhere, MyIds
  <2> HIDE DEF rs
  <2>3. QED
    BY <2>1, <2>2, CommandsReachMine
<1>3. QED
  BY <1>1, <1>2

LEMMA FoundReachesMine ==
  ASSUME Inv, Separate, NEW n \in Nodes, NEW r \in Remotes, NEW compiles \in BOOLEAN,
         NodeFound(n, r, compiles)
  PROVE  r.id \in MyIds(n) /\ ReachesMine(n) /\ ask[n].start
<1>0. Types /\ CallOK(n)
  BY DEF Inv
<1>1. ask[n] \in Asks[n] /\ Mirrors(n, r.id, compiles) /\ r.id = ask[n].id /\ ask[n].start
  <2>1. ask[n] \in Asks[n]
    BY <1>0, FoundSteps DEF CallOK
  <2>2. ask[n].id > 0 /\ ask[n].start
    BY <2>1 DEF Separate
  <2>3. QED
    BY <1>0, <2>1, <2>2, FoundSteps
<1>2. r.id \in MyIds(n)
  BY <1>1 DEF MyIds
<1>3. CASE compiles
  <2> DEFINE rs == Everywhere(conns[client[n]], r.id)
  <2>1. /\ script' = [s \in Remotes |-> IF s \in rs THEN n ELSE script[s]]
        /\ Command(rs, "running")
    BY <1>1, <1>3 DEF Mirrors
  <2>2. \A s \in rs : s.id \in MyIds(n)
    BY <1>2 DEF Everywhere
  <2> HIDE DEF rs
  <2>3. ReachesMine(n)
    BY <1>0, <2>1, <2>2, CommandsReachMine
  <2>4. QED
    BY <1>1, <1>2, <2>3
<1>4. CASE ~compiles
  BY <1>1, <1>2, <1>4 DEF Mirrors, remote, ReachesMine
<1>5. QED
  BY <1>3, <1>4

(* A step of another node leaves a node that mirrors as it is.             *)
LEMMA OtherMirrors ==
  ASSUME Inv, MirrorInv, Separate, NEW n \in Nodes, NEW m \in Nodes, m # n, ReachesMine(n),
         client'[m] = client[m], shared'[m] = shared[m], conn'[m] = conn[m], id'[m] = id[m],
         mirroring'[m] = mirroring[m], pc'[m] = pc[m], connects'[m] = connects[m]
  PROVE  (~shared[m] /\ IdOK(m) /\ FirstOK(m) /\ TruthOK(m))'
<1>1. ~shared[m] /\ IdOK(m) /\ FirstOK(m) /\ TruthOK(m)
  BY DEF MirrorInv
<1>2. (~shared[m] /\ IdOK(m) /\ FirstOK(m))'
  BY <1>1 DEF IdOK, FirstOK, InConnect
<1>3. Of(m)' = Of(m) /\ InConnect(m)' = InConnect(m)
  BY DEF Of, InConnect
<1>4. ASSUME Of(m) \in Remotes
      PROVE  script'[Of(m)] = script[Of(m)] /\ vm'[Of(m)] = vm[Of(m)]
  <2>1. id[m] # AnyId /\ Of(m).id = id[m]
    BY <1>4, RemoteFacts, OfFacts
  <2>2. PICK b \in Asks[m] : b.id = id[m]
    BY <1>1, <2>1 DEF IdOK
  <2>3. Of(m).id \notin MyIds(n)
    BY <2>1, <2>2 DEF Separate, MyIds
  <2>4. QED
    BY <1>4, <2>3 DEF ReachesMine
<1>5. TruthOK(m)'
  BY <1>1, <1>3, <1>4 DEF TruthOK
<1>6. QED
  BY <1>2, <1>5

LEMMA MirrorKept ==
  ASSUME Inv, MirrorInv, Separate, [Next]_vars, NEW m \in Nodes
  PROVE  (~shared[m] /\ IdOK(m) /\ FirstOK(m) /\ TruthOK(m))'
<1> USE DEF session, mirror, call, network, remote, history, bounds
<1>0. /\ Types /\ CallOK(m) /\ KnownOK
      /\ ~shared[m] /\ IdOK(m) /\ FirstOK(m) /\ TruthOK(m)
  BY DEF Inv, MirrorInv
<1>1. ASSUME NEW n \in Nodes, NEW a \in Asks[n], Connect(n, a) \/ ConnectAsync(n, a)
      PROVE  (~shared[m] /\ IdOK(m) /\ FirstOK(m) /\ TruthOK(m))'
  <2>1. /\ pc[n] = "free"
        /\ UNCHANGED <<conn, id, mirroring, script>>
        /\ shared' = [shared EXCEPT ![n] = shared[n] \/ a.client # None]
        /\ \A k \in Nodes \ {n} : client'[k] = client[k] /\ pc'[k] = pc[k]
        /\ InConnect(n)'
        /\ connects' = [connects EXCEPT ![n] = connects[n] + 1]
        /\ vm' = vm \/ \E ts : ResetBy(n, a, ts)
    <3>1. CASE Connect(n, a)
      BY <1>0, <3>1, ConnectSteps DEF Types
    <3>2. CASE ConnectAsync(n, a)
      BY <1>0, <3>2, ConnectAsyncSteps DEF Types
    <3>3. QED
      BY <1>1, <3>1, <3>2
  <2>2. CASE m # n
    <3>1. ReachesMine(n)
      BY <1>0, <2>1, ResetReachesMine
    <3>2. shared'[m] = shared[m] /\ connects'[m] = connects[m]
      BY <1>0, <2>1, <2>2 DEF Types
    <3>3. QED
      BY <2>1, <2>2, <3>1, <3>2, OtherMirrors
  <2>3. CASE m = n
    <3>1. ~shared'[m]
      BY <1>0, <2>1, <2>3 DEF Separate, Types
    <3>2. IdOK(m)' /\ TruthOK(m)'
      BY <1>0, <2>1, <2>3 DEF IdOK, TruthOK
    <3>3. FirstOK(m)'
      <4>1. connects'[m] = connects[m] + 1 /\ connects[m] \in Nat
        BY <1>0, <2>1, <2>3 DEF Types
      <4>2. connects'[m] # 0 /\ (connects'[m] = 1 => connects[m] = 0)
        BY <4>1
      <4>3. QED
        BY <1>0, <2>1, <4>2 DEF FirstOK
    <3>4. QED
      BY <3>1, <3>2, <3>3
  <2>4. QED
    BY <2>2, <2>3
<1>2. ASSUME NEW n \in Nodes, ConnectionMade(n)
      PROVE  (~shared[m] /\ IdOK(m) /\ FirstOK(m) /\ TruthOK(m))'
  <2>1. /\ InConnect(n) /\ InConnect(n)' /\ (m # n => pc'[m] = pc[m])
        /\ UNCHANGED <<client, shared, conn, id, mirroring, script, connects>>
        /\ \E ts : ResetBy(n, ask[n], ts)
    BY <1>0, <1>2, MadeSteps
  <2>2. CASE m # n
    <3>1. ask[n] \in Asks[n]
      BY <2>1 DEF Inv, CallOK
    <3>2. ReachesMine(n)
      BY <1>0, <2>1, <3>1, ResetReachesMine
    <3>3. QED
      BY <2>1, <2>2, <3>2, OtherMirrors
  <2>3. CASE m = n
    BY <1>0, <2>1, <2>3 DEF IdOK, FirstOK, TruthOK
  <2>4. QED
    BY <2>2, <2>3
<1>3. ASSUME NEW n \in Nodes, ConnectFails(n)
      PROVE  (~shared[m] /\ IdOK(m) /\ FirstOK(m) /\ TruthOK(m))'
  <2>1. /\ InConnect(n) /\ ~shared[n]
        /\ n \in Async \/ client' = [client EXCEPT ![n] = None]
        /\ client' = client \/ client' = [client EXCEPT ![n] = None]
        /\ UNCHANGED <<shared, conn, id, mirroring, script, vm, connects>>
        /\ pc' = [pc EXCEPT ![n] = "free"]
    BY <1>0, <1>3, FailSteps DEF Closes, MirrorInv
  <2>2. CASE m # n
    <3>1. ReachesMine(n)
      BY <2>1 DEF ReachesMine
    <3>2. client'[m] = client[m] /\ pc'[m] = pc[m]
      BY <1>0, <2>1, <2>2 DEF Types
    <3>3. QED
      BY <2>1, <2>2, <3>1, <3>2, OtherMirrors
  <2>3. CASE m = n
    <3>1. client[m] # None /\ pc'[m] = "free"
      BY <1>0, <2>1, <2>3 DEF CallOK, InConnect, Types
    <3>2. FirstOK(m)'
      BY <1>0, <2>1, <3>1 DEF FirstOK, InConnect
    <3>3. CASE m \in Async
      <4>1. connects[m] <= 1 => ~mirroring[m]
        <5>1. connects[m] <= 1 => connects[m] = 0 \/ connects[m] = 1
          BY <1>0 DEF Types
        <5>2. QED
          BY <1>0, <2>1, <2>3, <3>1, <3>3, <5>1 DEF FirstOK
      <4>2. TruthOK(m)'
        BY <2>1, <3>3, <4>1 DEF TruthOK
      <4>3. QED
        BY <1>0, <2>1, <3>2, <4>2 DEF IdOK
    <3>4. CASE m \notin Async
      <4>1. client'[m] = None
        BY <1>0, <2>1, <2>3, <3>4 DEF Types
      <4>2. TruthOK(m)'
        BY <4>1 DEF TruthOK
      <4>3. QED
        BY <1>0, <2>1, <3>2, <4>2 DEF IdOK
    <3>5. QED
      BY <3>3, <3>4
  <2>4. QED
    BY <2>2, <2>3
<1>4. ASSUME NEW n \in Nodes, NEW r \in Remotes, NEW compiles \in BOOLEAN,
             NodeFound(n, r, compiles)
      PROVE  (~shared[m] /\ IdOK(m) /\ FirstOK(m) /\ TruthOK(m))'
  <2>1. /\ InConnect(n) /\ r \in known[client[n]]
        /\ UNCHANGED <<client, shared, conns, known, connects>>
        /\ pc' = [pc EXCEPT ![n] = "free"]
        /\ conn' = [conn EXCEPT ![n] = r.target] /\ id' = [id EXCEPT ![n] = r.id]
        /\ Mirrors(n, r.id, compiles)
    BY <1>0, <1>4, FoundSteps, FoundReachesMine
  <2>2. r.id \in MyIds(n) /\ ReachesMine(n)
    BY <1>4, FoundReachesMine
  <2>3. mirroring' = [mirroring EXCEPT ![n] = compiles]
    BY <2>1 DEF Mirrors
  <2>4. CASE m # n
    <3>1. /\ conn'[m] = conn[m] /\ id'[m] = id[m] /\ pc'[m] = pc[m]
          /\ mirroring'[m] = mirroring[m]
      BY <1>0, <2>1, <2>3, <2>4 DEF Types
    <3>2. QED
      BY <2>1, <2>2, <2>4, <3>1, OtherMirrors
  <2>5. CASE m = n
    <3>1. conn'[m] = r.target /\ id'[m] = r.id /\ pc'[m] = "free"
      BY <1>0, <2>1, <2>5 DEF Types
    <3>2. Of(m)' = r
      BY <3>1, RemoteFacts DEF Of
    <3>3. client[n] \in Clients
      BY <2>1 DEF Inv, Types, CallOK, InConnect
    <3>4. r \in Everywhere(conns[client[n]], r.id)
      BY <1>0, <2>1, <3>3 DEF KnownOK, Everywhere
    <3>5. compiles => script'[r] = n /\ vm'[r] = "running"
      BY <2>1, <3>4 DEF Mirrors, Command
    <3>6. mirroring'[m] => compiles
      BY <1>0, <2>3, <2>5 DEF Types
    <3>7. TruthOK(m)'
      BY <2>5, <3>2, <3>5, <3>6 DEF TruthOK
    <3>8. IdOK(m)'
      BY <2>2, <2>5, <3>1 DEF IdOK, MyIds
    <3>9. FirstOK(m)'
      BY <1>0, <2>1, <2>5, <3>1, <3>3, NoneAssumption DEF FirstOK, InConnect
    <3>10. QED
      BY <1>0, <2>1, <3>7, <3>8, <3>9
  <2>6. QED
    BY <2>4, <2>5
<1>5. ASSUME NEW n \in Nodes, Quiet(n) \/ Close(n)
      PROVE  (~shared[m] /\ IdOK(m) /\ FirstOK(m) /\ TruthOK(m))'
  <2>1. /\ UNCHANGED <<shared, connects>>
        /\ ~InConnect(n) /\ ~InConnect(n)'
        /\ client' = client \/ client' = [client EXCEPT ![n] = None]
        /\ \A k \in Nodes \ {n} : pc'[k] = pc[k] /\ conn'[k] = conn[k] /\ id'[k] = id[k]
        /\ id'[n] \in {id[n], AnyId}
    <3>1. CASE Quiet(n)
      <4>1. UNCHANGED <<shared, connects, client, conn, id>>
        BY <3>1, QuietSteps
      <4>2. ~InConnect(n) /\ ~InConnect(n)' /\ \A k \in Nodes \ {n} : pc'[k] = pc[k]
        <5>1. pc[n] \in {"free", "awaiting"}
          BY <3>1 DEF Quiet, StartMirroring, LoadScript, SetCallback, ClearCallback, Stop, Run,
             Pause, Wait, WaitEnds, Free
        <5>2. QED
          BY <1>0, <3>1, <5>1, QuietSteps DEF InConnect, Types
      <4>3. QED
        BY <4>1, <4>2
    <3>2. CASE Close(n)
      <4>1. client[n] # None
        BY <3>2 DEF Close
      <4>2. QED
        BY <1>0, <3>2, <4>1, CloseSteps DEF Closes, InConnect, Types
    <3>3. QED
      BY <1>5, <3>1, <3>2
  <2>2. mirroring' = mirroring \/ \E b \in BOOLEAN : mirroring' = [mirroring EXCEPT ![n] = b]
    <3>1. ASSUME NEW compiles \in BOOLEAN, StartMirroring(n, compiles)
          PROVE  \E b \in BOOLEAN : mirroring' = [mirroring EXCEPT ![n] = b]
      BY <3>1 DEF StartMirroring, Mirrors
    <3>2. ASSUME LoadScript(n) \/ Stop(n) \/ Close(n)
          PROVE  \E b \in BOOLEAN : mirroring' = [mirroring EXCEPT ![n] = b]
      BY <3>2 DEF LoadScript, Stop, Close
    <3>3. ASSUME SetCallback(n) \/ ClearCallback(n) \/ Run(n) \/ Pause(n) \/ Wait(n) \/ WaitEnds(n)
          PROVE  mirroring' = mirroring
      BY <3>3 DEF SetCallback, ClearCallback, Run, Pause, Wait, WaitEnds
    <3>4. QED
      BY <1>5, <3>1, <3>2, <3>3 DEF Quiet
  <2>3. ReachesMine(n)
    BY <1>5, QuietReachesMine
  <2>4. CASE m # n
    <3>1. client'[m] = client[m] /\ mirroring'[m] = mirroring[m]
      BY <1>0, <2>1, <2>2, <2>4 DEF Types
    <3>2. QED
      BY <2>1, <2>3, <2>4, <3>1, OtherMirrors
  <2>5. CASE m = n
    <3>1. ~shared'[m] /\ IdOK(m)'
      BY <1>0, <2>1, <2>5 DEF IdOK
    <3>2. client'[m] \in {client[m], None} /\ ~InConnect(m) /\ ~InConnect(m)'
      BY <1>0, <2>1, <2>5 DEF Types
    <3>3. ASSUME ~mirroring'[m]
          PROVE  FirstOK(m)' /\ TruthOK(m)'
      BY <1>0, <2>1, <3>2, <3>3 DEF FirstOK, TruthOK
    <3>4. ASSUME NEW compiles \in BOOLEAN, StartMirroring(n, compiles)
          PROVE  FirstOK(m)' /\ TruthOK(m)'
      <4>1. /\ Connected(n) /\ Mirrors(n, id[n], compiles)
            /\ UNCHANGED <<client, conn, id, conns, known>>
        BY <3>4 DEF StartMirroring
      <4>2. Of(n)' = Of(n) /\ Of(n) \in Remotes /\ client[n] \in Clients
        BY <4>1, MineByName DEF Of, Connected, Inv, Types
      <4>3. Of(n) \in Everywhere(conns[client[n]], id[n])
        BY <1>0, <4>1, <4>2, OfFacts DEF Connected, KnownOK, Everywhere
      <4>4. compiles => script'[Of(n)] = n /\ vm'[Of(n)] = "running"
        BY <4>1, <4>2, <4>3 DEF Mirrors, Command
      <4>5. mirroring'[m] => compiles
        BY <1>0, <2>5, <4>1 DEF Mirrors, Types
      <4>6. TruthOK(m)'
        BY <2>5, <4>2, <4>4, <4>5 DEF TruthOK
      <4>7. FirstOK(m)'
        BY <1>0, <2>1, <2>5, <3>2, <4>1 DEF FirstOK, Connected
      <4>8. QED
        BY <4>6, <4>7
    <3>5. ASSUME LoadScript(n) \/ Stop(n) \/ Close(n)
          PROVE  ~mirroring'[m]
      BY <1>0, <2>5, <3>5 DEF LoadScript, Stop, Close, Types
    <3>6. ASSUME SetCallback(n) \/ ClearCallback(n) \/ Run(n) \/ Pause(n) \/ Wait(n) \/ WaitEnds(n)
          PROVE  FirstOK(m)' /\ TruthOK(m)'
      <4>1. UNCHANGED <<client, conn, id, mirroring, script, connects>>
        BY <3>6 DEF SetCallback, ClearCallback, Run, Pause, Wait, WaitEnds
      <4>2. \A r \in Remotes : vm[r] # "stopped" => vm'[r] # "stopped"
        <5>1. CASE SetCallback(n) \/ ClearCallback(n) \/ Wait(n) \/ WaitEnds(n)
          BY <5>1 DEF SetCallback, ClearCallback, Wait, WaitEnds
        <5>2. CASE Run(n) \/ Pause(n)
          BY <5>2 DEF Run, Pause, Command
        <5>3. QED
          BY <3>6, <5>1, <5>2
      <4>3. Of(m)' = Of(m)
        BY <4>1 DEF Of
      <4>4. FirstOK(m)'
        BY <1>0, <3>2, <4>1 DEF FirstOK
      <4>5. TruthOK(m)'
        BY <1>0, <3>2, <4>1, <4>2, <4>3 DEF TruthOK
      <4>6. QED
        BY <4>4, <4>5
    <3>7. FirstOK(m)' /\ TruthOK(m)'
      BY <1>5, <3>3, <3>4, <3>5, <3>6 DEF Quiet
    <3>8. QED
      BY <3>1, <3>7
  <2>6. QED
    BY <2>4, <2>5
<1>6. CASE UNCHANGED <<client, shared, conn, id, mirroring, pc, script, vm, connects>>
  <2>1. Of(m)' = Of(m) /\ InConnect(m)' = InConnect(m)
    BY <1>6 DEF Of, InConnect
  <2>2. QED
    BY <1>0, <1>6, <2>1 DEF IdOK, FirstOK, TruthOK
<1>7. QED
  BY <1>1, <1>2, <1>3, <1>4, <1>5, <1>6, StepsAre, OthersQuiet

(* Nodes with clients and ids of their own, which mirror from the          *)
(* beginning, have their scripts in their remote nodes as long as they say *)
(* that they mirror, whatever the others do, fail to do or lose (node.py   *)
(* 534, 605).                                                              *)
THEOREM MirroringIsKept == ASSUME Separate PROVE Spec => []MirroringIsTrue
<1>1. Init => MirrorInv
  BY DEF Init, MirrorInv, IdOK, FirstOK, TruthOK
<1>2. ASSUME Inv, MirrorInv, [Next]_vars
      PROVE  MirrorInv'
  BY <1>2, MirrorKept DEF MirrorInv
<1>3. ASSUME MirrorInv
      PROVE  MirroringIsTrue
  BY <1>3 DEF MirrorInv, TruthOK, MirroringIsTrue, MirrorsTruly, InConnect, Connected
<1>4. QED
  BY <1>1, <1>2, <1>3, Invariance, PTL DEF Spec

-----------------------------------------------------------------------------
(* Types of the rest                                                       *)

Rest ==
  /\ target \in [Nodes -> Targets \cup {None}]
  /\ \A n \in Nodes : ask[n] \in Asks[n] \cup {None}
  /\ include \in [Nodes -> SUBSET Targets]
  /\ wanted \subseteq Nodes /\ leaked \subseteq Nodes /\ reached \in [Nodes -> SUBSET Remotes]
  /\ connects \in [Nodes -> 0..MaxConnects] /\ drops \in 0..MaxDrops

LEMMA RestKept ==
  ASSUME Inv, Rest, [Next]_vars
  PROVE  Rest'
<1> USE BoundsAssumption DEF Rest, session, mirror, call, network, remote, history, bounds
<1>0. Types /\ \A n \in Nodes : CallOK(n)
  BY DEF Inv
<1>1. ASSUME NEW n \in Nodes, NEW rs \in SUBSET Remotes, Reaches(n, rs)
      PROVE  reached' \in [Nodes -> SUBSET Remotes]
  BY <1>1 DEF Reaches
<1>2. ASSUME NEW n \in Nodes, NEW a \in Asks[n], NEW ts, ResetBy(n, a, ts)
      PROVE  reached' \in [Nodes -> SUBSET Remotes]
  <2> DEFINE rs == IF a.id >= 0 THEN Everywhere(ts, a.id) ELSE {}
  <2>1. rs \in SUBSET Remotes /\ Reaches(n, rs)
    BY <1>2 DEF ResetBy, Everywhere
  <2> HIDE DEF rs
  <2>2. QED
    BY <1>1, <2>1
<1>3. ASSUME NEW n \in Nodes, connects[n] < MaxConnects,
             connects' = [connects EXCEPT ![n] = connects[n] + 1]
      PROVE  connects' \in [Nodes -> 0..MaxConnects]
  BY <1>3
<1>4. ASSUME NEW n \in Nodes, NEW a \in Asks[n], Connect(n, a)
      PROVE  Rest'
  <2> DEFINE c == IF client[n] # None THEN client[n]
                  ELSE IF a.client # None THEN a.client ELSE Own[n]
  <2>1. c \in Clients
    BY <1>0, AskFacts DEF Types
  <2>2. /\ UNCHANGED <<target, wanted, leaked, drops>> /\ ask' = [ask EXCEPT ![n] = a]
        /\ connects[n] < MaxConnects /\ connects' = [connects EXCEPT ![n] = connects[n] + 1]
        /\ include' = [include EXCEPT ![n] = {t \in conns[c] : Compatible(a.target, t)}]
        /\ reached' = reached \/ ResetBy(n, a, conns[c])
    BY <1>4 DEF Connect
  <2> HIDE DEF c
  <2>3. include' \in [Nodes -> SUBSET Targets]
    BY <1>0, <2>1, <2>2 DEF Types
  <2>4. \A m \in Nodes : ask'[m] \in Asks[m] \cup {None}
    BY <1>0, <2>2 DEF Types
  <2>5. QED
    BY <1>2, <1>3, <2>2, <2>3, <2>4
<1>5. ASSUME NEW n \in Nodes, NEW a \in Asks[n], ConnectAsync(n, a)
      PROVE  Rest'
  <2>1. /\ UNCHANGED <<target, wanted, drops>> /\ ask' = [ask EXCEPT ![n] = a]
        /\ connects[n] < MaxConnects /\ connects' = [connects EXCEPT ![n] = connects[n] + 1]
        /\ include' = [include EXCEPT ![n] = {}]
        /\ leaked' \in {leaked, leaked \cup {n}}
        /\ reached' = reached \/ \E ts : ResetBy(n, a, ts)
    BY <1>5 DEF ConnectAsync
  <2>2. \A m \in Nodes : ask'[m] \in Asks[m] \cup {None}
    BY <1>0, <2>1 DEF Types
  <2>3. QED
    BY <1>2, <1>3, <2>1, <2>2
<1>6. ASSUME NEW n \in Nodes, ConnectionMade(n)
      PROVE  Rest'
  <2>1. /\ UNCHANGED <<target, ask, include, wanted, leaked, connects, drops>>
        /\ \E ts : ResetBy(n, ask[n], ts)
    BY <1>6 DEF ConnectionMade
  <2>2. ask[n] \in Asks[n]
    BY <1>0, <1>6, MadeSteps DEF CallOK
  <2>3. QED
    BY <1>2, <2>1, <2>2
<1>7. ASSUME NEW n \in Nodes, ConnectFails(n)
      PROVE  Rest'
  BY <1>0, <1>7 DEF ConnectFails, Types
<1>8. ASSUME NEW n \in Nodes, NEW i, NEW compiles, Mirrors(n, i, compiles)
      PROVE  reached' \in [Nodes -> SUBSET Remotes]
  <2> DEFINE rs == Everywhere(conns[client[n]], i)
  <2>1. rs \in SUBSET Remotes /\ (Reaches(n, rs) \/ reached' = reached)
    BY <1>8 DEF Mirrors, Everywhere
  <2> HIDE DEF rs
  <2>2. QED
    BY <1>1, <2>1
<1>9. ASSUME NEW n \in Nodes, NEW r \in Remotes, NEW compiles \in BOOLEAN,
             NodeFound(n, r, compiles)
      PROVE  Rest'
  <2>1. /\ UNCHANGED <<wanted, leaked, connects, drops>>
        /\ target' = [target EXCEPT ![n] = ask[n].target]
        /\ ask' = [ask EXCEPT ![n] = None] /\ include' = [include EXCEPT ![n] = {}]
        /\ Mirrors(n, r.id, compiles) \/ reached' = reached
    BY <1>9 DEF NodeFound
  <2>2. ask[n].target \in Targets
    BY <1>0, <1>9, FoundSteps, AskFacts DEF CallOK
  <2>3. \A m \in Nodes : ask'[m] \in Asks[m] \cup {None}
    BY <1>0, <2>1 DEF Types
  <2>4. QED
    BY <1>8, <2>1, <2>2, <2>3
<1>10. ASSUME NEW n \in Nodes, NEW compiles \in BOOLEAN, StartMirroring(n, compiles)
       PROVE  Rest'
  BY <1>8, <1>10 DEF StartMirroring
<1>11. \A n \in Nodes : OnConnection(n) \in SUBSET Remotes
  BY DEF OnConnection
<1>12. ASSUME NEW n \in Nodes, LoadScript(n)
       PROVE  Rest'
  <2> DEFINE rs == Everywhere(conns[client[n]], id[n])
  <2>1. rs \in SUBSET Remotes /\ Reaches(n, rs)
    BY <1>12 DEF LoadScript, Everywhere
  <2>2. UNCHANGED <<target, ask, include, wanted, leaked, connects, drops>>
    BY <1>12 DEF LoadScript
  <2> HIDE DEF rs
  <2>3. QED
    BY <1>1, <2>1, <2>2
<1>13. ASSUME NEW n \in Nodes, SetCallback(n) \/ ClearCallback(n)
       PROVE  Rest'
  BY <1>13 DEF SetCallback, ClearCallback
<1>14. ASSUME NEW n \in Nodes, Stop(n) \/ Run(n) \/ Pause(n)
       PROVE  Rest'
  <2>1. /\ UNCHANGED <<target, ask, include, wanted, leaked, connects, drops>>
        /\ Reaches(n, OnConnection(n))
    BY <1>14 DEF Stop, Run, Pause
  <2>2. QED
    BY <1>1, <1>11, <2>1
<1>15. ASSUME NEW n \in Nodes, Close(n)
       PROVE  Rest'
  <2>1. /\ UNCHANGED <<ask, include, wanted, leaked, connects, drops>>
        /\ target' \in {target, [target EXCEPT ![n] = None]}
        /\ Reaches(n, OnConnection(n))
    BY <1>15 DEF Close
  <2>2. QED
    BY <1>1, <1>11, <2>1
<1>16. ASSUME NEW n \in Nodes, Wait(n) \/ WaitEnds(n)
       PROVE  Rest'
  BY <1>16 DEF Wait, WaitEnds
<1>17. ASSUME NEW c \in Clients, NEW r \in Remotes, Discover(c, r)
       PROVE  Rest'
  BY <1>17 DEF Discover
<1>18. ASSUME NEW c \in Clients, NEW t \in Targets, Drop(c, t)
       PROVE  Rest'
  BY <1>18 DEF Drop
<1>19. CASE UNCHANGED vars
  BY <1>19 DEF vars
<1>20. QED
  BY <1>4, <1>5, <1>6, <1>7, <1>9, <1>10, <1>12, <1>13, <1>14, <1>15, <1>16, <1>17, <1>18, <1>19
     DEF Next, Connecting, Using

(* Type correctness: nodes in a call of connect have a client and one of   *)
(* the arguments they may be given, and clients know remote nodes of their *)
(* connections only, for any number of each.                               *)
THEOREM NodeSessionTypes == Spec => []TypeOK
<1>1. Init => Rest
  BY BoundsAssumption DEF Init, Rest
<1>2. Inv /\ Rest => TypeOK
  BY DEF Inv, Rest, Types, KnownOK, CallOK, TypeOK
<1>3. QED
  BY <1>1, <1>2, RestKept, Invariance, PTL DEF Spec
=============================================================================
