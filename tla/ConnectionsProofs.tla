-------------------------- MODULE ConnectionsProofs --------------------------
(***************************************************************************)
(* Proofs about Connections, for any number of streams and of names.       *)
(***************************************************************************)
EXTENDS Connections, FiniteSetTheorems, TLAPS

(* The tables of the manager: types, and the two properties about them.    *)
Counted ==
  \A n \in DOMAIN nameIndex : nameIndex[n] \in 1..Cardinality(DOMAIN nameIndex)

ManagerOK ==
  /\ data \subseteq used /\ used \subseteq Streams
  /\ index \in [data -> Nat]
  /\ DOMAIN nameIndex \subseteq Names
  /\ Counted /\ LookupIsSound /\ OneIndexPerName

(* The threads: types, and where the hub and the user can be together.     *)
TargetOK ==
  /\ target.stream \in used \cup {NoStream}
  /\ target.index \in {0} \cup Indices

UserOK ==
  /\ ctl \in CtlPlaces
  /\ call \in {"none", "_connect", "connect", "close", "closeAll", "stop"}
  /\ (ctl = "idle" <=> call = "none")
  /\ pingMs \in BOOLEAN /\ pinger \in {"none", "on", "ended"}
  /\ asked \in BOOLEAN /\ wanted \in BOOLEAN

HubOK ==
  /\ hub \in HubPlaces /\ stopped \in BOOLEAN
  /\ ctl \in {"start", "joinPing", "joinHub"} => stopped
  /\ ctl \notin {"joinPing", "joinHub"} => (stopped <=> hub = "none")

StreamsOK ==
  /\ closing \subseteq used /\ todo \subseteq used /\ reported \subseteq used
  /\ victim \in used \cup {NoStream}
  /\ (victim = NoStream <=> hub \notin {"report", "forget"})
  /\ ClosesOpenStreams

-----------------------------------------------------------------------------
(* An index stands for a target and there are no more than names.          *)
LEMMA IndicesAreIndices ==
  ASSUME ManagerOK
  PROVE  /\ IsFiniteSet(DOMAIN nameIndex)
         /\ Cardinality(DOMAIN nameIndex) \in Nat
         /\ Cardinality(Names) \in Nat
         /\ \A n \in DOMAIN nameIndex : nameIndex[n] \in Indices
         /\ \A s \in data : index[s] \in Indices
<1> USE DEF ManagerOK
<1>1. DOMAIN nameIndex \in SUBSET Names
  OBVIOUS
<1>2. /\ IsFiniteSet(DOMAIN nameIndex)
      /\ Cardinality(DOMAIN nameIndex) <= Cardinality(Names)
  BY <1>1, FS_Subset, NamesAssumption
<1>3. Cardinality(DOMAIN nameIndex) \in Nat /\ Cardinality(Names) \in Nat
  BY <1>2, FS_CardinalityType, NamesAssumption
<1>4. \A n \in DOMAIN nameIndex : nameIndex[n] \in Indices
  BY <1>2, <1>3 DEF Counted, Indices
<1>5. \A s \in data : index[s] \in Indices
  BY <1>4 DEF OneIndexPerName
<1>6. QED
  BY <1>2, <1>3, <1>4, <1>5

(* Opening a stream keeps the tables sound: a known target keeps its index *)
(* and a new one gets an index above all others.                           *)
LEMMA OpenKeeps ==
  ASSUME ManagerOK, NEW s \in Streams, Open(s)
  PROVE  ManagerOK'
<1> USE DEF ManagerOK
<1> DEFINE n == NameOf[s]
           k == Cardinality(DOMAIN nameIndex)
           i == IF n \in DOMAIN nameIndex THEN nameIndex[n] ELSE k + 1
<1>0. /\ used' = used \cup {s} /\ data' = data \cup {s} /\ s \notin used
      /\ nameIndex' = [m \in DOMAIN nameIndex \cup {n} |->
                         IF m = n THEN i ELSE nameIndex[m]]
      /\ index' = [t \in data \cup {s} |-> IF t = s THEN i ELSE index[t]]
      /\ byIndex' = [j \in DOMAIN byIndex \cup {i} |->
                       IF j \in DOMAIN byIndex THEN byIndex[j] ELSE s]
  BY DEF Open, Add
<1>1. n \in Names
  BY NameOfAssumption
<1>2. k \in Nat /\ IsFiniteSet(DOMAIN nameIndex)
  BY IndicesAreIndices
<1>3. /\ Cardinality(DOMAIN nameIndex') \in Nat
      /\ k <= Cardinality(DOMAIN nameIndex')
      /\ n \notin DOMAIN nameIndex => Cardinality(DOMAIN nameIndex') = k + 1
  <2>1. DOMAIN nameIndex' = DOMAIN nameIndex \cup {n}
    BY <1>0
  <2>2. Cardinality(DOMAIN nameIndex \cup {n}) =
          IF n \in DOMAIN nameIndex THEN k ELSE k + 1
    BY <1>2, FS_AddElement
  <2>3. QED
    BY <2>1, <2>2, <1>2
<1>4. \A m \in DOMAIN nameIndex : nameIndex[m] \in 1..k
  BY DEF Counted
<1>5. i \in Nat /\ i \in 1..Cardinality(DOMAIN nameIndex')
  BY <1>2, <1>3, <1>4
<1>6. data' \subseteq used' /\ used' \subseteq Streams /\ index' \in [data' -> Nat]
  BY <1>0, <1>5
<1>7. DOMAIN nameIndex' \subseteq Names
  BY <1>0, <1>1
<1>8. Counted'
  BY <1>0, <1>2, <1>3, <1>4, <1>5 DEF Counted
<1>9. \A m \in DOMAIN nameIndex : nameIndex'[m] = nameIndex[m]
  BY <1>0
<1>10. LookupIsSound'
  BY <1>0 DEF LookupIsSound
<1>11. OneIndexPerName'
  <2>1. ASSUME NEW t \in DOMAIN index'
        PROVE  NameOf[t] \in DOMAIN nameIndex' /\ nameIndex'[NameOf[t]] = index'[t]
    <3>1. CASE t = s
      BY <3>1, <1>0
    <3>2. CASE t # s
      BY <3>2, <1>0, <1>9 DEF OneIndexPerName
    <3>3. QED
      BY <3>1, <3>2
  <2>2. ASSUME NEW a \in DOMAIN nameIndex', NEW b \in DOMAIN nameIndex',
               nameIndex'[a] = nameIndex'[b]
        PROVE  a = b
    <3>1. CASE n \in DOMAIN nameIndex
      BY <3>1, <2>2, <1>0, <1>9 DEF OneIndexPerName, IsInjective
    <3>2. CASE n \notin DOMAIN nameIndex
      <4>1. \A m \in DOMAIN nameIndex : nameIndex'[m] # nameIndex'[n]
        BY <3>2, <1>0, <1>2, <1>4, <1>9
      <4>2. QED
        BY <4>1, <2>2, <1>0, <1>9 DEF OneIndexPerName, IsInjective
    <3>3. QED
      BY <3>1, <3>2
  <2>3. QED
    BY <2>1, <2>2 DEF OneIndexPerName, IsInjective
<1>12. QED
  BY <1>6, <1>7, <1>8, <1>10, <1>11

(* Forgetting a stream erases its index from the lookup, and no other.     *)
LEMMA RemoveKeeps ==
  ASSUME ManagerOK, NEW s \in data, Remove(s), data' = data \ {s}, UNCHANGED used
  PROVE  ManagerOK'
<1> USE DEF ManagerOK
<1>1. /\ byIndex' = [j \in DOMAIN byIndex \ {index[s]} |-> byIndex[j]]
      /\ index' = [t \in data \ {s} |-> index[t]]
      /\ nameIndex' = nameIndex
  BY DEF Remove, Restrict
<1>2. index' \in [data' -> Nat]
  BY <1>1
<1>3. LookupIsSound'
  BY <1>1 DEF LookupIsSound
<1>4. OneIndexPerName' /\ Counted'
  BY <1>1 DEF OneIndexPerName, Counted, IsInjective
<1>5. QED
  BY <1>1, <1>2, <1>3, <1>4

(* Closing all the streams empties the lookup, which held nothing else.    *)
LEMMA CloseAllKeeps ==
  ASSUME ManagerOK, data' = {}, index' = Restrict(index, {}), UNCHANGED nameIndex,
         byIndex' = Restrict(byIndex, DOMAIN byIndex \ Range(index)), UNCHANGED used
  PROVE  ManagerOK'
<1> USE DEF ManagerOK
<1>1. DOMAIN byIndex' = {}
  BY DEF LookupIsSound, Restrict, Range
<1>2. index' \in [data' -> Nat] /\ DOMAIN index' = {}
  BY DEF Restrict
<1>3. LookupIsSound' /\ OneIndexPerName' /\ Counted'
  BY <1>1, <1>2 DEF LookupIsSound, OneIndexPerName, Counted, IsInjective
<1>4. QED
  BY <1>2, <1>3

-----------------------------------------------------------------------------
(* The manager changes when a stream opens, when the hub forgets one and   *)
(* when the user closes all of them.                                       *)
LEMMA ManagerStep ==
  ASSUME ManagerOK, StreamsOK, [Next]_vars
  PROVE  ManagerOK'
<1>1. ASSUME NEW s \in Streams, Open(s)
      PROVE  ManagerOK'
  BY <1>1, OpenKeeps
<1>2. CASE HubForget
  <2>1. victim \in data
    BY <1>2 DEF HubForget, StreamsOK, ClosesOpenStreams
  <2>2. QED
    BY <1>2, <2>1, RemoveKeeps DEF HubForget, history
<1>3. CASE JoinHub
  <2>1. CASE call = "closeAll"
    BY <1>3, <2>1, CloseAllKeeps DEF JoinHub, history
  <2>2. CASE call # "closeAll"
    BY <1>3, <2>2 DEF JoinHub, history, manager, ManagerOK, Counted, LookupIsSound,
                      OneIndexPerName
  <2>3. QED
    BY <2>1, <2>2
<1>4. CASE UNCHANGED <<data, index, byIndex, nameIndex, used>>
  BY <1>4 DEF ManagerOK, Counted, LookupIsSound, OneIndexPerName
<1>5. CASE Calls
  <2>1. ASSUME NEW s \in Streams, NEW starting \in BOOLEAN, Connect(s, starting)
        PROVE  ManagerOK'
    BY <2>1, <1>1 DEF Connect
  <2>2. ASSUME NEW what \in {"_connect", "connect"}, ConnectFails(what)
        PROVE  ManagerOK'
    BY <2>2, <1>4 DEF ConnectFails, manager, history
  <2>3. CASE Start
    BY <2>3, <1>4 DEF Start, manager
  <2>4. ASSUME NEW value \in BOOLEAN, SetPing(value)
        PROVE  ManagerOK'
    BY <2>4, <1>4 DEF SetPing, manager
  <2>5. ASSUME NEW what \in {"stop", "closeAll"}, Stop(what)
        PROVE  ManagerOK'
    BY <2>5, <1>4 DEF Stop, manager
  <2>6. ASSUME NEW i \in Indices, Close(i)
        PROVE  ManagerOK'
    BY <2>6, <1>4 DEF Close, manager, history
  <2>7. QED
    BY <1>5, <2>1, <2>2, <2>3, <2>4, <2>5, <2>6 DEF Calls
<1>6. CASE CallStep
  <2>1. CASE ConnectFailed \/ CloseDecide \/ CloseWait \/ CloseTimeout \/ CloseAnswer
    BY <2>1, <1>4 DEF ConnectFailed, CloseDecide, CloseWait, CloseTimeout, CloseAnswer,
                      manager, history
  <2>2. CASE StopFlag \/ JoinPing
    BY <2>2, <1>4 DEF StopFlag, JoinPing, manager, history
  <2>3. QED
    BY <1>3, <1>6, <2>1, <2>2 DEF CallStep
<1>7. CASE Ping
  BY <1>7, <1>4 DEF Ping, manager, history
<1>8. CASE HubStep
  <2>1. CASE HubTest \/ HubStops \/ HubCollect
    BY <2>1, <1>4 DEF HubTest, HubStops, HubCollect, manager, history
  <2>2. CASE HubClose \/ HubClear \/ HubReport
    BY <2>2, <1>4 DEF HubClose, HubClear, HubReport, manager, history
  <2>3. QED
    BY <1>2, <1>8, <2>1, <2>2 DEF HubStep
<1>9. CASE Peers
  <2>1. ASSUME NEW s \in Streams, HubAccept(s)
        PROVE  ManagerOK'
    BY <2>1, <1>1 DEF HubAccept
  <2>2. ASSUME NEW s \in Streams, HubPeerCloses(s)
        PROVE  ManagerOK'
    BY <2>2, <1>4 DEF HubPeerCloses, manager, history
  <2>3. QED
    BY <1>9, <2>1, <2>2 DEF Peers
<1>10. CASE UNCHANGED vars
  BY <1>10, <1>4 DEF vars
<1>11. QED
  BY <1>5, <1>6, <1>7, <1>8, <1>9, <1>10 DEF Next

(* The user thread and the ping thread are where they can be. *)
LEMMA UserStep ==
  ASSUME UserOK, [Next]_vars
  PROVE  UserOK'
<1> USE DEF UserOK, CtlPlaces
<1>1. CASE Calls
  <2>1. CASE \E s \in Streams, starting \in BOOLEAN : Connect(s, starting)
    BY <2>1 DEF Connect, Open, hubVars, pingVars, user, history
  <2>2. CASE \E what \in {"_connect", "connect"} : ConnectFails(what)
    BY <2>2 DEF ConnectFails, hubVars, pingVars, user, history
  <2>3. CASE Start
    BY <2>3 DEF Start, StartThreads, hubVars, pingVars, user, history
  <2>4. CASE \E value \in BOOLEAN : SetPing(value)
    BY <2>4 DEF SetPing, hubVars, pingVars, user, history
  <2>5. CASE \E what \in {"stop", "closeAll"} : Stop(what)
    BY <2>5 DEF Stop, hubVars, pingVars, user, history
  <2>6. CASE \E i \in Indices : Close(i)
    BY <2>6 DEF Close, hubVars, pingVars, user, history
  <2>7. QED
    BY <1>1, <2>1, <2>2, <2>3, <2>4, <2>5, <2>6 DEF Calls
<1>2. CASE CallStep
  <2>1. CASE ConnectFailed
    BY <2>1 DEF ConnectFailed, hubVars, pingVars, user, history
  <2>2. CASE CloseDecide
    BY <2>2 DEF CloseDecide, hubVars, pingVars, user, history
  <2>3. CASE CloseWait
    BY <2>3 DEF CloseWait, hubVars, pingVars, user, history
  <2>4. CASE CloseTimeout
    BY <2>4 DEF CloseTimeout, hubVars, pingVars, user, history
  <2>5. CASE CloseAnswer
    BY <2>5 DEF CloseAnswer, hubVars, pingVars, user, history
  <2>6. CASE StopFlag
    BY <2>6 DEF StopFlag, hubVars, pingVars, user, history
  <2>7. CASE JoinPing
    BY <2>7 DEF JoinPing, hubVars, pingVars, user, history
  <2>8. CASE JoinHub
    BY <2>8 DEF JoinHub, hubVars, pingVars, user, history
  <2>9. QED
    BY <1>2, <2>1, <2>2, <2>3, <2>4, <2>5, <2>6, <2>7, <2>8 DEF CallStep
<1>3. CASE HubStep
  <2>1. CASE HubTest
    BY <2>1 DEF HubTest, hubVars, pingVars, user, history
  <2>2. CASE HubStops
    BY <2>2 DEF HubStops, hubVars, pingVars, user, history
  <2>3. CASE HubCollect
    BY <2>3 DEF HubCollect, hubVars, pingVars, user, history
  <2>4. CASE HubClose
    BY <2>4 DEF HubClose, hubVars, pingVars, user, history
  <2>5. CASE HubClear
    BY <2>5 DEF HubClear, hubVars, pingVars, user, history
  <2>6. CASE HubReport
    BY <2>6 DEF HubReport, hubVars, pingVars, user, history
  <2>7. CASE HubForget
    BY <2>7 DEF HubForget, hubVars, pingVars, user, history
  <2>8. QED
    BY <1>3, <2>1, <2>2, <2>3, <2>4, <2>5, <2>6, <2>7 DEF HubStep
<1>4. CASE Ping
  BY <1>4 DEF Ping, hubVars, pingVars, user, history
<1>5. CASE Peers
  <2>1. CASE \E s \in Streams : HubAccept(s)
    BY <2>1 DEF HubAccept, Open, hubVars, pingVars, user, history
  <2>2. CASE \E s \in Streams : HubPeerCloses(s)
    BY <2>2 DEF HubPeerCloses, hubVars, pingVars, user, history
  <2>3. QED
    BY <1>5, <2>1, <2>2 DEF Peers
<1>6. CASE UNCHANGED vars
  BY <1>6 DEF vars
<1>7. QED
  BY <1>1, <1>2, <1>3, <1>4, <1>5, <1>6 DEF Next

(* Hub and user: a hub thread runs unless stopped. *)
LEMMA HubOKStep ==
  ASSUME HubOK, UserOK, [Next]_vars
  PROVE  HubOK'
<1> USE DEF HubOK, UserOK, CtlPlaces, HubPlaces, Alive
<1>1. CASE Calls
  <2>1. CASE \E s \in Streams, starting \in BOOLEAN : Connect(s, starting)
    BY <2>1 DEF Connect, Open, hubVars, pingVars, user, history
  <2>2. CASE \E what \in {"_connect", "connect"} : ConnectFails(what)
    BY <2>2 DEF ConnectFails, hubVars, pingVars, user, history
  <2>3. CASE Start
    BY <2>3 DEF Start, StartThreads, hubVars, pingVars, user, history
  <2>4. CASE \E value \in BOOLEAN : SetPing(value)
    BY <2>4 DEF SetPing, hubVars, pingVars, user, history
  <2>5. CASE \E what \in {"stop", "closeAll"} : Stop(what)
    BY <2>5 DEF Stop, hubVars, pingVars, user, history
  <2>6. CASE \E i \in Indices : Close(i)
    BY <2>6 DEF Close, hubVars, pingVars, user, history
  <2>7. QED
    BY <1>1, <2>1, <2>2, <2>3, <2>4, <2>5, <2>6 DEF Calls
<1>2. CASE CallStep
  <2>1. CASE ConnectFailed
    BY <2>1 DEF ConnectFailed, hubVars, pingVars, user, history
  <2>2. CASE CloseDecide
    BY <2>2 DEF CloseDecide, hubVars, pingVars, user, history
  <2>3. CASE CloseWait
    BY <2>3 DEF CloseWait, hubVars, pingVars, user, history
  <2>4. CASE CloseTimeout
    BY <2>4 DEF CloseTimeout, hubVars, pingVars, user, history
  <2>5. CASE CloseAnswer
    BY <2>5 DEF CloseAnswer, hubVars, pingVars, user, history
  <2>6. CASE StopFlag
    BY <2>6 DEF StopFlag, hubVars, pingVars, user, history
  <2>7. CASE JoinPing
    BY <2>7 DEF JoinPing, hubVars, pingVars, user, history
  <2>8. CASE JoinHub
    BY <2>8 DEF JoinHub, hubVars, pingVars, user, history
  <2>9. QED
    BY <1>2, <2>1, <2>2, <2>3, <2>4, <2>5, <2>6, <2>7, <2>8 DEF CallStep
<1>3. CASE HubStep
  <2>1. CASE HubTest
    BY <2>1 DEF HubTest, hubVars, pingVars, user, history
  <2>2. CASE HubStops
    BY <2>2 DEF HubStops, hubVars, pingVars, user, history
  <2>3. CASE HubCollect
    BY <2>3 DEF HubCollect, hubVars, pingVars, user, history
  <2>4. CASE HubClose
    BY <2>4 DEF HubClose, hubVars, pingVars, user, history
  <2>5. CASE HubClear
    BY <2>5 DEF HubClear, hubVars, pingVars, user, history
  <2>6. CASE HubReport
    BY <2>6 DEF HubReport, hubVars, pingVars, user, history
  <2>7. CASE HubForget
    BY <2>7 DEF HubForget, hubVars, pingVars, user, history
  <2>8. QED
    BY <1>3, <2>1, <2>2, <2>3, <2>4, <2>5, <2>6, <2>7 DEF HubStep
<1>4. CASE Ping
  BY <1>4 DEF Ping, hubVars, pingVars, user, history
<1>5. CASE Peers
  <2>1. CASE \E s \in Streams : HubAccept(s)
    BY <2>1 DEF HubAccept, Open, hubVars, pingVars, user, history
  <2>2. CASE \E s \in Streams : HubPeerCloses(s)
    BY <2>2 DEF HubPeerCloses, hubVars, pingVars, user, history
  <2>3. QED
    BY <1>5, <2>1, <2>2 DEF Peers
<1>6. CASE UNCHANGED vars
  BY <1>6 DEF vars
<1>7. QED
  BY <1>1, <1>2, <1>3, <1>4, <1>5, <1>6 DEF Next

(* What the hub reports is open, until it forgets it itself. *)
LEMMA StreamsStep ==
  ASSUME ManagerOK, HubOK, UserOK, StreamsOK, [Next]_vars
  PROVE  StreamsOK'
<1> USE DEF StreamsOK, ClosesOpenStreams, ManagerOK, HubOK, HubPlaces, LookupIsSound
<1>1. CASE Calls
  <2>1. CASE \E s \in Streams, starting \in BOOLEAN : Connect(s, starting)
    BY <2>1 DEF Connect, Open, hubVars, pingVars, user, history
  <2>2. CASE \E what \in {"_connect", "connect"} : ConnectFails(what)
    BY <2>2 DEF ConnectFails, hubVars, pingVars, user, history
  <2>3. CASE Start
    BY <2>3 DEF Start, StartThreads, hubVars, pingVars, user, history
  <2>4. CASE \E value \in BOOLEAN : SetPing(value)
    BY <2>4 DEF SetPing, hubVars, pingVars, user, history
  <2>5. CASE \E what \in {"stop", "closeAll"} : Stop(what)
    BY <2>5 DEF Stop, hubVars, pingVars, user, history
  <2>6. CASE \E i \in Indices : Close(i)
    BY <2>6 DEF Close, hubVars, pingVars, user, history
  <2>7. QED
    BY <1>1, <2>1, <2>2, <2>3, <2>4, <2>5, <2>6 DEF Calls
<1>2. CASE CallStep
  <2>1. CASE ConnectFailed
    BY <2>1 DEF ConnectFailed, hubVars, pingVars, user, history
  <2>2. CASE CloseDecide
    BY <2>2 DEF CloseDecide, hubVars, pingVars, user, history
  <2>3. CASE CloseWait
    BY <2>3 DEF CloseWait, hubVars, pingVars, user, history
  <2>4. CASE CloseTimeout
    BY <2>4 DEF CloseTimeout, hubVars, pingVars, user, history
  <2>5. CASE CloseAnswer
    BY <2>5 DEF CloseAnswer, hubVars, pingVars, user, history
  <2>6. CASE StopFlag
    BY <2>6 DEF StopFlag, hubVars, pingVars, user, history
  <2>7. CASE JoinPing
    BY <2>7 DEF JoinPing, hubVars, pingVars, user, history
  <2>8. CASE JoinHub
    BY <2>8 DEF JoinHub, Alive, hubVars, pingVars, user, history
  <2>9. QED
    BY <1>2, <2>1, <2>2, <2>3, <2>4, <2>5, <2>6, <2>7, <2>8 DEF CallStep
<1>3. CASE HubStep
  <2>1. CASE HubTest
    BY <2>1 DEF HubTest, hubVars, pingVars, user, history
  <2>2. CASE HubStops
    BY <2>2 DEF HubStops, hubVars, pingVars, user, history
  <2>3. CASE HubCollect
    BY <2>3 DEF HubCollect, hubVars, pingVars, user, history
  <2>4. CASE HubClose
    BY <2>4, NoStreamAssumption DEF HubClose, hubVars, pingVars, user, history
  <2>5. CASE HubClear
    BY <2>5 DEF HubClear, hubVars, pingVars, user, history
  <2>6. CASE HubReport
    BY <2>6 DEF HubReport, hubVars, pingVars, user, history
  <2>7. CASE HubForget
    BY <2>7 DEF HubForget, hubVars, pingVars, user, history
  <2>8. QED
    BY <1>3, <2>1, <2>2, <2>3, <2>4, <2>5, <2>6, <2>7 DEF HubStep
<1>4. CASE Ping
  BY <1>4 DEF Ping, hubVars, pingVars, user, history
<1>5. CASE Peers
  <2>1. CASE \E s \in Streams : HubAccept(s)
    BY <2>1 DEF HubAccept, Open, hubVars, pingVars, user, history
  <2>2. CASE \E s \in Streams : HubPeerCloses(s)
    BY <2>2, NoStreamAssumption DEF HubPeerCloses, hubVars, pingVars, user, history
  <2>3. QED
    BY <1>5, <2>1, <2>2 DEF Peers
<1>6. CASE UNCHANGED vars
  BY <1>6 DEF vars
<1>7. QED
  BY <1>1, <1>2, <1>3, <1>4, <1>5, <1>6 DEF Next

(* The target of a call is an index. *)
LEMMA TargetStep ==
  ASSUME ManagerOK, TargetOK, [Next]_vars
  PROVE  TargetOK'
<1> USE DEF TargetOK, NoTarget
<1>0. /\ Range(index) \subseteq Indices
      /\ \A i \in DOMAIN byIndex : byIndex[i] \in used
  BY IndicesAreIndices DEF ManagerOK, LookupIsSound, Range
<1>1. CASE Calls
  <2>1. CASE \E s \in Streams, starting \in BOOLEAN : Connect(s, starting)
    BY <2>1 DEF Connect, Open, hubVars, pingVars, user, history
  <2>2. CASE \E what \in {"_connect", "connect"} : ConnectFails(what)
    BY <2>2, <1>0 DEF ConnectFails, hubVars, pingVars, user, history
  <2>3. CASE Start
    BY <2>3 DEF Start, StartThreads, hubVars, pingVars, user, history
  <2>4. CASE \E value \in BOOLEAN : SetPing(value)
    BY <2>4 DEF SetPing, hubVars, pingVars, user, history
  <2>5. CASE \E what \in {"stop", "closeAll"} : Stop(what)
    BY <2>5 DEF Stop, hubVars, pingVars, user, history
  <2>6. CASE \E i \in Indices : Close(i)
    BY <2>6, <1>0 DEF Close, hubVars, pingVars, user, history
  <2>7. QED
    BY <1>1, <2>1, <2>2, <2>3, <2>4, <2>5, <2>6 DEF Calls
<1>2. CASE CallStep
  <2>1. CASE ConnectFailed
    BY <2>1 DEF ConnectFailed, hubVars, pingVars, user, history
  <2>2. CASE CloseDecide
    BY <2>2 DEF CloseDecide, hubVars, pingVars, user, history
  <2>3. CASE CloseWait
    BY <2>3 DEF CloseWait, hubVars, pingVars, user, history
  <2>4. CASE CloseTimeout
    BY <2>4 DEF CloseTimeout, hubVars, pingVars, user, history
  <2>5. CASE CloseAnswer
    BY <2>5 DEF CloseAnswer, hubVars, pingVars, user, history
  <2>6. CASE StopFlag
    BY <2>6 DEF StopFlag, hubVars, pingVars, user, history
  <2>7. CASE JoinPing
    BY <2>7 DEF JoinPing, hubVars, pingVars, user, history
  <2>8. CASE JoinHub
    BY <2>8 DEF JoinHub, hubVars, pingVars, user, history
  <2>9. QED
    BY <1>2, <2>1, <2>2, <2>3, <2>4, <2>5, <2>6, <2>7, <2>8 DEF CallStep
<1>3. CASE HubStep
  <2>1. CASE HubTest
    BY <2>1 DEF HubTest, hubVars, pingVars, user, history
  <2>2. CASE HubStops
    BY <2>2 DEF HubStops, hubVars, pingVars, user, history
  <2>3. CASE HubCollect
    BY <2>3 DEF HubCollect, hubVars, pingVars, user, history
  <2>4. CASE HubClose
    BY <2>4 DEF HubClose, hubVars, pingVars, user, history
  <2>5. CASE HubClear
    BY <2>5 DEF HubClear, hubVars, pingVars, user, history
  <2>6. CASE HubReport
    BY <2>6 DEF HubReport, hubVars, pingVars, user, history
  <2>7. CASE HubForget
    BY <2>7 DEF HubForget, hubVars, pingVars, user, history
  <2>8. QED
    BY <1>3, <2>1, <2>2, <2>3, <2>4, <2>5, <2>6, <2>7 DEF HubStep
<1>4. CASE Ping
  BY <1>4 DEF Ping, hubVars, pingVars, user, history
<1>5. CASE Peers
  <2>1. CASE \E s \in Streams : HubAccept(s)
    BY <2>1 DEF HubAccept, Open, hubVars, pingVars, user, history
  <2>2. CASE \E s \in Streams : HubPeerCloses(s)
    BY <2>2 DEF HubPeerCloses, hubVars, pingVars, user, history
  <2>3. QED
    BY <1>5, <2>1, <2>2 DEF Peers
<1>6. CASE UNCHANGED vars
  BY <1>6 DEF vars
<1>7. QED
  BY <1>1, <1>2, <1>3, <1>4, <1>5, <1>6 DEF Next

-----------------------------------------------------------------------------
(* Everything together is inductive.                                       *)
Inv == ManagerOK /\ StreamsOK /\ HubOK /\ UserOK /\ TargetOK

LEMMA Inductive == Spec => []Inv
<1>1. Init => Inv
  <2> SUFFICES ASSUME Init PROVE Inv
    OBVIOUS
  <2>1. ManagerOK
    BY DEF Init, ManagerOK, Counted, LookupIsSound, OneIndexPerName, IsInjective
  <2>2. StreamsOK
    BY HasInAssumption DEF Init, StreamsOK, ClosesOpenStreams
  <2>3. HubOK
    BY HasInAssumption DEF Init, HubOK, HubPlaces
  <2>4. UserOK
    BY HasInAssumption DEF Init, UserOK, CtlPlaces
  <2>5. TargetOK
    BY DEF Init, TargetOK, NoTarget
  <2>6. QED
    BY <2>1, <2>2, <2>3, <2>4, <2>5 DEF Inv
<1>2. Inv /\ [Next]_vars => Inv'
  BY ManagerStep, StreamsStep, HubOKStep, UserStep, TargetStep DEF Inv
<1>3. QED
  BY <1>1, <1>2, PTL DEF Spec

(* Type correctness: with the types, that no index exceeds the number of   *)
(* names and that the lookup and the request to close only hold streams    *)
(* that were opened (streams_manager.h, client.h).                         *)
THEOREM TypeCorrect == Spec => []TypeOK
<1>1. Inv => TypeOK
  <2> SUFFICES ASSUME Inv PROVE TypeOK
    OBVIOUS
  <2> USE DEF Inv
  <2>1. /\ index \in [data -> Indices]
        /\ Range(nameIndex) \subseteq Indices
    BY IndicesAreIndices DEF ManagerOK, Range
  <2>2. Range(byIndex) \subseteq data /\ DOMAIN byIndex \subseteq Indices
    BY <2>1 DEF ManagerOK, LookupIsSound, Range
  <2>3. QED
    BY <2>1, <2>2 DEF ManagerOK, StreamsOK, HubOK, UserOK, TargetOK, TypeOK
<1>2. QED
  BY <1>1, Inductive, PTL

(* A lookup by index finds an open stream of that index, however streams   *)
(* of one target open and close (StreamsManager::add, remove, get).        *)
THEOREM LookupsAreSound == Spec => []LookupIsSound
<1>1. Inv => LookupIsSound
  BY DEF Inv, ManagerOK
<1>2. QED
  BY <1>1, Inductive, PTL

(* Each target has an index of its own, and all of its streams have it     *)
(* (StreamsManager::add).                                                  *)
THEOREM IndicesAreNames == Spec => []OneIndexPerName
<1>1. Inv => OneIndexPerName
  BY DEF Inv, ManagerOK
<1>2. QED
  BY <1>1, Inductive, PTL

(* The hub thread closes a stream once: what it reports and deletes is     *)
(* open, whoever asked for its end (Client::run, connectionClosed).        *)
THEOREM OnlyOpenIsClosed == Spec => []ClosesOpenStreams
<1>1. Inv => ClosesOpenStreams
  BY DEF Inv, StreamsOK
<1>2. QED
  BY <1>1, Inductive, PTL

(* Between its user's calls a client has a hub thread exactly when it is   *)
(* not stopped (Client::start, stop).                                      *)
THEOREM OneHubOrNone == Spec => []RunsUnlessStopped
<1>1. Inv => RunsUnlessStopped
  BY DEF Inv, HubOK, RunsUnlessStopped
<1>2. QED
  BY <1>1, Inductive, PTL
=============================================================================
