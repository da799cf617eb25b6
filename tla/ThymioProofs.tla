------------------------------ MODULE ThymioProofs ------------------------------
(***************************************************************************)
(* Proofs about Thymio and Mirroring.  The buffer of prox.comm messages is *)
(* that of one round: the counter of a message tells its round apart from  *)
(* the others as long as the counter neither wraps nor comes back to where *)
(* it has been (CountersDiffer).  Functions are called with the arguments  *)
(* that were given, what is read out of an event is the mean of what the   *)
(* variables were, as 16 bits have it, and reported changes make cached    *)
(* variables what they are now (NamesDiffer).                              *)
(***************************************************************************)
EXTENDS Thymio, WellFoundedInduction, TLAPS

(* The events prox and prox.comm of thymio.py 41-48. *)
CountsRounds ==
  /\ Prox # Comm /\ Prox # "" /\ {Prox, Comm} \subseteq Mirrored
  /\ \A e \in {Prox, Comm} : /\ Config[e].variables # <<>> /\ Config[e].window = 1
                             /\ Config[e].use_counter
  /\ Config[Prox].external_counter = "" /\ Config[Comm].external_counter = Prox

(* The counter has less than 16 bits to go, and when mirroring starts      *)
(* again, once, it does not reach the numbers of the rounds before.        *)
CountersDiffer ==
  /\ Start \in Nat /\ Start + MaxEvents < 32768
  /\ MaxStarts = 0 \/ (MaxStarts = 1 /\ MaxEvents < Start)

(* The number that the script gives to a round: the counter of the prox    *)
(* event that ends it.                                                     *)
NumberOf(r) ==
  IF starts = 0 \/ r < round - counter[Prox] THEN Start + r ELSE r - (round - counter[Prox])

Types ==
  /\ memory \in [Names -> Seq(Values)]
  /\ Prox \in DOMAIN counter /\ counter = [e \in DOMAIN counter |-> counter[e]]
  /\ heard = [r \in Rounds |-> heard[r]]
  /\ {last, round} \subseteq Nat /\ events \in 0..MaxEvents /\ starts \in 0..MaxStarts
  /\ loaded = Compiles

(* Rounds end by prox events and restarts. *)
CountOK ==
  /\ round <= events + starts
  /\ loaded = TRUE => IF starts = 0 THEN counter[Prox] = Start + round
                      ELSE counter[Prox] \in 0..events /\ counter[Prox] < round

(* The messages that are being recorded are those of a round, which the    *)
(* last counter that has been heard tells.                                 *)
HoldsRound(r) == next = [k \in {last} |-> heard[r]] /\ last % 65535 = NumberOf(r)

BuffersOK ==
  /\ next # <<>> => \E r \in 0..round : HoldsRound(r)
  /\ heard[round] # <<>> => HoldsRound(round)
  /\ \A r \in Rounds : r > round => heard[r] = <<>>
  /\ buffer # <<>> => \E r \in 0..(round - 1) : buffer = heard[r]
  /\ loaded = FALSE => next = <<>> /\ heard[round] = <<>>

RoundInv == Types /\ CountOK /\ BuffersOK
-----------------------------------------------------------------------------
(* A set of naturals that has 0 and all successors has all naturals: the   *)
(* order of the naturals is well founded.                                  *)
LEMMA Induction ==
  ASSUME NEW T \in SUBSET Nat, 0 \in T, \A n \in T : n + 1 \in T
  PROVE  T = Nat
<1> DEFINE Rest == Nat \ T
           Less == OpToRel(<, Nat)
<1>1. SUFFICES ASSUME Rest # {} PROVE FALSE
  OBVIOUS
<1>2. IsWellFoundedOn(Less, Nat)
  BY NatLessThanWellFounded
<1>3. PICK x \in Rest : \A y \in Rest : <<y, x>> \notin Less
  <2>1. Rest \subseteq Nat
    OBVIOUS
  <2> HIDE DEF Rest, Less
  <2>2. QED
    BY <1>1, <1>2, <2>1, WFMin
<1>4. x # 0 /\ x - 1 \in Nat
  OBVIOUS
<1>5. <<x - 1, x>> \in Less
  BY <1>4 DEF OpToRel
<1>6. x - 1 \in T
  BY <1>3, <1>4, <1>5
<1>7. QED
  BY <1>4, <1>6

(* FlattenSeq adds the sequences one after the other. *)
LEMMA FlattenDef ==
  ASSUME NEW S, NEW s \in Seq(Seq(S)), Len(s) > 0
  PROVE  \E f \in [1..Len(s) -> Seq(S)] :
           /\ f[1] = s[1] /\ \A i \in 2..Len(s) : f[i] = f[i - 1] \o s[i]
           /\ FlattenSeq(s) = f[Len(s)]
<1> DEFINE Flat(f, n) == f = [i \in 1..n |-> IF i = 1 THEN s[i] ELSE f[i - 1] \o s[i]]
           T == {n \in Nat : \E f : Flat(f, n)}
<1>1. 0 \in T
  <2>1. Flat(<<>>, 0)
    OBVIOUS
  <2>2. QED
    BY <2>1
<1>2. ASSUME NEW n \in T
      PROVE  n + 1 \in T
  <2>1. PICK g : Flat(g, n)
    OBVIOUS
  <2> DEFINE h == [i \in 1..n + 1 |->
                    IF i = n + 1 THEN (IF n = 0 THEN s[1] ELSE g[n] \o s[n + 1]) ELSE g[i]]
  <2>2. \A i \in 1..n : g[i] = IF i = 1 THEN s[i] ELSE g[i - 1] \o s[i]
    <3> DEFINE gg == [i \in 1..n |-> IF i = 1 THEN s[i] ELSE g[i - 1] \o s[i]]
    <3>1. \A i \in 1..n : gg[i] = IF i = 1 THEN s[i] ELSE g[i - 1] \o s[i]
      OBVIOUS
    <3>2. g = gg
      BY <2>1, Zenon
    <3>3. QED
      BY <3>1, <3>2, Zenon
  <2>3. ASSUME NEW i \in 1..n + 1
        PROVE  h[i] = IF i = 1 THEN s[i] ELSE h[i - 1] \o s[i]
    <3>1. n \in Nat
      OBVIOUS
    <3>2. CASE i = n + 1
      <4>1. CASE n = 0
        BY <3>2, <4>1
      <4>2. CASE n # 0
        <5>1. n \in 1..n + 1 /\ n # n + 1 /\ i - 1 = n /\ i # 1
          BY <3>1, <3>2, <4>2
        <5>2. h[n] = g[n] /\ h[i] = g[n] \o s[n + 1]
          BY <3>1, <3>2, <4>2, <5>1
        <5>3. QED
          BY <5>1, <5>2, <3>2
      <4>3. QED
        BY <4>1, <4>2
    <3>3. CASE i # n + 1
      <4>1. h[i] = g[i] /\ i \in 1..n
        BY <3>1, <3>3
      <4>2. i # 1 => h[i - 1] = g[i - 1]
        BY <3>1, <4>1
      <4>3. QED
        BY <2>2, <4>1, <4>2
    <3>4. QED
      BY <3>2, <3>3
  <2>4. Flat(h, n + 1)
    <3> HIDE DEF h
    <3>1. h = [i \in 1..n + 1 |-> h[i]]
      BY DEF h
    <3>2. QED
      BY <2>3, <3>1
  <2>5. n + 1 \in Nat /\ \E f : Flat(f, n + 1)
    <3> HIDE DEF h, Flat
    <3>1. n + 1 \in Nat
      OBVIOUS
    <3>2. QED
      BY <2>4, <3>1, Zenon
  <2>6. QED
    BY <2>5
<1>3. T = Nat
  <2> HIDE DEF T
  <2>1. T \subseteq Nat
    BY DEF T
  <2>2. QED
    BY <1>1, <1>2, <2>1, Induction
<1>4. \E f : Flat(f, Len(s))
  <2>1. Len(s) \in T
    <3> HIDE DEF T
    <3>1. QED
      BY <1>3
  <2>2. QED
    BY <2>1
<1>5. PICK f : Flat(f, Len(s)) /\ FlattenSeq(s) = f[Len(s)]
  <2> DEFINE c == CHOOSE f : Flat(f, Len(s))
  <2>1. Flat(c, Len(s))
    BY <1>4, Zenon
  <2>2. FlattenSeq(s) = c[Len(s)]
    BY DEF FlattenSeq
  <2>3. QED
    BY <2>1, <2>2
<1>6. \A i \in 1..Len(s) : f[i] = IF i = 1 THEN s[i] ELSE f[i - 1] \o s[i]
  <2> DEFINE g == [i \in 1..Len(s) |-> IF i = 1 THEN s[i] ELSE f[i - 1] \o s[i]]
  <2>1. \A i \in 1..Len(s) : g[i] = IF i = 1 THEN s[i] ELSE f[i - 1] \o s[i]
    OBVIOUS
  <2>2. f = g
    BY <1>5, Zenon
  <2>3. QED
    BY <2>1, <2>2, Zenon
<1>7. DOMAIN f = 1..Len(s)
  BY <1>5
<1>8. \A i \in 1..Len(s) : f[i] \in Seq(S)
  <2> DEFINE U == {n \in Nat : n + 1 \in 1..Len(s) => f[n + 1] \in Seq(S)}
  <2>1. 0 \in U
    BY <1>6
  <2>2. ASSUME NEW n \in U
        PROVE  n + 1 \in U
    <3>1. CASE n + 2 \in 1..Len(s)
      <4>1. n + 1 \in 1..Len(s) /\ n \in Nat /\ n + 2 # 1 /\ (n + 2) - 1 = n + 1
        BY <3>1
      <4>2. f[n + 1] \in Seq(S) /\ s[n + 2] \in Seq(S)
        <5>1. f[n + 1] \in Seq(S)
          BY <4>1
        <5>2. s[n + 2] \in Seq(S)
          BY <3>1
        <5>3. QED
          BY <5>1, <5>2
      <4>3. f[n + 2] = f[n + 1] \o s[n + 2]
        BY <1>6, <3>1, <4>1
      <4>4. f[n + 2] \in Seq(S)
        BY <4>2, <4>3
      <4>5. (n + 1) + 1 = n + 2 /\ n + 1 \in Nat
        BY <4>1
      <4>6. QED
        BY <4>4, <4>5
    <3>2. CASE n + 2 \notin 1..Len(s)
      BY <3>2
    <3>3. QED
      BY <3>1, <3>2
  <2>3. U = Nat
    <3> HIDE DEF U
    <3>1. U \subseteq Nat
      BY DEF U
    <3>2. QED
      BY <2>1, <2>2, <3>1, Induction
  <2>4. ASSUME NEW i \in 1..Len(s)
        PROVE  f[i] \in Seq(S)
    <3>1. i - 1 \in Nat /\ (i - 1) + 1 = i
      OBVIOUS
    <3>2. i - 1 \in U
      <4> HIDE DEF U
      <4>1. QED
        BY <2>3, <3>1
    <3>3. (i - 1) + 1 \in 1..Len(s) => f[(i - 1) + 1] \in Seq(S)
      BY <3>2
    <3>4. QED
      BY <3>1, <3>3
  <2>5. QED
    BY <2>4
<1>9. f \in [1..Len(s) -> Seq(S)]
  <2>1. f = [i \in 1..Len(s) |-> f[i]]
    BY <1>5, <1>7
  <2>2. QED
    BY <1>8, <2>1
<1>10. /\ f[1] = s[1]
       /\ \A i \in 2..Len(s) : f[i] = f[i - 1] \o s[i]
  <2>1. 1 \in 1..Len(s)
    OBVIOUS
  <2>2. \A i \in 2..Len(s) : i \in 1..Len(s) /\ i # 1
    OBVIOUS
  <2>3. QED
    BY <1>6, <2>1, <2>2
<1>11. QED
  BY <1>5, <1>9, <1>10

(* The payload of a variable-carrying event is a sequence. *)
LEMMA FlattenIsSeq ==
  ASSUME NEW S, NEW s \in Seq(Seq(S)), Len(s) > 0
  PROVE  FlattenSeq(s) \in Seq(S)
<1>1. PICK f \in [1..Len(s) -> Seq(S)] : FlattenSeq(s) = f[Len(s)]
  BY FlattenDef
<1>2. Len(s) \in 1..Len(s)
  OBVIOUS
<1>3. QED
  BY <1>1, <1>2

-----------------------------------------------------------------------------
(* The last word of a prox or prox.comm event is the counter of the prox   *)
(* event to come.                                                          *)
LEMMA PayloadCounts ==
  ASSUME CountsRounds, memory \in [Names -> Seq(Values)], NEW e \in {Prox, Comm}
  PROVE  Payload(e)[Len(Payload(e))] = counter[Prox]
<1> DEFINE vs == Config[e].variables
           cells == [k \in DOMAIN vs |-> memory[vs[k]]]
<1>1. e \in Events /\ vs \in Seq(Names) /\ vs # <<>>
  BY MirroringAssumption DEF CountsRounds, Mirrored
<1>2. cells \in Seq(Seq(Values)) /\ Len(cells) > 0
  <2>1. vs \in [1..Len(vs) -> Names] /\ Len(vs) \in Nat \ {0}
    BY <1>1
  <2>2. cells \in [1..Len(vs) -> Seq(Values)]
    BY <2>1
  <2>3. \A n \in Nat : \A c \in [1..n -> Seq(Values)] : c \in Seq(Seq(Values)) /\ Len(c) = n
    OBVIOUS
  <2> HIDE DEF cells, vs
  <2>4. QED
    BY <2>1, <2>2, <2>3
<1>3. FlattenSeq(cells) \in Seq(Values)
  <2> HIDE DEF cells
  <2>1. QED
    BY <1>2, FlattenIsSeq
<1> HIDE DEF cells, vs
<1>4. Config[e].use_counter /\ CounterOf(e) = Prox /\ Config[e].window = 1
  BY DEF CountsRounds, CounterOf
<1>5. Sample(e) = FlattenSeq(cells) \o <<counter[Prox]>>
  BY <1>4 DEF Sample, cells, vs
<1>6. Payload(e) = Sample(e)
  BY <1>1, <1>4 DEF Payload, Averages, vs
<1>7. ASSUME NEW data \in Seq(Values)
      PROVE  (data \o <<counter[Prox]>>)[Len(data \o <<counter[Prox]>>)] = counter[Prox]
  OBVIOUS
<1>8. QED
  <2> DEFINE flat == FlattenSeq(cells)
  <2> HIDE DEF flat
  <2>1. flat \in Seq(Values) /\ Payload(e) = flat \o <<counter[Prox]>>
    BY <1>3, <1>5, <1>6 DEF flat
  <2>2. QED
    BY <1>7, <2>1

(* The counter that the node goes by tells two counts apart. *)
LEMMA CountersAreTold ==
  ASSUME last \in Nat, NEW count \in Nat, count < 32768
  PROVE  /\ ProxCounter(count) \in Nat /\ ProxCounter(count) % 65535 = count
         /\ last % 65535 = count <=> ProxCounter(count) = last
<1>1. ProxCounter(count) \in Nat
  BY DEF ProxCounter
<1>2. ProxCounter(count) % 65535 = count
  BY DEF ProxCounter
<1>3. last % 65535 = count <=> ProxCounter(count) = last
  BY DEF ProxCounter
<1>4. QED
  BY <1>1, <1>2, <1>3

(* The number of the round under way is its counter, and no other round    *)
(* has that number.                                                        *)
LEMMA NumbersDiffer ==
  ASSUME CountersDiffer, Types, CountOK, loaded = TRUE
  PROVE  /\ counter[Prox] \in Nat /\ counter[Prox] < 32768 /\ NumberOf(round) = counter[Prox]
         /\ events < MaxEvents => counter[Prox] < 32767
         /\ \A r \in 0..round : NumberOf(r) = counter[Prox] => r = round
<1> DEFINE n == counter[Prox]
<1>1. /\ MaxEvents \in Nat /\ Start \in Nat /\ round \in Nat /\ events \in Nat
      /\ events <= MaxEvents /\ Start + MaxEvents < 32768
      /\ starts = 0 \/ (starts = 1 /\ MaxEvents < Start)
  BY MirroringAssumption DEF CountersDiffer, Types
<1>2. /\ round <= events + starts
      /\ starts = 0 => n = Start + round
      /\ starts = 1 => n \in 0..events /\ n < round
  BY <1>1 DEF CountOK
<1>3. n \in Nat /\ n < 32768 /\ (events < MaxEvents => n < 32767)
  <2> HIDE DEF n
  <2>1. CASE starts = 0
    BY <1>1, <1>2, <2>1
  <2>2. CASE starts = 1
    <3>1. n \in Int /\ 0 <= n /\ n <= events
      BY <1>2, <2>2
    <3>2. QED
      BY <1>1, <3>1, <2>2
  <2>3. QED
    BY <1>1, <2>1, <2>2
<1>4. NumberOf(round) = n
  <2>1. NumberOf(round) = IF starts = 0 \/ round < round - n THEN Start + round
                          ELSE round - (round - n)
    BY DEF NumberOf
  <2> HIDE DEF n
  <2>2. QED
    BY <1>1, <1>2, <1>3, <2>1
<1>5. ASSUME NEW r \in 0..round, NumberOf(r) = n
      PROVE  r = round
  <2>1. n = IF starts = 0 \/ r < round - n THEN Start + r ELSE r - (round - n)
    BY <1>5 DEF NumberOf
  <2> HIDE DEF n
  <2>2. QED
    BY <1>1, <1>2, <1>3, <2>1
<1>6. \A r \in 0..round : NumberOf(r) = n => r = round
  BY <1>5
<1>7. QED
  BY <1>3, <1>4, <1>6

-----------------------------------------------------------------------------
(* Sizes are naturals. *)
LEMMA SizeIsNat == \A v \in Names : Size(v) \in Nat
<1>1. TAKE v \in Names
<1>2. \E k \in Positions : Layout[k].name = v
  BY <1>1 DEF Names
<1>3. QED
  BY <1>2, MirroringAssumption DEF Size

LEMMA SumIsBounded ==
  ASSUME NEW a \in Nat, NEW b \in Nat, NEW m \in Nat, NEW n \in Nat, NEW r \in Nat,
         a <= m, b <= n, r <= a + b
  PROVE  r \in 0..(m + n)
OBVIOUS

(* There is a round for each prox event and each start of the mirroring. *)
LEMMA RoundIsCounted ==
  ASSUME Types, CountOK
  PROVE  round \in Rounds
<1>1. MaxEvents \in Nat /\ MaxStarts \in Nat /\ round \in Nat
  BY MirroringAssumption DEF Types
<1>2. events \in Nat /\ events <= MaxEvents /\ starts \in Nat /\ starts <= MaxStarts
  BY <1>1 DEF Types
<1>3. QED
  BY <1>1, <1>2 DEF CountOK, Rounds

(* What a message is appended to is the round under way. *)
LEMMA AppendKeeps ==
  ASSUME CountersDiffer, RoundInv, loaded = TRUE, NEW message,
         AppendToBuffer(counter[Prox], message),
         heard' = [heard EXCEPT ![round] = Append(@, message)],
         UNCHANGED <<round, counter, starts, loaded>>
  PROVE  last' \in Nat /\ BuffersOK'
<1> DEFINE c == ProxCounter(counter[Prox])
<1>1. /\ counter[Prox] \in Nat /\ counter[Prox] < 32768 /\ NumberOf(round) = counter[Prox]
      /\ \A r \in 0..round : NumberOf(r) = counter[Prox] => r = round
  BY NumbersDiffer DEF RoundInv
<1>2. /\ c \in Nat /\ c % 65535 = counter[Prox]
      /\ last % 65535 = counter[Prox] <=> c = last
  BY <1>1, CountersAreTold DEF RoundInv, Types
<1>3. /\ round \in Nat /\ round \in Rounds /\ last \in Nat
      /\ heard' = [r \in Rounds |-> IF r = round THEN Append(heard[round], message) ELSE heard[r]]
  <2>1. round \in Rounds
    BY RoundIsCounted DEF RoundInv
  <2>2. round \in Nat /\ last \in Nat /\ heard = [r \in Rounds |-> heard[r]]
    BY DEF RoundInv, Types
  <2>3. QED
    BY <2>1, <2>2
<1>4. \A r : NumberOf(r)' = NumberOf(r)
  BY DEF NumberOf
<1>5. next # <<>> => \E r \in 0..round : HoldsRound(r)
  BY DEF RoundInv, BuffersOK
<1>6. heard[round] # <<>> => HoldsRound(round)
  BY DEF RoundInv, BuffersOK
<1>7. last' = c
  BY DEF AppendToBuffer
<1> HIDE DEF c
<1>8. \A r \in Rounds : r > round' => heard'[r] = <<>>
  BY <1>3 DEF RoundInv, BuffersOK
<1>9. \A r \in 0..(round - 1) : heard'[r] = heard[r]
  BY <1>3 DEF Rounds
<1> DEFINE Shown == buffer' # <<>> => \E r \in 0..(round - 1) : buffer' = heard[r]
<1>10. ASSUME c \in DOMAIN next
       PROVE  HoldsRound(round)' /\ Shown
  <2>1. PICK r \in 0..round : HoldsRound(r)
    BY <1>5, <1>10
  <2>2. c = last /\ next = [k \in {last} |-> heard[r]]
    BY <1>10, <2>1 DEF HoldsRound
  <2>3. r = round
    BY <1>1, <1>2, <2>1, <2>2 DEF HoldsRound
  <2>4. next' = [next EXCEPT ![c] = Append(@, message)] /\ buffer' = buffer
    BY <1>10 DEF AppendToBuffer, c
  <2>5. next' = [k \in {last'} |-> heard'[round]]
    BY <1>3, <1>7, <2>2, <2>3, <2>4
  <2>6. (last % 65535)' = (NumberOf(round))'
    BY <1>1, <1>2, <1>4, <1>7
  <2>7. HoldsRound(round)'
    BY <2>5, <2>6 DEF HoldsRound
  <2>8. QED
    BY <2>4, <2>7 DEF RoundInv, BuffersOK
<1>11. ASSUME c \notin DOMAIN next
       PROVE  HoldsRound(round)' /\ Shown
  <2>1. heard[round] = <<>>
    BY <1>1, <1>2, <1>6, <1>11 DEF HoldsRound
  <2>2. /\ next' = [k \in {c} |-> <<message>>]
        /\ buffer' = IF c - 1 \in DOMAIN next THEN next[c - 1] ELSE buffer
    BY <1>11 DEF AppendToBuffer, c
  <2>3. next' = [k \in {last'} |-> heard'[round]]
    BY <1>3, <1>7, <2>1, <2>2
  <2>4. (last % 65535)' = (NumberOf(round))'
    BY <1>1, <1>2, <1>4, <1>7
  <2>5. HoldsRound(round)'
    BY <2>3, <2>4 DEF HoldsRound
  <2>6. Shown
    <3>1. CASE c - 1 \in DOMAIN next
      <4>1. PICK r \in 0..round : HoldsRound(r)
        BY <1>5, <3>1
      <4>2. c - 1 = last /\ next[c - 1] = heard[r]
        BY <3>1, <4>1 DEF HoldsRound
      <4>3. r # round
        BY <1>1, <1>2, <1>3, <4>1, <4>2 DEF HoldsRound
      <4>4. r \in 0..(round - 1)
        BY <1>3, <4>3
      <4>5. QED
        BY <2>2, <3>1, <4>2, <4>4
    <3>2. CASE c - 1 \notin DOMAIN next
      BY <2>2, <3>2 DEF RoundInv, BuffersOK
    <3>3. QED
      BY <3>1, <3>2
  <2>7. QED
    BY <2>5, <2>6
<1>12. HoldsRound(round)' /\ Shown
  BY <1>10, <1>11
<1>13. (next # <<>>)' => \E r \in 0..round' : HoldsRound(r)'
  <2>1. round' \in 0..round' /\ round' = round
    BY <1>3
  <2>2. HoldsRound(round)'
    BY <1>12
  <2>3. QED
    BY <2>1, <2>2 DEF HoldsRound
<1>14. (buffer # <<>>)' => \E r \in 0..(round' - 1) : buffer' = heard'[r]
  BY <1>9, <1>12
<1>15. QED
  BY <1>2, <1>7, <1>8, <1>12, <1>13, <1>14 DEF BuffersOK

(* A prox event that is heard shows the messages of its round. *)
LEMMA UpdateKeeps ==
  ASSUME CountersDiffer, RoundInv, loaded = TRUE, UpdateBuffer(counter[Prox]),
         round' = round + 1, round + 1 \in Rounds, UNCHANGED <<heard, loaded>>
  PROVE  last' \in Nat /\ BuffersOK' /\ buffer' = heard[round]
<1> DEFINE c == ProxCounter(counter[Prox])
<1>1. /\ counter[Prox] \in Nat /\ counter[Prox] < 32768 /\ NumberOf(round) = counter[Prox]
      /\ \A r \in 0..round : NumberOf(r) = counter[Prox] => r = round
  BY NumbersDiffer DEF RoundInv
<1>2. /\ c \in Nat /\ c % 65535 = counter[Prox]
      /\ last % 65535 = counter[Prox] <=> c = last
  BY <1>1, CountersAreTold DEF RoundInv, Types
<1>3. round \in Nat /\ last \in Nat
  BY DEF RoundInv, Types
<1>4. /\ last' = c /\ next' = <<>>
      /\ buffer' = IF c \in DOMAIN next THEN next[c] ELSE <<>>
  BY DEF UpdateBuffer
<1> HIDE DEF c
<1>5. buffer' = heard[round]
  <2>1. CASE c \in DOMAIN next
    <3>1. PICK r \in 0..round : HoldsRound(r)
      BY <2>1 DEF RoundInv, BuffersOK
    <3>2. c = last /\ next[c] = heard[r]
      BY <2>1, <3>1 DEF HoldsRound
    <3>3. r = round
      BY <1>1, <1>2, <3>1, <3>2 DEF HoldsRound
    <3>4. QED
      BY <1>4, <2>1, <3>2, <3>3
  <2>2. CASE c \notin DOMAIN next
    <3>1. heard[round] # <<>> => last % 65535 = counter[Prox] /\ last \in DOMAIN next
      BY <1>1 DEF RoundInv, BuffersOK, HoldsRound
    <3>2. QED
      BY <1>2, <1>4, <2>2, <3>1
  <2>3. QED
    BY <2>1, <2>2
<1>6. \A r \in Rounds : r > round => heard[r] = <<>>
  BY DEF RoundInv, BuffersOK
<1>7. round \in 0..(round' - 1) /\ heard'[round'] = <<>>
  BY <1>3, <1>6
<1>8. \A r \in Rounds : r > round' => heard'[r] = <<>>
  BY <1>3, <1>6 DEF Rounds
<1>9. QED
  BY <1>2, <1>4, <1>5, <1>7, <1>8 DEF BuffersOK

(* Rounds may end unheard, as long as they keep their numbers. *)
LEMMA PassingKeeps ==
  ASSUME RoundInv, UNCHANGED <<last, next, buffer, heard, loaded>>,
         \A r \in 0..round : NumberOf(r)' = NumberOf(r),
         round' = round \/ (round' = round + 1 /\ round + 1 \in Rounds)
  PROVE  BuffersOK'
<1>1. round \in Nat /\ round \in 0..round
  BY DEF RoundInv, Types
<1>2. \A r \in 0..round : r \in 0..round' /\ (HoldsRound(r) => HoldsRound(r)')
  BY <1>1 DEF HoldsRound
<1>3. next' # <<>> => \E r \in 0..round' : HoldsRound(r)'
  BY <1>2 DEF RoundInv, BuffersOK
<1>4. \A r \in Rounds : r > round' => heard'[r] = <<>>
  BY <1>1 DEF RoundInv, BuffersOK, Rounds
<1>5. buffer' # <<>> => \E r \in 0..(round' - 1) : buffer' = heard'[r]
  BY <1>1 DEF RoundInv, BuffersOK
<1>6. CASE round' = round
  <2>1. (heard[round] # <<>>)' => (HoldsRound(round))'
    BY <1>1, <1>2, <1>6 DEF RoundInv, BuffersOK, HoldsRound
  <2>2. QED
    BY <1>3, <1>4, <1>5, <1>6, <2>1 DEF RoundInv, BuffersOK
<1>7. CASE round' = round + 1 /\ round + 1 \in Rounds
  <2>1. heard'[round'] = <<>>
    BY <1>1, <1>7 DEF RoundInv, BuffersOK
  <2>2. QED
    BY <1>3, <1>4, <1>5, <2>1 DEF RoundInv, BuffersOK
<1>8. QED
  BY <1>6, <1>7

-----------------------------------------------------------------------------
LEMMA InitHolds ==
  ASSUME CountsRounds, CountersDiffer, Init
  PROVE  RoundInv
<1>1. memory \in [Names -> Seq(Values)]
  <2>1. ASSUME NEW v \in Names
        PROVE  [k \in 1..Size(v) |-> 0] \in Seq(Values)
    BY SizeIsNat, ThymioAssumption
  <2>2. QED
    BY <2>1 DEF Init
<1>2. counter = [e \in {x \in Events : Declares(x)} |-> Start] /\ Declares(Prox)
  BY ThymioAssumption DEF Init, CountsRounds, Declares
<1>3. Types
  <2>1. Prox \in DOMAIN counter /\ counter = [e \in DOMAIN counter |-> counter[e]]
    BY <1>2, ThymioAssumption
  <2>2. heard = [r \in Rounds |-> heard[r]]
    BY DEF Init
  <2>3. last \in Nat /\ round \in Nat /\ events \in 0..MaxEvents /\ starts \in 0..MaxStarts
    BY MirroringAssumption DEF Init, CountersDiffer
  <2>4. QED
    BY <1>1, <2>1, <2>2, <2>3 DEF Types, Init
<1>4. CountOK
  BY <1>2, ThymioAssumption DEF Init, CountOK, CountersDiffer
<1>5. BuffersOK
  <2>1. round \in Rounds
    BY <1>3, <1>4, RoundIsCounted
  <2>2. \A r \in Rounds : heard[r] = <<>>
    BY DEF Init
  <2>3. QED
    BY <2>1, <2>2 DEF Init, BuffersOK
<1>6. QED
  BY <1>3, <1>4, <1>5 DEF RoundInv

LEMMA EventKeeps ==
  ASSUME CountsRounds, CountersDiffer, RoundInv, NEW e \in Events, NEW isHeard \in BOOLEAN,
         Event(e, isHeard)
  PROVE  /\ RoundInv'
         /\ recording /\ round' # round /\ read' # <<>> => buffer' = heard[round]
<1>1. /\ Types /\ CountOK /\ loaded = TRUE /\ loaded' = TRUE /\ loaded' = loaded
      /\ memory' = memory /\ starts' = starts /\ events' = events + 1 /\ events < MaxEvents
      /\ round' = IF e = Prox THEN round + 1 ELSE round
  <2>1. loaded = Compiles /\ loaded
    BY DEF RoundInv, Types, Event, LocalEvent
  <2>2. Compiles \in BOOLEAN
    BY DEF Compiles
  <2>3. loaded = TRUE /\ loaded' = loaded
    BY <2>1, <2>2 DEF Event, LocalEvent
  <2>4. QED
    BY <2>3 DEF RoundInv, Event, LocalEvent
<1>2. counter[Prox] \in Nat /\ counter[Prox] < 32767
  BY <1>1, NumbersDiffer
<1>3. /\ Prox \in DOMAIN counter' /\ counter' = [x \in DOMAIN counter' |-> counter'[x]]
      /\ counter'[Prox] = IF e = Prox THEN counter[Prox] + 1 ELSE counter[Prox]
      /\ e = Comm => counter' = counter
  <2>1. counter' = IF Declares(e) THEN [counter EXCEPT ![e] = Wrap16(@ + 1)] ELSE counter
    BY DEF Event, LocalEvent
  <2>2. Declares(Prox) /\ ~Declares(Comm)
    BY DEF CountsRounds, Declares
  <2>3. Wrap16(counter[Prox] + 1) = counter[Prox] + 1
    BY <1>2 DEF Wrap16
  <2>4. Prox \in DOMAIN counter /\ counter = [x \in DOMAIN counter |-> counter[x]]
    BY <1>1 DEF Types
  <2>5. QED
    BY <2>1, <2>2, <2>3, <2>4
<1>4. /\ round \in Nat /\ events \in Nat /\ MaxEvents \in Nat /\ events' \in 0..MaxEvents
      /\ round' \in Nat /\ events <= MaxEvents
  BY <1>1, MirroringAssumption DEF Types
<1>5. CountOK'
  <2>1. round' <= events' + starts'
    BY <1>1, <1>4, MirroringAssumption DEF Types, CountOK
  <2>2. starts = 0 => counter'[Prox] = Start + round'
    BY <1>1, <1>2, <1>3, <1>4 DEF CountOK, CountersDiffer
  <2>3. starts # 0 => counter'[Prox] \in 0..events' /\ counter'[Prox] < round'
    BY <1>1, <1>2, <1>3, <1>4 DEF CountOK
  <2>4. QED
    BY <1>1, <2>1, <2>2, <2>3 DEF CountOK
<1>6. \A r \in 0..round : NumberOf(r)' = NumberOf(r)
  <2>1. round' - counter'[Prox] = round - counter[Prox]
    BY <1>1, <1>2, <1>3, <1>4
  <2>2. QED
    BY <1>1, <2>1 DEF NumberOf
<1>7. ASSUME last' \in Nat, heard' = [r \in Rounds |-> heard'[r]]
      PROVE  Types'
  BY <1>1, <1>3, <1>4, <1>7 DEF Types
<1>8. round' \in Rounds
  <2>1. MaxEvents \in Nat /\ MaxStarts \in Nat /\ starts \in Nat /\ starts <= MaxStarts
    BY <1>1, MirroringAssumption DEF Types
  <2>2. /\ round' <= events' + starts /\ events' <= MaxEvents
        /\ events' \in Nat /\ round' \in Nat
    BY <1>1, <1>4, <1>5 DEF CountOK
  <2>3. round' \in 0..(MaxEvents + MaxStarts)
    BY <2>1, <2>2, SumIsBounded, Zenon
  <2>4. QED
    BY <2>3 DEF Rounds
<1>9. ASSUME UNCHANGED <<last, next, buffer, heard>>
      PROVE  RoundInv'
  <2>1. BuffersOK'
    BY <1>1, <1>4, <1>6, <1>8, <1>9, PassingKeeps
  <2>2. Types'
    BY <1>1, <1>7, <1>9 DEF Types
  <2>3. QED
    BY <1>5, <2>1, <2>2 DEF RoundInv
<1>10. CASE ~(isHeard /\ recording)
  <2>1. UNCHANGED <<last, next, buffer, heard>>
    BY <1>10 DEF Event
  <2>2. ~isHeard => read' = <<>>
    BY DEF Event, LocalEvent
  <2>3. QED
    BY <1>9, <1>10, <2>1, <2>2
<1>11. CASE isHeard /\ recording
  <2>1. ExtraEventCb(e)
    BY <1>11 DEF Event
  <2>2. e \in {Prox, Comm} => Payload(e)[Len(Payload(e))] = counter[Prox]
    BY <1>1, PayloadCounts DEF Types
  <2>3. CASE e = Comm
    <3>1. PICK message : /\ AppendToBuffer(counter[Prox], message)
                         /\ heard' = [heard EXCEPT ![round] = Append(@, message)]
      BY <2>1, <2>2, <2>3 DEF ExtraEventCb
    <3>2. round' = round /\ counter' = counter
      BY <1>1, <1>3, <2>3 DEF CountsRounds
    <3>3. last' \in Nat /\ BuffersOK'
      BY <1>1, <3>1, <3>2, AppendKeeps
    <3>4. heard' = [r \in Rounds |-> heard'[r]]
      BY <1>1, <3>1 DEF Types
    <3>5. QED
      BY <1>5, <1>7, <3>2, <3>3, <3>4 DEF RoundInv
  <2>4. CASE e = Prox
    <3>1. UpdateBuffer(counter[Prox]) /\ heard' = heard
      BY <2>1, <2>2, <2>4 DEF ExtraEventCb, CountsRounds
    <3>2. round' = round + 1
      BY <1>1, <2>4
    <3>3. last' \in Nat /\ BuffersOK' /\ buffer' = heard[round]
      BY <1>1, <1>8, <3>1, <3>2, UpdateKeeps
    <3>4. heard' = [r \in Rounds |-> heard'[r]]
      BY <1>1, <3>1 DEF Types
    <3>5. QED
      BY <1>5, <1>7, <3>3, <3>4 DEF RoundInv
  <2>5. CASE e \notin {Prox, Comm}
    <3>1. UNCHANGED <<last, next, buffer, heard>>
      BY <2>1, <2>5 DEF ExtraEventCb
    <3>2. QED
      BY <1>1, <1>9, <2>5, <3>1
  <2>6. QED
    BY <2>3, <2>4, <2>5
<1>12. QED
  BY <1>10, <1>11

(* When mirroring starts again, rounds that are over keep their numbers. *)
LEMMA RestartKeeps ==
  ASSUME CountersDiffer, RoundInv, Restart
  PROVE  RoundInv' /\ read' = <<>>
<1>1. /\ Types /\ CountOK /\ BuffersOK /\ loaded' = loaded /\ loaded \in BOOLEAN
      /\ loaded = Compiles
      /\ memory' = memory /\ events' = events /\ starts' = starts + 1 /\ starts < MaxStarts
      /\ round' = round + 1 /\ UNCHANGED <<last, next, buffer, heard>>
  <2>1. loaded = Compiles
    BY DEF RoundInv, Types
  <2>2. Compiles \in BOOLEAN
    BY DEF Compiles
  <2>3. loaded' = loaded
    BY <2>1, <2>2 DEF Restart, StartMirroring, script
  <2>4. QED
    BY <2>1, <2>2, <2>3 DEF RoundInv, Restart, StartMirroring
<1>2. /\ round \in Nat /\ events \in Nat /\ starts = 0 /\ starts' = 1 /\ MaxStarts = 1
      /\ events <= MaxEvents /\ MaxEvents \in Nat
  BY <1>1, MirroringAssumption DEF Types, CountersDiffer
<1>3. /\ Prox \in DOMAIN counter' /\ counter' = [x \in DOMAIN counter' |-> counter'[x]]
      /\ loaded = TRUE => counter'[Prox] = 0
  BY <1>1 DEF Types, Restart, StartMirroring, script
<1>4. CountOK'
  BY <1>1, <1>2, <1>3 DEF CountOK
<1>5. Types'
  BY <1>1, <1>2, <1>3 DEF Types
<1>6. round + 1 \in Rounds
  BY <1>1, <1>4, <1>5, <1>2, RoundIsCounted DEF Rounds, CountOK
<1>7. CASE loaded = TRUE
  <2>1. \A r \in 0..round : NumberOf(r)' = NumberOf(r)
    BY <1>1, <1>2, <1>3, <1>7 DEF NumberOf
  <2>2. BuffersOK'
    BY <1>1, <1>6, <2>1, PassingKeeps
  <2>3. QED
    BY <1>4, <1>5, <2>2 DEF RoundInv, Restart, StartMirroring
<1>8. CASE loaded = FALSE
  <2>1. next' = <<>> /\ heard'[round'] = <<>>
    BY <1>1, <1>2, <1>6, <1>8 DEF BuffersOK
  <2>2. \A r \in Rounds : r > round' => heard'[r] = <<>>
    BY <1>1, <1>2 DEF BuffersOK, Rounds
  <2>3. (buffer # <<>>)' => \E r \in 0..(round' - 1) : buffer' = heard'[r]
    BY <1>1, <1>2 DEF BuffersOK
  <2>4. BuffersOK'
    BY <2>1, <2>2, <2>3 DEF BuffersOK
  <2>5. QED
    BY <1>4, <1>5, <2>4 DEF RoundInv, Restart, StartMirroring
<1>9. QED
  BY <1>1, <1>7, <1>8

(* Recording that is switched off forgets the messages. *)
LEMMA RecordKeeps ==
  ASSUME RoundInv, NEW value \in BOOLEAN, Record(value)
  PROVE  RoundInv' /\ round' = round
<1>1. /\ Types /\ CountOK /\ BuffersOK
      /\ UNCHANGED <<loaded, memory, counter, events, starts, last, round>>
  BY DEF RoundInv, Record, script
<1>2. heard' = [r \in Rounds |-> heard'[r]]
  BY <1>1 DEF Record, Types
<1>3. Types' /\ CountOK'
  BY <1>1, <1>2 DEF Types, CountOK
<1>4. CASE value
  <2>1. UNCHANGED <<next, buffer, heard>>
    BY <1>4 DEF Record
  <2>2. \A r \in 0..round : NumberOf(r)' = NumberOf(r)
    BY <1>1 DEF NumberOf
  <2>3. QED
    BY <1>1, <1>3, <2>1, <2>2, PassingKeeps DEF RoundInv
<1>5. CASE ~value
  <2>1. next' = <<>> /\ buffer' = <<>> /\ heard' = [r \in Rounds |-> <<>>]
    BY <1>5 DEF Record
  <2>2. round' \in Rounds
    BY <1>1, RoundIsCounted
  <2>3. BuffersOK'
    BY <2>1, <2>2 DEF BuffersOK
  <2>4. QED
    BY <1>1, <1>3, <2>3 DEF RoundInv
<1>6. QED
  BY <1>4, <1>5

(* Nothing else concerns the rounds. *)
LEMMA OtherKeeps ==
  ASSUME RoundInv, UNCHANGED <<loaded, counter, events, starts, last, next, buffer, round, heard>>,
         memory' \in [Names -> Seq(Values)]
  PROVE  RoundInv'
<1>1. Types' /\ CountOK'
  BY DEF RoundInv, Types, CountOK
<1>2. \A r \in 0..round : NumberOf(r)' = NumberOf(r)
  BY DEF NumberOf
<1>3. QED
  BY <1>1, <1>2, PassingKeeps DEF RoundInv

(* A cell of a sequence is replaced. *)
LEMMA CellChanges ==
  ASSUME NEW S, NEW s \in Seq(S), NEW k, NEW x \in S
  PROVE  [s EXCEPT ![k] = x] \in Seq(S) /\ DOMAIN [s EXCEPT ![k] = x] = DOMAIN s
<1>1. Len(s) \in Nat /\ s \in [1..Len(s) -> S]
  OBVIOUS
<1>2. ASSUME NEW n \in Nat, s \in [1..n -> S]
      PROVE  [s EXCEPT ![k] = x] \in Seq(S) /\ DOMAIN [s EXCEPT ![k] = x] = DOMAIN s
  <2>1. [s EXCEPT ![k] = x] \in [1..n -> S]
    BY <1>2
  <2>2. QED
    BY <1>2, <2>1
<1>3. QED
  BY <1>1, <1>2

LEMMA StepKeeps ==
  ASSUME CountsRounds, CountersDiffer, RoundInv, [Next]_vars
  PROVE  /\ RoundInv'
         /\ recording /\ round' # round /\ read' # <<>> => buffer' = heard[round]
<1>1. ASSUME NEW e \in Events, NEW isHeard \in BOOLEAN, Event(e, isHeard)
      PROVE  /\ RoundInv'
             /\ recording /\ round' # round /\ read' # <<>> => buffer' = heard[round]
  BY <1>1, EventKeeps
<1>2. CASE Restart
  BY <1>2, RestartKeeps
<1>3. ASSUME NEW value \in BOOLEAN, Record(value)
      PROVE  RoundInv' /\ round' = round
  BY <1>3, RecordKeeps
<1>4. memory \in [Names -> Seq(Values)]
  BY DEF RoundInv, Types
<1>5. ASSUME NEW v \in Names, NEW x \in Values, NEW k \in 1..Size(v), Sense(v, k, x), Other
      PROVE  RoundInv' /\ round' = round
  <2>1. [memory[v] EXCEPT ![k] = x] \in Seq(Values)
    <3>1. memory[v] \in Seq(Values)
      BY <1>4
    <3>2. QED
      BY <3>1, CellChanges
  <2>2. memory' \in [Names -> Seq(Values)]
    BY <1>4, <1>5, <2>1 DEF Sense
  <2>3. QED
    BY <1>5, <2>2, OtherKeeps DEF Sense, Other, thymioVars, script
<1>6. ASSUME NEW f, NEW nodeId, NEW args, CallFunction(f, nodeId, args), Other
      PROVE  RoundInv' /\ round' = round
  BY <1>4, <1>6, OtherKeeps DEF CallFunction, Other, thymioVars, script
<1>7. CASE Update /\ Other
  BY <1>4, <1>7, OtherKeeps DEF Update, Other, thymioVars, script
<1>8. CASE UpdateChanged /\ Other
  BY <1>4, <1>8, OtherKeeps DEF UpdateChanged, Other, thymioVars, script
<1>9. CASE UNCHANGED vars
  BY <1>4, <1>9, OtherKeeps DEF vars, mirroringVars, thymioVars
<1>10. QED
  BY <1>1, <1>2, <1>3, <1>5, <1>6, <1>7, <1>8, <1>9 DEF Next

-----------------------------------------------------------------------------
(* The messages that prox_comm_buffer shows are those of one round, all    *)
(* that have been heard of it, whatever events are lost, whenever          *)
(* recording is switched and even if mirroring starts again.               *)
THEOREM RoundsAreWhole ==
  ASSUME CountsRounds, CountersDiffer
  PROVE  Spec => []RoundIsWhole
<1>1. Init => RoundInv
  BY InitHolds
<1>2. RoundInv /\ [Next]_vars => RoundInv'
  BY StepKeeps
<1>3. RoundInv => RoundIsWhole
  <2> SUFFICES ASSUME RoundInv, buffer # <<>>
               PROVE  \E r \in Rounds : buffer = heard[r]
    BY DEF RoundIsWhole
  <2>1. PICK r \in 0..(round - 1) : buffer = heard[r]
    BY DEF RoundInv, BuffersOK
  <2>2. r \in Rounds
    <3>1. round \in Rounds /\ MaxEvents \in Nat /\ MaxStarts \in Nat
      BY RoundIsCounted, MirroringAssumption DEF RoundInv
    <3>2. QED
      BY <2>1, <3>1 DEF Rounds
  <2>3. QED
    BY <2>1, <2>2
<1>4. QED
  BY <1>1, <1>2, <1>3, PTL DEF Spec

(* A prox event that the program hears of shows it the messages of the     *)
(* round that the event ends.                                              *)
THEOREM ProxShowsTheRound ==
  ASSUME CountsRounds, CountersDiffer
  PROVE  Spec => ProxShowsItsRound
<1>1. Init => RoundInv
  BY InitHolds
<1>2. RoundInv /\ [Next]_vars => RoundInv'
  BY StepKeeps
<1>3. RoundInv /\ [Next]_vars
        => [recording /\ round' # round /\ read' # <<>> => buffer' = heard[round]]_vars
  BY StepKeeps
<1>4. QED
  BY <1>1, <1>2, <1>3, PTL DEF Spec, ProxShowsItsRound

-----------------------------------------------------------------------------
(* What the sums of the first numbers are: a recursive function on an      *)
(* initial segment of the naturals exists.                                 *)
LEMMA SumDefOf ==
  ASSUME NEW R \in SUBSET Int, 0 \in R, \A a, b \in R : a + b \in R,
         NEW sizes \in Seq(R)
  PROVE  \E sum \in [0..Len(sizes) -> R] :
           /\ sum[0] = 0 /\ \A k \in 1..Len(sizes) : sum[k] = sum[k - 1] + sizes[k]
           /\ \A k : SumOfFirst(sizes, k) = sum[k]
<1> DEFINE Sums(f, n) == f = [i \in 0..n |-> IF i = 0 THEN 0 ELSE f[i - 1] + sizes[i]]
           T == {n \in Nat : \E f : Sums(f, n)}
<1>1. 0 \in T
  <2>1. Sums([i \in 0..0 |-> 0], 0)
    OBVIOUS
  <2>2. QED
    BY <2>1
<1>2. ASSUME NEW n \in T
      PROVE  n + 1 \in T
  <2>1. PICK g : Sums(g, n)
    OBVIOUS
  <2> DEFINE h == [i \in 0..n + 1 |-> IF i = n + 1 THEN g[n] + sizes[n + 1] ELSE g[i]]
  <2>2. \A i \in 0..n : g[i] = IF i = 0 THEN 0 ELSE g[i - 1] + sizes[i]
    <3> DEFINE gg == [i \in 0..n |-> IF i = 0 THEN 0 ELSE g[i - 1] + sizes[i]]
    <3>1. \A i \in 0..n : gg[i] = IF i = 0 THEN 0 ELSE g[i - 1] + sizes[i]
      OBVIOUS
    <3>2. g = gg
      BY <2>1, Zenon
    <3>3. QED
      BY <3>1, <3>2, Zenon
  <2>3. ASSUME NEW i \in 0..n + 1
        PROVE  h[i] = IF i = 0 THEN 0 ELSE h[i - 1] + sizes[i]
    <3>1. n \in Nat
      OBVIOUS
    <3>2. CASE i = n + 1
      <4>1. n \in 0..n + 1 /\ n # n + 1 /\ i - 1 = n /\ i # 0
        BY <3>1, <3>2
      <4>2. h[n] = g[n] /\ h[i] = g[n] + sizes[n + 1]
        BY <3>1, <3>2, <4>1
      <4>3. QED
        BY <4>1, <4>2, <3>2
    <3>3. CASE i # n + 1
      <4>1. h[i] = g[i] /\ i \in 0..n
        BY <3>1, <3>3
      <4>2. i # 0 => h[i - 1] = g[i - 1]
        BY <3>1, <4>1
      <4>3. QED
        BY <2>2, <4>1, <4>2
    <3>4. QED
      BY <3>2, <3>3
  <2>4. Sums(h, n + 1)
    <3> HIDE DEF h
    <3>1. h = [i \in 0..n + 1 |-> h[i]]
      BY DEF h
    <3>2. QED
      BY <2>3, <3>1
  <2>5. n + 1 \in Nat /\ \E f : Sums(f, n + 1)
    <3> HIDE DEF h, Sums
    <3>1. n + 1 \in Nat
      OBVIOUS
    <3>2. QED
      BY <2>4, <3>1, Zenon
  <2>6. QED
    BY <2>5
<1>3. T = Nat
  <2> HIDE DEF T
  <2>1. T \subseteq Nat
    BY DEF T
  <2>2. QED
    BY <1>1, <1>2, <2>1, Induction
<1>4. \E f : Sums(f, Len(sizes))
  <2>1. Len(sizes) \in T
    <3> HIDE DEF T
    <3>1. QED
      BY <1>3
  <2>2. QED
    BY <2>1
<1>5. PICK f : Sums(f, Len(sizes)) /\ \A k : SumOfFirst(sizes, k) = f[k]
  <2> DEFINE c == CHOOSE f : Sums(f, Len(sizes))
  <2>1. Sums(c, Len(sizes))
    BY <1>4, Zenon
  <2>2. \A k : SumOfFirst(sizes, k) = c[k]
    BY DEF SumOfFirst
  <2>3. QED
    BY <2>1, <2>2
<1>6. \A i \in 0..Len(sizes) : f[i] = IF i = 0 THEN 0 ELSE f[i - 1] + sizes[i]
  <2> DEFINE g == [i \in 0..Len(sizes) |-> IF i = 0 THEN 0 ELSE f[i - 1] + sizes[i]]
  <2>1. \A i \in 0..Len(sizes) : g[i] = IF i = 0 THEN 0 ELSE f[i - 1] + sizes[i]
    OBVIOUS
  <2>2. f = g
    BY <1>5, Zenon
  <2>3. QED
    BY <2>1, <2>2, Zenon
<1>7. DOMAIN f = 0..Len(sizes)
  BY <1>5
<1>8. \A i \in 0..Len(sizes) : f[i] \in R
  <2> DEFINE U == {n \in Nat : n \in 0..Len(sizes) => f[n] \in R}
  <2>1. 0 \in U
    BY <1>6
  <2>2. ASSUME NEW n \in U
        PROVE  n + 1 \in U
    <3>1. CASE n + 1 \in 0..Len(sizes)
      <4>1. n \in 0..Len(sizes) /\ n + 1 # 0 /\ (n + 1) - 1 = n /\ sizes[n + 1] \in R
        BY <3>1
      <4>2. f[n] \in R
        BY <4>1
      <4>3. f[n + 1] = f[n] + sizes[n + 1]
        BY <1>6, <3>1, <4>1
      <4>4. f[n + 1] \in R
        BY <4>1, <4>2, <4>3
      <4>5. QED
        BY <4>4
    <3>2. CASE n + 1 \notin 0..Len(sizes)
      BY <3>2
    <3>3. QED
      BY <3>1, <3>2
  <2>3. U = Nat
    <3> HIDE DEF U
    <3>1. U \subseteq Nat
      BY DEF U
    <3>2. QED
      BY <2>1, <2>2, <3>1, Induction
  <2>4. ASSUME NEW i \in 0..Len(sizes)
        PROVE  f[i] \in R
    <3>1. i \in U
      <4> HIDE DEF U
      <4>1. i \in Nat
        OBVIOUS
      <4>2. QED
        BY <2>3, <4>1
    <3>2. QED
      BY <3>1
  <2>5. QED
    BY <2>4
<1>9. f \in [0..Len(sizes) -> R]
  <2>1. f = [i \in 0..Len(sizes) |-> f[i]]
    BY <1>5, <1>7
  <2>2. QED
    BY <1>8, <2>1
<1>10. /\ f[0] = 0
       /\ \A k \in 1..Len(sizes) : f[k] = f[k - 1] + sizes[k]
  <2>1. 0 \in 0..Len(sizes)
    OBVIOUS
  <2>2. \A k \in 1..Len(sizes) : k \in 0..Len(sizes) /\ k # 0
    OBVIOUS
  <2>3. QED
    BY <1>6, <2>1, <2>2
<1>11. QED
  BY <1>5, <1>9, <1>10

LEMMA SumDef ==
  ASSUME NEW sizes \in Seq(Nat)
  PROVE  \E sum \in [0..Len(sizes) -> Nat] :
           /\ sum[0] = 0 /\ \A k \in 1..Len(sizes) : sum[k] = sum[k - 1] + sizes[k]
           /\ \A k : SumOfFirst(sizes, k) = sum[k]
<1>1. Nat \in SUBSET Int /\ 0 \in Nat /\ \A a, b \in Nat : a + b \in Nat
  OBVIOUS
<1>2. QED
  BY <1>1, SumDefOf

(* The sum of a sequence to which a number is appended. *)
LEMMA SumOfAppended ==
  ASSUME NEW s \in Seq(Int), NEW x \in Int
  PROVE  /\ SumOfFirst(s, Len(s)) \in Int
         /\ SumOfFirst(Append(s, x), Len(s) + 1) = SumOfFirst(s, Len(s)) + x
<1> DEFINE n == Len(s)
           t == Append(s, x)
<1>1. n \in Nat /\ t \in Seq(Int) /\ Len(t) = n + 1 /\ t[n + 1] = x /\ \A i \in 1..n : t[i] = s[i]
  OBVIOUS
<1>2. Int \in SUBSET Int /\ 0 \in Int /\ \A a, b \in Int : a + b \in Int
  OBVIOUS
<1>3. PICK f \in [0..n -> Int] :
        /\ f[0] = 0 /\ \A k \in 1..n : f[k] = f[k - 1] + s[k]
        /\ \A k : SumOfFirst(s, k) = f[k]
  BY <1>2, SumDefOf
<1> HIDE DEF t
<1>4. PICK g \in [0..Len(t) -> Int] :
        /\ g[0] = 0 /\ \A k \in 1..Len(t) : g[k] = g[k - 1] + t[k]
        /\ \A k : SumOfFirst(t, k) = g[k]
  BY <1>1, <1>2, SumDefOf
<1> HIDE DEF n
<1> DEFINE T == {k \in Nat : k <= n => g[k] = f[k]}
<1>5. 0 \in T
  BY <1>3, <1>4
<1>6. ASSUME NEW k \in T
      PROVE  k + 1 \in T
  <2>1. CASE k + 1 <= n
    <3>1. k \in Nat /\ k <= n /\ k + 1 \in 1..n /\ k + 1 \in 1..Len(t) /\ (k + 1) - 1 = k
      BY <1>1, <2>1
    <3>2. g[k] = f[k]
      BY <3>1
    <3>3. g[k + 1] = g[k] + t[k + 1] /\ f[k + 1] = f[k] + s[k + 1] /\ t[k + 1] = s[k + 1]
      BY <1>1, <1>3, <1>4, <3>1
    <3>4. QED
      BY <3>1, <3>2, <3>3
  <2>2. CASE ~(k + 1 <= n)
    BY <2>2
  <2>3. QED
    BY <2>1, <2>2
<1>7. g[n] = f[n]
  <2>1. T = Nat
    <3> HIDE DEF T
    <3>1. T \subseteq Nat
      BY DEF T
    <3>2. QED
      BY <1>5, <1>6, <3>1, Induction
  <2>2. n \in T
    <3> HIDE DEF T
    <3>1. QED
      BY <1>1, <2>1
  <2>3. QED
    BY <1>1, <2>2
<1>8. g[n + 1] = g[n] + x
  <2>1. n + 1 \in 1..Len(t) /\ (n + 1) - 1 = n
    BY <1>1
  <2>2. g[n + 1] = g[(n + 1) - 1] + t[n + 1]
    BY <1>4, <2>1
  <2>3. QED
    BY <1>1, <2>1, <2>2
<1>9. f[n] \in Int
  BY <1>1, <1>3
<1>10. QED
  BY <1>3, <1>4, <1>7, <1>8, <1>9 DEF n, t

(* Two slices of a sequence, the second from where the first ends, make    *)
(* one.                                                                    *)
LEMMA SlicesJoin ==
  ASSUME NEW S, NEW d \in Seq(S), NEW a \in Nat, NEW b \in Nat, a <= b, b + 1 <= Len(d)
  PROVE  SubSeq(d, 2, a + 1) \o SubSeq(d, a + 2, b + 1) = SubSeq(d, 2, b + 1)
<1> DEFINE x == SubSeq(d, 2, a + 1)
           y == SubSeq(d, a + 2, b + 1)
           z == SubSeq(d, 2, b + 1)
<1>1. x \in Seq(S) /\ Len(x) = a /\ \A i \in 1..a : x[i] = d[i + 1]
  OBVIOUS
<1>2. y \in Seq(S) /\ Len(y) = b - a /\ \A i \in 1..b - a : y[i] = d[i + a + 1]
  OBVIOUS
<1>3. z \in Seq(S) /\ Len(z) = b /\ \A i \in 1..b : z[i] = d[i + 1]
  OBVIOUS
<1> HIDE DEF x, y, z
<1>4. x \o y \in Seq(S) /\ Len(x \o y) = Len(x) + Len(y)
  <2>1. x \in Seq(S) /\ y \in Seq(S)
    BY <1>1, <1>2
  <2>2. QED
    BY <2>1
<1>5. Len(x \o y) = Len(z)
  BY <1>1, <1>2, <1>3, <1>4
<1>6. ASSUME NEW i \in 1..b
      PROVE  (x \o y)[i] = z[i]
  <2>1. CASE i \in 1..a
    <3>1. (x \o y)[i] = x[i]
      BY <1>1, <1>2, <2>1
    <3>2. x[i] = d[i + 1] /\ z[i] = d[i + 1]
      BY <1>1, <1>3, <2>1
    <3>3. QED
      BY <3>1, <3>2, Zenon
  <2>2. CASE i \notin 1..a
    <3>1. i - a \in 1..b - a /\ (i - a) + a + 1 = i + 1
      BY <2>2
    <3>2. (x \o y)[i] = y[i - a]
      BY <1>1, <1>2, <2>2
    <3>3. QED
      BY <1>2, <1>3, <3>1, <3>2
  <2>3. QED
    BY <2>1, <2>2, Zenon
<1>7. x \o y = z
  <2>1. \A s, t \in Seq(S) : Len(s) = Len(t) /\ (\A i \in 1..Len(t) : s[i] = t[i]) => s = t
    OBVIOUS
  <2>2. \A i \in 1..Len(z) : (x \o y)[i] = z[i]
    BY <1>3, <1>6
  <2>3. QED
    BY <1>3, <1>4, <1>5, <2>1, <2>2
<1>8. QED
  BY <1>7 DEF x, y, z

LEMMA SumsGrow ==
  ASSUME NEW n \in Nat, NEW sum \in [0..n -> Nat], NEW sizes \in [1..n -> Nat],
         \A k \in 1..n : sum[k] = sum[k - 1] + sizes[k]
  PROVE  \A k \in 0..n : sum[k] <= sum[n]
<1> DEFINE T == {j \in Nat : j <= n => sum[n - j] <= sum[n]}
<1>1. 0 \in T
  <2>1. n - 0 = n /\ sum[n] \in Nat
    OBVIOUS
  <2>2. QED
    BY <2>1
<1>2. ASSUME NEW j \in T
      PROVE  j + 1 \in T
  <2>1. CASE j + 1 <= n
    <3>1. j \in Nat /\ j <= n /\ sum[n - j] <= sum[n]
      BY <2>1
    <3>2. n - j \in 1..n /\ (n - j) - 1 = n - (j + 1) /\ n - (j + 1) \in 0..n
      BY <2>1, <3>1
    <3>3. sum[n - j] = sum[n - (j + 1)] + sizes[n - j]
      BY <3>2
    <3>4. sum[n - j] \in Nat /\ sum[n - (j + 1)] \in Nat /\ sizes[n - j] \in Nat /\ sum[n] \in Nat
      BY <3>2
    <3>5. sum[n - (j + 1)] <= sum[n]
      BY <3>1, <3>3, <3>4
    <3>6. QED
      BY <3>1, <3>5
  <2>2. CASE ~(j + 1 <= n)
    BY <2>2
  <2>3. QED
    BY <2>1, <2>2
<1>3. T = Nat
  <2> HIDE DEF T
  <2>1. T \subseteq Nat
    BY DEF T
  <2>2. QED
    BY <1>1, <1>2, <2>1, Induction
<1>4. ASSUME NEW k \in 0..n
      PROVE  sum[k] <= sum[n]
  <2>1. n - k \in T
    <3> HIDE DEF T
    <3>1. n - k \in Nat
      OBVIOUS
    <3>2. QED
      BY <1>3, <3>1
  <2>2. n - k <= n /\ n - (n - k) = k
    OBVIOUS
  <2>3. QED
    BY <2>1, <2>2
<1>5. QED
  BY <1>4

(* The slices that the script makes of a call's data, one after the other, *)
(* are what follows the id.                                                *)
LEMMA SlicesAreWhole ==
  ASSUME NEW S, NEW sizes \in Seq(Nat), NEW data \in Seq(S),
         Len(data) = SumOfFirst(sizes, Len(sizes)) + 1
  PROVE  FlattenSeq(Arguments(sizes, data)) = SubSeq(data, 2, Len(data))
<1> DEFINE n == Len(sizes)
           slices == Arguments(sizes, data)
<1>1. n \in Nat /\ sizes \in [1..n -> Nat]
  OBVIOUS
<1>2. PICK sum \in [0..n -> Nat] :
        /\ sum[0] = 0 /\ \A k \in 1..n : sum[k] = sum[k - 1] + sizes[k]
        /\ \A k : SumOfFirst(sizes, k) = sum[k]
  BY SumDef
<1>3. slices = [k \in 1..n |-> SubSeq(data, sum[k - 1] + 2, sum[k] + 1)]
  BY <1>1, <1>2 DEF Arguments
<1> HIDE DEF n, slices
<1>4. Len(data) = sum[n] + 1 /\ sum[n] \in Nat
  BY <1>1, <1>2 DEF n
<1>5. \A k \in 0..n : sum[k] <= sum[n]
  BY <1>1, <1>2, SumsGrow
<1>6. ASSUME NEW k \in 1..n
      PROVE  /\ sum[k - 1] \in Nat /\ sum[k] \in Nat
             /\ sum[k - 1] <= sum[k] /\ sum[k] + 1 <= Len(data)
  <2>1. k - 1 \in 0..n /\ k \in 0..n
    BY <1>1
  <2>2. sum[k - 1] \in Nat /\ sum[k] \in Nat /\ sizes[k] \in Nat /\ sum[k] = sum[k - 1] + sizes[k]
    BY <1>1, <1>2, <2>1
  <2>3. sum[k] <= sum[n]
    BY <1>5, <2>1
  <2>4. sum[k] + 1 <= sum[n] + 1
    BY <1>4, <2>2, <2>3
  <2>5. sum[k - 1] <= sum[k]
    BY <2>2
  <2>6. QED
    BY <1>4, <2>2, <2>4, <2>5, Zenon
<1>7. CASE n = 0
  <2>1. slices = <<>>
    BY <1>3, <1>7
  <2>2. FlattenSeq(<<>>) = <<>>
    BY DEF FlattenSeq
  <2>3. Len(data) = 1
    BY <1>2, <1>4, <1>7
  <2>4. SubSeq(data, 2, Len(data)) = <<>>
    <3>1. SubSeq(data, 2, 1) \in Seq(S) /\ Len(SubSeq(data, 2, 1)) = 0
      OBVIOUS
    <3>2. \A s \in Seq(S) : Len(s) = 0 => s = <<>>
      OBVIOUS
    <3>3. QED
      BY <2>3, <3>1, <3>2
  <2>5. QED
    BY <2>1, <2>2, <2>4 DEF slices
<1>8. CASE n > 0
  <2>1. slices \in Seq(Seq(S)) /\ Len(slices) = n
    <3>1. ASSUME NEW k \in 1..n
          PROVE  SubSeq(data, sum[k - 1] + 2, sum[k] + 1) \in Seq(S)
      BY <1>6
    <3>2. slices \in [1..n -> Seq(S)]
      BY <1>3, <3>1
    <3>3. QED
      BY <1>1, <3>2
  <2>2. PICK f \in [1..n -> Seq(S)] :
          /\ f[1] = slices[1] /\ \A i \in 2..n : f[i] = f[i - 1] \o slices[i]
          /\ FlattenSeq(slices) = f[n]
    BY <1>8, <2>1, FlattenDef
  <2> DEFINE U == {i \in Nat : i + 1 \in 1..n => f[i + 1] = SubSeq(data, 2, sum[i + 1] + 1)}
  <2>3. 0 \in U
    <3>1. 1 \in 1..n /\ 1 - 1 = 0
      BY <1>1, <1>8
    <3>2. slices[1] = SubSeq(data, sum[0] + 2, sum[1] + 1)
      BY <1>3, <3>1
    <3>3. f[1] = SubSeq(data, 2, sum[1] + 1)
      BY <1>2, <2>2, <3>2
    <3>4. QED
      BY <3>3
  <2>4. ASSUME NEW i \in U
        PROVE  i + 1 \in U
    <3>1. CASE i + 2 \in 1..n
      <4>1. /\ i + 1 \in 1..n /\ i + 2 \in 2..n /\ (i + 2) - 1 = i + 1 /\ i \in Nat
            /\ (i + 1) + 1 = i + 2
        BY <1>1, <3>1
      <4>2. f[i + 1] = SubSeq(data, 2, sum[i + 1] + 1)
        BY <4>1
      <4>3. slices[i + 2] = SubSeq(data, sum[i + 1] + 2, sum[i + 2] + 1)
        BY <1>3, <3>1, <4>1
      <4>4. /\ sum[i + 1] \in Nat /\ sum[i + 2] \in Nat
            /\ sum[i + 1] <= sum[i + 2] /\ sum[i + 2] + 1 <= Len(data)
        BY <1>6, <3>1, <4>1
      <4>5. f[i + 2] = SubSeq(data, 2, sum[i + 2] + 1)
        <5>1. f[i + 2] = f[i + 1] \o slices[i + 2]
          BY <2>2, <4>1
        <5>2. SubSeq(data, 2, sum[i + 1] + 1) \o SubSeq(data, sum[i + 1] + 2, sum[i + 2] + 1)
                = SubSeq(data, 2, sum[i + 2] + 1)
          BY <4>4, SlicesJoin
        <5>3. QED
          BY <4>2, <4>3, <5>1, <5>2
      <4>6. QED
        BY <4>1, <4>5
    <3>2. CASE i + 2 \notin 1..n
      BY <3>2
    <3>3. QED
      BY <3>1, <3>2
  <2>5. U = Nat
    <3> HIDE DEF U
    <3>1. U \subseteq Nat
      BY DEF U
    <3>2. QED
      BY <2>3, <2>4, <3>1, Induction
  <2>6. n - 1 \in U
    <3> HIDE DEF U
    <3>1. n - 1 \in Nat
      BY <1>1, <1>8
    <3>2. QED
      BY <2>5, <3>1
  <2>7. (n - 1) + 1 = n /\ n \in 1..n
    BY <1>1, <1>8
  <2>8. f[n] = SubSeq(data, 2, sum[n] + 1)
    BY <2>6, <2>7
  <2>9. QED
    BY <1>4, <2>2, <2>8 DEF slices
<1>9. QED
  BY <1>1, <1>7, <1>8

(* The words of ids, but for 2^15, which is none. *)
LEMMA IntIsWrapped ==
  ASSUME NEW x \in Nat, x < 65536
  PROVE  /\ Int16(x) \in Int
         /\ x # 32768 => /\ -32768 <= Int16(x) /\ Int16(x) <= 32767
                         /\ Int16(x) = Wrap16(x)
         /\ x = 32768 => Int16(x) = 32768
BY DEF Int16, Wrap16

LEMMA ConsIsSeq ==
  ASSUME NEW S, NEW x \in S, NEW s \in Seq(S)
  PROVE  /\ <<x>> \o s \in Seq(S) /\ Len(<<x>> \o s) = Len(s) + 1 /\ (<<x>> \o s)[1] = x
         /\ SubSeq(<<x>> \o s, 2, Len(<<x>> \o s)) = s
<1> DEFINE d == <<x>> \o s
           t == SubSeq(d, 2, Len(d))
<1>1. d \in Seq(S) /\ Len(d) = Len(s) + 1 /\ d[1] = x /\ \A i \in 1..Len(s) : d[i + 1] = s[i]
  OBVIOUS
<1> HIDE DEF d
<1>2. t \in Seq(S) /\ Len(t) = Len(s) /\ \A i \in 1..Len(s) : t[i] = d[i + 1]
  BY <1>1
<1> HIDE DEF t
<1>3. t = s
  BY <1>1, <1>2
<1>4. QED
  BY <1>1, <1>3 DEF d, t

LEMMA CallIsMade ==
  ASSUME NEW f \in DOMAIN Functions, NEW nodeId \in NodeIds,
         NEW args \in [1..SumOfFirst(Functions[f], Len(Functions[f])) -> Values]
  PROVE  MadeCall(f, nodeId, args) = IF nodeId = 32768 THEN <<>> ELSE args
<1> DEFINE sizes == Functions[f]
           n == SumOfFirst(sizes, Len(sizes))
           id == Int16(nodeId)
           S == Values \cup {id}
           data == <<id>> \o args
<1>1. sizes \in Seq(Nat)
  BY MirroringAssumption
<1>2. n \in Nat
  <2>1. PICK sum \in [0..Len(sizes) -> Nat] : \A k : SumOfFirst(sizes, k) = sum[k]
    BY <1>1, SumDef
  <2>2. Len(sizes) \in 0..Len(sizes)
    BY <1>1
  <2>3. QED
    BY <2>1, <2>2
<1>3. /\ id \in Int
      /\ nodeId # 32768 => -32768 <= id /\ id <= 32767 /\ id = Wrap16(nodeId)
      /\ nodeId = 32768 => id = 32768
  <2>1. nodeId \in Nat /\ nodeId < 65536
    BY WordsAssumption
  <2> HIDE DEF id
  <2>2. QED
    BY <2>1, IntIsWrapped DEF id
<1> HIDE DEF id, n, sizes
<1>4. args \in Seq(Values) /\ Len(args) = n
  <2>1. args \in [1..n -> Values]
    BY DEF n, sizes
  <2>2. QED
    BY <1>2, <2>1
<1>5. args \in Seq(S) /\ id \in S
  BY <1>4
<1> HIDE DEF S
<1>6. /\ data \in Seq(S) /\ Len(data) = n + 1 /\ data[1] = id
      /\ SubSeq(data, 2, Len(data)) = args
  BY <1>4, <1>5, ConsIsSeq
<1> HIDE DEF data
<1>7. FlattenSeq(Arguments(sizes, data)) = args
  BY <1>1, <1>6, SlicesAreWhole DEF n
<1>8. -32768 <= data[1] /\ data[1] <= 32767 /\ data[1] = Wrap16(nodeId) <=> nodeId # 32768
  BY <1>3, <1>6
<1>9. MadeCall(f, nodeId, args) =
        IF -32768 <= data[1] /\ data[1] <= 32767 /\ data[1] = Wrap16(nodeId)
        THEN FlattenSeq(Arguments(sizes, data)) ELSE <<>>
  BY DEF MadeCall, data, id, sizes
<1>10. QED
  BY <1>7, <1>8, <1>9

(* A function that is called with all its arguments is called by the       *)
(* remote node with the same ones, whatever the functions' arguments and   *)
(* the id: the id is the node's own as a word, and the slices of the       *)
(* script are the arguments.  Only with the id 2^15, which int16 does not  *)
(* convert, the call is never made.                                        *)
THEOREM CallsAreMade ==
  Spec => []CallsReach
<1>1. Init => CallsReach
  BY DEF Init, CallsReach, NoCall
<1>2. ASSUME CallsReach, [Next]_vars
      PROVE  CallsReach'
  <2>1. ASSUME call' = NoCall
        PROVE  CallsReach'
    BY <2>1 DEF CallsReach, NoCall
  <2>2. ASSUME NEW e \in Events, NEW isHeard \in BOOLEAN, Event(e, isHeard)
        PROVE  CallsReach'
    BY <2>1, <2>2 DEF Event, LocalEvent
  <2>3. CASE Restart
    BY <2>1, <2>3 DEF Restart, StartMirroring
  <2>4. ASSUME NEW value \in BOOLEAN, Record(value)
        PROVE  CallsReach'
    BY <2>1, <2>4 DEF Record
  <2>5. ASSUME NEW v \in Names, NEW x \in Values, NEW k \in 1..Size(v), Sense(v, k, x)
        PROVE  CallsReach'
    BY <2>1, <2>5 DEF Sense
  <2>6. ASSUME NEW f \in DOMAIN Functions, NEW nodeId \in NodeIds,
               NEW args \in [1..SumOfFirst(Functions[f], Len(Functions[f])) -> Values],
               CallFunction(f, nodeId, args)
        PROVE  CallsReach'
    <3>1. MadeCall(f, nodeId, args) = IF nodeId = 32768 THEN <<>> ELSE args
      BY CallIsMade
    <3>2. QED
      BY <2>6, <3>1 DEF CallFunction, CallsReach
  <2>7. CASE Update
    BY <2>1, <2>7 DEF Update
  <2>8. CASE UpdateChanged
    BY <2>1, <2>8 DEF UpdateChanged
  <2>9. CASE UNCHANGED vars
    BY <1>2, <2>9 DEF vars, mirroringVars, CallsReach
  <2>10. QED
    BY <1>2, <2>2, <2>3, <2>4, <2>5, <2>6, <2>7, <2>8, <2>9 DEF Next
<1>3. QED
  BY <1>1, <1>2, PTL DEF Spec

-----------------------------------------------------------------------------
(* Averages.  Where the pieces of a sequence stand, and the cells of a     *)
(* variable in the payload of an event.                                    *)
LEMMA ConcatAt ==
  ASSUME NEW S, NEW g \in Seq(S), NEW t \in Seq(S)
  PROVE  /\ g \o t \in Seq(S) /\ Len(g \o t) = Len(g) + Len(t)
         /\ \A k \in 1..Len(g) : (g \o t)[k] = g[k]
         /\ \A k \in 1..Len(t) : (g \o t)[Len(g) + k] = t[k]
OBVIOUS

LEMMA LastOfRange ==
  ASSUME NEW i \in Int, NEW p \in Int, p <= i + 2, ~(p <= i + 1)
  PROVE  p = i + 2 /\ p - 1 = i + 1
OBVIOUS

(* The sums of the lengths of sequences: where each begins when they are   *)
(* put one after the other, as FlattenSeq does.                            *)
Adds(sum, s) ==
  /\ sum \in [0..Len(s) -> Nat] /\ sum[0] = 0
  /\ \A k \in 1..Len(s) : sum[k] = sum[k - 1] + Len(s[k])

Joins(flat, sum, s) ==
  /\ Len(flat) = sum[Len(s)]
  /\ \A p \in 1..Len(s) : \A k \in 1..Len(s[p]) : flat[sum[p - 1] + k] = s[p][k]

LEMMA PiecesStand ==
  ASSUME NEW S, NEW s \in Seq(Seq(S)), Len(s) > 0, NEW sum, Adds(sum, s)
  PROVE  FlattenSeq(s) \in Seq(S) /\ Joins(FlattenSeq(s), sum, s)
<1> DEFINE n == Len(s)
<1>1. /\ n \in Nat /\ n > 0 /\ s \in [1..n -> Seq(S)]
      /\ sum \in [0..n -> Nat] /\ sum[0] = 0
      /\ \A k \in 1..n : sum[k] = sum[k - 1] + Len(s[k])
  BY DEF Adds
<1>2. \E f \in [1..n -> Seq(S)] :
        /\ f[1] = s[1] /\ \A i \in 2..n : f[i] = f[i - 1] \o s[i]
        /\ FlattenSeq(s) = f[n]
  BY FlattenDef
<1> HIDE DEF n
<1> USE <1>1
<1>3. PICK f \in [1..n -> Seq(S)] :
        /\ f[1] = s[1] /\ \A i \in 2..n : f[i] = f[i - 1] \o s[i]
        /\ FlattenSeq(s) = f[n]
  BY <1>2
<1> DEFINE Stands(i) ==
             /\ Len(f[i]) = sum[i]
             /\ \A p \in 1..i : \A k \in 1..Len(s[p]) :
                  sum[p - 1] + k \in 1..sum[i] /\ f[i][sum[p - 1] + k] = s[p][k]
           T == {i \in Nat : i + 1 \in 1..n => Stands(i + 1)}
<1>4. 0 \in T
  <2>1. 1 \in 1..n /\ 1 - 1 = 0 /\ s[1] \in Seq(S)
    OBVIOUS
  <2>2. sum[1] = Len(s[1]) /\ f[1] = s[1]
    BY <1>3, <2>1
  <2>3. Stands(1)
    BY <2>1, <2>2
  <2>4. QED
    BY <2>3
<1>5. ASSUME NEW i \in T
      PROVE  i + 1 \in T
  <2>1. ASSUME i + 2 \in 1..n
        PROVE  Stands(i + 2)
    <3>1. /\ i \in Nat /\ i + 1 \in 1..n /\ i + 2 \in 2..n /\ (i + 2) - 1 = i + 1
      BY <2>1
    <3>2. Stands(i + 1)
      BY <3>1
    <3>3. f[i + 2] = f[i + 1] \o s[i + 2]
      <4>1. f[i + 2] = f[(i + 2) - 1] \o s[i + 2]
        BY <1>3, <3>1
      <4>2. QED
        BY <3>1, <4>1
    <3>4. sum[i + 2] = sum[i + 1] + Len(s[i + 2])
      <4>1. i + 2 \in 1..n
        BY <2>1
      <4>2. QED
        BY <3>1, <4>1
    <3>5. /\ f[i + 1] \in Seq(S) /\ s[i + 2] \in Seq(S) /\ Len(s[i + 2]) \in Nat
          /\ sum[i + 1] \in Nat /\ Len(f[i + 1]) = sum[i + 1]
      <4>1. i + 1 \in 0..n /\ i + 2 \in 1..n
        BY <2>1, <3>1
      <4>2. f[i + 1] \in Seq(S) /\ sum[i + 1] \in Nat
        BY <3>1, <4>1
      <4>3. s[i + 2] \in Seq(S)
        BY <4>1
      <4>4. Len(s[i + 2]) \in Nat
        BY <4>3
      <4>5. Len(f[i + 1]) = sum[i + 1]
        BY <3>2
      <4>6. QED
        BY <4>2, <4>3, <4>4, <4>5
    <3> DEFINE a == sum[i + 1]
               g == f[i + 1]
               t == s[i + 2]
    <3> HIDE DEF a, g, t
    <3>6. /\ f[i + 2] = g \o t /\ g \in Seq(S) /\ t \in Seq(S) /\ a \in Nat /\ Len(g) = a
          /\ Len(t) \in Nat /\ sum[i + 2] = a + Len(t)
      BY <3>3, <3>4, <3>5 DEF a, g, t
    <3>7. /\ Len(g \o t) = a + Len(t)
          /\ \A k \in 1..a : (g \o t)[k] = g[k]
          /\ \A k \in 1..Len(t) : (g \o t)[a + k] = t[k]
      <4>1. /\ Len(g \o t) = Len(g) + Len(t)
            /\ \A k \in 1..Len(g) : (g \o t)[k] = g[k]
            /\ \A k \in 1..Len(t) : (g \o t)[Len(g) + k] = t[k]
        <5>1. g \in Seq(S) /\ t \in Seq(S)
          BY <3>6
        <5>2. QED
          BY <5>1, ConcatAt
      <4>2. Len(g) = a
        BY <3>6
      <4>3. QED
        BY <4>1, <4>2
    <3>8. Len(f[i + 2]) = sum[i + 2]
      BY <3>6, <3>7
    <3>9. ASSUME NEW p \in 1..(i + 2), NEW k \in 1..Len(s[p])
          PROVE  sum[p - 1] + k \in 1..sum[i + 2] /\ f[i + 2][sum[p - 1] + k] = s[p][k]
      <4>1. CASE p \in 1..(i + 1)
        <5>1. sum[p - 1] + k \in 1..a /\ g[sum[p - 1] + k] = s[p][k]
          BY <3>2, <4>1 DEF a, g
        <5>2. (g \o t)[sum[p - 1] + k] = g[sum[p - 1] + k]
          BY <3>7, <5>1
        <5>3. sum[p - 1] + k \in 1..sum[i + 2]
          <6> DEFINE x == sum[p - 1] + k
                     l == Len(t)
          <6>1. x \in Int /\ 1 <= x /\ x <= a /\ a \in Nat /\ l \in Nat /\ sum[i + 2] = a + l
            BY <3>6, <5>1
          <6> HIDE DEF x, l
          <6>2. x \in 1..a + l
            BY <6>1
          <6>3. QED
            BY <6>1, <6>2 DEF x
        <5>4. QED
          BY <3>6, <5>1, <5>2, <5>3
      <4>2. CASE p \notin 1..(i + 1)
        <5>1. p = i + 2 /\ p - 1 = i + 1
          <6>1. i \in Int
            BY <3>1
          <6>2. p \in Int /\ 1 <= p /\ p <= i + 2
            BY <3>9, <6>1
          <6>3. ~(p <= i + 1)
            BY <4>2, <6>1, <6>2
          <6>4. QED
            BY <6>1, <6>2, <6>3, LastOfRange
        <5>2. k \in 1..Len(t) /\ s[p][k] = t[k] /\ sum[p - 1] = a
          BY <5>1 DEF t, a
        <5>3. (g \o t)[a + k] = t[k]
          BY <3>7, <5>2
        <5>4. a + k \in 1..sum[i + 2]
          BY <3>6, <5>2
        <5>5. QED
          BY <3>6, <5>2, <5>3, <5>4
      <4>3. QED
        BY <4>1, <4>2, Zenon
    <3>10. QED
      BY <3>8, <3>9
  <2>2. i + 1 \in Nat /\ (i + 1) + 1 = i + 2
    OBVIOUS
  <2> HIDE DEF Stands
  <2>3. QED
    BY <2>1, <2>2
<1>6. T = Nat
  <2> HIDE DEF T
  <2>1. T \subseteq Nat
    BY DEF T
  <2>2. QED
    BY <1>4, <1>5, <2>1, Induction
<1>7. n - 1 \in T
  <2> HIDE DEF T
  <2>1. n - 1 \in Nat
    OBVIOUS
  <2>2. QED
    BY <1>6, <2>1
<1>8. Stands(n)
  <2>1. (n - 1) + 1 = n /\ n \in 1..n
    OBVIOUS
  <2> HIDE DEF Stands
  <2>2. QED
    BY <1>7, <2>1
<1>9. f[n] \in Seq(S)
  OBVIOUS
<1>10. QED
  BY <1>3, <1>8, <1>9 DEF Joins, n

-----------------------------------------------------------------------------
LEMMA WrapKeeps ==
  ASSUME NEW x \in Int, -32768 <= x, x <= 32767
  PROVE  Wrap16(x) = x
BY DEF Wrap16

(* Sums may wrap on the way. *)
LEMMA WrapsJoin ==
  ASSUME NEW s \in Int, NEW x \in Int
  PROVE  Wrap16(s) \in Int /\ Wrap16(Wrap16(s) + x) = Wrap16(s + x)
BY DEF Wrap16

LEMMA QuotientByOne ==
  ASSUME NEW x \in Int
  PROVE  Quotient(x, 1) = x
BY DEF Quotient

-----------------------------------------------------------------------------
(* Contents of the variables of a remote node. *)
Memories == {m \in [Names -> Seq(Values)] : \A v \in Names : DOMAIN m[v] = 1..Size(v)}

Flat(e, m) == FlattenSeq([k \in DOMAIN Config[e].variables |-> m[Config[e].variables[k]]])

(* read_variables cuts the cells of a variable out of a payload where the  *)
(* script has put them.                                                    *)
LEMMA CellAt ==
  ASSUME NEW e \in Mirrored, NEW v \in ToSet(Config[e].variables)
  PROVE  /\ v \in Names /\ Size(v) \in Nat /\ Offset(e, v) \in Nat
         /\ SizeOfFirst(e, Len(Config[e].variables)) \in Nat
         /\ Offset(e, v) + Size(v) <= SizeOfFirst(e, Len(Config[e].variables))
         /\ \A m \in Memories :
              /\ Flat(e, m) \in Seq(Values)
              /\ Len(Flat(e, m)) = SizeOfFirst(e, Len(Config[e].variables))
              /\ \A k \in 1..Size(v) : Flat(e, m)[Offset(e, v) + k] = m[v][k]
<1> DEFINE vs == Config[e].variables
           n == Len(vs)
           sizes == [k \in DOMAIN vs |-> Size(vs[k])]
           p == CHOOSE k \in DOMAIN vs : vs[k] = v
<1>1. vs \in Seq(Names)
  BY MirroringAssumption DEF Mirrored
<1>2. n \in Nat /\ vs \in [1..n -> Names]
  BY <1>1
<1>3. p \in DOMAIN vs /\ vs[p] = v
  <2>1. \E k \in DOMAIN vs : vs[k] = v
    BY <1>1 DEF ToSet
  <2>2. QED
    BY <2>1
<1>4. p \in 1..n /\ n > 0 /\ v \in Names /\ Size(v) \in Nat
  <2> HIDE DEF p, vs
  <2>1. DOMAIN vs = 1..n
    BY <1>2
  <2>2. p \in 1..n /\ n > 0
    BY <1>2, <1>3, <2>1
  <2>3. v \in Names
    BY <1>2, <1>3, <2>2
  <2>4. QED
    BY <2>2, <2>3, SizeIsNat
<1>5. sizes \in Seq(Nat) /\ Len(sizes) = n /\ sizes \in [1..n -> Nat]
      /\ \A k \in 1..n : sizes[k] = Size(vs[k])
  <2>1. sizes \in [1..n -> Nat] /\ \A k \in 1..n : sizes[k] = Size(vs[k])
    <3> HIDE DEF vs, n
    <3>1. QED
      BY <1>2, SizeIsNat
  <2>2. \A x \in Nat : \A c \in [1..x -> Nat] : c \in Seq(Nat) /\ Len(c) = x
    OBVIOUS
  <2> HIDE DEF sizes, n, vs
  <2>3. QED
    BY <1>2, <2>1, <2>2
<1>6. \A k : SizeOfFirst(e, k) = SumOfFirst(sizes, k)
  BY DEF SizeOfFirst
<1>7. Offset(e, v) = SizeOfFirst(e, p - 1)
  BY DEF Offset
<1> HIDE DEF sizes, p, n, vs
<1>8. PICK sum \in [0..n -> Nat] :
        /\ sum[0] = 0 /\ \A k \in 1..n : sum[k] = sum[k - 1] + sizes[k]
        /\ \A k : SumOfFirst(sizes, k) = sum[k]
  BY <1>5, SumDef
<1>9. Offset(e, v) = sum[p - 1] /\ SizeOfFirst(e, n) = sum[n]
  BY <1>6, <1>7, <1>8
<1>10. /\ p - 1 \in 0..n /\ p \in 0..n /\ n \in 0..n
       /\ sum[p - 1] \in Nat /\ sum[p] \in Nat /\ sum[n] \in Nat
  BY <1>2, <1>4, <1>8
<1>11. sum[p] <= sum[n]
  BY <1>2, <1>5, <1>8, <1>10, SumsGrow
<1>12. sum[p] = sum[p - 1] + Size(v)
  BY <1>3, <1>4, <1>5, <1>8
<1>13. ASSUME NEW m \in Memories
       PROVE  /\ Flat(e, m) \in Seq(Values) /\ Len(Flat(e, m)) = sum[n]
              /\ \A k \in 1..Size(v) : Flat(e, m)[sum[p - 1] + k] = m[v][k]
  <2> DEFINE cells == [k \in DOMAIN vs |-> m[vs[k]]]
  <2>1. m \in [Names -> Seq(Values)] /\ \A w \in Names : DOMAIN m[w] = 1..Size(w)
    BY DEF Memories
  <2>2. cells \in [1..n -> Seq(Values)] /\ \A k \in 1..n : cells[k] = m[vs[k]]
    BY <1>2, <2>1
  <2>3. \A x \in Nat : \A c \in [1..x -> Seq(Values)] : c \in Seq(Seq(Values)) /\ Len(c) = x
    OBVIOUS
  <2>4. \A w \in Names : Len(m[w]) = Size(w)
    <3>1. ASSUME NEW S, NEW l \in Nat, NEW x \in Seq(S), DOMAIN x = 1..l
          PROVE  Len(x) = l
      BY <3>1
    <3>2. QED
      BY <2>1, <3>1, SizeIsNat
  <2>5. Flat(e, m) = FlattenSeq(cells)
    BY DEF Flat, vs
  <2> HIDE DEF cells
  <2>6. cells \in Seq(Seq(Values)) /\ Len(cells) = n
    BY <1>2, <2>2, <2>3
  <2>7. \A k \in 1..n : sizes[k] = Len(cells[k])
    <3>1. ASSUME NEW k \in 1..n
          PROVE  sizes[k] = Len(cells[k])
      <4>1. vs[k] \in Names
        BY <1>2
      <4>2. QED
        BY <1>5, <2>2, <2>4, <4>1
    <3>2. QED
      BY <3>1
  <2>8. \A k \in 1..n : sum[k] = sum[k - 1] + Len(cells[k])
    BY <1>8, <2>7
  <2>9. /\ FlattenSeq(cells) \in Seq(Values) /\ Len(FlattenSeq(cells)) = sum[n]
        /\ \A q \in 1..n : \A k \in 1..Len(cells[q]) :
             FlattenSeq(cells)[sum[q - 1] + k] = cells[q][k]
    <3>1. Len(cells) > 0 /\ Adds(sum, cells)
      BY <1>4, <1>8, <2>6, <2>8 DEF Adds
    <3>2. FlattenSeq(cells) \in Seq(Values) /\ Joins(FlattenSeq(cells), sum, cells)
      BY <2>6, <3>1, PiecesStand, Zenon
    <3>3. QED
      BY <2>6, <3>2, Zenon DEF Joins
  <2>10. cells[p] = m[v] /\ Len(cells[p]) = Size(v)
    BY <1>3, <1>4, <2>2, <2>4
  <2>11. QED
    BY <1>4, <2>5, <2>9, <2>10
<1>14. QED
  BY <1>4, <1>9, <1>10, <1>11, <1>12, <1>13 DEF n, vs

LEMMA SliceAt ==
  ASSUME NEW d, NEW o \in Nat, NEW l \in Nat, NEW k \in 1..l
  PROVE  SubSeq(d, o + 1, o + l)[k] = d[o + k]
OBVIOUS

LEMMA PrefixStays ==
  ASSUME NEW S, NEW d \in Seq(S), NEW x, NEW i \in 1..Len(d)
  PROVE  (d \o <<x>>)[i] = d[i] /\ (d \o <<>>)[i] = d[i]
OBVIOUS

(* What a cell of a variable was in a sequence of memories. *)
CellOfAll(seen, v, k) == [j \in DOMAIN seen |-> seen[j][v][k]]

Total(seen, v, k) == SumOfFirst(CellOfAll(seen, v, k), Len(seen))

(* A window: the payload sums n samples of the memory, by 16 bits. *)
SumsUp(e, n, sum, seen) ==
  /\ n \in Nat /\ n < Config[e].window /\ seen \in Seq(Memories) /\ Len(seen) = n
  /\ ~Averages(e) => n = 0
  /\ \A v \in ToSet(Config[e].variables) : \A k \in 1..Size(v) :
       sum[Offset(e, v) + k] = Wrap16(Total(seen, v, k))

AverageInv ==
  /\ memory \in Memories
  /\ sums = [e \in Mirrored |-> sums[e]] /\ window = [e \in Mirrored |-> window[e]]
  /\ samples = [e \in Mirrored |-> samples[e]]
  /\ \A e \in Mirrored : SumsUp(e, window[e], sums[e], samples[e])

LEMMA CellIsInt ==
  ASSUME NEW m \in Memories, NEW v \in Names, NEW k \in 1..Size(v)
  PROVE  m[v][k] \in Int /\ -32768 <= m[v][k] /\ m[v][k] <= 32767
<1>1. m[v] \in Seq(Values) /\ k \in DOMAIN m[v]
  BY DEF Memories
<1>2. m[v][k] \in Values
  BY <1>1
<1>3. QED
  BY <1>2, WordsAssumption

LEMMA TotalGrows ==
  ASSUME NEW seen \in Seq(Memories), NEW m \in Memories, NEW v \in Names, NEW k \in 1..Size(v)
  PROVE  /\ Total(seen, v, k) \in Int
         /\ Total(Append(seen, m), v, k) = Total(seen, v, k) + m[v][k]
<1> DEFINE s == CellOfAll(seen, v, k)
           t == CellOfAll(Append(seen, m), v, k)
           x == m[v][k]
           n == Len(seen)
<1>1. /\ n \in Nat /\ DOMAIN seen = 1..n /\ DOMAIN Append(seen, m) = 1..n + 1
      /\ Append(seen, m)[n + 1] = m /\ \A j \in 1..n : Append(seen, m)[j] = seen[j]
      /\ \A j \in 1..n : seen[j] \in Memories /\ Len(Append(seen, m)) = n + 1
  OBVIOUS
<1>2. s = [j \in 1..n |-> s[j]] /\ \A j \in 1..n : s[j] = seen[j][v][k] /\ s[j] \in Int
  <2>1. \A j \in 1..n : seen[j][v][k] \in Int
    BY <1>1, CellIsInt
  <2>2. QED
    BY <1>1, <2>1 DEF CellOfAll
<1>3. /\ t = [j \in 1..n + 1 |-> t[j]] /\ t[n + 1] = x
      /\ \A j \in 1..n : t[j] = seen[j][v][k]
  <2> HIDE DEF n, x
  <2>1. \A j \in 1..n : j \in 1..n + 1
    BY <1>1
  <2>2. n + 1 \in 1..n + 1
    BY <1>1
  <2>3. QED
    BY <1>1, <2>1, <2>2 DEF CellOfAll, x
<1>4. x \in Int
  BY CellIsInt
<1> HIDE DEF s, t, x, n
<1>5. s \in Seq(Int) /\ Len(s) = n
  BY <1>1, <1>2
<1>6. t = Append(s, x)
  <2> DEFINE u == Append(s, x)
  <2>1. u \in Seq(Int) /\ Len(u) = n + 1 /\ u[n + 1] = x /\ \A j \in 1..n : u[j] = s[j]
    BY <1>1, <1>4, <1>5
  <2> HIDE DEF u
  <2>2. u = [j \in 1..n + 1 |-> u[j]]
    BY <1>1, <2>1
  <2>3. \A j \in 1..n + 1 : j \in 1..n \/ j = n + 1
    BY <1>1
  <2>4. \A j \in 1..n + 1 : u[j] = t[j]
    BY <1>2, <1>3, <2>1, <2>3
  <2>5. u = t
    BY <1>3, <2>2, <2>4
  <2>6. QED
    BY <2>5 DEF u
<1>7. /\ SumOfFirst(s, Len(s)) \in Int
      /\ SumOfFirst(Append(s, x), Len(s) + 1) = SumOfFirst(s, Len(s)) + x
  BY <1>4, <1>5, SumOfAppended
<1>8. Total(seen, v, k) = SumOfFirst(s, Len(s))
  BY <1>5 DEF Total, s, n
<1>9. Total(Append(seen, m), v, k) = SumOfFirst(t, Len(s) + 1)
  BY <1>1, <1>5 DEF Total, t, n
<1>10. QED
  BY <1>6, <1>7, <1>8, <1>9 DEF x

LEMMA TotalOfNone ==
  ASSUME NEW v, NEW k
  PROVE  Total(<<>>, v, k) = 0
<1>1. CellOfAll(<<>>, v, k) = <<>> /\ Len(<<>>) = 0
  BY DEF CellOfAll
<1>2. PICK f \in [0..Len(<<>>) -> Nat] : f[0] = 0 /\ \A j : SumOfFirst(<<>>, j) = f[j]
  <2>1. <<>> \in Seq(Nat)
    OBVIOUS
  <2>2. QED
    BY <2>1, SumDef
<1>3. QED
  BY <1>1, <1>2 DEF Total

LEMMA CellsFit ==
  ASSUME NEW e \in Mirrored, NEW v \in ToSet(Config[e].variables), NEW k \in 1..Size(v)
  PROVE  /\ MessageSize(e) \in Nat /\ Offset(e, v) + k \in 1..MessageSize(e)
         /\ Offset(e, v) + k \in 1..SizeOfFirst(e, Len(Config[e].variables))
<1> DEFINE l == SizeOfFirst(e, Len(Config[e].variables))
           c == IF Config[e].use_counter THEN 1 ELSE 0
           o == Offset(e, v)
           z == Size(v)
<1>1. o \in Nat /\ z \in Nat /\ l \in Nat /\ o + z <= l
  BY CellAt
<1>2. MessageSize(e) = l + c /\ c \in {0, 1}
  BY DEF MessageSize
<1>3. k \in 1..z
  OBVIOUS
<1> HIDE DEF l, c, o, z
<1>4. o + k \in 1..l /\ o + k \in 1..l + c /\ l + c \in Nat
  BY <1>1, <1>2, <1>3
<1>5. QED
  BY <1>2, <1>4 DEF l, o

LEMMA EmptyWindow ==
  ASSUME NEW e \in Mirrored
  PROVE  SumsUp(e, 0, Zeros(MessageSize(e)), <<>>)
<1>1. \A v \in ToSet(Config[e].variables) : \A k \in 1..Size(v) :
        Zeros(MessageSize(e))[Offset(e, v) + k] = 0
  BY CellsFit DEF Zeros
<1>2. 0 < Config[e].window
  BY MirroringAssumption DEF Mirrored
<1>3. Wrap16(0) = 0
  BY DEF Wrap16
<1>4. <<>> \in Seq(Memories) /\ Len(<<>>) = 0
  OBVIOUS
<1>5. QED
  BY <1>1, <1>2, <1>3, <1>4, TotalOfNone DEF SumsUp

(* A sample shows the contents of the memory; it is added cell by cell. *)
Shows(e, sample, m) ==
  \A v \in ToSet(Config[e].variables) : \A k \in 1..Size(v) :
    sample[Offset(e, v) + k] = m[v][k]

Summed(e, sum, sample) == [k \in 1..MessageSize(e) |-> Wrap16(sum[k] + sample[k])]

LEMMA FullerWindow ==
  ASSUME NEW e \in Mirrored, NEW n, NEW sum, NEW seen, SumsUp(e, n, sum, seen),
         NEW m \in Memories, NEW t, Shows(e, t, m), NEW z, z = Summed(e, sum, t)
  PROVE  /\ Averages(e) /\ n + 1 # Config[e].window => SumsUp(e, n + 1, z, Append(seen, m))
         /\ \A v \in ToSet(Config[e].variables) : \A k \in 1..Size(v) :
              z[Offset(e, v) + k] = Wrap16(Total(Append(seen, m), v, k))
<1>1. /\ n \in Nat /\ n < Config[e].window /\ seen \in Seq(Memories) /\ Len(seen) = n
      /\ Config[e].window \in Nat
  BY MirroringAssumption DEF SumsUp, Mirrored
<1>2. ASSUME NEW v \in ToSet(Config[e].variables), NEW k \in 1..Size(v)
      PROVE  z[Offset(e, v) + k] = Wrap16(Total(Append(seen, m), v, k))
  <2> DEFINE i == Offset(e, v) + k
             x == m[v][k]
             s == Total(seen, v, k)
  <2>1. i \in 1..MessageSize(e) /\ v \in Names
    BY CellsFit, CellAt
  <2>2. z[i] = Wrap16(sum[i] + x)
    BY <2>1 DEF Shows, Summed
  <2>3. sum[i] = Wrap16(s)
    BY Zenon DEF SumsUp
  <2>4. x \in Int
    BY <2>1, CellIsInt
  <2>5. s \in Int /\ Total(Append(seen, m), v, k) = s + x
    BY <1>1, <2>1, TotalGrows
  <2> HIDE DEF i, x, s
  <2>6. z[i] = Wrap16(Total(Append(seen, m), v, k))
    BY <2>2, <2>3, <2>4, <2>5, WrapsJoin
  <2>7. QED
    BY <2>6 DEF i
<1>3. ASSUME Averages(e), n + 1 # Config[e].window
      PROVE  SumsUp(e, n + 1, z, Append(seen, m))
  <2>1. n + 1 \in Nat /\ n + 1 < Config[e].window
    BY <1>1, <1>3
  <2>2. Append(seen, m) \in Seq(Memories) /\ Len(Append(seen, m)) = n + 1
    BY <1>1
  <2>3. QED
    BY <1>2, <1>3, <2>1, <2>2 DEF SumsUp
<1>4. QED
  BY <1>2, <1>3

LEMMA AverageInit ==
  ASSUME Init
  PROVE  AverageInv /\ ReadsTheAverage
<1>1. memory \in Memories
  <2>1. ASSUME NEW v \in Names
        PROVE  [k \in 1..Size(v) |-> 0] \in Seq(Values)
    BY SizeIsNat, ThymioAssumption
  <2>2. memory = [v \in Names |-> [k \in 1..Size(v) |-> 0]]
    BY DEF Init
  <2>3. QED
    BY <2>1, <2>2 DEF Memories
<1>2. /\ sums = [e \in Mirrored |-> Zeros(MessageSize(e))] /\ window = [e \in Mirrored |-> 0]
      /\ samples = [e \in Mirrored |-> <<>>]
  BY DEF Init
<1>3. \A e \in Mirrored : SumsUp(e, window[e], sums[e], samples[e])
  BY <1>2, EmptyWindow
<1>4. ReadsTheAverage
  BY DEF Init, ReadsTheAverage
<1>5. QED
  BY <1>1, <1>2, <1>3, <1>4 DEF AverageInv

LEMMA StartResets ==
  ASSUME AverageInv, StartMirroring
  PROVE  AverageInv' /\ read' = <<>>
<1>1. CASE Compiles
  <2>1. /\ sums' = [e \in Mirrored |-> Zeros(MessageSize(e))]
        /\ window' = [e \in Mirrored |-> 0] /\ samples' = [e \in Mirrored |-> <<>>]
        /\ memory' = memory /\ read' = <<>>
    BY <1>1 DEF StartMirroring
  <2>2. \A e \in Mirrored : SumsUp(e, window'[e], sums'[e], samples'[e])
    BY <2>1, EmptyWindow
  <2>3. QED
    BY <2>1, <2>2 DEF AverageInv
<1>2. CASE ~Compiles
  BY <1>2 DEF StartMirroring, script, AverageInv
<1>3. QED
  BY <1>1, <1>2

LEMMA SampleAt ==
  ASSUME AverageInv, NEW e \in Mirrored, NEW v \in ToSet(Config[e].variables), NEW k \in 1..Size(v)
  PROVE  Sample(e)[Offset(e, v) + k] = memory[v][k]
<1> DEFINE i == Offset(e, v) + k
           flat == Flat(e, memory)
<1>1. memory \in Memories
  BY DEF AverageInv
<1>2. /\ flat \in Seq(Values) /\ i \in 1..Len(flat) /\ flat[i] = memory[v][k]
  BY <1>1, CellAt, CellsFit
<1>3. Sample(e) = flat \o <<counter[CounterOf(e)]>> \/ Sample(e) = flat \o <<>>
  BY DEF Sample, Flat
<1> HIDE DEF i, flat
<1>4. Sample(e)[i] = flat[i]
  BY <1>2, <1>3, PrefixStays
<1>5. QED
  BY <1>2, <1>4 DEF i

LEMMA EventAverages ==
  ASSUME AverageInv, NEW e \in Events, NEW isHeard \in BOOLEAN, LocalEvent(e, isHeard)
  PROVE  AverageInv' /\ ReadsTheAverage'
<1> DEFINE vs == Config[e].variables
           W == Config[e].window
           seen == samples[e]
           now == Append(seen, memory)
           z == Sum(e)
<1>1. /\ e \in Mirrored /\ memory \in Memories /\ memory' = memory
      /\ SumsUp(e, window[e], sums[e], seen)
  BY DEF LocalEvent, AverageInv
<1>2. Shows(e, Sample(e), memory)
  BY <1>1, SampleAt DEF Shows
<1>3. z = Summed(e, sums[e], Sample(e))
  BY DEF Sum, Summed
<1>4. /\ Averages(e) /\ window[e] + 1 # W => SumsUp(e, window[e] + 1, z, now)
      /\ \A v \in ToSet(vs) : \A k \in 1..Size(v) : z[Offset(e, v) + k] = Wrap16(Total(now, v, k))
  <2> HIDE DEF z
  <2>1. QED
    BY <1>1, <1>2, <1>3, FullerWindow
<1>5. AverageInv'
  <2>1. CASE ~Averages(e)
    BY <1>1, <2>1 DEF LocalEvent, AverageInv
  <2>2. CASE Averages(e) /\ Emits(e)
    <3>1. /\ window' = [window EXCEPT ![e] = 0] /\ samples' = [samples EXCEPT ![e] = <<>>]
          /\ sums' = [sums EXCEPT ![e] = Zeros(MessageSize(e))]
      BY <2>2 DEF LocalEvent, ResetWindow
    <3>2. SumsUp(e, 0, Zeros(MessageSize(e)), <<>>)
      BY <1>1, EmptyWindow
    <3>3. QED
      BY <1>1, <3>1, <3>2 DEF AverageInv
  <2>3. CASE Averages(e) /\ ~Emits(e)
    <3>1. /\ window' = [window EXCEPT ![e] = window[e] + 1] /\ sums' = [sums EXCEPT ![e] = z]
          /\ samples' = [samples EXCEPT ![e] = now]
      BY <2>3 DEF LocalEvent
    <3>2. window[e] + 1 # W
      BY <2>3 DEF Emits
    <3> HIDE DEF z, now
    <3>3. SumsUp(e, window[e] + 1, z, now)
      BY <1>4, <2>3, <3>2
    <3>4. QED
      BY <1>1, <3>1, <3>3 DEF AverageInv
  <2>4. QED
    BY <2>1, <2>2, <2>3
<1>6. ReadsTheAverage'
  <2>1. CASE ~isHeard
    BY <2>1 DEF LocalEvent, ReadsTheAverage
  <2>2. CASE isHeard
    <3> DEFINE data == Payload(e)
    <3>1. /\ Emits(e) /\ DOMAIN read' = ToSet(vs)
          /\ \A v \in ToSet(vs) :
               /\ values'[v] = SubSeq(data, Offset(e, v) + 1, Offset(e, v) + Size(v))
               /\ read'[v] = [j \in DOMAIN now |-> now[j][v]]
      <4>1. \A v \in ToSet(vs) : v \in Names
        BY <1>1, CellAt
      <4>2. QED
        BY <2>2, <4>1 DEF LocalEvent, ReadVariables
    <3>2. /\ now \in Seq(Memories) /\ Len(now) = window[e] + 1 /\ DOMAIN now = 1..Len(now)
          /\ seen \in Seq(Memories) /\ window[e] \in Nat /\ Len(seen) = window[e]
      <4>1. seen \in Seq(Memories) /\ Len(seen) = window[e] /\ window[e] \in Nat
        BY <1>1 DEF SumsUp
      <4>2. QED
        BY <1>1, <4>1
    <3>3. ASSUME NEW v \in ToSet(vs), NEW k \in 1..Size(v)
          PROVE  values'[v][k] = Quotient(Wrap16(Total(now, v, k)), Len(now))
      <4> DEFINE i == Offset(e, v) + k
      <4>1. values'[v][k] = data[i]
        <5> HIDE DEF data
        <5>1. Offset(e, v) \in Nat /\ Size(v) \in Nat
          BY <1>1, CellAt
        <5>2. SubSeq(data, Offset(e, v) + 1, Offset(e, v) + Size(v))[k] = data[i]
          BY <5>1, SliceAt
        <5>3. QED
          BY <3>1, <5>2
      <4>2. i \in 1..MessageSize(e) /\ v \in Names
        BY <1>1, CellsFit, CellAt
      <4>3. CASE Averages(e)
        <5>1. data[i] = Quotient(z[i], W)
          BY <4>2, <4>3 DEF Payload
        <5>2. Len(now) = W
          BY <3>1, <3>2, <4>3 DEF Emits
        <5>3. z[i] = Wrap16(Total(now, v, k))
          BY <1>4
        <5>4. QED
          BY <4>1, <5>1, <5>2, <5>3
      <4>4. CASE ~Averages(e)
        <5>1. vs # <<>>
          BY DEF ToSet
        <5>2. data[i] = memory[v][k]
          BY <1>2, <4>4, <5>1 DEF Payload, Shows
        <5> DEFINE x == memory[v][k]
        <5>3. x \in Int /\ -32768 <= x /\ x <= 32767
          BY <1>1, <4>2, CellIsInt
        <5>4. seen = <<>> /\ Len(now) = 1
          <6>1. window[e] = 0
            BY <1>1, <4>4 DEF SumsUp
          <6>2. QED
            BY <3>2, <6>1
        <5>5. Total(now, v, k) = Total(<<>>, v, k) + x
          <6>1. <<>> \in Seq(Memories)
            OBVIOUS
          <6>2. QED
            BY <1>1, <4>2, <5>4, <6>1, TotalGrows
        <5> HIDE DEF now, seen, x, data, i
        <5>6. Total(now, v, k) = x
          BY <5>3, <5>5, TotalOfNone
        <5>7. Quotient(Wrap16(x), 1) = x
          BY <5>3, WrapKeeps, QuotientByOne
        <5>8. QED
          BY <4>1, <5>2, <5>4, <5>6, <5>7 DEF x
      <4>5. QED
        BY <4>3, <4>4
    <3>4. ASSUME NEW v \in ToSet(vs), NEW k \in 1..Size(v)
          PROVE  /\ DOMAIN read'[v] = DOMAIN now /\ Len(read'[v]) = Len(now)
                 /\ [j \in DOMAIN read'[v] |-> read'[v][j][k]] = CellOfAll(now, v, k)
      <4> HIDE DEF now
      <4>1. read'[v] = [j \in 1..Len(now) |-> now[j][v]] /\ Len(now) \in Nat
        BY <3>1, <3>2
      <4>2. DOMAIN read'[v] = DOMAIN now /\ Len(read'[v]) = Len(now)
        BY <3>2, <4>1
      <4>3. QED
        BY <3>2, <4>1, <4>2 DEF CellOfAll
    <3> HIDE DEF now, data
    <3>5. \A v \in DOMAIN read' : \A k \in 1..Size(v) :
            values'[v][k] =
              Quotient(Wrap16(SumOfFirst([j \in DOMAIN read'[v] |-> read'[v][j][k]], Len(read'[v]))),
                       Len(read'[v]))
      BY <3>1, <3>3, <3>4 DEF Total
    <3>6. QED
      BY <3>5 DEF ReadsTheAverage
  <2>3. QED
    BY <2>1, <2>2
<1>7. QED
  BY <1>5, <1>6

(* A variable that changes keeps its size. *)
LEMMA SenseKeeps ==
  ASSUME memory \in Memories, NEW v \in Names, NEW x \in Values, NEW k, Sense(v, k, x)
  PROVE  memory' \in Memories
<1>1. memory' = [memory EXCEPT ![v] = [memory[v] EXCEPT ![k] = x]]
  BY DEF Sense
<1>2. /\ memory \in [Names -> Seq(Values)]
      /\ \A w \in Names : DOMAIN memory[w] = 1..Size(w)
  BY DEF Memories
<1>3. /\ [memory[v] EXCEPT ![k] = x] \in Seq(Values)
      /\ DOMAIN [memory[v] EXCEPT ![k] = x] = DOMAIN memory[v]
  BY <1>2, CellChanges
<1>4. /\ memory' \in [Names -> Seq(Values)]
      /\ \A w \in Names : DOMAIN memory'[w] = 1..Size(w)
  BY <1>1, <1>2, <1>3
<1>5. QED
  BY <1>4 DEF Memories

(* What is read out of an event is the mean of the samples of its window,  *)
(* for variables of any sizes in any order, windows of any length and      *)
(* values of any sign, whenever their total fits 16 bits, even if the sums *)
(* on the way did not; and what 16 bits leave of it if it does not: the    *)
(* script's sums and quotients (mirroring.py 150-155) and the slices of    *)
(* read_variables.                                                         *)
THEOREM AveragesAreRead ==
  Spec => []ReadsTheAverage
<1>1. ASSUME AverageInv, ReadsTheAverage, [Next]_vars
      PROVE  AverageInv' /\ ReadsTheAverage'
  <2>1. ASSUME NEW e \in Events, NEW isHeard \in BOOLEAN, Event(e, isHeard)
        PROVE  AverageInv' /\ ReadsTheAverage'
    BY <1>1, <2>1, EventAverages DEF Event
  <2>2. ASSUME read' = <<>>
        PROVE  ReadsTheAverage'
    BY <2>2 DEF ReadsTheAverage
  <2>3. ASSUME UNCHANGED <<sums, window, samples>>, memory' \in Memories
        PROVE  AverageInv'
    BY <1>1, <2>3 DEF AverageInv
  <2>4. memory \in Memories
    BY <1>1 DEF AverageInv
  <2>5. CASE Restart
    BY <1>1, <2>2, <2>5, StartResets DEF Restart
  <2>6. ASSUME NEW value \in BOOLEAN, Record(value)
        PROVE  AverageInv' /\ ReadsTheAverage'
    BY <2>2, <2>3, <2>4, <2>6 DEF Record, script
  <2>7. ASSUME NEW v \in Names, NEW x \in Values, NEW k \in 1..Size(v), Sense(v, k, x)
        PROVE  AverageInv' /\ ReadsTheAverage'
    <3>1. memory' = [memory EXCEPT ![v][k] = x] /\ read' = <<>> /\ UNCHANGED script
      BY <2>7 DEF Sense
    <3>2. memory' \in Memories
      BY <2>4, <2>7, SenseKeeps
    <3>3. QED
      BY <2>2, <2>3, <3>1, <3>2 DEF script
  <2>8. ASSUME NEW f \in DOMAIN Functions, NEW nodeId \in NodeIds,
               NEW args \in [1..SumOfFirst(Functions[f], Len(Functions[f])) -> Values],
               CallFunction(f, nodeId, args)
        PROVE  AverageInv' /\ ReadsTheAverage'
    BY <2>2, <2>3, <2>4, <2>8 DEF CallFunction, script
  <2>9. CASE Update
    BY <2>2, <2>3, <2>4, <2>9 DEF Update, script
  <2>10. CASE UpdateChanged
    BY <2>2, <2>3, <2>4, <2>10 DEF UpdateChanged, script
  <2>11. CASE UNCHANGED vars
    BY <1>1, <2>3, <2>4, <2>11 DEF vars, mirroringVars, ReadsTheAverage
  <2>12. QED
    BY <1>1, <2>1, <2>5, <2>6, <2>7, <2>8, <2>9, <2>10, <2>11 DEF Next
<1>2. QED
  BY <1>1, AverageInit, PTL DEF Spec
-----------------------------------------------------------------------------
(* A set of naturals that is not empty has a least one. *)
LEMMA Least ==
  ASSUME NEW T \in SUBSET Nat, T # {}
  PROVE  \E x \in T : \A y \in T : x <= y
<1>1. IsWellFoundedOn(OpToRel(<, Nat), Nat)
  BY NatLessThanWellFounded
<1>2. PICK x \in T : \A y \in T : <<y, x>> \notin OpToRel(<, Nat)
  <2>1. \E x \in T : \A y \in T : <<y, x>> \notin OpToRel(<, Nat)
    BY <1>1, WFMin
  <2>2. QED
    BY <2>1
<1>3. ASSUME NEW y \in T
      PROVE  x <= y
  <2>1. ~(y < x)
    BY <1>2 DEF OpToRel
  <2>2. QED
    BY <2>1
<1>4. QED
  BY <1>3

(* The names of the variables tell them apart. *)
NamesDiffer == \A i, j \in Positions : Layout[i].name = Layout[j].name => i = j

(* The cells of a variable stand at its address. *)
LEMMA CellOf ==
  ASSUME NamesDiffer, NEW v \in Names
  PROVE  /\ Address(v) \in Nat /\ Size(v) \in Nat
         /\ \E N \in Nat :
              /\ Address(v) + Size(v) <= N
              /\ \A m \in Memories :
                   /\ Cells(m) \in Seq(Values) /\ Len(Cells(m)) = N
                   /\ \A k \in 1..Size(v) : Cells(m)[Address(v) + k] = m[v][k]
<1> DEFINE sizes == [n \in Positions |-> Layout[n].size]
           N == Len(sizes)
           p == CHOOSE k \in Positions : Layout[k].name = v
<1>1. /\ sizes \in Seq(Nat) /\ N \in Nat /\ Positions = 1..N /\ sizes \in [1..N -> Nat]
      /\ \A k \in 1..N : sizes[k] = Layout[k].size
  <2>1. sizes \in Seq(Nat)
    BY MirroringAssumption
  <2>2. DOMAIN sizes = Positions /\ \A k \in Positions : sizes[k] = Layout[k].size
    OBVIOUS
  <2> HIDE DEF sizes
  <2>3. QED
    BY <2>1, <2>2
<1>2. p \in 1..N /\ Layout[p].name = v
  <2>1. \E k \in Positions : Layout[k].name = v
    BY DEF Names
  <2>2. QED
    BY <1>1, <2>1
<1>3. \A k \in 1..N : Layout[k].name \in Names /\ Size(Layout[k].name) = sizes[k]
  <2>1. ASSUME NEW k \in 1..N
        PROVE  Layout[k].name \in Names /\ Size(Layout[k].name) = sizes[k]
    <3> DEFINE q == CHOOSE j \in Positions : Layout[j].name = Layout[k].name
    <3>1. q \in Positions /\ Layout[q].name = Layout[k].name /\ k \in Positions
      BY <1>1
    <3>2. q = k
      BY <3>1 DEF NamesDiffer
    <3>3. Size(Layout[k].name) = Layout[k].size
      BY <3>2 DEF Size
    <3>4. QED
      BY <1>1, <3>1, <3>3 DEF Names
  <2>2. QED
    BY <2>1
<1>4. Size(v) = sizes[p] /\ Address(v) = SumOfFirst(sizes, p - 1)
  BY <1>2, <1>3 DEF Address
<1> HIDE DEF sizes, p
<1>5. PICK sum \in [0..N -> Nat] :
        /\ sum[0] = 0 /\ \A k \in 1..N : sum[k] = sum[k - 1] + sizes[k]
        /\ \A k : SumOfFirst(sizes, k) = sum[k]
  BY <1>1, SumDef
<1> HIDE DEF N
<1>6. /\ p - 1 \in 0..N /\ p \in 0..N /\ N \in 0..N
      /\ sum[p - 1] \in Nat /\ sum[p] \in Nat /\ sum[N] \in Nat
  BY <1>1, <1>2, <1>5
<1>7. sum[p] <= sum[N]
  BY <1>1, <1>5, <1>6, SumsGrow
<1>8. sum[p] = sum[p - 1] + Size(v) /\ Address(v) = sum[p - 1] /\ Size(v) \in Nat
  BY <1>1, <1>2, <1>4, <1>5
<1>9. ASSUME NEW m \in Memories
      PROVE  /\ Cells(m) \in Seq(Values) /\ Len(Cells(m)) = sum[N]
             /\ \A k \in 1..Size(v) : Cells(m)[sum[p - 1] + k] = m[v][k]
  <2> DEFINE cells == [k \in Positions |-> m[Layout[k].name]]
  <2>1. m \in [Names -> Seq(Values)] /\ \A w \in Names : DOMAIN m[w] = 1..Size(w)
    BY DEF Memories
  <2>2. cells \in [1..N -> Seq(Values)] /\ \A k \in 1..N : cells[k] = m[Layout[k].name]
    BY <1>1, <1>3, <2>1
  <2>3. \A x \in Nat : \A c \in [1..x -> Seq(Values)] : c \in Seq(Seq(Values)) /\ Len(c) = x
    OBVIOUS
  <2>4. \A w \in Names : Len(m[w]) = Size(w)
    <3>1. ASSUME NEW S, NEW l \in Nat, NEW x \in Seq(S), DOMAIN x = 1..l
          PROVE  Len(x) = l
      BY <3>1
    <3>2. QED
      BY <2>1, <3>1, SizeIsNat
  <2>5. Cells(m) = FlattenSeq(cells)
    BY DEF Cells
  <2> HIDE DEF cells
  <2>6. cells \in Seq(Seq(Values)) /\ Len(cells) = N
    BY <1>1, <2>2, <2>3
  <2>7. \A k \in 1..N : sum[k] = sum[k - 1] + Len(cells[k])
    <3>1. ASSUME NEW k \in 1..N
          PROVE  sizes[k] = Len(cells[k])
      BY <1>3, <2>2, <2>4
    <3>2. QED
      BY <1>5, <3>1
  <2>8. Len(cells) > 0 /\ Adds(sum, cells)
    <3>1. N > 0
      BY <1>1, <1>2
    <3>2. QED
      BY <1>5, <2>6, <2>7, <3>1 DEF Adds
  <2>9. FlattenSeq(cells) \in Seq(Values) /\ Joins(FlattenSeq(cells), sum, cells)
    BY <2>6, <2>8, PiecesStand, Zenon
  <2>10. cells[p] = m[v] /\ Len(cells[p]) = Size(v)
    BY <1>2, <2>2, <2>4
  <2>11. /\ Len(FlattenSeq(cells)) = sum[N]
         /\ \A q \in 1..N : \A k \in 1..Len(cells[q]) :
              FlattenSeq(cells)[sum[q - 1] + k] = cells[q][k]
    BY <2>6, <2>9, Zenon DEF Joins
  <2>12. \A k \in 1..Size(v) : FlattenSeq(cells)[sum[p - 1] + k] = m[v][k]
    BY <1>2, <2>10, <2>11
  <2>13. QED
    BY <2>5, <2>9, <2>11, <2>12
<1>10. QED
  <2>1. Address(v) + Size(v) <= sum[N]
    BY <1>7, <1>8
  <2>2. QED
    BY <1>6, <1>8, <1>9, <2>1

-----------------------------------------------------------------------------
(* The runs of changed cells hold what the cells are now, each begins at   *)
(* an address of its own, and every cell that has changed is in one.       *)
RunsOK(changes, now, old) ==
  /\ \A c \in changes :
       /\ c.at \in Nat /\ c.at < Len(now) /\ c.data \in Seq(Values)
       /\ c.at + Len(c.data) <= Len(now)
       /\ \A i \in 1..Len(c.data) : c.data[i] = now[c.at + i]
  /\ \A c, d \in changes : c.at = d.at => c = d
  /\ \A k \in 1..Len(now) : now[k] # old[k] =>
       \E c \in changes : c.at < k /\ k <= c.at + Len(c.data)

(* A slice, which may be empty. *)
LEMMA SubSeqOf ==
  ASSUME NEW S, NEW d \in Seq(S), NEW k \in Nat \ {0}, NEW l \in Nat, k <= l + 1, l <= Len(d)
  PROVE  /\ SubSeq(d, k, l) \in Seq(S) /\ Len(SubSeq(d, k, l)) = l - k + 1
         /\ \A i \in 1..(l - k + 1) : SubSeq(d, k, l)[i] = d[k - 1 + i]
OBVIOUS

(* The report is such a set of runs: one begins where a cell has changed   *)
(* and that before it has not, and ends where the next has not.            *)
LEMMA ChangesAreRuns ==
  ASSUME Cells(memory) \in Seq(Values), Cells(reported) \in Seq(Values),
         Len(Cells(reported)) = Len(Cells(memory))
  PROVE  RunsOK(Changes, Cells(memory), Cells(reported))
<1> DEFINE now == Cells(memory)
           old == Cells(reported)
           N == Len(now)
           differ(k) == k \in DOMAIN now /\ now[k] # old[k]
           firsts == {k \in DOMAIN now : differ(k) /\ ~differ(k - 1)}
           ends(k, l) == ~differ(l + 1) /\ \A j \in k..l : differ(j)
           ending(k) == CHOOSE l \in k..N : ends(k, l)
           run(k) == [at |-> k - 1, data |-> SubSeq(now, k, ending(k))]
<1>1. Changes = {run(k) : k \in firsts}
  BY DEF Changes
<1>2. N \in Nat /\ DOMAIN now = 1..N
  OBVIOUS
<1>3. ASSUME NEW k \in 1..N, differ(k)
      PROVE  ending(k) \in k..N /\ ends(k, ending(k))
  <2> DEFINE T == {l \in Nat : k <= l /\ ~differ(l + 1)}
  <2>1. N \in T
    BY <1>2
  <2>2. PICK l \in T : \A y \in T : l <= y
    <3> HIDE DEF T
    <3>1. T \subseteq Nat
      BY DEF T
    <3>2. QED
      BY <2>1, <3>1, Least
  <2>3. l \in k..N /\ ~differ(l + 1)
    BY <1>2, <2>1, <2>2
  <2>4. ASSUME NEW j \in k..l
        PROVE  differ(j)
    <3>1. CASE j = k
      BY <1>3, <3>1
    <3>2. CASE j # k
      <4>1. j - 1 \in Nat /\ k <= j - 1 /\ ~(l <= j - 1) /\ (j - 1) + 1 = j
        BY <1>2, <2>3, <3>2
      <4>2. j - 1 \notin T
        BY <2>2, <4>1
      <4> HIDE DEF differ
      <4>3. QED
        BY <4>1, <4>2
    <3>3. QED
      BY <3>1, <3>2
  <2>5. \E x \in k..N : ends(k, x)
    BY <2>3, <2>4
  <2> HIDE DEF ends
  <2>6. QED
    BY <2>5
<1>4. ASSUME NEW k \in firsts
      PROVE  /\ run(k).at = k - 1 /\ run(k).at \in Nat /\ run(k).at < N
             /\ run(k).data \in Seq(Values) /\ Len(run(k).data) = ending(k) - (k - 1)
             /\ run(k).at + Len(run(k).data) <= N
             /\ \A i \in 1..Len(run(k).data) : run(k).data[i] = now[run(k).at + i]
  <2>1. k \in 1..N /\ ending(k) \in k..N
    BY <1>2, <1>3
  <2> DEFINE l == ending(k)
             data == SubSeq(now, k, l)
  <2>2. run(k).at = k - 1 /\ run(k).data = data
    OBVIOUS
  <2> HIDE DEF l, now
  <2>3. /\ now \in Seq(Values) /\ k \in 1..Len(now) /\ l \in k..Len(now)
        /\ k \in Nat \ {0} /\ l \in Nat /\ k <= l + 1 /\ l <= Len(now)
    BY <2>1 DEF l, now
  <2>4. data \in Seq(Values) /\ Len(data) = l - k + 1 /\ \A i \in 1..(l - k + 1) : data[i] = now[k - 1 + i]
    BY <2>3, SubSeqOf
  <2> HIDE DEF data
  <2>5. /\ k - 1 \in Nat /\ k - 1 < Len(now) /\ Len(data) = l - (k - 1) /\ k - 1 + Len(data) <= Len(now)
        /\ \A i \in 1..Len(data) : data[i] = now[(k - 1) + i]
    BY <2>3, <2>4
  <2>6. QED
    BY <2>2, <2>4, <2>5 DEF l, now
<1>5. ASSUME NEW k \in 1..N, differ(k)
      PROVE  \E f \in firsts : f <= k /\ k <= ending(f)
  <2> DEFINE T == {f \in Nat : f <= k /\ \A j \in f..k : differ(j)}
  <2>1. k \in T
    <3>1. \A j \in k..k : j = k
      BY <1>2
    <3>2. QED
      BY <1>2, <1>5, <3>1
  <2>2. PICK f \in T : \A y \in T : f <= y
    <3> HIDE DEF T
    <3>1. T \subseteq Nat
      BY DEF T
    <3>2. QED
      BY <2>1, <3>1, Least
  <2>3. f \in Nat /\ f <= k /\ differ(f) /\ f \in 1..N
    <3>1. f \in f..k
      BY <1>2
    <3>2. differ(f)
      BY <3>1
    <3>3. QED
      BY <1>2, <3>2
  <2>4. ~differ(f - 1)
    <3>1. SUFFICES ASSUME differ(f - 1) PROVE FALSE
      OBVIOUS
    <3>2. f - 1 \in Nat /\ f - 1 <= k /\ ~(f <= f - 1) /\ \A j \in (f - 1)..k : j = f - 1 \/ j \in f..k
      BY <2>3
    <3>3. f - 1 \in T
      <4> HIDE DEF differ
      <4>1. QED
        BY <3>1, <3>2
    <3>4. QED
      BY <2>2, <3>2, <3>3
  <2>5. f \in firsts
    BY <1>2, <2>3, <2>4
  <2>6. k <= ending(f)
    <3>1. ending(f) \in f..N /\ ~differ(ending(f) + 1)
      BY <1>3, <2>3
    <3> DEFINE l == ending(f)
    <3> HIDE DEF l
    <3>2. l \in f..N /\ ~differ(l + 1)
      BY <3>1 DEF l
    <3>3. l + 1 \notin f..k
      BY <3>2
    <3>4. k <= l
      BY <1>2, <2>3, <3>2, <3>3
    <3>5. QED
      BY <3>4 DEF l
  <2>7. QED
    BY <2>3, <2>5, <2>6
<1>6. ASSUME NEW c \in Changes, NEW d \in Changes, c.at = d.at
      PROVE  c = d
  <2>1. PICK i \in firsts, j \in firsts : c = run(i) /\ d = run(j)
    BY <1>1
  <2>2. i - 1 = j - 1
    BY <1>4, <1>6, <2>1
  <2>3. i = j
    BY <1>2, <2>2
  <2>4. QED
    BY <2>1, <2>3
<1>7. ASSUME NEW k \in 1..N, now[k] # old[k]
      PROVE  \E c \in Changes : c.at < k /\ k <= c.at + Len(c.data)
  <2>1. PICK f \in firsts : f <= k /\ k <= ending(f)
    BY <1>2, <1>5, <1>7
  <2>2. f \in 1..N /\ ending(f) \in f..N
    BY <1>2, <1>3
  <2>3. run(f).at = f - 1 /\ Len(run(f).data) = ending(f) - (f - 1)
    BY <1>4
  <2>4. run(f) \in Changes
    <3> HIDE DEF run, firsts
    <3>1. QED
      BY <1>1
  <2> DEFINE c == run(f)
             l == ending(f)
  <2>5. c.at = f - 1 /\ Len(c.data) = l - (f - 1) /\ l \in f..N /\ f <= k /\ k <= l
    BY <2>1, <2>2, <2>3
  <2> HIDE DEF c, l, N
  <2>6. c.at < k /\ k <= c.at + Len(c.data)
    <3>1. f \in Int /\ l \in Int /\ k \in Int
      BY <1>2, <2>2, <2>5
    <3>2. QED
      BY <2>5, <3>1
  <2>7. c \in Changes
    BY <2>4 DEF c
  <2>8. QED
    BY <2>6, <2>7
<1>8. ASSUME NEW c \in Changes
      PROVE  /\ c.at \in Nat /\ c.at < N /\ c.data \in Seq(Values)
             /\ c.at + Len(c.data) <= N
             /\ \A i \in 1..Len(c.data) : c.data[i] = now[c.at + i]
  <2> HIDE DEF run, firsts
  <2>1. PICK k \in firsts : c = run(k)
    BY <1>1
  <2>2. /\ run(k).at \in Nat /\ run(k).at < N /\ run(k).data \in Seq(Values)
        /\ run(k).at + Len(run(k).data) <= N
        /\ \A i \in 1..Len(run(k).data) : run(k).data[i] = now[run(k).at + i]
    BY <1>4
  <2>3. QED
    BY <2>1, <2>2, Zenon
<1>9. QED
  <2> HIDE DEF run, firsts
  <2>1. QED
    BY <1>6, <1>7, <1>8 DEF RunsOK

-----------------------------------------------------------------------------
(* A slice of a list is replaced, inside of it. *)
LEMMA SliceIs ==
  ASSUME NEW S, NEW list \in Seq(S), NEW data \in Seq(S), NEW j \in Nat,
         j + Len(data) <= Len(list)
  PROVE  /\ Slice(list, j, data) \in Seq(S) /\ Len(Slice(list, j, data)) = Len(list)
         /\ \A k \in 1..Len(list) :
              Slice(list, j, data)[k] = IF j < k /\ k <= j + Len(data) THEN data[k - j]
                                        ELSE list[k]
<1> DEFINE n == Len(list)
           l == Len(data)
           x == SubSeq(list, 1, j)
           y == SubSeq(list, j + l + 1, n)
<1>1. n \in Nat /\ l \in Nat /\ j + l <= n
  OBVIOUS
<1>2. Slice(list, j, data) = x \o data \o y
  <2>1. (IF j < n THEN j ELSE n) = j /\ (IF j + l < n THEN j + l ELSE n) = j + l
    BY <1>1
  <2>2. QED
    BY <2>1 DEF Slice
<1>3. x \in Seq(S) /\ Len(x) = j /\ \A k \in 1..j : x[k] = list[k]
  BY <1>1
<1>4. y \in Seq(S) /\ Len(y) = n - (j + l) /\ \A k \in 1..(n - (j + l)) : y[k] = list[j + l + k]
  BY <1>1
<1> HIDE DEF x, y
<1> DEFINE g == x \o data
<1>5. /\ g \in Seq(S) /\ Len(g) = j + l
      /\ \A k \in 1..j : g[k] = x[k]
      /\ \A k \in 1..l : g[j + k] = data[k]
  <2>1. x \in Seq(S) /\ data \in Seq(S)
    BY <1>3
  <2>2. /\ g \in Seq(S) /\ Len(g) = Len(x) + Len(data)
        /\ \A k \in 1..Len(x) : g[k] = x[k]
        /\ \A k \in 1..Len(data) : g[Len(x) + k] = data[k]
    <3> HIDE DEF l, n
    <3>1. QED
      BY <2>1, ConcatAt
  <2>3. QED
    BY <1>3, <2>2
<1> HIDE DEF g
<1>6. /\ g \o y \in Seq(S) /\ Len(g \o y) = n
      /\ \A k \in 1..(j + l) : (g \o y)[k] = g[k]
      /\ \A k \in 1..(n - (j + l)) : (g \o y)[j + l + k] = y[k]
  <2>1. /\ g \o y \in Seq(S) /\ Len(g \o y) = Len(g) + Len(y)
        /\ \A k \in 1..Len(g) : (g \o y)[k] = g[k]
        /\ \A k \in 1..Len(y) : (g \o y)[Len(g) + k] = y[k]
    <3>1. g \in Seq(S) /\ y \in Seq(S)
      BY <1>4, <1>5
    <3> HIDE DEF l, n
    <3>2. QED
      BY <3>1, ConcatAt
  <2>2. QED
    BY <1>1, <1>4, <1>5, <2>1
<1>7. Slice(list, j, data) = g \o y
  BY <1>2 DEF g
<1> HIDE DEF n, l
<1>8. ASSUME NEW k \in 1..n
      PROVE  (g \o y)[k] = IF j < k /\ k <= j + l THEN data[k - j] ELSE list[k]
  <2>1. CASE k <= j
    <3>1. k \in 1..j /\ k \in 1..(j + l)
      BY <1>1, <2>1
    <3>2. QED
      BY <1>3, <1>5, <1>6, <2>1, <3>1
  <2>2. CASE j < k /\ k <= j + l
    <3>1. k - j \in 1..l /\ k \in 1..(j + l) /\ j + (k - j) = k
      BY <1>1, <2>2
    <3>2. g[j + (k - j)] = data[k - j]
      BY <1>5, <3>1
    <3>3. QED
      BY <1>6, <2>2, <3>1, <3>2
  <2>3. CASE j + l < k
    <3>1. k - (j + l) \in 1..(n - (j + l)) /\ j + l + (k - (j + l)) = k /\ ~(k <= j + l)
      BY <1>1, <2>3
    <3>2. (g \o y)[j + l + (k - (j + l))] = y[k - (j + l)]
      BY <1>6, <3>1
    <3>3. y[k - (j + l)] = list[j + l + (k - (j + l))]
      BY <1>4, <3>1
    <3>4. QED
      BY <3>1, <3>2, <3>3
  <2>4. k \in Int /\ j + l \in Int
    BY <1>1
  <2>5. k <= j \/ (j < k /\ k <= j + l) \/ j + l < k
    BY <2>4
  <2>6. QED
    BY <2>1, <2>2, <2>3, <2>5, Zenon
<1>9. QED
  BY <1>6, <1>7, <1>8 DEF n, l

(* The part of a run that is cut out for a variable lies in the variable,  *)
(* holds its cells, and is all of the run that does.                       *)
LEMMA CutIs ==
  ASSUME NEW v, NEW S, NEW now \in Seq(S), NEW c, Address(v) \in Nat, Size(v) \in Nat,
         c.at \in Nat, c.data \in Seq(S),
         \A i \in 1..Len(c.data) : c.data[i] = now[c.at + i], Covers(c, v)
  PROVE  /\ Cut(c, v).j \in Nat /\ Cut(c, v).data \in Seq(S)
         /\ Cut(c, v).j + Len(Cut(c, v).data) <= Size(v)
         /\ \A i \in 1..Len(Cut(c, v).data) :
              Cut(c, v).data[i] = now[Address(v) + Cut(c, v).j + i]
         /\ \A k \in 1..Size(v) :
              c.at < Address(v) + k /\ Address(v) + k <= c.at + Len(c.data)
                => Cut(c, v).j < k /\ k <= Cut(c, v).j + Len(Cut(c, v).data)
<1> DEFINE A == Address(v)
           z == Size(v)
           p == c.at
           l == Len(c.data)
           from == IF A > p THEN A - p ELSE 0
           to == IF A + z - p < l THEN A + z - p ELSE l
           j == IF p > A THEN p - A ELSE 0
           data == SubSeq(c.data, from + 1, to)
<1>1. Cut(c, v).j = j /\ Cut(c, v).data = data
  BY DEF Cut
<1>2. /\ A \in Nat /\ z \in Nat /\ p \in Nat /\ l \in Nat
      /\ p < A + z /\ A < p + l
  BY DEF Covers
<1> HIDE DEF A, z, p, l
<1>3. /\ from \in Nat /\ to \in Nat /\ j \in Nat /\ from <= to /\ to <= l
      /\ p + from = A + j /\ j + (to - from) <= z
  <2>1. CASE A > p
    <3>1. from = A - p /\ j = 0
      BY <1>2, <2>1
    <3>2. to \in Nat /\ to <= l /\ to <= A + z - p /\ A - p <= to
      BY <1>2, <2>1
    <3> HIDE DEF from, to, j
    <3>3. QED
      BY <1>2, <2>1, <3>1, <3>2
  <2>2. CASE ~(A > p)
    <3>1. from = 0 /\ j = p - A
      BY <1>2, <2>2
    <3>2. to \in Nat /\ to <= l /\ to <= A + z - p /\ 0 <= to
      BY <1>2, <2>2
    <3> HIDE DEF from, to, j
    <3>3. QED
      BY <1>2, <2>2, <3>1, <3>2
  <2>3. QED
    BY <2>1, <2>2
<1>4. ASSUME NEW k \in 1..z, p < A + k, A + k <= p + l
      PROVE  j < k /\ k <= j + (to - from)
  BY <1>2, <1>4
<1> HIDE DEF from, to, j
<1>5. data \in Seq(S) /\ Len(data) = to - from /\ \A i \in 1..(to - from) : data[i] = c.data[from + i]
  <2>1. /\ c.data \in Seq(S) /\ from + 1 \in Nat \ {0} /\ to \in Nat
        /\ from + 1 <= to + 1 /\ to <= Len(c.data)
    <3>1. from + 1 \in Nat \ {0} /\ to \in Nat /\ from + 1 <= to + 1 /\ to <= l
      BY <1>2, <1>3
    <3>2. QED
      BY <3>1, Zenon DEF l
  <2> DEFINE d == c.data
             k == from + 1
  <2>2. /\ SubSeq(d, k, to) \in Seq(S) /\ Len(SubSeq(d, k, to)) = to - k + 1
        /\ \A i \in 1..(to - k + 1) : SubSeq(d, k, to)[i] = d[k - 1 + i]
    <3>1. d \in Seq(S) /\ k \in Nat \ {0} /\ to \in Nat /\ k <= to + 1 /\ to <= Len(d)
      BY <2>1
    <3> HIDE DEF d, k
    <3>2. QED
      BY <3>1, SubSeqOf
  <2>3. to - (from + 1) + 1 = to - from /\ (from + 1) - 1 = from
    BY <1>3
  <2>4. QED
    BY <2>2, <2>3
<1> HIDE DEF data
<1>6. ASSUME NEW i \in 1..(to - from)
      PROVE  data[i] = now[A + j + i]
  <2>1. from + i \in 1..l /\ p + (from + i) = A + j + i
    BY <1>2, <1>3
  <2>2. c.data[from + i] = now[p + (from + i)]
    BY <2>1 DEF l, p
  <2>3. QED
    BY <1>5, <2>1, <2>2
<1>7. QED
  BY <1>1, <1>3, <1>4, <1>5, <1>6 DEF A, z, p, l

-----------------------------------------------------------------------------
(* What the cells of a variable are set to, run after run. *)
LEMMA SetDef ==
  ASSUME NEW v \in Names, NEW changes, NEW N \in Nat, Len(Cells(memory)) = N
  PROVE  \E set : /\ SetChanges(changes)[v] = set[N] /\ set[0] = values[v]
                  /\ \A n \in 1..N : set[n] = SetRun(set[n - 1], changes, n - 1, v)
<1> DEFINE Sets(f, n) ==
             f = [i \in 0..n |-> IF i = 0 THEN values[v] ELSE SetRun(f[i - 1], changes, i - 1, v)]
           T == {n \in Nat : \E f : Sets(f, n)}
<1>1. 0 \in T
  <2>1. Sets([i \in 0..0 |-> values[v]], 0)
    <3>1. \A i \in 0..0 : i = 0
      OBVIOUS
    <3>2. QED
      BY <3>1, Zenon
  <2>2. QED
    BY <2>1
<1>2. ASSUME NEW n \in T
      PROVE  n + 1 \in T
  <2>1. PICK g : Sets(g, n)
    OBVIOUS
  <2> DEFINE h == [i \in 0..n + 1 |-> IF i = n + 1 THEN SetRun(g[n], changes, n, v) ELSE g[i]]
  <2>2. \A i \in 0..n : g[i] = IF i = 0 THEN values[v] ELSE SetRun(g[i - 1], changes, i - 1, v)
    <3> DEFINE gg == [i \in 0..n |-> IF i = 0 THEN values[v] ELSE SetRun(g[i - 1], changes, i - 1, v)]
    <3>1. \A i \in 0..n : gg[i] = IF i = 0 THEN values[v] ELSE SetRun(g[i - 1], changes, i - 1, v)
      OBVIOUS
    <3>2. g = gg
      BY <2>1, Zenon
    <3>3. QED
      BY <3>1, <3>2, Zenon
  <2>3. ASSUME NEW i \in 0..n + 1
        PROVE  h[i] = IF i = 0 THEN values[v] ELSE SetRun(h[i - 1], changes, i - 1, v)
    <3>1. n \in Nat
      OBVIOUS
    <3>2. CASE i = n + 1
      <4>1. n \in 0..n + 1 /\ n # n + 1 /\ i - 1 = n /\ i # 0
        BY <3>1, <3>2
      <4>2. h[n] = g[n] /\ h[i] = SetRun(g[n], changes, n, v)
        BY <3>1, <3>2, <4>1
      <4>3. QED
        BY <4>1, <4>2, <3>2
    <3>3. CASE i # n + 1
      <4>1. h[i] = g[i] /\ i \in 0..n
        BY <3>1, <3>3
      <4>2. i # 0 => h[i - 1] = g[i - 1]
        BY <3>1, <4>1
      <4>3. QED
        BY <2>2, <4>1, <4>2
    <3>4. QED
      BY <3>2, <3>3
  <2>4. Sets(h, n + 1)
    <3> HIDE DEF h
    <3>1. h = [i \in 0..n + 1 |-> h[i]]
      BY DEF h
    <3>2. QED
      BY <2>3, <3>1
  <2>5. n + 1 \in Nat /\ \E f : Sets(f, n + 1)
    <3> HIDE DEF h, Sets
    <3>1. n + 1 \in Nat
      OBVIOUS
    <3>2. QED
      BY <2>4, <3>1, Zenon
  <2>6. QED
    BY <2>5
<1>3. T = Nat
  <2> HIDE DEF T
  <2>1. T \subseteq Nat
    BY DEF T
  <2>2. QED
    BY <1>1, <1>2, <2>1, Induction
<1>4. \E f : Sets(f, N)
  <2>1. N \in T
    <3> HIDE DEF T
    <3>1. QED
      BY <1>3
  <2>2. QED
    BY <2>1
<1> DEFINE set == CHOOSE f : Sets(f, N)
<1>5. Sets(set, N)
  BY <1>4, Zenon
<1>6. SetChanges(changes)[v] = set[N]
  BY DEF SetChanges
<1>7. \A i \in 0..N : set[i] = IF i = 0 THEN values[v] ELSE SetRun(set[i - 1], changes, i - 1, v)
  <2> HIDE DEF set
  <2> DEFINE g == [i \in 0..N |-> IF i = 0 THEN values[v] ELSE SetRun(set[i - 1], changes, i - 1, v)]
  <2>1. \A i \in 0..N : g[i] = IF i = 0 THEN values[v] ELSE SetRun(set[i - 1], changes, i - 1, v)
    OBVIOUS
  <2>2. set = g
    BY <1>5, Zenon
  <2>3. QED
    BY <2>1, <2>2, Zenon
<1> HIDE DEF set
<1>8. set[0] = values[v] /\ \A n \in 1..N : set[n] = SetRun(set[n - 1], changes, n - 1, v)
  <2>1. 0 \in 0..N /\ \A n \in 1..N : n \in 0..N /\ n # 0
    OBVIOUS
  <2>2. QED
    BY <1>7, <2>1
<1>9. QED
  BY <1>6, <1>8

(* A run covers a cell. *)
Reaches(c, k) == c.at < k /\ k <= c.at + Len(c.data)

(* A list that was the variable when changes were last reported: the cells *)
(* that runs before an address cover are what they are now.                *)
PartlySet(list, changes, n, v) ==
  /\ list \in Seq(Values) /\ Len(list) = Size(v)
  /\ \A k \in 1..Size(v) :
       \/ list[k] = memory[v][k]
       \/ list[k] = reported[v][k] /\ \A c \in changes : c.at < n => ~Reaches(c, Address(v) + k)

(* A run that begins at the address extends what is set by its cells. *)
LEMMA RunSets ==
  ASSUME NEW v \in Names, Address(v) \in Nat, Size(v) \in Nat,
         NEW now \in Seq(Values), NEW old, NEW changes, RunsOK(changes, now, old),
         \A k \in 1..Size(v) : now[Address(v) + k] = memory[v][k],
         NEW n \in Nat, NEW list, PartlySet(list, changes, n, v)
  PROVE  PartlySet(SetRun(list, changes, n, v), changes, n + 1, v)
<1>1. \A c \in changes : c.at \in Nat /\ c.data \in Seq(Values)
                         /\ \A i \in 1..Len(c.data) : c.data[i] = now[c.at + i]
  BY DEF RunsOK
<1>2. CASE \E c \in changes : c.at = n /\ Covers(c, v)
  <2> DEFINE c == CHOOSE x \in changes : x.at = n
             j == Cut(c, v).j
             data == Cut(c, v).data
             slice == Slice(list, j, data)
  <2>1. c \in changes /\ c.at = n /\ Covers(c, v) /\ \A d \in changes : d.at = n => d = c
    <3>1. PICK d \in changes : d.at = n /\ Covers(d, v)
      BY <1>2
    <3>2. c \in changes /\ c.at = n
      BY <3>1
    <3>3. \A x \in changes : x.at = n => x = c
      <4> HIDE DEF c
      <4>1. QED
        BY <3>2 DEF RunsOK
    <3> HIDE DEF c
    <3>4. d = c
      BY <3>1, <3>3
    <3>5. QED
      BY <3>1, <3>2, <3>3, <3>4
  <2>2. SetRun(list, changes, n, v) = slice
    BY <1>2 DEF SetRun
  <2> HIDE DEF c
  <2>3. /\ j \in Nat /\ data \in Seq(Values) /\ j + Len(data) <= Size(v)
        /\ \A i \in 1..Len(data) : data[i] = now[Address(v) + j + i]
        /\ \A k \in 1..Size(v) : Reaches(c, Address(v) + k) => j < k /\ k <= j + Len(data)
    <3>1. c.at \in Nat /\ c.data \in Seq(Values) /\ \A i \in 1..Len(c.data) : c.data[i] = now[c.at + i]
      BY <1>1, <2>1
    <3>2. /\ Cut(c, v).j \in Nat /\ Cut(c, v).data \in Seq(Values)
          /\ Cut(c, v).j + Len(Cut(c, v).data) <= Size(v)
          /\ \A i \in 1..Len(Cut(c, v).data) :
               Cut(c, v).data[i] = now[Address(v) + Cut(c, v).j + i]
          /\ \A k \in 1..Size(v) :
               c.at < Address(v) + k /\ Address(v) + k <= c.at + Len(c.data)
                 => Cut(c, v).j < k /\ k <= Cut(c, v).j + Len(Cut(c, v).data)
      BY <2>1, <3>1, CutIs, Zenon
    <3>3. QED
      BY <3>2 DEF Reaches
  <2>4. list \in Seq(Values) /\ Len(list) = Size(v)
    BY DEF PartlySet
  <2> HIDE DEF j, data
  <2>5. /\ slice \in Seq(Values) /\ Len(slice) = Size(v)
        /\ \A k \in 1..Size(v) :
             slice[k] = IF j < k /\ k <= j + Len(data) THEN data[k - j] ELSE list[k]
    BY <2>3, <2>4, SliceIs
  <2> HIDE DEF slice
  <2>6. ASSUME NEW k \in 1..Size(v)
        PROVE  \/ slice[k] = memory[v][k]
               \/ /\ slice[k] = reported[v][k]
                  /\ \A d \in changes : d.at < n + 1 => ~Reaches(d, Address(v) + k)
    <3>1. CASE j < k /\ k <= j + Len(data)
      <4>1. Len(data) \in Nat /\ k \in Int
        BY <2>3
      <4>2. k - j \in 1..Len(data) /\ Address(v) + j + (k - j) = Address(v) + k
        BY <2>3, <3>1, <4>1
      <4>3. data[k - j] = now[Address(v) + j + (k - j)]
        BY <2>3, <4>2
      <4>4. now[Address(v) + k] = memory[v][k]
        OBVIOUS
      <4>5. slice[k] = data[k - j]
        BY <2>5, <3>1
      <4>6. QED
        BY <4>2, <4>3, <4>4, <4>5
    <3>2. CASE ~(j < k /\ k <= j + Len(data))
      <4>1. slice[k] = list[k] /\ ~Reaches(c, Address(v) + k)
        BY <2>3, <2>5, <3>2
      <4>2. \/ list[k] = memory[v][k]
            \/ /\ list[k] = reported[v][k]
               /\ \A d \in changes : d.at < n => ~Reaches(d, Address(v) + k)
        BY DEF PartlySet
      <4>3. \A d \in changes : d.at < n + 1 => d.at < n \/ d = c
        <5>1. \A d \in changes : d.at \in Nat
          BY <1>1
        <5>2. \A d \in changes : d.at < n + 1 => d.at < n \/ d.at = n
          BY <5>1
        <5>3. QED
          BY <2>1, <5>2
      <4>4. QED
        BY <4>1, <4>2, <4>3
    <3>3. QED
      BY <3>1, <3>2
  <2>7. QED
    BY <2>2, <2>5, <2>6 DEF PartlySet
<1>3. CASE ~\E c \in changes : c.at = n /\ Covers(c, v)
  <2>1. SetRun(list, changes, n, v) = list
    BY <1>3 DEF SetRun
  <2>2. ASSUME NEW k \in 1..Size(v), NEW d \in changes, d.at < n + 1, Reaches(d, Address(v) + k)
        PROVE  d.at < n
    <3>1. d.at \in Nat /\ Len(d.data) \in Nat
      BY <1>1
    <3>2. Covers(d, v)
      BY <2>2, <3>1 DEF Reaches, Covers
    <3>3. d.at # n
      BY <1>3, <3>2
    <3>4. QED
      BY <2>2, <3>1, <3>3
  <2>3. QED
    BY <2>1, <2>2 DEF PartlySet
<1>4. QED
  BY <1>2, <1>3

(* All the runs together make a variable what it is now. *)
LEMMA ChangesAreSet ==
  ASSUME NamesDiffer, memory \in Memories, reported \in Memories,
         NEW v \in Names, values[v] = reported[v]
  PROVE  SetChanges(Changes)[v] = memory[v]
<1> DEFINE now == Cells(memory)
           old == Cells(reported)
           A == Address(v)
           z == Size(v)
<1>1. A \in Nat /\ z \in Nat
  BY CellOf
<1>2. PICK N \in Nat :
        /\ A + z <= N
        /\ \A m \in Memories : /\ Cells(m) \in Seq(Values) /\ Len(Cells(m)) = N
                               /\ \A k \in 1..z : Cells(m)[A + k] = m[v][k]
  BY CellOf
<1>3. /\ now \in Seq(Values) /\ Len(now) = N /\ \A k \in 1..z : now[A + k] = memory[v][k]
      /\ old \in Seq(Values) /\ Len(old) = N /\ \A k \in 1..z : old[A + k] = reported[v][k]
  <2> HIDE DEF A, z
  <2>1. QED
    BY <1>2
<1>4. RunsOK(Changes, now, old)
  BY <1>3, ChangesAreRuns
<1>5. PICK set : /\ SetChanges(Changes)[v] = set[N] /\ set[0] = values[v]
                 /\ \A n \in 1..N : set[n] = SetRun(set[n - 1], Changes, n - 1, v)
  <2>1. Len(Cells(memory)) = N
    BY <1>3
  <2>2. QED
    BY <2>1, SetDef
<1> HIDE DEF now, old
<1> DEFINE T == {n \in Nat : n <= N => PartlySet(set[n], Changes, n, v)}
<1>6. 0 \in T
  <2>1. \A c \in Changes : ~(c.at < 0)
    <3>1. \A c \in Changes : c.at \in Nat
      BY <1>4 DEF RunsOK
    <3>2. QED
      BY <3>1
  <2>2. reported[v] \in Seq(Values) /\ Len(reported[v]) = z
    <3>1. reported[v] \in Seq(Values) /\ DOMAIN reported[v] = 1..z
      BY DEF Memories
    <3>2. ASSUME NEW S, NEW l \in Nat, NEW x \in Seq(S), DOMAIN x = 1..l
          PROVE  Len(x) = l
      BY <3>2
    <3> HIDE DEF z
    <3>3. QED
      BY <1>1, <3>1, <3>2
  <2>3. PartlySet(set[0], Changes, 0, v)
    BY <1>5, <2>1, <2>2 DEF PartlySet
  <2>4. QED
    BY <2>3
<1>7. ASSUME NEW n \in T
      PROVE  n + 1 \in T
  <2>1. n \in Nat /\ n + 1 \in Nat
    OBVIOUS
  <2>2. ASSUME n + 1 <= N
        PROVE  PartlySet(set[n + 1], Changes, n + 1, v)
    <3>1. n <= N /\ n + 1 \in 1..N /\ (n + 1) - 1 = n
      BY <2>1, <2>2
    <3>2. PartlySet(set[n], Changes, n, v)
      BY <3>1
    <3>3. set[n + 1] = SetRun(set[n], Changes, n, v)
      <4>1. set[n + 1] = SetRun(set[(n + 1) - 1], Changes, (n + 1) - 1, v)
        BY <1>5, <3>1
      <4>2. QED
        BY <3>1, <4>1
    <3>4. PartlySet(SetRun(set[n], Changes, n, v), Changes, n + 1, v)
      BY <1>1, <1>3, <1>4, <2>1, <3>2, RunSets
    <3>5. QED
      BY <3>3, <3>4
  <2>3. QED
    BY <2>1, <2>2
<1>8. PartlySet(set[N], Changes, N, v)
  <2>1. T = Nat
    <3> HIDE DEF T
    <3>1. T \subseteq Nat
      BY DEF T
    <3>2. QED
      BY <1>6, <1>7, <3>1, Induction
  <2>2. N \in T
    <3> HIDE DEF T
    <3>1. QED
      BY <2>1
  <2>3. QED
    BY <2>2
<1>9. ASSUME NEW k \in 1..z
      PROVE  set[N][k] = memory[v][k]
  <2>1. SUFFICES ASSUME \A c \in Changes : c.at < N => ~Reaches(c, A + k),
                        set[N][k] = reported[v][k]
                 PROVE  reported[v][k] = memory[v][k]
    BY <1>8 DEF PartlySet
  <2>2. A + k \in 1..Len(now)
    <3> HIDE DEF A, z
    <3>1. QED
      BY <1>1, <1>2, <1>3
  <2>3. \A c \in Changes : c.at < N
    BY <1>3, <1>4 DEF RunsOK
  <2>4. now[A + k] = old[A + k]
    BY <1>4, <2>1, <2>2, <2>3 DEF RunsOK, Reaches
  <2>5. QED
    BY <1>3, <2>4
<1>10. set[N] \in Seq(Values) /\ Len(set[N]) = z
  BY <1>8 DEF PartlySet
<1>11. memory[v] \in Seq(Values) /\ DOMAIN memory[v] = 1..z
  BY DEF Memories
<1>12. set[N] = memory[v]
  <2>1. ASSUME NEW S, NEW l \in Nat, NEW x \in Seq(S), NEW y \in Seq(S), Len(x) = l,
               DOMAIN y = 1..l, \A k \in 1..l : x[k] = y[k]
        PROVE  x = y
    BY <2>1
  <2> HIDE DEF z
  <2>2. QED
    BY <1>1, <1>9, <1>10, <1>11, <2>1
<1>13. QED
  BY <1>5, <1>12

(* Changes of any number of variables of any sizes, in runs that begin and *)
(* end anywhere, keep the cached values right that were so, for variables  *)
(* whose names differ (node.py 691-717).                                   *)
THEOREM ChangesAreFollowed ==
  ASSUME NamesDiffer
  PROVE  Spec => ChangesKeepAgreement
<1> DEFINE Inv == memory \in Memories /\ reported \in Memories
           Keeps == reported' # reported =>
                      \A v \in Names : values[v] = reported[v] => values'[v] = memory'[v]
<1>1. Init => Inv
  <2>1. ASSUME NEW v \in Names
        PROVE  [k \in 1..Size(v) |-> 0] \in Seq(Values)
    BY SizeIsNat, ThymioAssumption
  <2>2. Init => reported = memory /\ memory = [v \in Names |-> [k \in 1..Size(v) |-> 0]]
    BY DEF Init
  <2>3. QED
    BY <2>1, <2>2 DEF Memories
<1>2. ASSUME Inv, [Next]_vars
      PROVE  Inv' /\ Keeps
  <2>1. ASSUME NEW e \in Events, NEW isHeard \in BOOLEAN, Event(e, isHeard)
        PROVE  UNCHANGED <<memory, reported>>
    BY <2>1 DEF Event, LocalEvent
  <2>2. CASE Restart
    BY <1>2, <2>2 DEF Restart, StartMirroring
  <2>3. ASSUME NEW value \in BOOLEAN, Record(value)
        PROVE  UNCHANGED <<memory, reported>>
    BY <2>3 DEF Record
  <2>4. ASSUME NEW v \in Names, NEW x \in Values, NEW k \in 1..Size(v), Sense(v, k, x)
        PROVE  memory' \in Memories /\ reported' = reported
    BY <1>2, <2>4, SenseKeeps DEF Sense
  <2>5. ASSUME NEW f \in DOMAIN Functions, NEW nodeId \in NodeIds,
               NEW args \in [1..SumOfFirst(Functions[f], Len(Functions[f])) -> Values],
               CallFunction(f, nodeId, args)
        PROVE  UNCHANGED <<memory, reported>>
    BY <2>5 DEF CallFunction
  <2>6. CASE Update
    BY <1>2, <2>6 DEF Update
  <2>7. CASE UpdateChanged
    <3>1. values' = SetChanges(Changes) /\ reported' = memory /\ memory' = memory
      BY <2>7 DEF UpdateChanged
    <3>2. \A v \in Names : values[v] = reported[v] => SetChanges(Changes)[v] = memory[v]
      BY <1>2, ChangesAreSet
    <3>3. QED
      BY <1>2, <3>1, <3>2
  <2>8. CASE UNCHANGED vars
    BY <1>2, <2>8 DEF vars, mirroringVars
  <2>9. QED
    BY <1>2, <2>1, <2>2, <2>3, <2>4, <2>5, <2>6, <2>7, <2>8 DEF Next
<1>3. Inv /\ [Next]_vars => Inv' /\ [Keeps]_vars
  BY <1>2
<1>4. QED
  BY <1>1, <1>3, PTL DEF Spec, ChangesKeepAgreement
=============================================================================
