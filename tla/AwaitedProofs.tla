----------------------------- MODULE AwaitedProofs -----------------------------
(***************************************************************************)
(* Proofs about Awaited, for each kind of collection and any number of     *)
(* waits, events, announcements and cancels.                               *)
(***************************************************************************)
EXTENDS Awaited, FiniteSetTheorems, SequenceTheorems, TLAPS

In(w) == Contains(items, w)

Matches(w) == event \in Want[w]

Types ==
  /\ kind \in Kinds
  /\ complete \in [Waits -> BOOLEAN]
  /\ phase \in [Waits -> Phases]
  /\ got \in [Waits -> SUBSET Events] /\ result \in [Waits -> SUBSET Events]
  /\ start \in [Waits -> SUBSET Events] /\ heard \in [Waits -> Seq(Events)]
  /\ world \subseteq Events
  /\ calls \in [Waits -> Nat]
  /\ at \in Places /\ (at # "idle" => event \in Events)

(* The list, which nobody changes while a check goes through it.           *)
ListOK ==
  /\ items \in Seq(Waits) /\ IsInjective(items)
  /\ todo \in Seq(Waits) /\ IsInjective(todo)
  /\ \A w \in Waits : Contains(todo, w) => In(w)
  /\ at \in {"idle", "begin"} => todo = <<>>
  /\ at \in {"lock", "call", "notify"} => todo # <<>>
  /\ cancelling => at \in {"idle", "begin"}

(* A wait has an item from when it registers until the item is destroyed,  *)
(* and keeps it after that only if it was destroyed under it.              *)
ItemOK(w) ==
  /\ phase[w] \in {"new", "ready"} =>
       ~In(w) /\ calls[w] = 0 /\ heard[w] = <<>> /\ w \notin answered /\ w \notin orphans
  /\ phase[w] \in Using /\ w \notin orphans => In(w)
  /\ w \in orphans => ~In(w)
  /\ kind # "nodes" => start[w] = {}

(* The announcing thread is at the item of w and has not read complete, or *)
(* has, and will overwrite it.                                             *)
AtLock(w) == at = "lock" /\ Head(todo) = w

(* A complete item is not called again: check skips it.                    *)
CallsOK(w) ==
  /\ calls[w] <= 1
  /\ calls[w] > 0 => complete[w] \/ ~In(w)
  /\ at \in {"lock", "call"} /\ Head(todo) = w => calls[w] = 0

(* The event under way is among those heard and has not been collected.    *)
Pending(w) ==
  /\ Contains(todo, w) /\ Matches(w)
  /\ at \in {"read", "lock"} \/ (at \in {"call", "notify"} /\ Head(todo) # w)

Heard(w) == IF Pending(w) THEN Len(heard[w]) - 1 ELSE Len(heard[w])

(* What an item has collected: all that was heard as long as it may still  *)
(* collect more, and a part of that when it is complete.                   *)
CollectsOK(w) ==
  In(w) =>
    IF ~complete[w] \/ AtLock(w)
    THEN /\ Heard(w) \in 0..Len(heard[w])
         /\ got[w] = Before(w, Heard(w))
         /\ \A m \in 1..Heard(w) : ~Enough(w, Before(w, m))
         /\ Pending(w) => heard[w][Len(heard[w])] = event
    ELSE \E n \in 0..Len(heard[w]) :
           got[w] = Before(w, n) /\ \A m \in 1..(n - 1) : ~Enough(w, Before(w, m))

ResultOK(w) ==
  phase[w] = "done" /\ w \notin orphans =>
    /\ \E n \in 0..Len(heard[w]) :
         result[w] = Before(w, n) /\ \A m \in 1..(n - 1) : ~Enough(w, Before(w, m))
    /\ kind = "variables" => result[w] = {} \/ Enough(w, result[w])

(* A wait that was answered in time: its thread has not gone past the item *)
(* by a timeout, and what the item holds does not change any more.         *)
AnswerOK(w) ==
  /\ w \in Timed[kind] /\ In(w) /\ phase[w] \in {"reading", "done"} => complete[w] \/ w \in late
  /\ AtLock(w) /\ complete[w] => w \in late
  /\ w \in answered /\ In(w) => complete[w] /\ ~AtLock(w) /\ Enough(w, got[w])
  /\ w \in answered /\ w \in Timed[kind] /\ w \notin orphans /\ phase[w] = "done" =>
       Enough(w, result[w])

WakeOK(w) ==
  w \notin orphans /\ phase[w] = "blocked" /\ complete[w] =>
    w \in notified \/ (at \in {"call", "notify"} /\ Head(todo) = w)

WaitOK(w) ==
  ItemOK(w) /\ CallsOK(w) /\ CollectsOK(w) /\ ResultOK(w) /\ AnswerOK(w) /\ WakeOK(w)

Inv == Types /\ ListOK /\ \A w \in Waits : WaitOK(w)

-----------------------------------------------------------------------------
(* Lists without repetitions                                               *)

LEMMA TailOfItems ==
  ASSUME NEW q \in Seq(Waits), IsInjective(q), q # <<>>
  PROVE  /\ Tail(q) \in Seq(Waits) /\ IsInjective(Tail(q))
         /\ Head(q) \in Waits /\ Contains(q, Head(q))
         /\ \A w : Contains(Tail(q), w) <=> Contains(q, w) /\ w # Head(q)
<1>1. /\ Len(q) \in Nat \ {0} /\ DOMAIN q = 1..Len(q) /\ Head(q) = q[1]
      /\ Tail(q) \in Seq(Waits) /\ Len(Tail(q)) = Len(q) - 1
      /\ DOMAIN Tail(q) = 1..Len(Tail(q))
      /\ \A i \in 1..Len(Tail(q)) : Tail(q)[i] = q[i + 1]
  OBVIOUS
<1>2. IsInjective(Tail(q)) /\ Contains(q, Head(q)) /\ Head(q) \in Waits
  BY <1>1 DEF IsInjective, Contains
<1>3. ASSUME NEW w, NEW i \in 1..Len(Tail(q)), Tail(q)[i] = w
      PROVE  Contains(q, w) /\ w # Head(q)
  BY <1>1, <1>3 DEF Contains, IsInjective
<1>4. ASSUME NEW w, NEW i \in 1..Len(q), q[i] = w, w # Head(q)
      PROVE  Contains(Tail(q), w)
  <2>1. i - 1 \in 1..Len(Tail(q)) /\ Tail(q)[i - 1] = q[i]
    BY <1>1, <1>4
  <2>2. QED
    BY <1>4, <2>1 DEF Contains
<1>5. QED
  BY <1>1, <1>2, <1>3, <1>4 DEF Contains

LEMMA AppendOfItems ==
  ASSUME NEW q \in Seq(Waits), IsInjective(q), NEW x \in Waits, ~Contains(q, x)
  PROVE  /\ Append(q, x) \in Seq(Waits) /\ IsInjective(Append(q, x))
         /\ \A w : Contains(Append(q, x), w) <=> Contains(q, w) \/ w = x
<1> DEFINE r == Append(q, x)
<1>1. /\ Len(q) \in Nat /\ DOMAIN q = 1..Len(q) /\ r \in Seq(Waits)
      /\ Len(r) = Len(q) + 1 /\ DOMAIN r = 1..Len(r)
      /\ \A i \in 1..Len(q) : r[i] = q[i]
      /\ r[Len(q) + 1] = x
      /\ \A i \in 1..Len(r) : i \in 1..Len(q) \/ i = Len(q) + 1
      /\ \A i \in 1..Len(q) : i \in 1..Len(r)
  OBVIOUS
<1> HIDE DEF r
<1>2. IsInjective(r)
  BY <1>1 DEF IsInjective, Contains
<1>3. \A w : Contains(r, w) <=> Contains(q, w) \/ w = x
  BY <1>1 DEF Contains
<1>4. QED
  BY <1>1, <1>2, <1>3 DEF r

(* The elements of a finite set of numbers are counted off by their ranks. *)
LEMMA RanksCountOff ==
  ASSUME NEW P \in SUBSET Nat, IsFiniteSet(P)
  PROVE  LET Rank(i) == Cardinality({j \in P : j <= i})
         IN  /\ Cardinality(P) \in Nat
             /\ \A i \in P : Rank(i) \in 1..Cardinality(P)
             /\ \A i, j \in P : Rank(i) = Rank(j) => i = j
             /\ \A k \in 1..Cardinality(P) : \E i \in P : Rank(i) = k
<1> DEFINE UpTo(i) == {j \in P : j <= i}
           n == Cardinality(P)
           f == [i \in P |-> Cardinality(UpTo(i))]
<1>1. n \in Nat
  BY FS_CardinalityType
<1>2. ASSUME NEW i \in P
      PROVE  IsFiniteSet(UpTo(i)) /\ Cardinality(UpTo(i)) \in 1..n
  <2>1. UpTo(i) \in SUBSET P /\ i \in UpTo(i)
    OBVIOUS
  <2>2. IsFiniteSet(UpTo(i)) /\ Cardinality(UpTo(i)) <= n
    BY <2>1, FS_Subset
  <2>3. Cardinality(UpTo(i)) \in Nat /\ Cardinality(UpTo(i)) # 0
    BY <2>1, <2>2, FS_CardinalityType, FS_EmptySet
  <2>4. QED
    BY <1>1, <2>2, <2>3
<1>3. ASSUME NEW i \in P, NEW j \in P, Cardinality(UpTo(i)) = Cardinality(UpTo(j)), i <= j
      PROVE  i = j
  <2>0. \A k \in P : k \in Nat
    OBVIOUS
  <2>1. UpTo(i) \in SUBSET UpTo(j) /\ j \in UpTo(j)
    <3>1. \A k \in UpTo(i) : k \in P /\ k <= j
      BY <1>3, <2>0
    <3>2. UpTo(i) \subseteq UpTo(j)
      BY <3>1
    <3>3. QED
      BY <2>0, <3>2
  <2>2. UpTo(i) = UpTo(j)
    BY <1>2, <1>3, <2>1, FS_Subset
  <2>3. QED
    BY <1>3, <2>1, <2>2
<1>4. \A i, j \in P : Cardinality(UpTo(i)) = Cardinality(UpTo(j)) => i = j
  BY <1>3
<1> HIDE DEF UpTo, n
<1>5. f \in Injection(P, 1..n)
  BY <1>2, <1>4 DEF Injection, IsInjective
<1>6. IsFiniteSet(1..n) /\ Cardinality(1..n) = n
  BY <1>1, FS_Interval
<1>7. f \in Surjection(P, 1..n)
  BY <1>5, <1>6, FS_Injection DEF n
<1>8. \A k \in 1..n : \E i \in P : Cardinality(UpTo(i)) = k
  BY <1>7 DEF Surjection
<1>9. QED
  BY <1>1, <1>2, <1>4, <1>8 DEF UpTo, n

(* What Remaining keeps.                                                   *)
LEMMA RemainingKeeps ==
  ASSUME NEW q \in Seq(Waits), IsInjective(q), NEW kept
  PROVE  /\ Remaining(q, kept) \in Seq(Waits) /\ IsInjective(Remaining(q, kept))
         /\ \A w : Contains(Remaining(q, kept), w) <=> Contains(q, w) /\ w \in kept
<1> DEFINE P == {i \in DOMAIN q : q[i] \in kept}
           Rank(i) == Cardinality({j \in P : j <= i})
           n == Cardinality(P)
           At(k) == CHOOSE i \in P : Rank(i) = k
           r == [k \in 1..n |-> q[At(k)]]
<1>1. /\ Len(q) \in Nat /\ DOMAIN q = 1..Len(q) /\ \A i \in 1..Len(q) : q[i] \in Waits
      /\ P \in SUBSET (1..Len(q)) /\ P \in SUBSET Nat
  OBVIOUS
<1>2. IsFiniteSet(P)
  <2>1. IsFiniteSet(1..Len(q))
    BY <1>1, FS_Interval
  <2>2. QED
    BY <1>1, <2>1, FS_Subset
<1>3. /\ n \in Nat
      /\ \A i \in P : Rank(i) \in 1..n
      /\ \A i, j \in P : Rank(i) = Rank(j) => i = j
      /\ \A k \in 1..n : \E i \in P : Rank(i) = k
  BY <1>1, <1>2, RanksCountOff
<1>4. r = Remaining(q, kept)
  BY DEF Remaining
<1>5. \A i \in P : i \in 1..Len(q) /\ q[i] \in kept /\ q[i] \in Waits
  BY <1>1
<1>6. \A i \in 1..Len(q) : q[i] \in kept => i \in P
  BY <1>1
<1> HIDE DEF P, Rank, n
<1>7. \A k \in 1..n : At(k) \in P /\ Rank(At(k)) = k
  BY <1>3
<1>8. \A i \in P : At(Rank(i)) = i
  BY <1>3, <1>7
<1> HIDE DEF At
<1>9. r \in Seq(Waits) /\ Len(r) = n /\ DOMAIN r = 1..n
  <2>1. r \in [1..n -> Waits]
    BY <1>5, <1>7
  <2>2. QED
    BY <1>3, <2>1
<1>10. IsInjective(r)
  <2>1. SUFFICES ASSUME NEW k \in 1..n, NEW m \in 1..n, r[k] = r[m]
                 PROVE  k = m
    BY <1>9 DEF IsInjective
  <2>2. q[At(k)] = q[At(m)]
    BY <2>1
  <2>3. At(k) = At(m)
    BY <1>1, <1>5, <1>7, <2>2 DEF IsInjective
  <2>4. QED
    BY <1>7, <2>3
<1>11. ASSUME NEW w
       PROVE  Contains(r, w) <=> Contains(q, w) /\ w \in kept
  <2>1. ASSUME NEW k \in 1..n, r[k] = w
        PROVE  Contains(q, w) /\ w \in kept
    BY <1>5, <1>7, <2>1 DEF Contains
  <2>2. ASSUME NEW i \in 1..Len(q), q[i] = w, w \in kept
        PROVE  Contains(r, w)
    <3>1. i \in P
      BY <1>6, <2>2
    <3>2. Rank(i) \in 1..n /\ r[Rank(i)] = w
      BY <1>3, <1>8, <2>2, <3>1
    <3>3. QED
      BY <1>9, <3>2 DEF Contains
  <2>3. QED
    BY <1>9, <2>1, <2>2 DEF Contains
<1>12. QED
  BY <1>4, <1>9, <1>10, <1>11

-----------------------------------------------------------------------------
(* What a step leaves of a wait                                            *)

(* What was heard first stays first.                                       *)
LEMMA BeforeStays ==
  ASSUME NEW w \in Waits, heard[w] \in Seq(Events), start'[w] = start[w],
         heard'[w] = heard[w] \/ \E e \in Events : heard'[w] = Append(heard[w], e)
  PROVE  /\ Len(heard[w]) \in Nat /\ Len(heard'[w]) >= Len(heard[w])
         /\ \A n \in 0..Len(heard[w]) : Before(w, n)' = Before(w, n)
<1>1. Len(heard[w]) \in Nat /\ Len(heard'[w]) >= Len(heard[w])
  OBVIOUS
<1>2. ASSUME NEW n \in 0..Len(heard[w])
      PROVE  SubSeq(heard'[w], 1, n) = SubSeq(heard[w], 1, n)
  <2>1. CASE heard'[w] = heard[w]
    BY <2>1
  <2>2. ASSUME NEW e \in Events, heard'[w] = Append(heard[w], e)
        PROVE  SubSeq(heard'[w], 1, n) = SubSeq(heard[w], 1, n)
    BY <2>2
  <2>3. QED
    BY <2>1, <2>2
<1>3. QED
  BY <1>1, <1>2 DEF Before

(* The last event adds itself.                                             *)
LEMMA BeforeAdds ==
  ASSUME NEW w \in Waits, heard[w] \in Seq(Events), heard[w] # <<>>
  PROVE  /\ Len(heard[w]) \in Nat \ {0}
         /\ Before(w, Len(heard[w])) =
              Before(w, Len(heard[w]) - 1) \cup {heard[w][Len(heard[w])]}
<1> DEFINE h == heard[w]
           n == Len(h)
<1>1. n \in Nat \ {0}
  OBVIOUS
<1>2. /\ SubSeq(h, 1, n) \in Seq(Events) /\ Len(SubSeq(h, 1, n)) = n
      /\ \A i \in 1..n : SubSeq(h, 1, n)[i] = h[i]
  OBVIOUS
<1>3. /\ SubSeq(h, 1, n - 1) \in Seq(Events) /\ Len(SubSeq(h, 1, n - 1)) = n - 1
      /\ \A i \in 1..(n - 1) : SubSeq(h, 1, n - 1)[i] = h[i]
  OBVIOUS
<1>4. ToSet(SubSeq(h, 1, n)) = {h[i] : i \in 1..n}
  <2> DEFINE s == SubSeq(h, 1, n)
  <2>1. DOMAIN s = 1..n /\ \A i \in 1..n : s[i] = h[i]
    BY <1>2
  <2> HIDE DEF s, n, h
  <2>2. ToSet(s) = {h[i] : i \in 1..n}
    BY <2>1 DEF ToSet
  <2>3. QED
    BY <2>2 DEF s
<1>5. ToSet(SubSeq(h, 1, n - 1)) = {h[i] : i \in 1..(n - 1)}
  <2> DEFINE s == SubSeq(h, 1, n - 1)
  <2>1. DOMAIN s = 1..(n - 1) /\ \A i \in 1..(n - 1) : s[i] = h[i]
    BY <1>3
  <2> HIDE DEF s, n, h
  <2>2. ToSet(s) = {h[i] : i \in 1..(n - 1)}
    BY <2>1 DEF ToSet
  <2>3. QED
    BY <2>2 DEF s
<1> HIDE DEF n, h
<1>6. {h[i] : i \in 1..n} = {h[i] : i \in 1..(n - 1)} \cup {h[n]}
  <2>1. \A i \in 1..n : i \in 1..(n - 1) \/ i = n
    BY <1>1
  <2>2. n \in 1..n /\ \A i \in 1..(n - 1) : i \in 1..n
    BY <1>1
  <2>3. QED
    BY <2>1, <2>2
<1>7. QED
  BY <1>1, <1>4, <1>5, <1>6 DEF Before, h, n

(* Nothing was heard before: what a wait begins with.                      *)
LEMMA NothingHeard ==
  ASSUME NEW h \in Seq(Events)
  PROVE  ToSet(SubSeq(h, 1, 0)) = {}
<1>1. SubSeq(h, 1, 0) = <<>>
  OBVIOUS
<1>2. ToSet(<<>>) = {}
  BY DEF ToSet
<1>3. QED
  BY <1>1, <1>2

(* The announcing thread stands for w where it stood before.               *)
SamePlace(w) ==
  /\ Pending(w)' <=> Pending(w)
  /\ Pending(w) => event' = event
  /\ AtLock(w)' <=> AtLock(w)
  /\ (at' \in {"lock", "call"} /\ Head(todo') = w) =>
       (at \in {"lock", "call"} /\ Head(todo) = w)
  /\ (at \in {"call", "notify"} /\ Head(todo) = w) =>
       (at' \in {"call", "notify"} /\ Head(todo') = w)

SameItem(w) ==
  /\ In(w)' <=> In(w)
  /\ complete'[w] = complete[w] /\ got'[w] = got[w] /\ heard'[w] = heard[w]
  /\ calls'[w] = calls[w]
  /\ (w \in answered' <=> w \in answered) /\ (w \in orphans' <=> w \in orphans)

SameThread(w) ==
  /\ phase'[w] = phase[w] /\ result'[w] = result[w] /\ start'[w] = start[w]

LEMMA SameKeepsItem ==
  ASSUME NEW w \in Waits, Types, WaitOK(w), SamePlace(w), SameItem(w),
         start'[w] = start[w], kind' = kind
  PROVE  /\ CallsOK(w)' /\ CollectsOK(w)'
         /\ \A n : Before(w, n)' = Before(w, n)
         /\ \A S : Enough(w, S)' <=> Enough(w, S)
<1> USE DEF SameItem
<1>1. CallsOK(w)'
  BY DEF WaitOK, CallsOK, SamePlace
<1>2. \A n : Before(w, n)' = Before(w, n)
  BY DEF Before
<1>3. \A S : Enough(w, S)' <=> Enough(w, S)
  BY DEF Enough
<1>4. Heard(w)' = Heard(w)
  BY DEF Heard, SamePlace
<1>5. CollectsOK(w)'
  <2>1. CASE ~In(w)
    BY <2>1 DEF CollectsOK
  <2>2. CASE In(w) /\ (~complete[w] \/ AtLock(w))
    BY <1>2, <1>3, <1>4, <2>2 DEF WaitOK, CollectsOK, SamePlace
  <2>3. CASE In(w) /\ ~(~complete[w] \/ AtLock(w))
    BY <1>2, <1>3, <2>3 DEF WaitOK, CollectsOK, SamePlace
  <2>4. QED
    BY <2>1, <2>2, <2>3
<1>6. QED
  BY <1>1, <1>2, <1>3, <1>5

LEMMA SameKeepsWait ==
  ASSUME NEW w \in Waits, Types, WaitOK(w), SamePlace(w), SameItem(w), SameThread(w),
         kind' = kind, w \in late => w \in late', w \in notified => w \in notified'
  PROVE  WaitOK(w)'
<1> USE DEF SameItem, SameThread
<1>1. /\ CallsOK(w)' /\ CollectsOK(w)'
      /\ \A n : Before(w, n)' = Before(w, n)
      /\ \A S : Enough(w, S)' <=> Enough(w, S)
  BY SameKeepsItem
<1>2. ItemOK(w)'
  BY DEF WaitOK, ItemOK
<1>3. ResultOK(w)'
  BY <1>1 DEF WaitOK, ResultOK
<1>4. AnswerOK(w)'
  BY <1>1 DEF WaitOK, AnswerOK, SamePlace
<1>5. WakeOK(w)'
  BY DEF WaitOK, WakeOK, SamePlace
<1>6. QED
  BY <1>1, <1>2, <1>3, <1>4, <1>5 DEF WaitOK

LEMMA SamePlaceIfSame ==
  ASSUME NEW w, at' = at, todo' = todo, event' = event
  PROVE  SamePlace(w)
BY DEF SamePlace, Pending, AtLock, Matches

-----------------------------------------------------------------------------
(* The steps: types and the list                                           *)

LEMMA HeadIsItem ==
  ASSUME Inv, todo # <<>>
  PROVE  /\ Head(todo) \in Waits /\ In(Head(todo)) /\ Contains(todo, Head(todo))
         /\ Tail(todo) \in Seq(Waits) /\ IsInjective(Tail(todo))
         /\ \A w : Contains(Tail(todo), w) <=> Contains(todo, w) /\ w # Head(todo)
<1>1. todo \in Seq(Waits) /\ IsInjective(todo)
  BY DEF Inv, ListOK
<1>2. /\ Head(todo) \in Waits /\ Contains(todo, Head(todo))
      /\ Tail(todo) \in Seq(Waits) /\ IsInjective(Tail(todo))
      /\ \A w : Contains(Tail(todo), w) <=> Contains(todo, w) /\ w # Head(todo)
  BY <1>1, TailOfItems
<1>3. QED
  BY <1>2 DEF Inv, ListOK

LEMMA TypesKept ==
  ASSUME Inv, [Next]_vars
  PROVE  Types'
<1> USE DEF Types, waiting, item, checking, canceling
<1>0. Types /\ ListOK
  BY DEF Inv
<1>1. ASSUME NEW w \in Waits, Peek(w)
      PROVE  Types'
  <2> DEFINE current == IF kind = "nodes" THEN world \cap Want[w] ELSE {}
             met == kind = "nodes" /\ Cardinality(current) = Need[w]
  <2>1. current \in SUBSET Events
    BY <1>0
  <2>2. start' \in [Waits -> SUBSET Events] /\ result' \in [Waits -> SUBSET Events]
    BY <1>0, <1>1, <2>1 DEF Peek
  <2>3. phase' \in [Waits -> Phases]
    <3>1. (IF met THEN "done" ELSE "ready") \in Phases
      BY DEF Phases
    <3>2. phase' = [phase EXCEPT ![w] = IF met THEN "done" ELSE "ready"]
      BY <1>1 DEF Peek
    <3> HIDE DEF met
    <3>3. QED
      BY <1>0, <3>1, <3>2
  <2>4. calls' \in [Waits -> Nat]
    BY <1>0, <1>1 DEF Peek
  <2>5. QED
    BY <1>0, <1>1, <2>2, <2>3, <2>4 DEF Peek
<1>2. ASSUME NEW w \in Waits, ReturnAtOnce(w) \/ Register(w)
      PROVE  Types'
  BY <1>0, <1>2 DEF ReturnAtOnce, Register, Phases
<1>3. ASSUME NEW w \in Waits, Enter(w) \/ Wake(w) \/ Timeout(w) \/ Deadline(w)
      PROVE  Types'
  BY <1>0, <1>3 DEF Enter, Wake, Timeout, Deadline, Phases
<1>4. ASSUME NEW w \in Waits, Return(w)
      PROVE  Types'
  <2>1. Value(w) \in SUBSET Events
    BY <1>0 DEF Value
  <2>2. QED
    BY <1>0, <1>4, <2>1 DEF Return, Phases
<1>5. ASSUME NEW w \in Waits, ReadDestroyed(w)
      PROVE  Types'
  BY <1>0, <1>5 DEF ReadDestroyed, Phases
<1>6. ASSUME NEW e \in Events, Happen(e)
      PROVE  Types'
  BY <1>0, <1>6 DEF Happen, Places
<1>7. CASE BeginCheck
  <2>1. event \in Events
    BY <1>0, <1>7 DEF BeginCheck
  <2>2. ASSUME NEW w \in Waits
        PROVE  Append(heard[w], event) \in Seq(Events) /\ heard[w] \in Seq(Events)
    BY <1>0, <2>1
  <2>3. heard' \in [Waits -> Seq(Events)]
    BY <1>7, <2>2 DEF BeginCheck
  <2>4. QED
    BY <1>0, <1>7, <2>3 DEF BeginCheck, Places
<1>8. CASE CheckUpdate
  <2> DEFINE w == Head(todo)
             collected == IF event \in Want[w] THEN got[w] \cup {event} ELSE got[w]
             done == event \in Want[w] /\ Enough(w, collected)
             call == w \in Called[kind] /\ (done \/ kind = "nodes") /\ w \notin late
  <2>1. w \in Waits /\ event \in Events
    BY <1>0, <1>8, HeadIsItem DEF CheckUpdate, ListOK
  <2>2. collected \in SUBSET Events
    BY <1>0, <2>1
  <2>3. done \in BOOLEAN
    OBVIOUS
  <2>4. got' = [got EXCEPT ![w] = collected] /\ complete' = [complete EXCEPT ![w] = done]
    BY <1>8 DEF CheckUpdate
  <2>5. at' \in {"call", "notify", "read"}
    BY <1>8 DEF CheckUpdate
  <2>6. /\ kind' = kind /\ phase' = phase /\ result' = result /\ start' = start
        /\ heard' = heard /\ world' = world /\ calls' = calls /\ event' = event
    BY <1>8 DEF CheckUpdate
  <2> HIDE DEF done, collected, w
  <2>7. got' \in [Waits -> SUBSET Events] /\ complete' \in [Waits -> BOOLEAN]
    BY <1>0, <2>1, <2>2, <2>3, <2>4
  <2>8. QED
    BY <1>0, <2>1, <2>5, <2>6, <2>7 DEF Places
<1>9. CASE CheckRead \/ CheckCall \/ CheckNotify \/ EndCheck
  <2>1. CASE CheckRead
    BY <1>0, <2>1 DEF CheckRead, Places
  <2>2. CASE CheckCall
    BY <1>0, <2>2 DEF CheckCall, Places
  <2>3. CASE CheckNotify \/ EndCheck
    BY <1>0, <2>3 DEF CheckNotify, EndCheck, Places
  <2>4. QED
    BY <1>9, <2>1, <2>2, <2>3
<1>10. CASE BeginCancel
  <2>1. complete' \in [Waits -> BOOLEAN]
    BY <1>0, <1>10, Zenon DEF BeginCancel
  <2>2. QED
    BY <1>0, <1>10, <2>1 DEF BeginCancel
<1>11. CASE EndCancel
  BY <1>0, <1>11 DEF EndCancel
<1>12. CASE UNCHANGED vars
  BY <1>0, <1>12 DEF vars
<1>13. QED
  BY <1>1, <1>2, <1>3, <1>4, <1>5, <1>6, <1>7, <1>8, <1>9, <1>10, <1>11, <1>12
     DEF Next, WaitStep, CheckStep

(* The list of items changes only with the mutex: no check is under way.   *)
LEMMA ListKept ==
  ASSUME Inv, [Next]_vars
  PROVE  ListOK'
<1> USE DEF ListOK, In, waiting, item, checking, canceling
<1>0. Types /\ ListOK /\ \A w \in Waits : WaitOK(w)
  BY DEF Inv
<1>1. CASE UNCHANGED <<items, at, todo, cancelling>>
  BY <1>0, <1>1
<1>2. ASSUME NEW w \in Waits, Register(w)
      PROVE  ListOK'
  <2> DEFINE r == Remaining(items, {i \in Waits : ~complete[i]})
  <2>1. /\ r \in Seq(Waits) /\ IsInjective(r)
        /\ \A i : Contains(r, i) => Contains(items, i)
    BY <1>0, RemainingKeeps
  <2>2. ~Contains(r, w)
    BY <1>0, <1>2, <2>1 DEF Register, WaitOK, ItemOK
  <2>3. items' = Append(r, w) /\ at' = at /\ todo' = todo /\ cancelling' = cancelling
    BY <1>2 DEF Register
  <2> HIDE DEF r
  <2>4. items' \in Seq(Waits) /\ IsInjective(items')
    BY <2>1, <2>2, <2>3, AppendOfItems
  <2>5. todo = <<>> /\ \A i \in Waits : ~Contains(todo, i)
    BY <1>0, <1>2 DEF Register, MutexFree, Contains
  <2>6. QED
    BY <1>0, <2>3, <2>4, <2>5
<1>3. ASSUME NEW e \in Events, Happen(e)
      PROVE  ListOK'
  BY <1>0, <1>3 DEF Happen
<1>4. CASE BeginCheck
  BY <1>0, <1>4 DEF BeginCheck, MutexFree
<1>5. CASE CheckRead
  BY <1>0, <1>5, HeadIsItem DEF CheckRead
<1>6. CASE CheckUpdate
  <2>1. todo # <<>> /\ ~cancelling
    BY <1>0, <1>6 DEF CheckUpdate
  <2>2. /\ items' = items /\ cancelling' = cancelling
        /\ \/ todo' = todo /\ at' \in {"call", "notify"}
           \/ todo' = Tail(todo) /\ at' = "read"
    BY <1>6 DEF CheckUpdate
  <2>3. QED
    BY <1>0, <2>1, <2>2, HeadIsItem
<1>7. CASE CheckCall \/ CheckNotify
  <2>1. todo # <<>> /\ ~cancelling
    BY <1>0, <1>7 DEF CheckCall, CheckNotify
  <2>2. items' = items /\ cancelling' = cancelling
    BY <1>7 DEF CheckCall, CheckNotify
  <2>3. \/ todo' = todo /\ at' = "notify"
        \/ todo' = Tail(todo) /\ at' = "read"
    BY <1>7 DEF CheckCall, CheckNotify
  <2>4. QED
    BY <1>0, <2>1, <2>2, <2>3, HeadIsItem
<1>8. CASE EndCheck
  BY <1>0, <1>8 DEF EndCheck
<1>9. CASE BeginCancel
  BY <1>0, <1>9 DEF BeginCancel, MutexFree
<1>10. CASE EndCancel
  <2>1. items' = <<>> /\ todo' = todo /\ todo = <<>> /\ ~cancelling' /\ at' = at
    BY <1>0, <1>10 DEF EndCancel
  <2>2. <<>> \in Seq(Waits) /\ IsInjective(<<>>) /\ \A w : ~Contains(<<>>, w)
    BY DEF IsInjective, Contains
  <2>3. QED
    BY <1>0, <1>10, <2>1, <2>2 DEF EndCancel
<1>11. ASSUME NEW w \in Waits,
              \/ Peek(w) \/ ReturnAtOnce(w) \/ Enter(w) \/ Wake(w) \/ Timeout(w)
              \/ Return(w) \/ ReadDestroyed(w) \/ Deadline(w)
       PROVE  ListOK'
  BY <1>1, <1>11
     DEF Peek, ReturnAtOnce, Enter, Wake, Timeout, Return, ReadDestroyed, Deadline
<1>12. QED
  BY <1>1, <1>2, <1>3, <1>4, <1>5, <1>6, <1>7, <1>8, <1>9, <1>10, <1>11
     DEF Next, WaitStep, CheckStep, vars

-----------------------------------------------------------------------------
(* The steps of the waiting threads                                        *)

(* The announcing thread does not stand at a wait without an item.         *)
LEMMA NotAtIfNotIn ==
  ASSUME Inv, NEW w \in Waits, ~In(w)
  PROVE  /\ ~Contains(todo, w) /\ ~Pending(w) /\ ~AtLock(w)
         /\ ~(at \in {"lock", "call", "notify"} /\ Head(todo) = w)
<1>1. ~Contains(todo, w)
  BY DEF Inv, ListOK
<1>2. ~(at \in {"lock", "call", "notify"} /\ Head(todo) = w)
  BY <1>1, HeadIsItem DEF Inv, ListOK
<1>3. QED
  BY <1>1, <1>2 DEF Pending, AtLock

LEMMA PeekKeeps ==
  ASSUME Inv, NEW w \in Waits, Peek(w)
  PROVE  \A d \in Waits : WaitOK(d)'
<1> USE DEF item, checking, canceling
<1>0. Types /\ ListOK /\ \A d \in Waits : WaitOK(d)
  BY DEF Inv
<1> DEFINE current == IF kind = "nodes" THEN world \cap Want[w] ELSE {}
           met == kind = "nodes" /\ Cardinality(current) = Need[w]
<1>1. /\ UNCHANGED <<kind, items, complete, got, notified, late, at, todo, event, heard,
                      answered, orphans>>
      /\ \A d \in Waits : d # w => SameThread(d) /\ calls'[d] = calls[d]
  BY <1>0 DEF Peek, SameThread, Types
<1>2. ASSUME NEW d \in Waits, d # w
      PROVE  WaitOK(d)'
  BY <1>0, <1>1, <1>2, SameKeepsWait, SamePlaceIfSame DEF SameItem, In
<1>3. /\ start'[w] = current /\ phase'[w] = (IF met THEN "done" ELSE "ready")
      /\ met => result'[w] = current
      /\ calls'[w] <= calls[w] + 1
      /\ ~met => calls'[w] = calls[w]
  <2>1. /\ start' = [start EXCEPT ![w] = current]
        /\ phase' = [phase EXCEPT ![w] = IF met THEN "done" ELSE "ready"]
        /\ met => result' = [result EXCEPT ![w] = current]
        /\ calls' = calls \/ (met /\ calls' = [calls EXCEPT ![w] = @ + 1])
    BY DEF Peek
  <2>2. calls[w] \in Nat /\ w \in DOMAIN start /\ w \in DOMAIN phase /\ w \in DOMAIN result
        /\ w \in DOMAIN calls
    BY <1>0 DEF Types
  <2> HIDE DEF current, met
  <2>3. QED
    BY <2>1, <2>2
<1>4. /\ ~In(w) /\ calls[w] = 0 /\ heard[w] = <<>> /\ w \notin answered
      /\ w \notin orphans
  BY <1>0 DEF Peek, WaitOK, ItemOK
<1> HIDE DEF current
<1>5. kind # "nodes" => current = {}
  BY DEF current
<1>6. ~In(w)' /\ ~AtLock(w)' /\ ~(at' \in {"lock", "call"} /\ Head(todo') = w)
  BY <1>1, <1>4, NotAtIfNotIn DEF In, AtLock
<1>7. ItemOK(w)'
  BY <1>1, <1>3, <1>4, <1>5, <1>6 DEF ItemOK, Using, In
<1>8. CallsOK(w)'
  BY <1>3, <1>4, <1>6 DEF CallsOK
<1>9. CollectsOK(w)'
  BY <1>6 DEF CollectsOK
<1>10. ResultOK(w)'
  <2>1. heard'[w] = <<>> /\ Len(heard'[w]) = 0 /\ heard'[w] \in Seq(Events)
    BY <1>1, <1>4
  <2>2. Before(w, 0)' = current
    BY <1>3, <2>1, NothingHeard DEF Before
  <2>3. phase'[w] = "done" => met /\ result'[w] = Before(w, 0)'
    BY <1>3, <2>2
  <2>4. met => kind' # "variables"
    BY <1>1
  <2>5. 0 \in 0..Len(heard'[w]) /\ \A m \in 1..(0 - 1) : FALSE
    BY <2>1
  <2> HIDE DEF met
  <2>6. QED
    BY <2>3, <2>4, <2>5 DEF ResultOK
<1>11. AnswerOK(w)'
  BY <1>1, <1>4, <1>6 DEF AnswerOK
<1>12. WakeOK(w)'
  BY <1>3 DEF WakeOK
<1>13. QED
  BY <1>2, <1>7, <1>8, <1>9, <1>10, <1>11, <1>12 DEF WaitOK

LEMMA ReturnAtOnceKeeps ==
  ASSUME Inv, NEW w \in Waits, ReturnAtOnce(w)
  PROVE  \A d \in Waits : WaitOK(d)'
<1> USE DEF item, checking, canceling
<1>0. Types /\ ListOK /\ \A d \in Waits : WaitOK(d)
  BY DEF Inv
<1>1. /\ UNCHANGED <<kind, items, complete, got, notified, late, at, todo, event, heard,
                      answered, orphans, calls, start>>
      /\ \A d \in Waits : d # w => SameThread(d)
  BY <1>0 DEF ReturnAtOnce, SameThread, Types
<1>2. ASSUME NEW d \in Waits, d # w
      PROVE  WaitOK(d)'
  BY <1>0, <1>1, <1>2, SameKeepsWait, SamePlaceIfSame DEF SameItem, In
<1>3. phase'[w] = "done" /\ result'[w] = start[w]
  BY <1>0 DEF ReturnAtOnce, Types
<1>4. /\ ~In(w) /\ calls[w] = 0 /\ heard[w] = <<>> /\ w \notin answered
      /\ w \notin orphans /\ (kind # "nodes" => start[w] = {})
  BY <1>0 DEF ReturnAtOnce, WaitOK, ItemOK
<1>6. ~In(w)' /\ ~AtLock(w)' /\ ~(at' \in {"lock", "call"} /\ Head(todo') = w)
  BY <1>1, <1>4, NotAtIfNotIn DEF In, AtLock
<1>7. ItemOK(w)'
  BY <1>1, <1>3, <1>4, <1>6 DEF ItemOK, Using
<1>8. CallsOK(w)'
  BY <1>1, <1>4, <1>6 DEF CallsOK
<1>9. CollectsOK(w)'
  BY <1>6 DEF CollectsOK
<1>10. ResultOK(w)'
  <2>1. heard'[w] = <<>> /\ Len(heard'[w]) = 0 /\ heard'[w] \in Seq(Events)
    BY <1>1, <1>4
  <2>2. Before(w, 0)' = start[w]
    BY <1>1, <2>1, NothingHeard DEF Before
  <2>3. 0 \in 0..Len(heard'[w]) /\ \A m \in 1..(0 - 1) : FALSE
    BY <2>1
  <2>4. kind' = "variables" => result'[w] = {}
    BY <1>1, <1>3, <1>4
  <2>5. QED
    BY <1>3, <2>2, <2>3, <2>4 DEF ResultOK
<1>11. AnswerOK(w)'
  BY <1>1, <1>4, <1>6 DEF AnswerOK
<1>12. WakeOK(w)'
  BY <1>3 DEF WakeOK
<1>13. QED
  BY <1>2, <1>7, <1>8, <1>9, <1>10, <1>11, <1>12 DEF WaitOK

(* Items leave the list, with the mutex: their threads, if they use them,  *)
(* are left with a destroyed item.                                         *)
LEMMA DestroyedKeeps ==
  ASSUME Inv, NEW d \in Waits, In(d), ~In(d)', at \in {"idle", "begin"},
         at' = at, kind' = kind, SameThread(d), complete'[d] = complete[d],
         got'[d] = got[d], heard'[d] = heard[d], calls'[d] = calls[d],
         d \in answered' <=> d \in answered,
         d \in orphans' <=> d \in orphans \/ phase[d] \in Using
  PROVE  WaitOK(d)'
<1> USE DEF SameThread
<1>0. Types /\ WaitOK(d)
  BY DEF Inv
<1>1. d \notin orphans /\ phase[d] \notin {"new", "ready"}
  BY <1>0 DEF WaitOK, ItemOK
<1>2. ItemOK(d)'
  BY <1>0, <1>1 DEF WaitOK, ItemOK
<1>3. CallsOK(d)' /\ CollectsOK(d)'
  BY <1>0 DEF WaitOK, CallsOK, CollectsOK
<1>4. \A n : Before(d, n)' = Before(d, n)
  BY DEF Before
<1>5. \A S : Enough(d, S)' <=> Enough(d, S)
  BY DEF Enough
<1>6. ResultOK(d)'
  BY <1>0, <1>1, <1>4, <1>5 DEF WaitOK, ResultOK
<1>7. AnswerOK(d)'
  BY <1>0, <1>1, <1>5 DEF WaitOK, AnswerOK, AtLock
<1>8. WakeOK(d)'
  BY <1>1 DEF WakeOK, Using
<1>9. QED
  BY <1>2, <1>3, <1>6, <1>7, <1>8 DEF WaitOK

LEMMA RegisterKeeps ==
  ASSUME Inv, NEW w \in Waits, Register(w)
  PROVE  \A d \in Waits : WaitOK(d)'
<1> USE DEF checking, canceling
<1>0. Types /\ ListOK /\ \A d \in Waits : WaitOK(d)
  BY DEF Inv
<1> DEFINE open == {i \in Waits : ~complete[i]}
           r == Remaining(items, open)
<1>1. /\ UNCHANGED <<kind, complete, notified, late, at, todo, event, heard, result, start,
                      answered, calls>>
      /\ at \in {"idle", "begin"} /\ todo = <<>>
      /\ \A d \in Waits : d # w => SameThread(d) /\ got'[d] = got[d]
  BY <1>0 DEF Register, SameThread, MutexFree, Types, ListOK
<1>2. /\ phase[w] = "ready" /\ got'[w] = start[w]
      /\ phase'[w] = (IF w \in Timed[kind] THEN "enter" ELSE "reading")
  BY <1>0 DEF Register, Types
<1>3. /\ ~In(w) /\ calls[w] = 0 /\ heard[w] = <<>> /\ w \notin answered
      /\ w \notin orphans /\ (kind # "nodes" => start[w] = {})
  BY <1>0, <1>2 DEF WaitOK, ItemOK
<1>4. \A d \in Waits : In(d)' <=> (In(d) /\ ~complete[d]) \/ d = w
  <2>1. /\ r \in Seq(Waits) /\ IsInjective(r)
        /\ \A d : Contains(r, d) <=> Contains(items, d) /\ d \in open
    BY <1>0, RemainingKeeps DEF ListOK
  <2>2. items' = Append(r, w)
    BY DEF Register
  <2> HIDE DEF r
  <2>3. \A d : Contains(items', d) <=> Contains(r, d) \/ d = w
    BY <1>3, <2>1, <2>2, AppendOfItems DEF In
  <2>4. QED
    BY <2>1, <2>3 DEF In
<1>5. \A d \in Waits :
        d \in orphans' <=> d \in orphans \/ (In(d) /\ complete[d] /\ phase[d] \in Using)
  <2>1. orphans' = orphans \cup {d \in {i \in Range(items) : complete[i]} : phase[d] \in Using}
    BY DEF Register, Destroy
  <2>2. \A d : d \in Range(items) <=> In(d)
    <3>1. DOMAIN items = 1..Len(items)
      BY <1>0 DEF ListOK
    <3>2. QED
      BY <3>1 DEF In, Contains, Range
  <2>3. QED
    BY <2>1, <2>2
<1>6. ASSUME NEW d \in Waits, d # w
      PROVE  WaitOK(d)'
  <2>1. CASE In(d) /\ complete[d]
    BY <1>1, <1>4, <1>5, <1>6, <2>1, DestroyedKeeps
  <2>2. CASE ~(In(d) /\ complete[d])
    <3>1. SameItem(d)
      BY <1>1, <1>4, <1>5, <1>6, <2>2 DEF SameItem
    <3>2. QED
      BY <1>0, <1>1, <1>6, <3>1, SameKeepsWait, SamePlaceIfSame
  <2>3. QED
    BY <2>1, <2>2
<1>7. In(w)' /\ w \notin orphans' /\ ~AtLock(w)' /\ ~Pending(w)'
  <2>1. ~Contains(<<>>, w)
    BY DEF Contains
  <2>2. QED
    BY <1>1, <1>3, <1>4, <1>5, <2>1 DEF AtLock, Pending
<1>8. ItemOK(w)'
  BY <1>1, <1>2, <1>3, <1>7 DEF ItemOK
<1>9. CallsOK(w)'
  BY <1>1, <1>3 DEF CallsOK
<1>10. CollectsOK(w)'
  <2>1. heard'[w] = <<>> /\ Len(heard'[w]) = 0 /\ heard'[w] \in Seq(Events)
    BY <1>1, <1>3
  <2>2. got'[w] = Before(w, 0)'
    BY <1>1, <1>2, <2>1, NothingHeard DEF Before
  <2>3. Heard(w)' = 0
    BY <1>7, <2>1 DEF Heard
  <2>4. /\ 0 \in 0..Len(heard'[w]) /\ \A m \in 1..(0 - 1) : FALSE
        /\ \A m \in 1..0 : FALSE
    BY <2>1
  <2>5. QED
    BY <1>7, <2>2, <2>3, <2>4 DEF CollectsOK
<1>11. ResultOK(w)'
  BY <1>2 DEF ResultOK
<1>12. AnswerOK(w)'
  BY <1>1, <1>2, <1>3, <1>7 DEF AnswerOK
<1>13. WakeOK(w)'
  BY <1>2 DEF WakeOK
<1>14. QED
  BY <1>6, <1>8, <1>9, <1>10, <1>11, <1>12, <1>13 DEF WaitOK

(* Steps of the thread of w that leave the other waits and the list alone. *)
LEMMA OthersKept ==
  ASSUME Inv, NEW w \in Waits,
         UNCHANGED <<kind, items, late, at, todo, event, heard, start, answered, orphans,
                     calls, got>>,
         \A d \in Waits : d # w =>
           SameThread(d) /\ complete'[d] = complete[d] /\ (d \in notified => d \in notified')
  PROVE  /\ \A d \in Waits : d # w => WaitOK(d)'
         /\ \A d : SamePlace(d)
<1>0. Types /\ \A d \in Waits : WaitOK(d)
  BY DEF Inv
<1>1. \A d : SamePlace(d)
  BY SamePlaceIfSame
<1>2. ASSUME NEW d \in Waits, d # w
      PROVE  WaitOK(d)'
  <2>1. SameItem(d)
    BY <1>2 DEF SameItem, In
  <2>2. QED
    BY <1>0, <1>1, <1>2, <2>1, SameKeepsWait
<1>3. QED
  BY <1>1, <1>2

LEMMA EnterKeeps ==
  ASSUME Inv, NEW w \in Waits, Enter(w)
  PROVE  \A d \in Waits : WaitOK(d)'
<1> USE DEF checking, canceling, item
<1>0. Types /\ WaitOK(w)
  BY DEF Inv
<1>1. /\ UNCHANGED <<kind, items, late, at, todo, event, heard, start, answered, orphans,
                      calls, got, complete, notified, result>>
      /\ \A d \in Waits : d # w => SameThread(d)
      /\ phase'[w] = (IF complete[w] THEN "reading" ELSE "blocked")
      /\ phase[w] = "enter" /\ w \notin orphans
  BY <1>0 DEF Enter, SameThread, Types
<1>2. (\A d \in Waits : d # w => WaitOK(d)') /\ SamePlace(w)
  BY <1>1, OthersKept
<1>3. SameItem(w)
  BY <1>1 DEF SameItem, In
<1>4. CallsOK(w)' /\ CollectsOK(w)'
  BY <1>0, <1>1, <1>2, <1>3, SameKeepsItem
<1>5. ItemOK(w)'
  BY <1>0, <1>1, <1>3 DEF WaitOK, ItemOK, SameItem, Using
<1>6. ResultOK(w)'
  BY <1>1 DEF ResultOK
<1>7. AnswerOK(w)'
  BY <1>0, <1>1, <1>2, <1>3 DEF WaitOK, AnswerOK, SameItem, SamePlace, Enough
<1>8. WakeOK(w)'
  BY <1>1 DEF WakeOK
<1>9. QED
  BY <1>2, <1>4, <1>5, <1>6, <1>7, <1>8 DEF WaitOK

LEMMA WakeKeeps ==
  ASSUME Inv, NEW w \in Waits, Wake(w)
  PROVE  \A d \in Waits : WaitOK(d)'
<1> USE DEF checking, canceling
<1>0. Types /\ WaitOK(w)
  BY DEF Inv
<1>1. /\ UNCHANGED <<kind, items, late, at, todo, event, heard, start, answered, orphans,
                      calls, got, complete, result>>
      /\ \A d \in Waits : d # w => SameThread(d) /\ (d \in notified => d \in notified')
      /\ phase'[w] = (IF complete[w] THEN "reading" ELSE "blocked")
      /\ phase[w] = "blocked" /\ w \notin orphans
  BY <1>0 DEF Wake, SameThread, Types
<1>2. (\A d \in Waits : d # w => WaitOK(d)') /\ SamePlace(w)
  BY <1>1, OthersKept
<1>3. SameItem(w)
  BY <1>1 DEF SameItem, In
<1>4. CallsOK(w)' /\ CollectsOK(w)'
  BY <1>0, <1>1, <1>2, <1>3, SameKeepsItem
<1>5. ItemOK(w)'
  BY <1>0, <1>1, <1>3 DEF WaitOK, ItemOK, SameItem, Using
<1>6. ResultOK(w)'
  BY <1>1 DEF ResultOK
<1>7. AnswerOK(w)'
  BY <1>0, <1>1, <1>2, <1>3 DEF WaitOK, AnswerOK, SameItem, SamePlace, Enough
<1>8. WakeOK(w)'
  BY <1>1 DEF WakeOK
<1>9. QED
  BY <1>2, <1>4, <1>5, <1>6, <1>7, <1>8 DEF WaitOK

(* The deadline completes the item, even if check has read that it is not  *)
(* and will overwrite it.                                                  *)
LEMMA TimeoutKeeps ==
  ASSUME Inv, NEW w \in Waits, Timeout(w)
  PROVE  \A d \in Waits : WaitOK(d)'
<1> USE DEF checking, canceling
<1>0. Types /\ WaitOK(w)
  BY DEF Inv
<1>1. /\ UNCHANGED <<kind, items, late, at, todo, event, heard, start, answered, orphans,
                      calls, got, notified, result>>
      /\ \A d \in Waits : d # w => SameThread(d) /\ complete'[d] = complete[d]
      /\ phase'[w] = "reading" /\ complete'[w]
      /\ phase[w] = "blocked" /\ w \notin orphans /\ w \in late
  BY <1>0 DEF Timeout, SameThread, Types
<1>2. (\A d \in Waits : d # w => WaitOK(d)') /\ SamePlace(w)
  BY <1>1, OthersKept
<1>3. In(w)' /\ In(w)
  BY <1>0, <1>1 DEF In, WaitOK, ItemOK, Using
<1>4. ItemOK(w)'
  BY <1>0, <1>1, <1>3 DEF WaitOK, ItemOK
<1>5. CallsOK(w)'
  BY <1>0, <1>1 DEF WaitOK, CallsOK
<1>6. /\ \A n : Before(w, n)' = Before(w, n)
      /\ \A S : Enough(w, S)' <=> Enough(w, S)
  BY <1>1 DEF Before, Enough
<1>7. Heard(w)' = Heard(w)
  BY <1>1, <1>2 DEF Heard, SamePlace
<1>8. CollectsOK(w)'
  <2>1. CASE AtLock(w)
    BY <1>0, <1>1, <1>2, <1>3, <1>6, <1>7, <2>1 DEF WaitOK, CollectsOK, SamePlace
  <2>2. CASE ~AtLock(w) /\ complete[w]
    BY <1>0, <1>1, <1>2, <1>3, <1>6, <2>2 DEF WaitOK, CollectsOK, SamePlace
  <2>3. CASE ~AtLock(w) /\ ~complete[w]
    <3>1. /\ Heard(w) \in 0..Len(heard[w]) /\ got[w] = Before(w, Heard(w))
          /\ \A m \in 1..Heard(w) : ~Enough(w, Before(w, m))
      BY <1>0, <1>3, <2>3 DEF WaitOK, CollectsOK
    <3>2. \A m \in 1..(Heard(w) - 1) : m \in 1..Heard(w)
      BY <3>1
    <3>3. QED
      BY <1>1, <1>2, <1>6, <2>3, <3>1, <3>2 DEF CollectsOK, SamePlace
  <2>4. QED
    BY <2>1, <2>2, <2>3
<1>9. ResultOK(w)'
  BY <1>1 DEF ResultOK
<1>10. AnswerOK(w)'
  BY <1>0, <1>1, <1>2, <1>3, <1>6 DEF WaitOK, AnswerOK, SamePlace
<1>11. WakeOK(w)'
  BY <1>1 DEF WakeOK
<1>12. QED
  BY <1>2, <1>4, <1>5, <1>8, <1>9, <1>10, <1>11 DEF WaitOK

LEMMA ReturnKeeps ==
  ASSUME Inv, NEW w \in Waits, Return(w)
  PROVE  \A d \in Waits : WaitOK(d)'
<1> USE DEF checking, canceling, item
<1>0. Types /\ WaitOK(w)
  BY DEF Inv
<1>1. /\ UNCHANGED <<kind, items, late, at, todo, event, heard, start, answered, orphans,
                      calls, got, complete, notified>>
      /\ \A d \in Waits : d # w => SameThread(d)
      /\ phase'[w] = "done" /\ result'[w] = Value(w)
      /\ phase[w] = "reading" /\ w \notin orphans
  BY <1>0 DEF Return, SameThread, Types
<1>2. (\A d \in Waits : d # w => WaitOK(d)') /\ SamePlace(w)
  BY <1>1, OthersKept
<1>3. SameItem(w) /\ In(w)
  BY <1>0, <1>1 DEF SameItem, In, WaitOK, ItemOK, Using
<1>4. /\ CallsOK(w)' /\ CollectsOK(w)'
      /\ \A n : Before(w, n)' = Before(w, n)
      /\ \A S : Enough(w, S)' <=> Enough(w, S)
  BY <1>0, <1>1, <1>2, <1>3, SameKeepsItem
<1>5. ItemOK(w)'
  BY <1>0, <1>1, <1>3 DEF WaitOK, ItemOK, SameItem, Using
<1>6. \E n \in 0..Len(heard[w]) :
        got[w] = Before(w, n) /\ \A m \in 1..(n - 1) : ~Enough(w, Before(w, m))
  <2>1. CASE ~complete[w] \/ AtLock(w)
    <3>1. /\ Heard(w) \in 0..Len(heard[w]) /\ got[w] = Before(w, Heard(w))
          /\ \A m \in 1..Heard(w) : ~Enough(w, Before(w, m))
      BY <1>0, <1>3, <2>1 DEF WaitOK, CollectsOK
    <3>2. \A m \in 1..(Heard(w) - 1) : m \in 1..Heard(w)
      BY <3>1
    <3>3. QED
      BY <3>1, <3>2
  <2>2. CASE ~(~complete[w] \/ AtLock(w))
    BY <1>0, <1>3, <2>2 DEF WaitOK, CollectsOK
  <2>3. QED
    BY <2>1, <2>2
<1>7. ResultOK(w)'
  <2>1. kind # "nodes" => start[w] = {}
    BY <1>0 DEF WaitOK, ItemOK
  <2>2. CASE kind = "variables" /\ ~Enough(w, got[w])
    <3>1. result'[w] = {} /\ start[w] = {}
      BY <1>1, <2>1, <2>2 DEF Value
    <3>2. Before(w, 0) = {}
      BY <1>0, <3>1, NothingHeard DEF Before, Types
    <3>3. 0 \in 0..Len(heard'[w]) /\ \A m \in 1..(0 - 1) : FALSE
      BY <1>0, <1>1 DEF Types
    <3>4. QED
      BY <1>4, <3>1, <3>2, <3>3 DEF ResultOK
  <2>3. CASE ~(kind = "variables" /\ ~Enough(w, got[w]))
    <3>1. result'[w] = got[w] /\ (kind = "variables" => Enough(w, got[w]))
      BY <1>1, <2>3 DEF Value
    <3>2. QED
      BY <1>1, <1>4, <1>6, <3>1 DEF ResultOK
  <2>4. QED
    BY <2>2, <2>3
<1>8. AnswerOK(w)'
  <2>1. w \in answered => complete[w] /\ Enough(w, got[w]) /\ result'[w] = got[w]
    BY <1>0, <1>1, <1>3 DEF WaitOK, AnswerOK, Value
  <2>2. QED
    BY <1>0, <1>1, <1>2, <1>3, <1>4, <2>1 DEF WaitOK, AnswerOK, SameItem, SamePlace
<1>9. WakeOK(w)'
  BY <1>1 DEF WakeOK
<1>10. QED
  BY <1>2, <1>4, <1>5, <1>7, <1>8, <1>9 DEF WaitOK

LEMMA ReadDestroyedKeeps ==
  ASSUME Inv, NEW w \in Waits, ReadDestroyed(w)
  PROVE  \A d \in Waits : WaitOK(d)'
<1> USE DEF checking, canceling, item
<1>0. Types /\ WaitOK(w)
  BY DEF Inv
<1>1. /\ UNCHANGED <<kind, items, late, at, todo, event, heard, start, answered, orphans,
                      calls, got, complete, notified>>
      /\ \A d \in Waits : d # w => SameThread(d)
      /\ phase'[w] = "done" /\ w \in orphans
  BY <1>0 DEF ReadDestroyed, SameThread, Types
<1>2. (\A d \in Waits : d # w => WaitOK(d)') /\ SamePlace(w)
  BY <1>1, OthersKept
<1>3. SameItem(w) /\ ~In(w)
  BY <1>0, <1>1 DEF SameItem, In, WaitOK, ItemOK
<1>4. CallsOK(w)' /\ CollectsOK(w)'
  BY <1>0, <1>1, <1>2, <1>3, SameKeepsItem
<1>5. ItemOK(w)' /\ ResultOK(w)' /\ WakeOK(w)'
  BY <1>0, <1>1, <1>3 DEF WaitOK, ItemOK, ResultOK, WakeOK, SameItem, Using
<1>6. AnswerOK(w)'
  BY <1>0, <1>1, <1>2, <1>3 DEF WaitOK, AnswerOK, SameItem, SamePlace
<1>7. QED
  BY <1>2, <1>4, <1>5, <1>6 DEF WaitOK

LEMMA DeadlineKeeps ==
  ASSUME Inv, NEW w \in Waits, Deadline(w)
  PROVE  \A d \in Waits : WaitOK(d)'
<1>1. /\ UNCHANGED <<kind, items, at, todo, event, heard, start, answered, orphans,
                      calls, got, complete, notified, phase, result>>
      /\ \A d \in late : d \in late'
  BY DEF Deadline, checking, canceling, item, waiting
<1>2. \A d \in Waits : SameItem(d) /\ SameThread(d) /\ SamePlace(d)
  BY <1>1, SamePlaceIfSame DEF SameItem, SameThread, In
<1>3. QED
  BY <1>1, <1>2, SameKeepsWait DEF Inv

-----------------------------------------------------------------------------
(* The steps of the thread that announces events                           *)

(* A list that the thread has not taken, or has gone through.              *)
LEMMA NoneLeft ==
  ASSUME NEW w, todo = <<>>
  PROVE  ~Contains(todo, w) /\ ~Pending(w)
BY DEF Contains, Pending

LEMMA HappenKeeps ==
  ASSUME Inv, NEW e \in Events, Happen(e)
  PROVE  \A d \in Waits : WaitOK(d)'
<1>1. /\ UNCHANGED <<kind, items, late, todo, heard, start, answered, orphans, calls, got,
                      complete, notified, phase, result>>
      /\ at = "idle" /\ at' = "begin"
  BY DEF Happen, canceling, item, waiting
<1>2. todo = <<>> /\ todo' = <<>>
  BY <1>1 DEF Inv, ListOK
<1>3. \A d \in Waits : SameItem(d) /\ SameThread(d)
  BY <1>1 DEF SameItem, SameThread, In
<1>4. \A d : SamePlace(d)
  BY <1>1, <1>2, NoneLeft DEF SamePlace, Pending, AtLock
<1>5. QED
  BY <1>1, <1>3, <1>4, SameKeepsWait DEF Inv

LEMMA EndCheckKeeps ==
  ASSUME Inv, EndCheck
  PROVE  \A d \in Waits : WaitOK(d)'
<1>1. /\ UNCHANGED <<kind, items, late, todo, heard, start, answered, orphans, calls, got,
                      complete, notified, phase, result>>
      /\ at = "read" /\ at' = "idle" /\ todo = <<>> /\ todo' = <<>>
  BY DEF EndCheck, canceling, item, waiting
<1>2. \A d \in Waits : SameItem(d) /\ SameThread(d)
  BY <1>1 DEF SameItem, SameThread, In
<1>3. \A d : SamePlace(d)
  BY <1>1, NoneLeft DEF SamePlace, Pending, AtLock
<1>4. QED
  BY <1>1, <1>2, <1>3, SameKeepsWait DEF Inv

(* The waits with an item hear the event.                                  *)
LEMMA BeginCheckKeeps ==
  ASSUME Inv, BeginCheck
  PROVE  \A d \in Waits : WaitOK(d)'
<1>0. Types /\ \A d \in Waits : WaitOK(d)
  BY DEF Inv
<1>1. /\ UNCHANGED <<kind, items, late, start, answered, orphans, calls, got, complete,
                      notified, phase, result, event>>
      /\ at = "begin" /\ at' = "read" /\ todo' = items
      /\ \A d \in Waits :
           heard'[d] = (IF In(d) /\ Matches(d) THEN Append(heard[d], event) ELSE heard[d])
  BY DEF BeginCheck, canceling, item, waiting, In, Matches
<1>2. todo = <<>> /\ event \in Events
  BY <1>0, <1>1 DEF Inv, ListOK, Types
<1>3. ASSUME NEW d \in Waits
      PROVE  WaitOK(d)'
  <2>0. heard[d] \in Seq(Events)
    BY <1>0 DEF Types
  <2>1. CASE ~(In(d) /\ Matches(d))
    <3>1. SameItem(d) /\ SameThread(d)
      BY <1>1, <2>1 DEF SameItem, SameThread, In
    <3>2. SamePlace(d)
      BY <1>1, <1>2, <2>1, NoneLeft DEF SamePlace, Pending, AtLock, In, Matches
    <3>3. QED
      BY <1>0, <1>1, <3>1, <3>2, SameKeepsWait
  <2>2. CASE In(d) /\ Matches(d)
    <3>1. /\ heard'[d] = Append(heard[d], event)
          /\ Len(heard'[d]) = Len(heard[d]) + 1 /\ Len(heard[d]) \in Nat
          /\ heard'[d][Len(heard'[d])] = event
      <4>1. heard'[d] = Append(heard[d], event)
        BY <1>1, <2>2
      <4>2. QED
        BY <1>2, <2>0, <4>1
    <3>2. \A n \in 0..Len(heard[d]) : Before(d, n)' = Before(d, n)
      BY <1>1, <1>2, <2>0, <3>1, BeforeStays
    <3>3. \A S : Enough(d, S)' <=> Enough(d, S)
      BY <1>1 DEF Enough
    <3>4. In(d)' /\ Pending(d)' /\ ~Pending(d) /\ ~AtLock(d) /\ ~AtLock(d)'
      BY <1>1, <1>2, <2>2, NoneLeft DEF In, Pending, AtLock, Matches
    <3>5. ItemOK(d)'
      BY <1>0, <1>1, <2>2, <3>4 DEF WaitOK, ItemOK
    <3>6. CallsOK(d)'
      BY <1>0, <1>1, <2>2 DEF WaitOK, CallsOK
    <3>7. \A n \in 0..Len(heard[d]) : \A m \in 1..n : m \in 0..Len(heard[d])
      BY <3>1
    <3>8. CollectsOK(d)'
      <4>1. CASE ~complete[d]
        <5>1. PICK k \in Nat : k = Len(heard[d])
          BY <3>1
        <5>2. Heard(d) = k /\ got[d] = Before(d, k) /\ \A m \in 1..k : ~Enough(d, Before(d, m))
          BY <1>0, <2>2, <3>4, <4>1, <5>1 DEF WaitOK, CollectsOK, Heard
        <5>3. Heard(d)' = k /\ k \in 0..Len(heard'[d]) /\ k \in 0..Len(heard[d])
          BY <3>1, <3>4, <5>1 DEF Heard
        <5>4. got'[d] = Before(d, k)' /\ \A m \in 1..k : ~Enough(d, Before(d, m))'
          BY <1>1, <3>2, <3>3, <3>7, <5>2, <5>3
        <5>5. QED
          BY <1>1, <3>1, <4>1, <5>3, <5>4 DEF CollectsOK
      <4>2. CASE complete[d]
        <5>1. PICK n \in 0..Len(heard[d]) :
                got[d] = Before(d, n) /\ \A m \in 1..(n - 1) : ~Enough(d, Before(d, m))
          BY <1>0, <2>2, <3>4, <4>2 DEF WaitOK, CollectsOK
        <5>2. n \in 0..Len(heard'[d]) /\ \A m \in 1..(n - 1) : m \in 0..Len(heard[d])
          BY <3>1
        <5>3. got'[d] = Before(d, n)' /\ \A m \in 1..(n - 1) : ~Enough(d, Before(d, m))'
          BY <1>1, <3>2, <3>3, <5>1, <5>2
        <5>4. QED
          BY <1>1, <3>4, <4>2, <5>2, <5>3 DEF CollectsOK
      <4>3. QED
        BY <4>1, <4>2
    <3>9. ResultOK(d)'
      <4>1. SUFFICES ASSUME phase'[d] = "done", d \notin orphans'
                     PROVE  ResultOK(d)'
        BY DEF ResultOK
      <4>2. PICK n \in 0..Len(heard[d]) :
              result[d] = Before(d, n) /\ \A m \in 1..(n - 1) : ~Enough(d, Before(d, m))
        BY <1>0, <1>1, <4>1 DEF WaitOK, ResultOK
      <4>3. n \in 0..Len(heard'[d]) /\ \A m \in 1..(n - 1) : m \in 0..Len(heard[d])
        BY <3>1
      <4>4. result'[d] = Before(d, n)' /\ \A m \in 1..(n - 1) : ~Enough(d, Before(d, m))'
        BY <1>1, <3>2, <3>3, <4>2, <4>3
      <4>5. kind' = "variables" => result'[d] = {} \/ Enough(d, result[d])'
        BY <1>0, <1>1, <3>3, <4>1 DEF WaitOK, ResultOK
      <4>6. QED
        BY <1>1, <4>3, <4>4, <4>5 DEF ResultOK
    <3>10. AnswerOK(d)'
      BY <1>0, <1>1, <2>2, <3>3, <3>4 DEF WaitOK, AnswerOK
    <3>11. WakeOK(d)'
      BY <1>0, <1>1 DEF WaitOK, WakeOK
    <3>12. QED
      BY <3>5, <3>6, <3>8, <3>9, <3>10, <3>11 DEF WaitOK
  <2>3. QED
    BY <2>1, <2>2
<1>4. QED
  BY <1>3

(* The thread has left the place of w, or another item, and goes on.       *)
LEMMA MovesOn ==
  ASSUME Inv, todo # <<>>, todo' = Tail(todo), at' = "read", event' = event,
         NEW d \in Waits, d # Head(todo), at \in {"read", "lock", "call", "notify"}
  PROVE  SamePlace(d)
<1>1. Contains(todo', d) <=> Contains(todo, d)
  BY HeadIsItem
<1>2. Matches(d)' <=> Matches(d)
  BY DEF Matches
<1>3. QED
  BY <1>1, <1>2 DEF SamePlace, Pending, AtLock

LEMMA StaysAtHead ==
  ASSUME Inv, todo' = todo, event' = event, NEW d \in Waits, d # Head(todo),
         at \in {"read", "lock", "call", "notify"}, at' \in {"lock", "call", "notify"}
  PROVE  SamePlace(d)
<1>1. Pending(d)' <=> Pending(d)
  BY DEF Pending, Matches
<1>2. QED
  BY <1>1 DEF SamePlace, AtLock

LEMMA CheckReadKeeps ==
  ASSUME Inv, CheckRead
  PROVE  \A d \in Waits : WaitOK(d)'
<1> DEFINE w == Head(todo)
<1>0. Types /\ \A d \in Waits : WaitOK(d)
  BY DEF Inv
<1>1. /\ UNCHANGED <<kind, items, late, heard, start, answered, orphans, calls, got,
                      complete, notified, phase, result, event>>
      /\ at = "read" /\ todo # <<>>
      /\ complete[w] => at' = "read" /\ todo' = Tail(todo)
      /\ ~complete[w] => at' = "lock" /\ todo' = todo
  BY DEF CheckRead, canceling, item, waiting
<1>2. \A d \in Waits : SameItem(d) /\ SameThread(d)
  BY <1>1 DEF SameItem, SameThread, In
<1>3. w \in Waits /\ In(w) /\ Contains(todo, w) /\ ~Contains(Tail(todo), w)
  BY <1>1, HeadIsItem
<1>4. ASSUME NEW d \in Waits, d # w
      PROVE  WaitOK(d)'
  <2>1. SamePlace(d)
    BY <1>1, <1>4, MovesOn, StaysAtHead
  <2>2. QED
    BY <1>0, <1>1, <1>2, <2>1, SameKeepsWait
<1>5. PICK v \in Waits : v = w
  BY <1>3
<1> HIDE DEF w
<1>6. /\ \A n : Before(v, n)' = Before(v, n)
      /\ \A S : Enough(v, S)' <=> Enough(v, S)
  BY <1>1 DEF Before, Enough
<1>7. In(v)' /\ In(v) /\ (Matches(v)' <=> Matches(v))
  BY <1>1, <1>3, <1>5 DEF In, Matches
<1>8. ItemOK(v)' /\ ResultOK(v)'
  BY <1>0, <1>1, <1>6, <1>7 DEF WaitOK, ItemOK, ResultOK
<1>9. ASSUME complete[v]
      PROVE  WaitOK(v)'
  <2>1. at' = "read" /\ todo' = Tail(todo) /\ ~AtLock(v) /\ ~AtLock(v)'
    BY <1>1, <1>5, <1>9 DEF AtLock
  <2>2. CallsOK(v)' /\ CollectsOK(v)' /\ AnswerOK(v)' /\ WakeOK(v)'
    BY <1>0, <1>1, <1>6, <1>7, <1>9, <2>1 DEF WaitOK, CallsOK, CollectsOK, AnswerOK, WakeOK
  <2>3. QED
    BY <1>8, <2>2 DEF WaitOK
<1>10. ASSUME ~complete[v]
       PROVE  WaitOK(v)'
  <2>1. at' = "lock" /\ todo' = todo /\ AtLock(v)' /\ ~AtLock(v)
    BY <1>1, <1>5, <1>10 DEF AtLock, w
  <2>2. Pending(v)' <=> Pending(v)
    BY <1>1, <1>7, <2>1 DEF Pending
  <2>3. CollectsOK(v)'
    BY <1>0, <1>1, <1>6, <1>7, <1>10, <2>1, <2>2 DEF WaitOK, CollectsOK, Heard
  <2>4. CallsOK(v)'
    <3>1. calls[v] = 0
      BY <1>0, <1>7, <1>10 DEF WaitOK, CallsOK, Types
    <3>2. QED
      BY <1>1, <3>1 DEF CallsOK
  <2>5. AnswerOK(v)' /\ WakeOK(v)'
    BY <1>0, <1>1, <1>6, <1>7, <1>10, <2>1 DEF WaitOK, AnswerOK, WakeOK
  <2>6. QED
    BY <1>8, <2>3, <2>4, <2>5 DEF WaitOK
<1>11. QED
  BY <1>4, <1>5, <1>9, <1>10

(* update: the item collects the event if it matches, and is complete if   *)
(* that makes enough.                                                      *)
LEMMA CheckUpdateKeeps ==
  ASSUME Inv, CheckUpdate
  PROVE  \A d \in Waits : WaitOK(d)'
<1> DEFINE w == Head(todo)
<1>0. Types /\ \A d \in Waits : WaitOK(d)
  BY DEF Inv
<1>1. UNCHANGED <<kind, items, late, heard, start, orphans, calls, notified, phase, result,
                  event>>
  BY DEF CheckUpdate, waiting, canceling
<1>2. at = "lock" /\ todo # <<>>
  BY DEF CheckUpdate, Inv, ListOK
<1>3. w \in Waits /\ In(w) /\ Contains(todo, w) /\ ~Contains(Tail(todo), w)
  BY <1>2, HeadIsItem
<1>4. PICK v \in Waits : v = w
  BY <1>3
<1> DEFINE collected == IF event \in Want[v] THEN got[v] \cup {event} ELSE got[v]
           done == event \in Want[v] /\ Enough(v, collected)
           call == v \in Called[kind] /\ (done \/ kind = "nodes") /\ v \notin late
<1>5. /\ got' = [got EXCEPT ![v] = collected]
      /\ complete' = [complete EXCEPT ![v] = done]
      /\ answered' = IF done /\ v \notin late THEN answered \cup {v} ELSE answered
      /\ at' = IF call THEN "call" ELSE IF done THEN "notify" ELSE "read"
      /\ todo' = IF call \/ done THEN todo ELSE Tail(todo)
  BY <1>4 DEF CheckUpdate
<1> HIDE DEF w, call, done
<1>6. \/ todo' = todo /\ at' \in {"call", "notify"}
      \/ todo' = Tail(todo) /\ at' = "read" /\ ~done
  BY <1>5
<1>7. ASSUME NEW d \in Waits, d # v
      PROVE  WaitOK(d)'
  <2>1. SamePlace(d)
    BY <1>1, <1>2, <1>4, <1>6, <1>7, MovesOn, StaysAtHead DEF w
  <2>2. SameItem(d) /\ SameThread(d)
    BY <1>0, <1>1, <1>5, <1>7 DEF SameItem, SameThread, In, Types
  <2>3. QED
    BY <1>0, <1>1, <2>1, <2>2, SameKeepsWait
<1>8. /\ got'[v] = collected /\ (complete'[v] <=> done)
      /\ (v \in answered' <=> v \in answered \/ (done /\ v \notin late))
  BY <1>0, <1>5 DEF Types
<1>9. /\ \A n : Before(v, n)' = Before(v, n)
      /\ \A S : Enough(v, S)' <=> Enough(v, S)
  BY <1>1 DEF Before, Enough
<1>10. /\ In(v)' /\ In(v) /\ AtLock(v) /\ ~AtLock(v)' /\ Contains(todo, v)
       /\ Head(todo) = v /\ ~Contains(Tail(todo), v)
  BY <1>1, <1>2, <1>3, <1>4, <1>6 DEF In, AtLock, w
<1>11. ~Pending(v)' /\ Heard(v)' = Len(heard[v])
  <2>1. ~Pending(v)'
    BY <1>6, <1>10 DEF Pending
  <2>2. QED
    BY <1>1, <2>1 DEF Heard
<1>12. /\ Len(heard[v]) \in Nat
       /\ collected = Before(v, Len(heard[v]))
       /\ \A m \in 1..(Len(heard[v]) - 1) : ~Enough(v, Before(v, m))
       /\ ~done => \A m \in 1..Len(heard[v]) : ~Enough(v, Before(v, m))
  <2>0. heard[v] \in Seq(Events) /\ Len(heard[v]) \in Nat
    BY <1>0 DEF Types
  <2>1. /\ Heard(v) \in 0..Len(heard[v]) /\ got[v] = Before(v, Heard(v))
        /\ \A m \in 1..Heard(v) : ~Enough(v, Before(v, m))
        /\ Pending(v) => heard[v][Len(heard[v])] = event
    BY <1>0, <1>10 DEF WaitOK, CollectsOK
  <2>2. Pending(v) <=> event \in Want[v]
    BY <1>2, <1>10 DEF Pending, Matches
  <2>3. CASE event \in Want[v]
    <3>1. Heard(v) = Len(heard[v]) - 1 /\ Len(heard[v]) \in Nat \ {0}
      BY <2>0, <2>1, <2>2, <2>3 DEF Heard
    <3>2. heard[v] # <<>>
      BY <3>1
    <3>3. collected = Before(v, Len(heard[v]))
      BY <2>0, <2>1, <2>2, <2>3, <3>1, <3>2, BeforeAdds
    <3>4. ~done => ~Enough(v, Before(v, Len(heard[v])))
      BY <2>3, <3>3 DEF done
    <3>5. \A m \in 1..Len(heard[v]) : m \in 1..(Len(heard[v]) - 1) \/ m = Len(heard[v])
      BY <3>1
    <3>6. QED
      BY <2>0, <2>1, <3>1, <3>3, <3>4, <3>5
  <2>4. CASE event \notin Want[v]
    <3>1. Heard(v) = Len(heard[v]) /\ collected = got[v]
      BY <2>2, <2>4 DEF Heard
    <3>2. \A m \in 1..(Len(heard[v]) - 1) : m \in 1..Len(heard[v])
      BY <2>0
    <3>3. QED
      BY <2>0, <2>1, <3>1, <3>2
  <2>5. QED
    BY <2>3, <2>4
<1>13. PICK k \in Nat : k = Len(heard[v])
  BY <1>12
<1>14. k \in 0..k /\ heard'[v] = heard[v]
  BY <1>1
<1> HIDE DEF collected
<1>15. ItemOK(v)'
  BY <1>0, <1>1, <1>8, <1>10 DEF WaitOK, ItemOK
<1>16. CallsOK(v)'
  BY <1>0, <1>1, <1>2, <1>10 DEF WaitOK, CallsOK
<1>17. CollectsOK(v)'
  <2>1. CASE done
    BY <1>8, <1>9, <1>10, <1>12, <1>13, <1>14, <2>1 DEF CollectsOK
  <2>2. CASE ~done
    BY <1>8, <1>9, <1>10, <1>11, <1>12, <1>13, <1>14, <2>2 DEF CollectsOK
  <2>3. QED
    BY <2>1, <2>2
<1>18. ResultOK(v)'
  BY <1>0, <1>1, <1>9 DEF WaitOK, ResultOK
<1>19. AnswerOK(v)'
  <2>1. v \notin answered
    BY <1>0, <1>10 DEF WaitOK, AnswerOK
  <2>2. done => Enough(v, collected)
    BY DEF done, collected
  <2>3. v \in Timed[kind] /\ phase[v] \in {"reading", "done"} => v \in late
    BY <1>0, <1>10 DEF WaitOK, AnswerOK
  <2>4. QED
    BY <1>1, <1>8, <1>9, <1>10, <2>1, <2>2, <2>3 DEF AnswerOK
<1>20. WakeOK(v)'
  BY <1>6, <1>8, <1>10 DEF WakeOK
<1>21. QED
  BY <1>7, <1>15, <1>16, <1>17, <1>18, <1>19, <1>20 DEF WaitOK

(* The callback of w has been called, for the first time if it gets a      *)
(* complete answer.                                                        *)
LEMMA CheckCallKeeps ==
  ASSUME Inv, CheckCall
  PROVE  \A d \in Waits : WaitOK(d)'
<1> DEFINE w == Head(todo)
<1>0. Types /\ \A d \in Waits : WaitOK(d)
  BY DEF Inv
<1>1. UNCHANGED <<kind, items, late, heard, start, orphans, notified, phase, result, event,
                  complete, got, answered>>
  BY DEF CheckCall, waiting, canceling, item
<1>2. at = "call" /\ todo # <<>>
  BY DEF CheckCall, Inv, ListOK
<1>3. w \in Waits /\ In(w) /\ ~Contains(Tail(todo), w)
  BY <1>2, HeadIsItem
<1>4. PICK v \in Waits : v = w
  BY <1>3
<1>5. \/ /\ complete[v] /\ calls' = [calls EXCEPT ![v] = @ + 1] /\ at' = "notify"
         /\ todo' = todo
      \/ ~complete[v] /\ calls' = calls /\ at' = "read" /\ todo' = Tail(todo)
  BY <1>4 DEF CheckCall
<1>6. ASSUME NEW d \in Waits, d # v
      PROVE  WaitOK(d)'
  <2>1. SamePlace(d)
    BY <1>1, <1>2, <1>4, <1>5, <1>6, MovesOn, StaysAtHead
  <2>2. SameItem(d) /\ SameThread(d)
    BY <1>0, <1>1, <1>5, <1>6 DEF SameItem, SameThread, In, Types
  <2>3. QED
    BY <1>0, <1>1, <2>1, <2>2, SameKeepsWait
<1>7. /\ \A n : Before(v, n)' = Before(v, n)
      /\ \A S : Enough(v, S)' <=> Enough(v, S)
  BY <1>1 DEF Before, Enough
<1>8. Head(todo) = v /\ ~Contains(Tail(todo), v)
  BY <1>3, <1>4
<1> HIDE DEF w
<1>9. In(v)' /\ In(v) /\ ~AtLock(v) /\ ~AtLock(v)' /\ ~Pending(v) /\ ~Pending(v)'
  BY <1>1, <1>2, <1>3, <1>4, <1>5, <1>8 DEF In, AtLock, Pending
<1>10. calls[v] = 0 /\ calls'[v] <= 1 /\ (~complete[v] => calls'[v] = 0)
  <2>1. calls[v] = 0
    BY <1>0, <1>2, <1>8 DEF WaitOK, CallsOK
  <2>2. calls \in [Waits -> Nat]
    BY <1>0 DEF Types
  <2>3. QED
    BY <1>5, <2>1, <2>2
<1>11. ItemOK(v)'
  <2>1. phase[v] \notin {"new", "ready"}
    BY <1>0, <1>9 DEF WaitOK, ItemOK
  <2>2. QED
    BY <1>0, <1>1, <1>9, <2>1 DEF WaitOK, ItemOK
<1>12. CallsOK(v)'
  BY <1>1, <1>5, <1>10 DEF CallsOK
<1>13. CollectsOK(v)'
  BY <1>0, <1>1, <1>7, <1>9 DEF WaitOK, CollectsOK, Heard
<1>14. ResultOK(v)'
  BY <1>0, <1>1, <1>7 DEF WaitOK, ResultOK
<1>15. AnswerOK(v)'
  BY <1>0, <1>1, <1>7, <1>9 DEF WaitOK, AnswerOK
<1>16. WakeOK(v)'
  BY <1>1, <1>5, <1>8 DEF WakeOK
<1>17. QED
  BY <1>6, <1>11, <1>12, <1>13, <1>14, <1>15, <1>16 DEF WaitOK

LEMMA CheckNotifyKeeps ==
  ASSUME Inv, CheckNotify
  PROVE  \A d \in Waits : WaitOK(d)'
<1> DEFINE w == Head(todo)
<1>0. Types /\ \A d \in Waits : WaitOK(d)
  BY DEF Inv
<1>1. /\ UNCHANGED <<kind, items, late, heard, start, orphans, phase, result, event,
                      complete, got, answered, calls>>
      /\ todo' = Tail(todo) /\ at' = "read" /\ notified' = notified \cup {w}
  BY DEF CheckNotify, waiting, canceling
<1>2. at = "notify" /\ todo # <<>>
  BY DEF CheckNotify, Inv, ListOK
<1>3. w \in Waits /\ In(w) /\ ~Contains(Tail(todo), w)
  BY <1>2, HeadIsItem
<1>4. PICK v \in Waits : v = w
  BY <1>3
<1>5. \A d \in Waits : SameItem(d) /\ SameThread(d)
  BY <1>1 DEF SameItem, SameThread, In
<1>6. ASSUME NEW d \in Waits, d # v
      PROVE  WaitOK(d)'
  <2>1. SamePlace(d)
    BY <1>1, <1>2, <1>4, <1>6, MovesOn
  <2>2. QED
    BY <1>0, <1>1, <1>5, <2>1, SameKeepsWait
<1>7. Head(todo) = v /\ ~Contains(todo', v) /\ v \in notified'
  BY <1>1, <1>3, <1>4
<1> HIDE DEF w
<1>8. /\ \A n : Before(v, n)' = Before(v, n)
      /\ \A S : Enough(v, S)' <=> Enough(v, S)
  BY <1>1 DEF Before, Enough
<1>9. (In(v)' <=> In(v)) /\ ~AtLock(v) /\ ~AtLock(v)' /\ ~Pending(v) /\ ~Pending(v)'
  BY <1>1, <1>2, <1>7 DEF In, AtLock, Pending
<1>10. ItemOK(v)' /\ CallsOK(v)' /\ ResultOK(v)'
  BY <1>0, <1>1, <1>8, <1>9 DEF WaitOK, ItemOK, CallsOK, ResultOK
<1>11. CollectsOK(v)'
  BY <1>0, <1>1, <1>8, <1>9 DEF WaitOK, CollectsOK, Heard
<1>12. AnswerOK(v)' /\ WakeOK(v)'
  BY <1>0, <1>1, <1>7, <1>8, <1>9 DEF WaitOK, AnswerOK, WakeOK
<1>13. QED
  BY <1>6, <1>10, <1>11, <1>12 DEF WaitOK

-----------------------------------------------------------------------------
(* The steps of the thread that cancels                                    *)

LEMMA BeginCancelKeeps ==
  ASSUME Inv, BeginCancel
  PROVE  \A d \in Waits : WaitOK(d)'
<1>0. Types /\ ListOK /\ \A d \in Waits : WaitOK(d)
  BY DEF Inv
<1> DEFINE open == {d \in Range(items) : ~complete[d]}
<1>1. /\ UNCHANGED <<kind, items, late, heard, start, orphans, phase, result, event, at, todo,
                      got, answered, calls>>
      /\ at \in {"idle", "begin"}
      /\ complete' = [d \in Waits |-> d \in open \/ complete[d]]
      /\ notified' = notified \cup open
  BY DEF BeginCancel, waiting, checking, MutexFree
<1>2. \A d : d \in Range(items) <=> In(d)
  <2>1. DOMAIN items = 1..Len(items)
    BY <1>0 DEF ListOK
  <2>2. QED
    BY <2>1 DEF In, Contains, Range
<1>3. \A d : (In(d)' <=> In(d)) /\ SamePlace(d) /\ ~AtLock(d) /\ ~AtLock(d)'
  BY <1>1, SamePlaceIfSame DEF In, AtLock
<1>4. ASSUME NEW d \in Waits, ~In(d) \/ complete[d]
      PROVE  WaitOK(d)'
  <2>1. complete[d] \in BOOLEAN /\ d \notin open
    BY <1>0, <1>2, <1>4 DEF Types
  <2>2. complete'[d] = complete[d]
    BY <1>1, <2>1, Zenon
  <2>3. SameItem(d) /\ SameThread(d)
    BY <1>1, <1>3, <2>2 DEF SameItem, SameThread
  <2>4. QED
    BY <1>0, <1>1, <1>3, <2>3, SameKeepsWait
<1>5. ASSUME NEW d \in Waits, In(d), ~complete[d]
      PROVE  WaitOK(d)'
  <2>1. complete'[d] /\ d \in notified'
    BY <1>1, <1>2, <1>5
  <2>2. /\ \A n : Before(d, n)' = Before(d, n)
        /\ \A S : Enough(d, S)' <=> Enough(d, S)
    BY <1>1 DEF Before, Enough
  <2>3. ItemOK(d)' /\ CallsOK(d)' /\ ResultOK(d)'
    BY <1>0, <1>1, <1>3, <2>1, <2>2 DEF WaitOK, ItemOK, CallsOK, ResultOK
  <2>4. CollectsOK(d)'
    <3>1. /\ Heard(d) \in 0..Len(heard[d]) /\ got[d] = Before(d, Heard(d))
          /\ \A m \in 1..Heard(d) : ~Enough(d, Before(d, m))
      BY <1>0, <1>5 DEF WaitOK, CollectsOK
    <3>2. PICK n \in 0..Len(heard[d]) : n = Heard(d)
      BY <3>1
    <3>3. \A m \in 1..(n - 1) : m \in 1..n
      OBVIOUS
    <3>4. QED
      BY <1>1, <1>3, <2>1, <2>2, <3>1, <3>2, <3>3 DEF CollectsOK
  <2>5. AnswerOK(d)' /\ WakeOK(d)'
    BY <1>0, <1>1, <1>3, <2>1, <2>2 DEF WaitOK, AnswerOK, WakeOK
  <2>6. QED
    BY <2>3, <2>4, <2>5 DEF WaitOK
<1>6. QED
  BY <1>4, <1>5

LEMMA EndCancelKeeps ==
  ASSUME Inv, EndCancel
  PROVE  \A d \in Waits : WaitOK(d)'
<1>0. Types /\ ListOK /\ \A d \in Waits : WaitOK(d)
  BY DEF Inv
<1>1. /\ UNCHANGED <<kind, late, heard, start, phase, result, event, at, todo, got, answered,
                      calls, complete, notified>>
      /\ at \in {"idle", "begin"} /\ items' = <<>>
  BY <1>0 DEF EndCancel, waiting, checking, item, ListOK
<1>2. \A d : ~In(d)'
  BY <1>1 DEF In, Contains
<1>3. \A d : d \in orphans' <=> d \in orphans \/ (In(d) /\ phase[d] \in Using)
  <2>1. orphans' = orphans \cup {d \in Range(items) : phase[d] \in Using}
    BY DEF EndCancel, Destroy
  <2>2. DOMAIN items = 1..Len(items)
    BY <1>0 DEF ListOK
  <2>3. \A d : d \in Range(items) <=> In(d)
    BY <2>2 DEF In, Contains, Range
  <2>4. QED
    BY <2>1, <2>3
<1>4. \A d : SameThread(d)
  BY <1>1 DEF SameThread
<1>5. ASSUME NEW d \in Waits, In(d)
      PROVE  WaitOK(d)'
  BY <1>1, <1>2, <1>3, <1>4, <1>5, DestroyedKeeps
<1>6. ASSUME NEW d \in Waits, ~In(d)
      PROVE  WaitOK(d)'
  <2>1. SameItem(d)
    BY <1>1, <1>2, <1>3, <1>6 DEF SameItem
  <2>2. QED
    BY <1>0, <1>1, <1>4, <2>1, SameKeepsWait, SamePlaceIfSame
<1>7. QED
  BY <1>5, <1>6

-----------------------------------------------------------------------------
(* The invariant, and what follows from it                                 *)

LEMMA InitInv == Init => Inv
<1> SUFFICES ASSUME Init
             PROVE  Inv
  OBVIOUS
<1> USE DEF Init
<1>1. Types
  BY DEF Types, Phases, Places
<1>2. ListOK
  BY DEF ListOK, IsInjective, Contains
<1>3. ASSUME NEW w \in Waits
      PROVE  WaitOK(w)
  <2>1. ~In(w)
    BY DEF In, Contains
  <2>2. QED
    BY <2>1 DEF WaitOK, ItemOK, CallsOK, CollectsOK, ResultOK, AnswerOK, WakeOK, Using, AtLock
<1>4. QED
  BY <1>1, <1>2, <1>3 DEF Inv

LEMMA InvStep == Inv /\ [Next]_vars => Inv'
<1> SUFFICES ASSUME Inv, [Next]_vars
             PROVE  Inv'
  OBVIOUS
<1>1. Types' /\ ListOK'
  BY TypesKept, ListKept
<1>2. ASSUME NEW w \in Waits, Peek(w) \/ WaitStep(w) \/ ReadDestroyed(w) \/ Deadline(w)
      PROVE  \A d \in Waits : WaitOK(d)'
  BY <1>2, PeekKeeps, ReturnAtOnceKeeps, RegisterKeeps, EnterKeeps, WakeKeeps, TimeoutKeeps,
     ReturnKeeps, ReadDestroyedKeeps, DeadlineKeeps
     DEF WaitStep
<1>3. ASSUME NEW e \in Events, Happen(e)
      PROVE  \A d \in Waits : WaitOK(d)'
  BY <1>3, HappenKeeps
<1>4. ASSUME CheckStep
      PROVE  \A d \in Waits : WaitOK(d)'
  BY <1>4, BeginCheckKeeps, CheckReadKeeps, CheckUpdateKeeps, CheckCallKeeps,
     CheckNotifyKeeps, EndCheckKeeps
     DEF CheckStep
<1>5. ASSUME BeginCancel \/ EndCancel
      PROVE  \A d \in Waits : WaitOK(d)'
  BY <1>5, BeginCancelKeeps, EndCancelKeeps
<1>6. ASSUME UNCHANGED vars
      PROVE  \A d \in Waits : WaitOK(d)'
  <2>1. UNCHANGED <<kind, items, late, heard, start, orphans, phase, result, event, at, todo,
                    got, answered, calls, complete, notified>>
    BY <1>6 DEF vars
  <2>2. \A d \in Waits : SameItem(d) /\ SameThread(d) /\ SamePlace(d)
    BY <2>1, SamePlaceIfSame DEF SameItem, SameThread, In
  <2>3. QED
    BY <2>1, <2>2, SameKeepsWait DEF Inv
<1>7. \A d \in Waits : WaitOK(d)'
  BY <1>2, <1>3, <1>4, <1>5, <1>6 DEF Next
<1>8. QED
  BY <1>1, <1>7 DEF Inv

LEMMA Invariant == Spec => []Inv
BY InitInv, InvStep, PTL DEF Spec

(* A callback gets at most one complete answer, although check may undo    *)
(* the complete of a thread whose deadline has passed (awaited.h 74-116).  *)
THEOREM CallbacksAreCalledOnce == Spec => []CalledOnce
<1>1. Inv => CalledOnce
  BY DEF Inv, WaitOK, CallsOK, CalledOnce
<1>2. QED
  BY <1>1, Invariant, PTL

(* A thread that sleeps on a complete item has been notified or is about   *)
(* to be (awaited.h 74-116).                                               *)
THEOREM WakeupsAreNotLost == Spec => []NoLostWakeup
<1>1. Inv => NoLostWakeup
  BY DEF Inv, WaitOK, WakeOK, NoLostWakeup
<1>2. QED
  BY <1>1, Invariant, PTL

(* A wait returns a first part of the matching events announced since it   *)
(* registered, and none beyond the one that completed it (awaited.h        *)
(* 74-116, 144-159).                                                       *)
THEOREM ResultsAreHeard == Spec => []ResultIsHeard
<1>1. Inv => ResultIsHeard
  BY DEF Inv, WaitOK, ResultOK, ResultIsHeard
<1>2. QED
  BY <1>1, Invariant, PTL

(* get_variable and get_all_variables return the whole answer or nothing   *)
(* (awaited.h 294-312).                                                    *)
THEOREM VariablesAreWhole == Spec => []AllOrNothing
<1>1. Inv => AllOrNothing
  BY DEF Inv, WaitOK, ResultOK, AllOrNothing
<1>2. QED
  BY <1>1, Invariant, PTL

-----------------------------------------------------------------------------
(* Types of the rest                                                       *)

(* The items that a check has still to look at are the last of the list.   *)
LastItems ==
  /\ Len(todo) <= Len(items)
  /\ \A i \in 1..Len(todo) : todo[i] = items[Len(items) - Len(todo) + i]

Rest ==
  /\ late \subseteq Timed[kind] /\ notified \subseteq Waits
  /\ event \in Events \cup {NoEvent}
  /\ checks \in 0..MaxChecks /\ cancels \in 0..MaxCancels /\ cancelling \in BOOLEAN
  /\ answered \subseteq Waits /\ orphans \subseteq Waits

LEMMA LastItemsAreSuffix ==
  ASSUME items \in Seq(Waits), todo \in Seq(Waits), LastItems
  PROVE  IsSuffix(todo, items)
<1> DEFINE k == Len(todo)
           n == Len(items)
           s == Reverse(todo)
           t == Reverse(items)
<1>1. k \in Nat /\ n \in Nat /\ k <= n
  BY DEF LastItems
<1>2. /\ s = [i \in 1..k |-> todo[(k - i) + 1]]
      /\ t = [i \in 1..n |-> items[(n - i) + 1]]
  BY DEF Reverse
<1>3. s \in Seq(Waits) /\ t \in Seq(Waits)
  <2>1. \A i \in 1..k : todo[(k - i) + 1] \in Waits
    OBVIOUS
  <2>2. \A i \in 1..n : items[(n - i) + 1] \in Waits
    OBVIOUS
  <2>3. QED
    BY <1>1, <1>2, <2>1, <2>2
<1>4. Len(s) = k /\ Len(t) = n
  BY <1>1, <1>2, <1>3
<1>5. ASSUME NEW i \in 1..k
      PROVE  s[i] = t[i]
  <2>1. s[i] = todo[(k - i) + 1] /\ t[i] = items[(n - i) + 1]
    BY <1>1, <1>2
  <2>2. (k - i) + 1 \in 1..k /\ n - k + ((k - i) + 1) = (n - i) + 1
    BY <1>1
  <2>3. QED
    BY <2>1, <2>2 DEF LastItems
<1> HIDE DEF k, n, s, t
<1>6. SubSeq(s, 1, k) = SubSeq(t, 1, k)
  <2>1. SubSeq(s, 1, k) = [i \in 1..k |-> s[i]] /\ SubSeq(t, 1, k) = [i \in 1..k |-> t[i]]
    BY <1>1, <1>3, <1>4
  <2>2. QED
    BY <1>5, <2>1
<1>7. QED
  BY <1>1, <1>4, <1>6 DEF IsSuffix, IsPrefix, s, t

LEMMA LastItemsKept ==
  ASSUME Inv, LastItems, [Next]_vars
  PROVE  LastItems'
<1> USE DEF waiting, item, checking, canceling
<1>0. /\ items \in Seq(Waits) /\ todo \in Seq(Waits) /\ items' \in Seq(Waits)
      /\ at \in {"idle", "begin"} => todo = <<>>
      /\ cancelling => at \in {"idle", "begin"}
  BY ListKept DEF Inv, ListOK
<1>1. CASE UNCHANGED <<todo, items>>
  BY <1>1 DEF LastItems
<1>2. CASE todo' = items /\ items' = items
  BY <1>0, <1>2 DEF LastItems
<1>3. CASE todo # <<>> /\ todo' = Tail(todo) /\ items' = items
  <2>1. /\ Len(todo) \in Nat \ {0} /\ Len(todo') = Len(todo) - 1
        /\ \A i \in 1..Len(todo') : todo'[i] = todo[i + 1]
    BY <1>0, <1>3
  <2>2. Len(items) \in Nat /\ Len(todo) <= Len(items)
    BY <1>0 DEF LastItems
  <2>3. ASSUME NEW i \in 1..Len(todo')
        PROVE  todo'[i] = items[Len(items) - Len(todo') + i]
    <3>1. i + 1 \in 1..Len(todo)
      BY <2>1
    <3>2. todo'[i] = items[Len(items) - Len(todo) + (i + 1)]
      BY <2>1, <3>1 DEF LastItems
    <3>3. Len(items) - Len(todo) + (i + 1) = Len(items) - Len(todo') + i
      BY <2>1, <2>2
    <3>4. QED
      BY <3>2, <3>3
  <2>4. Len(todo') <= Len(items)
    BY <2>1, <2>2
  <2>5. QED
    BY <1>3, <2>3, <2>4 DEF LastItems
<1>4. CASE todo = <<>> /\ todo' = <<>>
  BY <1>0, <1>4 DEF LastItems
<1>5. ASSUME NEW w \in Waits, Peek(w) \/ WaitStep(w) \/ ReadDestroyed(w) \/ Deadline(w)
      PROVE  LastItems'
  <2>1. CASE Register(w)
    BY <1>0, <1>4, <2>1 DEF Register, MutexFree
  <2>2. CASE ~Register(w)
    BY <1>1, <1>5, <2>2 DEF Peek, WaitStep, ReadDestroyed, Deadline, ReturnAtOnce, Enter, Wake,
       Timeout, Return
  <2>3. QED
    BY <2>1, <2>2
<1>6. ASSUME NEW e \in Events, Happen(e)
      PROVE  LastItems'
  BY <1>1, <1>6 DEF Happen
<1>7. CASE BeginCheck
  BY <1>2, <1>7 DEF BeginCheck
<1>8. CASE CheckRead
  BY <1>1, <1>3, <1>8 DEF CheckRead
<1>9. CASE CheckUpdate \/ CheckCall \/ CheckNotify
  <2>1. todo # <<>>
    BY <1>9 DEF CheckUpdate, CheckCall, CheckNotify, Inv, ListOK
  <2>2. items' = items /\ todo' \in {todo, Tail(todo)}
    BY <1>9 DEF CheckUpdate, CheckCall, CheckNotify
  <2>3. QED
    BY <1>1, <1>3, <2>1, <2>2
<1>10. CASE EndCheck \/ BeginCancel
  BY <1>1, <1>10 DEF EndCheck, BeginCancel
<1>11. CASE EndCancel
  BY <1>0, <1>4, <1>11 DEF EndCancel
<1>12. CASE UNCHANGED vars
  BY <1>1, <1>12 DEF vars
<1>13. QED
  BY <1>5, <1>6, <1>7, <1>8, <1>9, <1>10, <1>11, <1>12 DEF Next, CheckStep

LEMMA RestKept ==
  ASSUME Inv, Rest, [Next]_vars
  PROVE  Rest'
<1> USE BoundsAssumption, SubsetsAssumption DEF Rest, waiting, item, checking, canceling
<1>0. Types /\ ListOK /\ \A w \in Range(items) : w \in Waits
  BY DEF Inv, ListOK, Range
<1>1. ASSUME NEW w \in Waits, Peek(w) \/ ReturnAtOnce(w) \/ Enter(w) \/ Wake(w) \/ Timeout(w)
      PROVE  Rest'
  BY <1>1 DEF Peek, ReturnAtOnce, Enter, Wake, Timeout
<1>2. ASSUME NEW w \in Waits, Return(w) \/ ReadDestroyed(w) \/ Deadline(w)
      PROVE  Rest'
  BY <1>2 DEF Return, ReadDestroyed, Deadline
<1>3. ASSUME NEW w \in Waits, Register(w)
      PROVE  Rest'
  BY <1>0, <1>3 DEF Register, Destroy
<1>4. ASSUME NEW e \in Events, Happen(e)
      PROVE  Rest'
  BY <1>4 DEF Happen
<1>5. CASE BeginCheck \/ CheckRead \/ EndCheck
  BY <1>5 DEF BeginCheck, CheckRead, EndCheck
<1>6. CASE CheckUpdate \/ CheckCall \/ CheckNotify
  <2>1. todo # <<>>
    BY <1>6 DEF CheckUpdate, CheckCall, CheckNotify, Inv, ListOK
  <2>2. Head(todo) \in Waits
    BY <2>1, HeadIsItem
  <2>3. QED
    BY <1>6, <2>2 DEF CheckUpdate, CheckCall, CheckNotify
<1>7. CASE BeginCancel
  BY <1>0, <1>7 DEF BeginCancel
<1>8. CASE EndCancel
  BY <1>0, <1>8 DEF EndCancel, Destroy
<1>9. CASE UNCHANGED vars
  BY <1>9 DEF vars
<1>10. QED
  BY <1>1, <1>2, <1>3, <1>4, <1>5, <1>6, <1>7, <1>8, <1>9 DEF Next, WaitStep, CheckStep

-----------------------------------------------------------------------------
(* What destroys an item under its thread: the item is complete, and it    *)
(* was a cancel or another wait.                                           *)
LostOK ==
  /\ cancelling => cancels > 0 /\ \A w \in Waits : In(w) => complete[w]
  /\ \A w \in orphans : LostToOthers(w)

(* A step that keeps the list, the orphans, cancelling and every complete, *)
(* and sends no thread back.                                               *)
LEMMA LostKeptBySame ==
  ASSUME LostOK, \A w : In(w)' => In(w), orphans' = orphans, cancelling' = cancelling,
         cancels' = cancels,
         \A w \in Waits : complete[w] /\ (w \in orphans \/ cancelling) => complete'[w],
         \A w \in Waits : phase'[w] \in {"new", "ready"} => phase[w] \in {"new", "ready"},
         orphans \subseteq Waits
  PROVE  LostOK'
  BY DEF LostOK, LostToOthers

LEMMA LostStep ==
  ASSUME Inv, Rest, LostOK, [Next]_vars
  PROVE  LostOK'
<1> USE DEF waiting, item, checking, canceling
<1>0. /\ Types /\ ListOK /\ \A w \in Waits : ItemOK(w)
      /\ orphans \subseteq Waits /\ cancels \in Nat
  BY BoundsAssumption DEF Inv, WaitOK, Rest
<1>1. ASSUME NEW w \in Waits, Peek(w) \/ ReturnAtOnce(w) \/ Enter(w) \/ Wake(w) \/ Timeout(w)
      PROVE  LostOK'
  <2>1. UNCHANGED <<items, orphans, cancelling, cancels>>
    BY <1>1 DEF Peek, ReturnAtOnce, Enter, Wake, Timeout
  <2>2. \A d \in Waits : complete[d] => complete'[d]
    BY <1>0, <1>1 DEF Peek, ReturnAtOnce, Enter, Wake, Timeout, Types
  <2>3. \A d \in Waits : phase'[d] \in {"new", "ready"} => phase[d] \in {"new", "ready"}
    BY <1>0, <1>1 DEF Peek, ReturnAtOnce, Enter, Wake, Timeout, Types
  <2>4. QED
    BY <1>0, <2>1, <2>2, <2>3, LostKeptBySame DEF In
<1>2. ASSUME NEW w \in Waits, Return(w) \/ ReadDestroyed(w) \/ Deadline(w)
      PROVE  LostOK'
  <2>1. UNCHANGED <<items, orphans, cancelling, cancels, complete>>
    BY <1>2 DEF Return, ReadDestroyed, Deadline
  <2>2. \A d \in Waits : phase'[d] \in {"new", "ready"} => phase[d] \in {"new", "ready"}
    BY <1>0, <1>2 DEF Return, ReadDestroyed, Deadline, Types
  <2>3. QED
    BY <1>0, <2>1, <2>2, LostKeptBySame DEF In
<1>3. ASSUME NEW w \in Waits, Register(w)
      PROVE  LostOK'
  <2>1. /\ UNCHANGED <<complete, cancelling, cancels>> /\ ~cancelling
        /\ orphans' = orphans \cup {d \in {i \in Range(items) : complete[i]} : phase[d] \in Using}
        /\ phase[w] = "ready" /\ phase'[w] \notin {"new", "ready"}
        /\ \A d \in Waits : phase'[d] \in {"new", "ready"} => phase[d] \in {"new", "ready"}
    BY <1>0, <1>3 DEF Register, MutexFree, Destroy, Types
  <2>2. \A d \in orphans' : (d \in Waits /\ complete[d] /\ d # w) \/ d \in orphans
    <3>1. \A d \in Range(items) : d \in Waits
      BY <1>0 DEF ListOK, Range
    <3>2. QED
      BY <2>1, <3>1 DEF Using
  <2>3. \A d \in orphans' : LostToOthers(d)'
    <3>1. ASSUME NEW d \in orphans PROVE LostToOthers(d)'
      BY <1>0, <2>1 DEF LostOK, LostToOthers
    <3>2. ASSUME NEW d \in orphans', complete[d], d # w PROVE LostToOthers(d)'
      BY <2>1, <3>2 DEF LostToOthers
    <3>3. QED
      BY <2>2, <3>1, <3>2
  <2>4. QED
    BY <2>1, <2>3 DEF LostOK
<1>4. ASSUME NEW e \in Events, Happen(e)
      PROVE  LostOK'
  BY <1>0, <1>4, LostKeptBySame DEF Happen, In
<1>5. CASE BeginCheck \/ CheckRead \/ EndCheck \/ CheckCall \/ CheckNotify
  BY <1>0, <1>5, LostKeptBySame DEF BeginCheck, CheckRead, EndCheck, CheckCall, CheckNotify, In
<1>6. CASE CheckUpdate
  <2>1. todo # <<>> /\ ~cancelling /\ UNCHANGED <<items, orphans, cancelling, cancels, phase>>
    BY <1>0, <1>6 DEF CheckUpdate, ListOK
  <2>2. Head(todo) \in Waits /\ Head(todo) \notin orphans
    BY <1>0, <2>1, HeadIsItem DEF ItemOK
  <2>3. \A d \in Waits : d # Head(todo) => complete'[d] = complete[d]
    BY <1>0, <1>6 DEF CheckUpdate, Types
  <2>4. QED
    BY <1>0, <2>1, <2>2, <2>3, LostKeptBySame DEF In
<1>7. CASE BeginCancel
  <2>1. /\ cancels' > 0 /\ UNCHANGED <<items, orphans, phase>>
        /\ \A d \in Waits : complete[d] => complete'[d]
        /\ \A d \in Waits : d \in Range(items) => complete'[d]
    <3>1. complete' = [d \in Waits |-> d \in {v \in Range(items) : ~complete[v]} \/ complete[d]]
      BY <1>7 DEF BeginCancel
    <3>2. \A d \in Waits : complete'[d] <=> d \in Range(items) \/ complete[d]
      BY <3>1
    <3>3. cancels' > 0 /\ UNCHANGED <<items, orphans, phase>>
      BY <1>0, <1>7 DEF BeginCancel
    <3>4. QED
      BY <3>2, <3>3
  <2>2. \A d : In(d) => d \in Range(items)
    BY <1>0 DEF In, Contains, Range, ListOK
  <2>3. \A d \in orphans' : LostToOthers(d)'
    BY <1>0, <2>1 DEF LostOK, LostToOthers
  <2>4. \A d \in Waits : In(d)' => complete'[d]
    BY <2>1, <2>2 DEF In
  <2>5. QED
    BY <2>1, <2>3, <2>4 DEF LostOK
<1>8. CASE EndCancel
  <2>1. /\ cancelling /\ ~cancelling' /\ UNCHANGED <<complete, cancels, phase>>
        /\ orphans' = orphans \cup {d \in Range(items) : phase[d] \in Using}
    BY <1>8 DEF EndCancel, Destroy
  <2>2. \A d \in Range(items) : d \in Waits /\ In(d)
    BY <1>0 DEF In, Contains, Range, ListOK
  <2>3. QED
    BY <1>0, <2>1, <2>2 DEF LostOK, LostToOthers
<1>9. CASE UNCHANGED vars
  BY <1>0, <1>9, LostKeptBySame DEF vars, In
<1>10. QED
  BY <1>1, <1>2, <1>3, <1>4, <1>5, <1>6, <1>7, <1>8, <1>9 DEF Next, WaitStep, CheckStep

LEMMA InitRest == Init => Rest
<1> SUFFICES ASSUME Init
             PROVE  Rest
  OBVIOUS
<1>1. cancelling \in BOOLEAN
  BY Zenon DEF Init
<1>2. 0 \in 0..MaxChecks /\ 0 \in 0..MaxCancels
  BY BoundsAssumption
<1>3. /\ late = {} /\ notified = {} /\ event = NoEvent /\ checks = 0 /\ cancels = 0
      /\ answered = {} /\ orphans = {}
  BY DEF Init
<1>4. QED
  BY <1>1, <1>2, <1>3 DEF Rest

(* An answer in time reaches its thread whenever that runs again, unless   *)
(* another wait or a cancel destroys the item first, and those destroy     *)
(* under its thread only a complete one (awaited.h 106-116, 134-159).      *)
THEOREM OnlyOthersLoseAnswers == Spec => []AnswersAreLostToOthers
<1>1. Init => Rest /\ LostOK
  BY InitRest DEF Init, LostOK
<1>2. Inv /\ Rest /\ LostOK => AnswersAreLostToOthers
  BY SubsetsAssumption DEF Inv, Types, WaitOK, AnswerOK, LostOK, AnswersAreLostToOthers
<1>3. QED
  BY <1>1, <1>2, InvStep, InitInv, RestKept, LostStep, PTL DEF Spec

(* Type correctness: a check looks at the last items of a list that nobody *)
(* changes meanwhile, and cancel never runs together with it, for any      *)
(* number of waits.                                                        *)
THEOREM AwaitedTypes == Spec => []TypeOK
<1>1. Init => Rest /\ LastItems
  BY InitRest DEF Init, LastItems
<1>2. Inv /\ Rest /\ LastItems => TypeOK
  <2> SUFFICES ASSUME Inv, Rest, LastItems
               PROVE  TypeOK
    OBVIOUS
  <2>1. Types /\ ListOK
    BY DEF Inv
  <2>2. IsSuffix(todo, items)
    BY <2>1, LastItemsAreSuffix DEF ListOK
  <2>3. cancelling \in BOOLEAN
    BY DEF Rest
  <2>4. QED
    BY <2>1, <2>2, <2>3 DEF Types, ListOK, Rest, TypeOK
<1>3. QED
  BY <1>1, <1>2, LastItemsKept, RestKept, Invariant, PTL DEF Spec
=============================================================================
