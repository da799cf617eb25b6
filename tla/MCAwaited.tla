------------------------------ MODULE MCAwaited ------------------------------
(* Small instances of Awaited: two waits and two events.                     *)
EXTENDS Awaited

CONSTANTS w1, w2, e1, e2

(* Remaining selects what SelectSeq does. *)
ASSUME RemainingAssumption ==
  \A list \in BoundedSeq(Waits, 4), kept \in SUBSET Waits :
    Remaining(list, kept) = SelectSeq(list, LAMBDA i : i \in kept)

(* The first wait matches both events, the second only the second. *)
WantSome == [w \in Waits |-> IF w = w1 THEN Events ELSE {e2}]
WantAll == [w \in Waits |-> Events]

(* The first needs both of them, where a wait needs more than one event. *)
NeedSome == [w \in Waits |-> IF w = w1 THEN 2 ELSE 1]
NeedOne == [w \in Waits |-> 1]

(* For single events both have a timeout; of two waits for nodes one has a *)
(* timeout and the other a callback; for variables the second has neither. *)
TimedSome == [k \in Kinds |-> IF k = "single" THEN Waits ELSE {w1}]
CalledSome == [k \in Kinds |-> IF k = "nodes" THEN {w2} ELSE {w1}]
TimedAll == [k \in Kinds |-> Waits]
=============================================================================
