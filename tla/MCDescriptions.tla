---------------------------- MODULE MCDescriptions ----------------------------
(* A small instance of Descriptions: a node on each of two targets, one     *)
(* described by one variable, one by a variable and an event.              *)
EXTENDS Descriptions

MCKinds == {"variable", "event"}
MCShape ==
  [p \in Node |->
     [k \in Kinds |-> IF p[1] = 1 /\ k = "event" THEN 0 ELSE 1]]
MCOld == {<<2, 0>>}
=============================================================================
