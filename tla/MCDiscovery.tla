----------------------------- MODULE MCDiscovery -----------------------------
(* Small instances of Discovery: one device on each target.                  *)
EXTENDS Discovery

MCKinds == {"variable", "event"}
MCKindOrder == <<"variable", "event">>

(* Two variables on target 1, a variable and an event on the others. *)
MCShape ==
  [p \in Node |-> [k \in Kinds |-> IF p[1] # 1 THEN 1
                                   ELSE IF k = "variable" THEN 2 ELSE 0]]
MCDevices == Node
=============================================================================
