------------------------------ MODULE MCNodeCache ------------------------------
(* Small instances of NodeCache: a variable the node measures and a variable *)
(* the program sets, as motor speeds and targets or leds of a Thymio.        *)
EXTENDS NodeCache

(* One thread performs all the operations. *)
Sequential == [t \in Threads |-> IF t = "user" THEN Operations ELSE {}]

(* Without what makes entries unsure, *)
Cautious == [Sequential EXCEPT !["user"] = @ \ {"now", "modify"}]

(* or with one of those. *)
Immediate == [Sequential EXCEPT !["user"] = @ \ {"modify"}]
Modifying == [Sequential EXCEPT !["user"] = @ \ {"now"}]

(* The callback of a controller sets and syncs, and the program only loads *)
(* scripts; or it sets as well.                                            *)
Controlling ==
  [t \in Threads |-> IF t = "user" THEN {"reload"} ELSE {"cache", "sync"}]
Concurrent ==
  [t \in Threads |-> IF t = "user" THEN {"cache"} ELSE {"cache", "sync"}]
=============================================================================
