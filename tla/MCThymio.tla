-------------------------------- MODULE MCThymio --------------------------------
(* A small Thymio: messages, a sensor with two cells, and an accelerometer of *)
(* which averages are mirrored.                                               *)
EXTENDS Thymio

Spec1(vs, counts, external, size) ==
  [variables |-> vs, use_counter |-> counts, external_counter |-> external, window |-> size]

Small == <<[name |-> "acc", size |-> 1], [name |-> "horizontal", size |-> 2],
           [name |-> "rx", size |-> 1]>>

Sounds == [f \in {"sound.freq"} |-> <<1, 2>>]

ThymioConfig(proxWindow, accWindow) ==
  [e \in {"prox", "prox.comm", "acc"} |->
    CASE e = "prox" -> Spec1(<<"horizontal">>, TRUE, "", proxWindow)
      [] e = "prox.comm" -> Spec1(<<"rx", "acc">>, TRUE, "prox", 1)
      [] OTHER -> Spec1(<<"acc">>, FALSE, "", accWindow)]

Default == ThymioConfig(1, 2)
Averaged == ThymioConfig(1, 3)
ProxOff == ThymioConfig(0, 1)
ProxAveraged == ThymioConfig(2, 1)
=============================================================================
