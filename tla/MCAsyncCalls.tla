----------------------------- MODULE MCAsyncCalls -----------------------------
(* Small instances of AsyncCalls: a call of any coroutine next to one of     *)
(* get_message, with which it shares the event loop.                         *)
EXTENDS AsyncCalls

CONSTANTS c1, c2

Beside == [c \in Calls |-> IF c = c1 THEN Queries \cup Reads \cup Waits
                           ELSE {Coroutine("whole", FALSE, FALSE)}]
Early == [c \in Calls |-> {k \in Queries : k.early}]
Partials == [c \in Calls |-> {k \in Queries : k.form = "partial"}]
=============================================================================
