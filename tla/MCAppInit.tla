------------------------------- MODULE MCAppInit -------------------------------
(* Instances of AppInit: two cards, of five and of three threads.          *)
EXTENDS AppInit

Cards == [p \in 0..1 |-> [lower |-> 1, count |-> IF p = 0 THEN 5 ELSE 3]]
=============================================================================
