---------------------------- MODULE MCESIClient -----------------------------
(* Two fetches of an endpoint that has three pages, then two.              *)
EXTENDS ESIClient

MCPageCount == [v \in Versions |-> IF v = "three" THEN 3 ELSE 2]
=============================================================================
