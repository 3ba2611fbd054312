----------------------------- MODULE MCCoalesce -----------------------------
(* Four calls over two keys: a leader with two waiters beside another      *)
(* execution, and a key that is led again after its leader ended.          *)
EXTENDS Coalesce
=============================================================================
