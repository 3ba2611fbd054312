----------------------------- MODULE MCArchive ------------------------------
(* Three writes of listings that share two orders: two give them in        *)
(* opposite order, one of which has two versions of an order, and one has  *)
(* the same order twice.                                                   *)
EXTENDS Archive

MCOrdersOf ==
  [c \in Contents |->
     CASE c = "a" -> <<<<1, "x">>, <<2, "x">>>>
       [] c = "b" -> <<<<2, "x">>, <<1, "x">>, <<1, "y">>>>
       [] c = "c" -> <<<<1, "x">>, <<1, "x">>>>]

\* Two responses that name the same ids differently, in opposite order, and
\* one that names an id twice.
MCNamesOf ==
  [c \in Contents |->
     CASE c = "a" -> <<<<1, "x">>, <<2, "x">>>>
       [] c = "b" -> <<<<2, "y">>, <<1, "y">>>>
       [] c = "c" -> <<<<1, "x">>, <<1, "y">>>>]

\* A merged listing in which an order moved to the next page while the pages
\* were read.
MCOrdersMoved == [c \in Contents |-> <<<<1, "x">>, <<2, "x">>, <<1, "x">>>>]
=============================================================================
