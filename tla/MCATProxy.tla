------------------------------- MODULE MCATProxy ------------------------------
(***************************************************************************)
(* A small instance of ATProxy for TLC: two calls and two handlers, and    *)
(* shared memory that two queries with results would not fit into.         *)
(***************************************************************************)
EXTENDS ATProxy

CONSTANTS c1, c2, h1, h2, good, bad
=============================================================================
