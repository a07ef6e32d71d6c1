-------------------------- MODULE MCClientSession --------------------------
(* A queue of two and a ring of two; two connections of board and page. *)
EXTENDS ClientSession
=============================================================================
