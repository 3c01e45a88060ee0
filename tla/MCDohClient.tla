---------------------------- MODULE MCDohClient ----------------------------
(* A small instance of DohClient. *)
EXTENDS DohClient
=============================================================================
