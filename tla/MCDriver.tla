------------------------------- MODULE MCDriver -------------------------------
(* Driver for TLC. *)
EXTENDS Driver
===============================================================================
