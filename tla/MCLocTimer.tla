----------------------------- MODULE MCLocTimer -----------------------------
(* The timer service for TLC. *)
EXTENDS LocTimer
=============================================================================
