---------------------------- MODULE MCResponsesRelay ---------------------------
(* Instances of ResponsesRelay for TLC. *)
EXTENDS ResponsesRelay
===============================================================================
