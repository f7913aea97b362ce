----------------------------- MODULE MCUsageLedger -----------------------------
(* Instances of UsageLedger for TLC. *)
EXTENDS UsageLedger

CONSTANTS c1, c2, c3
===============================================================================
