-------------------------- MODULE MCPassthroughStream --------------------------
(* Instances of PassthroughStream for TLC. *)
EXTENDS PassthroughStream
===============================================================================
