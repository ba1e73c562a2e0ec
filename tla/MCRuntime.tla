------------------------------ MODULE MCRuntime ------------------------------
(* Small instances of Runtime for TLC.                                     *)
EXTENDS Runtime
=============================================================================
