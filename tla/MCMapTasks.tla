------------------------------ MODULE MCMapTasks ------------------------------
(* Up to four argument tuples, functions of up to three parameters.             *)
EXTENDS MapTasks, TLC
=============================================================================
