------------------------------ MODULE MCRunWatch ------------------------------
(* Two attempts with logs of two lines, two retries, two calls.            *)
EXTENDS RunWatch, TLC
=============================================================================
