----------------------------- MODULE MCSyncBridge -----------------------------
(* Every program of four calls.                                            *)
EXTENDS SyncBridge, TLC

CallersDef == {f \in [1..N -> 0..(N - 1)] : \A n \in 1..N : f[n] < n}
=============================================================================
