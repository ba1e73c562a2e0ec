----------------------------- MODULE MCController -----------------------------
(* Small instances of Controller for TLC.                                  *)
EXTENDS Controller, TLC

(* Workers are interchangeable: safety runs only.                          *)
WorkerSymmetry == Permutations(Worker)
=============================================================================
