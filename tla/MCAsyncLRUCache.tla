--------------------------- MODULE MCAsyncLRUCache ---------------------------
(* Two coroutines of one loop and one of another ask for the same key; two *)
(* more keys are set, and there is room for two.                           *)
EXTENDS AsyncLRUCache, TLC

CONSTANTS c1, c2, c3, main, submit, k1, k2, k3

LoopOfDef == (c1 :> main @@ c2 :> main @@ c3 :> submit)
KeyOfDef  == (c1 :> k1 @@ c2 :> k1 @@ c3 :> k1)
=============================================================================
