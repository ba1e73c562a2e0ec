--------------------------- MODULE MCParallelReader ---------------------------
(* Small prefixes for ParallelReader: a file of many chunks, one of one,   *)
(* and an empty one.                                                       *)
EXTENDS ParallelReader

Sizes == [f \in File |-> CASE f = "big" -> 9 [] f = "small" -> 1 [] f = "empty" -> 0]

Prefixes == {<<>>, <<"empty">>, <<"big", "empty", "small">>, <<"small", "big">>}

OneFile == {<<"small">>}
=============================================================================
