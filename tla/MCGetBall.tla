----------------------------- MODULE MCGetBall -----------------------------
(* A small instance of GetBall.  The puts differ in length and in number   *)
(* of chunks, so that cut bytes, stale sizes and stale numbers of chunks   *)
(* occur.                                                                  *)
EXTENDS GetBall, TLC

CONSTANTS p2, p3, a, b, x

MCChunks == {0, 1}

(* Two puts of different lengths, that share nothing.                      *)
MixedContent == p2 :> (0 :> <<x>> @@ 1 :> <<b>>)
             @@ p3 :> (0 :> <<a>>)
MixedChunksOf == [p \in Puts |-> IF p = p3 THEN {0} ELSE {0, 1}]

(* An overwrite, with retries; two puts at once, every failure the last.   *)
MCSituations ==
  [operation : {"get", "get_chunks", "get_chunk"}, there : {p2}, max_retries : {2}]
    \cup [operation : {"get"}, there : {None}, max_retries : {1}]
=============================================================================
