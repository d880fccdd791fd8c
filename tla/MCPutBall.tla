------------------------------ MODULE MCPutBall ------------------------------
(***************************************************************************)
(* Small instances of PutBall.  The chunk sets of the puts differ, so that *)
(* one call overwrites or erases a part of what another has stored.        *)
(***************************************************************************)
EXTENDS PutBall, TLC

CONSTANTS p1, p2, d1

MCChunks == 0..1

(* A put of two chunks and a put of the empty value.                       *)
MixedChunksOf == [p \in Puts |-> IF p = p1 THEN MCChunks ELSE {}]
MixedOperation == [p \in Puts |-> "put"]

(* The put of a file of two chunks, and of its first chunk alone.          *)
PartsChunksOf == p1 :> MCChunks @@ p2 :> {0}
PartsOperation == p1 :> "put_file" @@ p2 :> "put_single_chunk"
=============================================================================
