---------------------------- MODULE MCGetToFile ----------------------------
(* Small instances of GetToFile.                                           *)
EXTENDS GetToFile, TLC

CONSTANTS p1, p2, d1, a, b, x

MCChunks == {0, 1, 2}

(* A ball of three chunks, at rest.                                        *)
RestContent == p1 :> (0 :> <<a, b>> @@ 1 :> <<b>> @@ 2 :> <<x>>)
RestChunksOf == p1 :> MCChunks
Rest == [operation : {"get_to_file"}, there : {p1}, max_retries : {2}]
=============================================================================
