-------------------------------- MODULE MCIpc --------------------------------
(***************************************************************************)
(* A small instance of Ipc: a content smaller than a chunk, and a larger   *)
(* one whose last chunk is a short one.                                    *)
(***************************************************************************)
EXTENDS Ipc

CONSTANTS short, long, k1

MCCells == short :> <<"s1">> @@ long :> <<"l1", "l2", "l3">>

MCOnDisk == [k \in Names |-> IF k = k1 THEN Cells[short] ELSE None]
=============================================================================
