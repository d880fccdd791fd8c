----------------------------- MODULE MCBuckets -----------------------------
(* Instances of Buckets: a first put or upload, another writer, and one    *)
(* more call, of names that sanitize_str makes equal or leaves apart.      *)
EXTENDS Buckets, TLC

CONSTANTS call1, call2, call3

(* Every name of up to three characters of each sort.                      *)
Strings == UNION {[1..n -> {"a", "-", "_", "."}] : n \in 0..3}

(* What the lemmas of BucketsProofs say of sanitize_str, for all of them.  *)
ASSUME SanitizeMakesNames ==
  \A n \in Strings :
    LET clean == Sanitize(n)
    IN  /\ clean = NoName \/ WellFormed(clean)
        /\ Sanitize(clean) = clean
        /\ \A m \in Strings :
             Sanitize(ChunkKey(n, "0")) = ChunkKey(m, "0") => m = clean

(* Every chunk of a listing is in exactly one segment of group_chunks.     *)
ASSUME SegmentsShareOut ==
  \A n \in 0..17 : \A j \in 1..n :
    Cardinality({i \in 1..Threads : j \in Segment(n, i)}) = 1

Op(kinds, balls, sets) == [kind : kinds, bucket : {<<"b">>}, ball : balls, indices : sets]

a == <<"a">>
aDot == <<"a", ".">>
other == <<"c">>

MCNames == {a, aDot, other, <<"b">>, <<"b", ".">>}
Dirty(ops) == {[o EXCEPT !.bucket = <<"b", ".">>] : o \in ops}
One == {{"0"}}
Two == {{"0", "1"}}

Program(first, second, third) ==
  {(call1 :> p[1]) @@ (call2 :> p[2]) @@ (call3 :> p[3]) :
     p \in first \X second \X third}

(* Two writers of names that become one and an eraser or a query; a ball   *)
(* that stands apart from them; and a ball of two chunks.                  *)
MCPrograms ==
  Program(Op({"put"}, {a}, One),
          Op(Writers, {aDot}, One),
          Op(Erasers \cup Queries, {a}, One))
  \cup Program(Op({"put"}, {other}, One),
               Dirty(Op({"put"}, {aDot}, One)),
               Op({"delete", "get_bucket_metadata", "get_chunks_by_bucket_id"}, {a}, One)
                 \cup Dirty(Op({"delete_bucket", "get_chunks_by_bucket_id"}, {a}, One)))
  \cup Program(Op({"put"}, {a}, Two),
               Op({"delete"}, {a, aDot}, Two),
               Op(Queries, {a}, Two))
=============================================================================
