---------------------------- MODULE Segmentation ----------------------------
(***************************************************************************)
(* utils/segmentation.py: how a value of n elements is cut into chunks.    *)
(* _iter_to_chunks, behind from_bytes, from_list, from_ndarray and         *)
(* from_generator, works with a rational number of elements per chunk,     *)
(* num / den, and merges a short rest into the chunk before it;            *)
(* iter_to_chunks is its older form, where the rest is a chunk of its own; *)
(* from_file reads pieces of one size until there is nothing left.         *)
(*                                                                         *)
(* A chunk is the interval of elements it holds: <<from, to>>, to excluded. *)
(***************************************************************************)
EXTENDS Integers, Sequences

CONSTANTS Lengths,       \* lengths of values
          Sizes,         \* chunk sizes a caller gives
          Counts,        \* num_chunks a caller gives
          None,          \* no chunk size given
          MinFileChunk,  \* 1024 in from_file
          MaxCuts        \* bound on the number of chunks, for TLC

ASSUME SegmentationAssumption ==
  /\ Lengths \subseteq Nat /\ Sizes \subseteq Nat /\ Counts \subseteq Nat
  /\ None \notin Nat
  /\ MinFileChunk \in Nat \ {0} /\ MaxCuts \in Nat

Operations == {"from_bytes", "from_list", "iter_to_chunks", "from_file"}

Inputs == [op : Operations, n : Lengths, size : Sizes \cup {None}, count : Counts]

VARIABLES call,   \* the call: one of Inputs
          num,    \* data_per_chunk = num / den
          den,
          total,  \* total_chunked_elements
          cuts,   \* the chunks so far
          tag,    \* exact_num_chunks
          stage   \* "called", "cutting", "done" or "failed"

vars == <<call, num, den, total, cuts, tag, stage>>

Init == /\ call \in Inputs
        /\ num = 0 /\ den = 1 /\ total = 0 /\ tag = 0
        /\ cuts = <<>>
        /\ stage = "called"

(* data_per_chunk_int = int(data_per_chunk)                                *)
PerChunk == num \div den

(* math.ceil(n / data_per_chunk)                                           *)
Quotient(p, q) == (call.n * q + p - 1) \div p

(* (variant) from_list asks for as many chunks as the caller does.         *)
PartsUncapped == call.count

(* from_list and from_ndarray ask for no more chunks than there are        *)
(* elements.                                                               *)
Parts == IF call.op = "from_list" /\ call.n < call.count THEN call.n
         ELSE call.count

(* chunk_size.unwrap_or(n / num_chunks)                                    *)
AskedNum == IF call.size # None THEN call.size ELSE call.n
AskedDen == IF call.size # None THEN 1 ELSE Parts

(* A division by zero raises: chunks of nothing, no elements, or no parts, *)
(* by which n is divided even when a size is given.                        *)
Divides == Parts # 0 /\ AskedNum # 0 /\ call.n # 0

TooMuch == AskedNum > call.n * AskedDen

-----------------------------------------------------------------------------
Start(p, q) == /\ num' = p /\ den' = q
               /\ stage' = "cutting"
               /\ UNCHANGED <<call, total, cuts>>

Fail == /\ stage' = "failed"
        /\ UNCHANGED <<call, num, den, total, cuts, tag>>

(* _iter_to_chunks: more elements per chunk than there are elements are    *)
(* taken to be all of them.                                                *)
StartIter == LET p == IF TooMuch THEN call.n ELSE AskedNum
                 q == IF TooMuch THEN 1 ELSE AskedDen
             IN  /\ stage = "called" /\ call.op \in {"from_bytes", "from_list"}
                 /\ IF Divides THEN Start(p, q) /\ tag' = Quotient(p, q) ELSE Fail

(* iter_to_chunks asserts instead, divides by the parts only, and has      *)
(* nothing to yield of an empty value.                                     *)
StartOldIter == /\ stage = "called" /\ call.op = "iter_to_chunks"
                /\ IF Parts # 0 /\ ~ TooMuch
                   THEN Start(AskedNum, AskedDen) /\ UNCHANGED tag
                   ELSE Fail

(* from_file: no chunks of an empty file.                                  *)
StartFile ==
  LET even == IF call.count = 0 THEN 0 ELSE call.n \div call.count
      size == IF call.size # None THEN call.size
              ELSE IF even < MinFileChunk THEN MinFileChunk ELSE even
  IN  /\ stage = "called" /\ call.op = "from_file"
      /\ IF call.n = 0 \/ (call.size = None /\ call.count = 0) THEN Fail
         ELSE Start(size, 1) /\ UNCHANGED tag

Cutting == stage = "cutting" /\ Len(cuts) < MaxCuts

Rest == call.n - total

Ends(s, to) == [s EXCEPT ![Len(s)] = <<s[Len(s)][1], to>>]

(* (variant) A rest is cut off as long as it is not empty.                 *)
CutAnyRest ==
  /\ Cutting /\ call.op # "from_file" /\ total < call.n
  /\ total' = total + PerChunk
  /\ cuts' = Append(cuts, <<Len(cuts) * PerChunk, (Len(cuts) + 1) * PerChunk>>)
  /\ UNCHANGED <<call, num, den, tag, stage>>

(* iterable[i * data_per_chunk_int : (i + 1) * data_per_chunk_int]         *)
Cut == /\ Cutting /\ call.op # "from_file"
       /\ total < call.n /\ Rest * den >= num
       /\ total' = total + PerChunk
       /\ cuts' = Append(cuts, <<Len(cuts) * PerChunk, (Len(cuts) + 1) * PerChunk>>)
       /\ UNCHANGED <<call, num, den, tag, stage>>

(* (variant) The rest is merged whatever it is.                            *)
MergeAnyRest ==
  /\ Cutting /\ call.op \in {"from_bytes", "from_list"}
  /\ cuts # <<>> /\ total < call.n
  /\ total' = call.n
  /\ cuts' = Ends(cuts, call.n)
  /\ UNCHANGED <<call, num, den, tag, stage>>

(* (variant) The rest that is merged has one element less.                 *)
MergeRestShort ==
  /\ Cutting /\ call.op \in {"from_bytes", "from_list"}
  /\ total < call.n /\ Rest * den < num
  /\ total' = call.n
  /\ cuts' = Ends(cuts, call.n - 1)
  /\ UNCHANGED <<call, num, den, tag, stage>>

(* iterable[i * data_per_chunk_int :], added to chunks[-1]                 *)
MergeRest == /\ Cutting /\ call.op \in {"from_bytes", "from_list"}
             /\ total < call.n /\ Rest * den < num
             /\ total' = call.n
             /\ cuts' = Ends(cuts, call.n)
             /\ UNCHANGED <<call, num, den, tag, stage>>

YieldRest == /\ Cutting /\ call.op = "iter_to_chunks"
             /\ total < call.n /\ Rest * den < num
             /\ total' = call.n
             /\ cuts' = Append(cuts, <<Len(cuts) * PerChunk, call.n>>)
             /\ UNCHANGED <<call, num, den, tag, stage>>

(* (variant) A read of nothing does not end the file.                      *)
ReadOn == LET to == IF Rest < num THEN call.n ELSE total + num
          IN  /\ Cutting /\ call.op = "from_file" /\ total < call.n
              /\ total' = to
              /\ cuts' = Append(cuts, <<total, to>>)
              /\ UNCHANGED <<call, num, den, tag, stage>>

(* f.read(effective_chunk_size); a read of nothing ends the file.          *)
Read == LET to == IF Rest < num THEN call.n ELSE total + num
        IN  /\ Cutting /\ call.op = "from_file"
            /\ total < call.n /\ num > 0
            /\ total' = to
            /\ cuts' = Append(cuts, <<total, to>>)
            /\ UNCHANGED <<call, num, den, tag, stage>>

Finish == /\ stage = "cutting"
          /\ total >= call.n \/ (call.op = "from_file" /\ num = 0)
          /\ stage' = "done"
          /\ UNCHANGED <<call, num, den, total, cuts, tag>>

Next == \/ StartIter \/ StartOldIter \/ StartFile
        \/ Cut \/ MergeRest \/ YieldRest \/ Read \/ Finish

Spec == Init /\ [][Next]_vars

(* The loops run on their own.                                             *)
FairSpec == Spec /\ WF_vars(Next)

-----------------------------------------------------------------------------
TypeOK == /\ call \in Inputs
          /\ num \in Nat /\ den \in Nat \ {0}
          /\ total \in 0..call.n
          /\ tag \in Nat
          /\ cuts \in Seq(Nat \X Nat)
          /\ stage \in {"called", "cutting", "done", "failed"}

(***************************************************************************)
(* The chunks are the value: side by side, in the order of their indices,  *)
(* from the first element to as far as the loop counts itself to have      *)
(* come, which in the end is the last.  (A file read in pieces of no bytes *)
(* ends before it begins, see README.)                                     *)
(***************************************************************************)
Tiles == /\ cuts = <<>> => total = 0
         /\ cuts # <<>> => cuts[1][1] = 0 /\ cuts[Len(cuts)][2] = total
         /\ \A j \in 1..(Len(cuts) - 1) : cuts[j][2] = cuts[j + 1][1]
         /\ stage = "done" => total = call.n \/ (call.op = "from_file" /\ call.size = 0)

(***************************************************************************)
(* No chunk is empty, and none but the last is longer than asked for; the  *)
(* last, with a rest merged into it, is less than twice as long.           *)
(***************************************************************************)
Length(j) == cuts[j][2] - cuts[j][1]

SizesAsAsked ==
  stage = "done" => \A j \in 1..Len(cuts) :
    /\ Length(j) > 0
    /\ j < Len(cuts) => Length(j) * den <= num
    /\ Length(j) * den < 2 * num

(***************************************************************************)
(* Cutting comes to an end, except when from_bytes or iter_to_chunks is    *)
(* asked for more chunks than there are elements, or iter_to_chunks for    *)
(* chunks of nothing: the loop then takes nothing, for ever.  (put,        *)
(* put_file and put_chunks always give a size.)                            *)
(***************************************************************************)
Endless ==
  /\ call.op \in {"from_bytes", "iter_to_chunks"}
  /\ \/ call.size = None /\ call.count > call.n
     \/ call.op = "iter_to_chunks" /\ call.size = 0 /\ call.n > 0

(* Every step brings the end nearer, a round of a loop by at least one     *)
(* element: of n elements there are at most n rounds.                      *)
(***************************************************************************)
ToGo == CASE stage = "called" -> call.n + 2
          [] stage = "cutting" -> Rest + 1
          [] OTHER -> 0

NearsEnd == [][Endless \/ ToGo' < ToGo]_vars

(* So it is reached, as long as the loop goes on.                          *)
Terminates == ~ Endless ~> stage \in {"done", "failed"}

(***************************************************************************)
(* What the name exact_num_chunks (utils/segmentation.py:142) says of the  *)
(* number that goes into the metadata of every chunk: it is the number of  *)
(* chunks.  put_single_chunk stores it, and get fetches that many.         *)
(***************************************************************************)
NumChunksIsExact ==
  stage = "done" /\ call.op \in {"from_bytes", "from_list"} => Len(cuts) = tag
=============================================================================
