-------------------------- MODULE SegmentationProofs --------------------------
(***************************************************************************)
(* The chunks tile the value, whatever its length, the size or number of   *)
(* chunks asked for, and the operation.                                    *)
(***************************************************************************)
EXTENDS Segmentation, TLAPS, SequenceTheorems

LEMMA InputTypes ==
  ASSUME call \in Inputs
  PROVE  /\ call.op \in Operations /\ call.n \in Nat /\ call.count \in Nat
         /\ call.size \in Nat \cup {None}
BY SegmentationAssumption DEF Inputs

(* A round with at least num / den elements left takes no more than that.  *)
LEMMA QuotientBounded ==
  ASSUME NEW a \in Nat, NEW b \in Nat \ {0}, NEW r \in Nat, r * b >= a
  PROVE  a \div b \in 0..r
<1>1. a \div b \in Nat /\ (a \div b) * b <= a
  BY SMT
<1>2. CASE a \div b > r
  <2>1. (a \div b) * b >= (r + 1) * b
    BY <1>1, <1>2
  <2>2. (r + 1) * b = r * b + b
    OBVIOUS
  <2> QED
    BY <1>1, <2>1, <2>2
<1> QED
  BY <1>1, <1>2

-----------------------------------------------------------------------------
(* Chunks side by side from the first element to element t, excluded.      *)

Chain(s, t) == /\ s = <<>> => t = 0
               /\ s # <<>> => s[1][1] = 0 /\ s[Len(s)][2] = t
               /\ \A j \in 1..(Len(s) - 1) : s[j][2] = s[j + 1][1]

LEMMA ChainAppend ==
  ASSUME NEW s \in Seq(Nat \X Nat), NEW t \in Nat, NEW u \in Nat, Chain(s, t)
  PROVE  /\ Append(s, <<t, u>>) \in Seq(Nat \X Nat)
         /\ Chain(Append(s, <<t, u>>), u)
<1> DEFINE z == Append(s, <<t, u>>)
<1>1. /\ z \in Seq(Nat \X Nat) /\ Len(z) = Len(s) + 1
      /\ z[Len(z)] = <<t, u>>
      /\ \A j \in 1..Len(s) : z[j] = s[j]
  OBVIOUS
<1>2. z # <<>>
  <2>1. Len(z) # 0
    BY <1>1
  <2> QED
    BY <2>1, EmptySeq
<1>3. z[1][1] = 0
  <2>1. CASE s = <<>>
    BY <1>1, <2>1, EmptySeq DEF Chain
  <2>2. CASE s # <<>>
    BY <1>1, <2>2 DEF Chain
  <2> QED
    BY <2>1, <2>2
<1>4. ASSUME NEW j \in 1..(Len(z) - 1)
      PROVE  z[j][2] = z[j + 1][1]
  <2>1. CASE j = Len(s)
    BY <1>1, <2>1 DEF Chain
  <2>2. CASE j # Len(s)
    <3>0. Len(s) \in Nat /\ Len(z) = Len(s) + 1
      BY <1>1
    <3>1. j \in 1..(Len(s) - 1) /\ j \in 1..Len(s) /\ j + 1 \in 1..Len(s)
      BY <3>0, <2>2
    <3>2. z[j] = s[j] /\ z[j + 1] = s[j + 1] /\ s[j][2] = s[j + 1][1]
      BY <1>1, <3>1 DEF Chain
    <3> QED
      BY <3>2
  <2> QED
    BY <2>1, <2>2
<1> QED
  BY <1>1, <1>2, <1>3, <1>4 DEF Chain

LEMMA ChainEnds ==
  ASSUME NEW s \in Seq(Nat \X Nat), NEW t \in Nat, NEW u \in Nat, Chain(s, t),
         s # <<>>
  PROVE  /\ Ends(s, u) \in Seq(Nat \X Nat)
         /\ Chain(Ends(s, u), u)
         /\ Len(Ends(s, u)) = Len(s)
         /\ \A j \in 1..Len(s) :
              Ends(s, u)[j] = IF j = Len(s) THEN <<s[Len(s)][1], u>> ELSE s[j]
<1> DEFINE z == Ends(s, u)
<1> DEFINE e == <<s[Len(s)][1], u>>
<1>0. /\ Len(s) \in Nat \ {0}
      /\ \A j \in 1..Len(s) : s[j] \in Nat \X Nat
  BY EmptySeq, ElementOfSeq
<1>1. /\ z \in Seq(Nat \X Nat) /\ Len(z) = Len(s)
      /\ \A j \in 1..Len(s) : z[j] = IF j = Len(s) THEN e ELSE s[j]
  <2>1. e \in Nat \X Nat /\ Len(s) \in 1..Len(s)
    BY <1>0
  <2>2. z = [s EXCEPT ![Len(s)] = e]
    BY DEF Ends
  <2> HIDE DEF e, z
  <2> QED
    BY <2>1, <2>2, ExceptSeq
<1>2. z # <<>>
  <2>1. Len(z) # 0
    BY <1>0, <1>1
  <2> QED
    BY <2>1, EmptySeq
<1>3. e[1] = s[Len(s)][1] /\ e[2] = u
  OBVIOUS
<1>4. Chain(z, u)
  <2> HIDE DEF z, e
  <2>1. \A j \in 1..Len(s) : z[j][1] = s[j][1]
    BY <1>0, <1>1, <1>3
  <2>2. z[1][1] = 0
    BY <1>0, <2>1 DEF Chain
  <2>3. z[Len(z)][2] = u
    BY <1>0, <1>1, <1>3
  <2>4. ASSUME NEW j \in 1..(Len(z) - 1)
        PROVE  z[j][2] = z[j + 1][1]
    <3>0. Len(z) = Len(s) /\ Len(s) \in Nat
      BY <1>0, <1>1
    <3>1. j \in 1..Len(s) /\ j # Len(s) /\ j + 1 \in 1..Len(s)
      BY <3>0
    <3>2. z[j] = s[j] /\ s[j][2] = s[j + 1][1]
      BY <1>0, <1>1, <3>1 DEF Chain
    <3> QED
      BY <2>1, <3>1, <3>2
  <2> QED
    BY <1>2, <2>2, <2>3, <2>4 DEF Chain
<1> QED
  BY <1>1, <1>4
-----------------------------------------------------------------------------
(* Besides the types and the chain: the elements taken are so many whole   *)
(* chunks until a rest is merged or yielded; no more is asked for per      *)
(* chunk than there is, so that there is a chunk to merge     *)
(* into; and a file is read in pieces of nothing only when asked to.       *)

Whole == stage = "cutting" /\ call.op # "from_file" /\ total < call.n
           => total = Len(cuts) * PerChunk

Enough == stage = "cutting" /\ call.op # "from_file" => call.n * den >= num

FileInv == stage = "cutting" /\ call.op = "from_file" /\ num = 0 => call.size = 0

Fresh == stage = "called" => cuts = <<>> /\ total = 0

CutInv == TypeOK /\ Tiles /\ Whole /\ Enough /\ FileInv /\ Fresh

LEMMA TilesIsChain ==
  Tiles <=> /\ Chain(cuts, total)
            /\ stage = "done" => total = call.n
                                 \/ (call.op = "from_file" /\ call.size = 0)
BY DEF Tiles, Chain

LEMMA StartKeeps ==
  ASSUME CutInv, stage = "called",
         NEW p \in Nat, NEW q \in Nat \ {0}, Start(p, q), tag' \in Nat,
         call.op # "from_file" => call.n * q >= p,
         call.op = "from_file" /\ p = 0 => call.size = 0
  PROVE  CutInv'
<1>1. /\ num' = p /\ den' = q /\ stage' = "cutting"
      /\ call' = call /\ total' = total /\ cuts' = cuts
  BY DEF Start
<1>2. cuts = <<>> /\ total = 0 /\ Len(cuts) = 0
  BY EmptySeq DEF CutInv, Fresh
<1>3. TypeOK'
  BY <1>1 DEF CutInv, TypeOK
<1>4. Tiles'
  BY <1>1, <1>2 DEF CutInv, Tiles
<1>5. Whole'
  <2>1. p \div q \in Int
    BY SMT
  <2> QED
    BY <1>1, <1>2, <2>1 DEF Whole, PerChunk
<1> QED
  BY <1>1, <1>3, <1>4, <1>5 DEF CutInv, Enough, FileInv, Fresh

LEMMA FailKeeps ==
  ASSUME CutInv, stage = "called", Fail
  PROVE  CutInv'
BY DEF CutInv, Fail, TypeOK, Tiles, Whole, Enough, FileInv, Fresh

(* Taking the next elements, or the rest: what Cut, YieldRest and Read     *)
(* have in common.                                                         *)
LEMMA TakeKeeps ==
  ASSUME CutInv, stage = "cutting", NEW to \in Nat, to <= call.n,
         cuts' = Append(cuts, <<total, to>>), total' = to,
         UNCHANGED <<call, num, den, tag, stage>>,
         call.op # "from_file" /\ to < call.n => to = (Len(cuts) + 1) * PerChunk
  PROVE  CutInv'
<1>1. cuts \in Seq(Nat \X Nat) /\ total \in Nat /\ Chain(cuts, total)
  BY InputTypes, TilesIsChain DEF CutInv, TypeOK
<1>2. cuts' \in Seq(Nat \X Nat) /\ Chain(cuts', total') /\ Len(cuts') = Len(cuts) + 1
  BY <1>1, ChainAppend
<1>3. TypeOK'
  BY <1>2, InputTypes DEF CutInv, TypeOK
<1>4. Tiles'
  BY <1>2 DEF Tiles, Chain
<1>5. Whole'
  BY <1>2 DEF Whole, PerChunk
<1> QED
  BY <1>3, <1>4, <1>5 DEF CutInv, Enough, FileInv, Fresh

LEMMA CutKeeps ==
  ASSUME CutInv, Cut
  PROVE  /\ CutInv'
         /\ cuts' = Append(cuts, <<total, total + PerChunk>>)
<1>1. /\ total \in Nat /\ call.n \in Nat /\ num \in Nat /\ den \in Nat \ {0}
      /\ total < call.n /\ Rest * den >= num /\ stage = "cutting"
      /\ cuts \in Seq(Nat \X Nat)
  BY InputTypes DEF CutInv, TypeOK, Cut, Cutting
<1>2. Rest \in Nat
  BY <1>1 DEF Rest
<1>3. PerChunk \in 0..Rest
  BY <1>1, <1>2, QuotientBounded DEF PerChunk
<1>4. total + PerChunk \in Nat /\ total + PerChunk <= call.n
  BY <1>1, <1>3 DEF Rest
<1>5. total = Len(cuts) * PerChunk
  BY <1>1 DEF CutInv, Whole, Cut
<1>6. (Len(cuts) + 1) * PerChunk = total + PerChunk
  <2>1. Len(cuts) \in Nat /\ PerChunk \in Nat
    BY <1>1, <1>3
  <2> QED
    BY <2>1, <1>5
<1>7. cuts' = Append(cuts, <<total, total + PerChunk>>)
  BY <1>5, <1>6 DEF Cut
<1> QED
  BY <1>1, <1>4, <1>6, <1>7, TakeKeeps DEF Cut

LEMMA YieldRestKeeps ==
  ASSUME CutInv, YieldRest
  PROVE  /\ CutInv'
         /\ cuts' = Append(cuts, <<total, call.n>>)
<1>1. call.n \in Nat /\ stage = "cutting" /\ total = Len(cuts) * PerChunk
  BY InputTypes DEF CutInv, TypeOK, Whole, YieldRest, Cutting
<1>2. cuts' = Append(cuts, <<total, call.n>>) /\ total' = call.n
  BY <1>1 DEF YieldRest
<1> QED
  BY <1>1, <1>2, TakeKeeps DEF YieldRest

LEMMA ReadKeeps ==
  ASSUME CutInv, Read
  PROVE  CutInv'
<1> DEFINE to == IF Rest < num THEN call.n ELSE total + num
<1>1. /\ total \in Nat /\ call.n \in Nat /\ num \in Nat
      /\ stage = "cutting" /\ total < call.n
  BY InputTypes DEF CutInv, TypeOK, Read, Cutting
<1>2. to \in Nat /\ to <= call.n
  BY <1>1 DEF Rest
<1>3. cuts' = Append(cuts, <<total, to>>) /\ total' = to
  BY DEF Read
<1> HIDE DEF to
<1> QED
  BY <1>1, <1>2, <1>3, TakeKeeps DEF Read

LEMMA MergeRestKeeps ==
  ASSUME CutInv, MergeRest
  PROVE  CutInv' /\ cuts # <<>>
<1>1. /\ total \in Nat /\ call.n \in Nat /\ num \in Nat /\ den \in Nat \ {0}
      /\ total < call.n /\ stage = "cutting"
      /\ call.op \in {"from_bytes", "from_list"}
      /\ cuts \in Seq(Nat \X Nat) /\ Chain(cuts, total)
  BY InputTypes, TilesIsChain DEF CutInv, TypeOK, MergeRest, Cutting
<1>2. Rest * den < num /\ call.n * den >= num
  BY <1>1 DEF CutInv, Enough, MergeRest
<1>3. cuts # <<>>
  BY <1>1, <1>2 DEF Chain, Rest
<1>4. cuts' = Ends(cuts, call.n) /\ total' = call.n
      /\ UNCHANGED <<call, num, den, tag, stage>>
  BY DEF MergeRest
<1>5. cuts' \in Seq(Nat \X Nat) /\ Chain(cuts', call.n)
  BY <1>1, <1>3, <1>4, ChainEnds
<1>6. TypeOK'
  BY <1>1, <1>4, <1>5 DEF CutInv, TypeOK
<1>7. Tiles'
  BY <1>4, <1>5 DEF Tiles, Chain
<1> QED
  BY <1>1, <1>3, <1>4, <1>6, <1>7 DEF CutInv, Whole, Enough, FileInv, Fresh

LEMMA FinishKeeps ==
  ASSUME CutInv, Finish
  PROVE  CutInv'
<1>1. total \in 0..call.n /\ call.n \in Nat
  BY InputTypes DEF CutInv, TypeOK
<1>2. total = call.n \/ (call.op = "from_file" /\ call.size = 0)
  BY <1>1 DEF Finish, CutInv, FileInv
<1> QED
  BY <1>2 DEF CutInv, Finish, TypeOK, Tiles, Whole, Enough, FileInv, Fresh

LEMMA AskedTypes ==
  ASSUME call \in Inputs
  PROVE  Parts \in Nat /\ AskedNum \in Nat /\ AskedDen \in Nat
BY InputTypes DEF Parts, AskedNum, AskedDen

LEMMA StartIterKeeps ==
  ASSUME CutInv, StartIter
  PROVE  CutInv'
<1> DEFINE p == IF TooMuch THEN call.n ELSE AskedNum
           q == IF TooMuch THEN 1 ELSE AskedDen
<1>0. /\ stage = "called" /\ call.op # "from_file"
      /\ call.n \in Nat /\ AskedNum \in Nat /\ AskedDen \in Nat
  BY InputTypes, AskedTypes DEF CutInv, TypeOK, StartIter
<1>1. CASE Divides
  <2>1. Start(p, q) /\ tag' = Quotient(p, q)
    BY <1>1 DEF StartIter
  <2>2. p \in Nat \ {0} /\ q \in Nat \ {0} /\ call.n * q >= p
    <3>1. call.n # 0 /\ AskedNum # 0 /\ AskedDen # 0
      BY <1>1 DEF Divides, AskedDen
    <3>2. CASE TooMuch
      BY <1>0, <3>1, <3>2
    <3>3. CASE ~ TooMuch
      BY <1>0, <3>1, <3>3 DEF TooMuch
    <3> QED
      BY <3>2, <3>3
  <2> HIDE DEF p, q
  <2>3. call.n * q + p - 1 \in Nat
    BY <1>0, <2>2
  <2>4. tag' \in Nat
    BY <2>1, <2>2, <2>3 DEF Quotient
  <2> QED
    BY <1>0, <2>1, <2>2, <2>4, StartKeeps
<1>2. CASE ~ Divides
  BY <1>0, <1>2, FailKeeps DEF StartIter
<1> QED
  BY <1>1, <1>2

LEMMA StartOldIterKeeps ==
  ASSUME CutInv, StartOldIter
  PROVE  CutInv'
<1>0. /\ stage = "called" /\ call.op = "iter_to_chunks"
      /\ AskedNum \in Nat /\ AskedDen \in Nat /\ tag \in Nat
  BY AskedTypes DEF CutInv, TypeOK, StartOldIter
<1>1. CASE Parts # 0 /\ ~ TooMuch
  <2>1. Start(AskedNum, AskedDen) /\ tag' = tag
    BY <1>1 DEF StartOldIter
  <2>2. AskedDen # 0 /\ call.n * AskedDen >= AskedNum
    BY <1>0, <1>1, InputTypes DEF AskedDen, TooMuch, CutInv, TypeOK
  <2> QED
    BY <1>0, <2>1, <2>2, StartKeeps
<1>2. CASE ~ (Parts # 0 /\ ~ TooMuch)
  BY <1>0, <1>2, FailKeeps DEF StartOldIter
<1> QED
  BY <1>1, <1>2

LEMMA StartFileKeeps ==
  ASSUME CutInv, StartFile
  PROVE  CutInv'
<1> DEFINE even == IF call.count = 0 THEN 0 ELSE call.n \div call.count
           size == IF call.size # None THEN call.size
                   ELSE IF even < MinFileChunk THEN MinFileChunk ELSE even
<1>0. /\ stage = "called" /\ call.op = "from_file" /\ tag \in Nat
      /\ call.n \in Nat /\ call.count \in Nat /\ call.size \in Nat \cup {None}
  BY InputTypes DEF CutInv, TypeOK, StartFile
<1>1. CASE call.n = 0 \/ (call.size = None /\ call.count = 0)
  BY <1>0, <1>1, FailKeeps DEF StartFile
<1>2. CASE ~ (call.n = 0 \/ (call.size = None /\ call.count = 0))
  <2>1. even \in Nat
    BY <1>0
  <2>2. size \in Nat /\ (size = 0 => call.size = 0)
    BY <1>0, <2>1, SegmentationAssumption
  <2>3. Start(size, 1) /\ tag' = tag
    BY <1>2 DEF StartFile
  <2> HIDE DEF size
  <2> QED
    BY <1>0, <2>2, <2>3, StartKeeps
<1> QED
  BY <1>1, <1>2

LEMMA CutInvariant == Spec => []CutInv
<1>1. ASSUME Init
      PROVE  CutInv
  <2>1. /\ call \in Inputs /\ call.n \in Nat /\ stage = "called"
        /\ num = 0 /\ den = 1 /\ total = 0 /\ tag = 0 /\ cuts = <<>>
    BY <1>1, InputTypes DEF Init
  <2>2. cuts \in Seq(Nat \X Nat) /\ Len(cuts) = 0
    BY <2>1, EmptySeq
  <2>3. TypeOK
    BY <2>1, <2>2 DEF TypeOK
  <2>4. Tiles
    BY <2>1, <2>2 DEF Tiles
  <2> QED
    BY <2>1, <2>3, <2>4 DEF CutInv, Whole, Enough, FileInv, Fresh
<1>2. CutInv /\ [Next]_vars => CutInv'
  <2> SUFFICES ASSUME CutInv, [Next]_vars
               PROVE  CutInv'
    OBVIOUS
  <2>1. CASE StartIter \/ StartOldIter \/ StartFile
    BY <2>1, StartIterKeeps, StartOldIterKeeps, StartFileKeeps
  <2>2. CASE Cut \/ MergeRest \/ YieldRest \/ Read \/ Finish
    BY <2>2, CutKeeps, MergeRestKeeps, YieldRestKeeps, ReadKeeps, FinishKeeps
  <2>3. CASE UNCHANGED vars
    BY <2>3 DEF vars, CutInv, TypeOK, Tiles, Whole, Enough, FileInv, Fresh, PerChunk
  <2> QED
    BY <2>1, <2>2, <2>3 DEF Next
<1> QED
  BY <1>1, <1>2, PTL DEF Spec

(* The types: in particular no loop takes more elements than there are.    *)
THEOREM TypeCorrect == Spec => []TypeOK
<1>1. CutInv => TypeOK
  BY DEF CutInv
<1> QED
  BY <1>1, CutInvariant, PTL

(* The chunks are the value: every operation of the segmentation cuts it   *)
(* into intervals side by side, from its first element to its last.        *)
THEOREM TilesAlways == Spec => []Tiles
<1>1. CutInv => Tiles
  BY DEF CutInv
<1> QED
  BY <1>1, CutInvariant, PTL

-----------------------------------------------------------------------------
(* The sizes: chunks have PerChunk elements each while the loop runs; the  *)
(* last one may end up with more or fewer.                                 *)

Unit == call.op = "from_file" /\ stage \in {"cutting", "done"} => den = 1

Sized == stage \in {"cutting", "done"} =>
  /\ \A j \in 1..Len(cuts) : j # Len(cuts) \/ total < call.n => Length(j) = PerChunk
  /\ cuts # <<>> /\ total = call.n =>
       PerChunk > 0 /\ Length(Len(cuts)) > 0 /\ Length(Len(cuts)) * den < 2 * num

Complete == stage = "done" => total = call.n \/ cuts = <<>>

FileFull == stage = "cutting" /\ call.op = "from_file" /\ num = 0 => cuts = <<>>

SizeInv == Unit /\ Sized /\ Complete /\ FileFull

LEMMA PerChunkBounds ==
  ASSUME CutInv
  PROVE  /\ PerChunk \in Nat /\ PerChunk * den <= num
         /\ PerChunk > 0 => PerChunk * den < 2 * num
<1>1. num \in Nat /\ den \in Nat \ {0}
  BY DEF CutInv, TypeOK
<1>2. PerChunk \in Nat /\ PerChunk * den <= num
  BY <1>1, SMT DEF PerChunk
<1>3. ASSUME PerChunk > 0
      PROVE  PerChunk * den < 2 * num
  <2>1. PerChunk * den > 0
    BY <1>1, <1>2, <1>3
  <2> QED
    BY <1>1, <1>2, <2>1
<1> QED
  BY <1>2, <1>3

(* With nothing per chunk the loops of a value take nothing, so there is   *)
(* no rest smaller than a chunk.                                           *)
LEMMA RestNeedsUnits ==
  ASSUME CutInv, stage = "cutting", call.op # "from_file", total < call.n,
         Rest * den < num
  PROVE  PerChunk > 0
<1>1. PerChunk \in Nat /\ call.n \in Nat /\ cuts \in Seq(Nat \X Nat)
  BY PerChunkBounds, InputTypes DEF CutInv, TypeOK
<1>2. total = Len(cuts) * PerChunk /\ call.n * den >= num
  BY DEF CutInv, Whole, Enough
<1>3. CASE PerChunk = 0
  <2>1. total = 0
    BY <1>1, <1>2, <1>3
  <2>2. Rest = call.n
    BY <1>1, <2>1 DEF Rest
  <2>3. num \in Nat /\ den \in Nat /\ call.n * den \in Nat
    BY <1>1 DEF CutInv, TypeOK
  <2> QED
    BY <1>2, <2>2, <2>3
<1> QED
  BY <1>1, <1>3

(* A chunk is appended before the end of the value.                        *)
LEMMA TakeSized ==
  ASSUME CutInv, SizeInv, stage = "cutting", total < call.n,
         NEW to \in Nat, to <= call.n, to > total \/ to < call.n,
         cuts' = Append(cuts, <<total, to>>), total' = to,
         UNCHANGED <<call, num, den, tag, stage>>,
         to < call.n => to - total = PerChunk,
         to > total => PerChunk > 0 /\ (to - total) * den < 2 * num,
         call.op = "from_file" => num > 0
  PROVE  SizeInv'
<1>1. cuts \in Seq(Nat \X Nat) /\ total \in Nat /\ call.n \in Nat
  BY InputTypes DEF CutInv, TypeOK
<1>2. /\ Len(cuts') = Len(cuts) + 1 /\ Len(cuts) \in Nat
      /\ cuts'[Len(cuts')] = <<total, to>>
      /\ \A j \in 1..Len(cuts) : cuts'[j] = cuts[j]
  BY <1>1
<1>3. PerChunk' = PerChunk /\ Length(Len(cuts))' = to - total
  BY <1>1, <1>2 DEF PerChunk, Length
<1>4. ASSUME NEW j \in 1..Len(cuts'), j # Len(cuts') \/ to < call.n
      PROVE  Length(j)' = PerChunk
  <2>1. CASE j = Len(cuts')
    <3>1. Length(j)' = to - total /\ to < call.n
      BY <1>2, <1>4, <2>1 DEF Length
    <3> QED
      BY <3>1
  <2>2. CASE j # Len(cuts')
    <3>1. j \in 1..Len(cuts)
      BY <1>2, <2>2
    <3>2. Length(j)' = Length(j)
      BY <1>2, <3>1 DEF Length
    <3> QED
      BY <3>1, <3>2 DEF SizeInv, Sized
  <2> QED
    BY <2>1, <2>2
<1>5. Sized'
  <2>1. total' < call'.n <=> to < call.n
    OBVIOUS
  <2>2. total' = call'.n => to > total
    OBVIOUS
  <2>3. to > total => to - total > 0
    BY <1>1
  <2> QED
    BY <1>3, <1>4, <2>1, <2>2, <2>3 DEF Sized
<1> QED
  BY <1>5 DEF SizeInv, Unit, Complete, FileFull

LEMMA StartSized ==
  ASSUME CutInv, stage = "called",
         NEW p \in Nat, NEW q \in Nat \ {0}, Start(p, q),
         call.op = "from_file" => q = 1
  PROVE  SizeInv'
<1>1. cuts' = <<>> /\ Len(cuts') = 0 /\ stage' = "cutting" /\ den' = q /\ call' = call
  BY EmptySeq DEF CutInv, Fresh, Start
<1> QED
  BY <1>1 DEF SizeInv, Unit, Sized, Complete, FileFull

LEMMA StartsSized ==
  ASSUME CutInv, SizeInv, StartIter \/ StartOldIter \/ StartFile
  PROVE  SizeInv'
<1>1. stage = "called" /\ call \in Inputs
  BY DEF CutInv, TypeOK, StartIter, StartOldIter, StartFile
<1>2. CASE Fail
  BY <1>2 DEF Fail, SizeInv, Unit, Sized, Complete, FileFull
<1>3. CASE ~ Fail
  <2>1. /\ num' \in Nat /\ den' \in Nat \ {0}
    BY StartIterKeeps, StartOldIterKeeps, StartFileKeeps DEF CutInv, TypeOK
  <2>2. /\ Start(num', den')
        /\ call.op = "from_file" => den' = 1
    BY <1>3 DEF StartIter, StartOldIter, StartFile, Start
  <2> QED
    BY <1>1, <2>1, <2>2, StartSized
<1> QED
  BY <1>2, <1>3

LEMMA CutSized ==
  ASSUME CutInv, SizeInv, Cut
  PROVE  SizeInv'
<1>1. /\ total \in Nat /\ call.n \in Nat /\ stage = "cutting" /\ total < call.n
      /\ call.op # "from_file" /\ total' = total + PerChunk
      /\ UNCHANGED <<call, num, den, tag, stage>>
  BY InputTypes DEF CutInv, TypeOK, Cut, Cutting
<1>2. PerChunk \in Nat /\ (PerChunk > 0 => PerChunk * den < 2 * num)
  BY PerChunkBounds
<1>3. /\ cuts' = Append(cuts, <<total, total + PerChunk>>)
      /\ total + PerChunk <= call.n
  BY <1>1, <1>2, CutKeeps, InputTypes DEF CutInv, TypeOK
<1>4. total + PerChunk - total = PerChunk
  BY <1>1, <1>2
<1>5. total + PerChunk > total \/ total + PerChunk < call.n
  BY <1>1, <1>2
<1>6. total + PerChunk > total => PerChunk > 0
  BY <1>1, <1>2
<1> QED
  BY <1>1, <1>2, <1>3, <1>4, <1>5, <1>6, TakeSized

LEMMA YieldRestSized ==
  ASSUME CutInv, SizeInv, YieldRest
  PROVE  SizeInv'
<1>1. /\ total \in Nat /\ call.n \in Nat /\ stage = "cutting" /\ total < call.n
      /\ call.op # "from_file" /\ total' = call.n /\ Rest * den < num
      /\ UNCHANGED <<call, num, den, tag, stage>> /\ num \in Nat /\ den \in Nat
  BY InputTypes DEF CutInv, TypeOK, YieldRest, Cutting
<1>2. PerChunk > 0 /\ cuts' = Append(cuts, <<total, call.n>>)
  BY <1>1, RestNeedsUnits, YieldRestKeeps
<1>3. (call.n - total) * den < 2 * num
  <2>1. Rest * den \in Nat
    BY <1>1 DEF Rest
  <2>2. Rest * den < 2 * num
    BY <1>1, <2>1
  <2> QED
    BY <2>2 DEF Rest
<1>4. call.n <= call.n /\ call.n > total /\ ~ (call.n < call.n)
  BY <1>1
<1> QED
  BY <1>1, <1>2, <1>3, <1>4, TakeSized

LEMMA ReadSized ==
  ASSUME CutInv, SizeInv, Read
  PROVE  SizeInv'
<1> DEFINE to == IF Rest < num THEN call.n ELSE total + num
<1>1. /\ total \in Nat /\ call.n \in Nat /\ num \in Nat /\ num > 0
      /\ stage = "cutting" /\ total < call.n /\ call.op = "from_file"
      /\ UNCHANGED <<call, num, den, tag, stage>>
  BY InputTypes DEF CutInv, TypeOK, Read, Cutting
<1>2. den = 1 /\ PerChunk = num
  BY <1>1 DEF SizeInv, Unit, PerChunk
<1>3. /\ to \in Nat /\ to <= call.n /\ to > total
      /\ to < call.n => to - total = num
      /\ (to - total) * 1 < 2 * num
  BY <1>1 DEF Rest
<1>4. cuts' = Append(cuts, <<total, to>>) /\ total' = to
  BY DEF Read
<1> HIDE DEF to
<1> QED
  BY <1>1, <1>2, <1>3, <1>4, TakeSized

LEMMA MergeRestSized ==
  ASSUME CutInv, SizeInv, MergeRest
  PROVE  SizeInv'
<1>1. /\ total \in Nat /\ call.n \in Nat /\ stage = "cutting" /\ total < call.n
      /\ call.op # "from_file" /\ total' = call.n /\ Rest * den < num
      /\ UNCHANGED <<call, num, den, tag, stage>> /\ num \in Nat /\ den \in Nat
      /\ cuts \in Seq(Nat \X Nat) /\ Chain(cuts, total)
      /\ cuts' = Ends(cuts, call.n)
  BY InputTypes, TilesIsChain DEF CutInv, TypeOK, MergeRest, Cutting
<1>2. PerChunk > 0 /\ PerChunk \in Nat /\ PerChunk * den <= num
  BY <1>1, RestNeedsUnits, PerChunkBounds
<1>3. cuts # <<>> /\ Len(cuts) \in Nat \ {0}
  BY <1>1, MergeRestKeeps, EmptySeq
<1>4. /\ Len(cuts') = Len(cuts)
      /\ \A j \in 1..Len(cuts) :
           cuts'[j] = IF j = Len(cuts) THEN <<cuts[Len(cuts)][1], call.n>> ELSE cuts[j]
  BY <1>1, <1>3, ChainEnds
<1>5. Length(Len(cuts)) = PerChunk /\ cuts[Len(cuts)][2] = total
  BY <1>1, <1>3 DEF SizeInv, Sized, Chain
<1>6. cuts[Len(cuts)] \in Nat \X Nat
  BY <1>1, <1>3, ElementOfSeq
<1>7. Length(Len(cuts))' = Rest + PerChunk
  <2>1. cuts'[Len(cuts)] = <<cuts[Len(cuts)][1], call.n>>
    BY <1>3, <1>4
  <2>2. Length(Len(cuts))' = call.n - cuts[Len(cuts)][1]
    BY <1>4, <2>1 DEF Length
  <2> QED
    BY <1>1, <1>5, <1>6, <2>2 DEF Length, Rest
<1>8. Rest + PerChunk > 0 /\ (Rest + PerChunk) * den < 2 * num
  <2>1. Rest \in Nat
    BY <1>1 DEF Rest
  <2>2. (Rest + PerChunk) * den = Rest * den + PerChunk * den
    BY <1>1, <1>2, <2>1
  <2>3. Rest * den \in Nat /\ PerChunk * den \in Nat
    BY <1>1, <1>2, <2>1
  <2> QED
    BY <1>1, <1>2, <2>1, <2>2, <2>3
<1>9. ASSUME NEW j \in 1..Len(cuts), j # Len(cuts)
      PROVE  Length(j)' = PerChunk
  <2>1. Length(j)' = Length(j)
    BY <1>4, <1>9 DEF Length
  <2> QED
    BY <1>1, <1>9, <2>1 DEF SizeInv, Sized
<1>10. PerChunk' = PerChunk
  BY <1>1 DEF PerChunk
<1>11. Sized'
  BY <1>1, <1>2, <1>4, <1>7, <1>8, <1>9, <1>10 DEF Sized
<1> QED
  BY <1>1, <1>11 DEF SizeInv, Unit, Complete, FileFull

LEMMA FinishSized ==
  ASSUME CutInv, SizeInv, Finish
  PROVE  SizeInv'
<1>1. total \in 0..call.n /\ call.n \in Nat
  BY InputTypes DEF CutInv, TypeOK
<1>2. /\ total = call.n \/ cuts = <<>>
      /\ UNCHANGED <<call, num, den, total, cuts, tag>>
      /\ stage = "cutting" /\ stage' = "done"
  BY <1>1 DEF Finish, SizeInv, FileFull
<1> QED
  BY <1>2 DEF SizeInv, Unit, Sized, Complete, FileFull, PerChunk, Length

LEMMA SizeInvariant == Spec => []SizeInv
<1>1. Init => SizeInv
  BY DEF Init, SizeInv, Unit, Sized, Complete, FileFull
<1>2. CutInv /\ SizeInv /\ [Next]_vars => SizeInv'
  <2> SUFFICES ASSUME CutInv, SizeInv, [Next]_vars
               PROVE  SizeInv'
    OBVIOUS
  <2>1. CASE UNCHANGED vars
    BY <2>1 DEF vars, SizeInv, Unit, Sized, Complete, FileFull, PerChunk, Length
  <2> QED
    BY <2>1, StartsSized, CutSized, YieldRestSized, ReadSized, MergeRestSized,
       FinishSized
    DEF Next
<1> QED
  BY <1>1, <1>2, CutInvariant, PTL DEF Spec

(* No chunk is empty or longer than asked for, but for the last one, into  *)
(* which a rest is merged, and which stays below twice that.               *)
THEOREM SizesAsAskedAlways == Spec => []SizesAsAsked
<1>1. CutInv /\ SizeInv => SizesAsAsked
  <2> SUFFICES ASSUME CutInv, SizeInv, stage = "done", NEW j \in 1..Len(cuts)
               PROVE  /\ Length(j) > 0
                      /\ j < Len(cuts) => Length(j) * den <= num
                      /\ Length(j) * den < 2 * num
    BY DEF SizesAsAsked
  <2>1. cuts # <<>> /\ Len(cuts) \in Nat
    BY EmptySeq DEF CutInv, TypeOK
  <2>2. /\ PerChunk > 0 /\ Length(Len(cuts)) > 0
        /\ Length(Len(cuts)) * den < 2 * num
    BY <2>1 DEF SizeInv, Sized, Complete
  <2>3. j # Len(cuts) => Length(j) = PerChunk
    BY DEF SizeInv, Sized
  <2> QED
    BY <2>1, <2>2, <2>3, PerChunkBounds
<1> QED
  BY <1>1, CutInvariant, SizeInvariant, PTL

-----------------------------------------------------------------------------
(* The loops advance: unless the call is Endless there is at least one     *)
(* element per chunk.                                                      *)

Advances == stage = "cutting" /\ call.op # "from_file" /\ call.n > 0 /\ ~ Endless
              => num >= den

LEMMA PerChunkPositive ==
  ASSUME CutInv, num >= den
  PROVE  PerChunk > 0
<1>1. num \in Nat /\ den \in Nat \ {0}
  BY DEF CutInv, TypeOK
<1> QED
  BY <1>1, SMT DEF PerChunk

LEMMA StartIterAdvances ==
  ASSUME CutInv, StartIter
  PROVE  Advances'
<1>1. /\ call.n \in Nat /\ call.count \in Nat /\ call.size \in Nat \cup {None}
      /\ call.op \in {"from_bytes", "from_list"}
  BY InputTypes DEF CutInv, TypeOK, StartIter
<1>2. CASE Divides
  <2>1. /\ num' = IF TooMuch THEN call.n ELSE AskedNum
        /\ den' = IF TooMuch THEN 1 ELSE AskedDen
        /\ call' = call
    BY <1>2 DEF StartIter, Start
  <2>2. call.n # 0 /\ AskedNum # 0 /\ Parts # 0
    BY <1>2 DEF Divides
  <2> SUFFICES ASSUME ~ Endless, ~ TooMuch PROVE AskedNum >= AskedDen
    BY <1>1, <2>1, <2>2 DEF Advances, Endless
  <2>3. CASE call.size # None
    BY <1>1, <2>2, <2>3 DEF AskedNum, AskedDen
  <2>4. CASE call.size = None
    BY <1>1, <2>4 DEF AskedNum, AskedDen, Parts, Endless
  <2> QED
    BY <2>3, <2>4
<1>3. CASE ~ Divides
  BY <1>3 DEF StartIter, Fail, Advances
<1> QED
  BY <1>2, <1>3

LEMMA StartOldIterAdvances ==
  ASSUME CutInv, StartOldIter
  PROVE  Advances'
<1>1. /\ call.n \in Nat /\ call.count \in Nat /\ call.size \in Nat \cup {None}
      /\ call.op = "iter_to_chunks"
  BY InputTypes DEF CutInv, TypeOK, StartOldIter
<1>2. CASE Parts # 0 /\ ~ TooMuch
  <2>1. num' = AskedNum /\ den' = AskedDen /\ call' = call
    BY <1>2 DEF StartOldIter, Start
  <2> SUFFICES ASSUME ~ Endless, call.n > 0 PROVE AskedNum >= AskedDen
    BY <2>1 DEF Advances, Endless
  <2>2. CASE call.size # None
    BY <1>1, <2>2 DEF AskedNum, AskedDen, Endless
  <2>3. CASE call.size = None
    BY <1>1, <2>3 DEF AskedNum, AskedDen, Parts, Endless
  <2> QED
    BY <2>2, <2>3
<1>3. CASE ~ (Parts # 0 /\ ~ TooMuch)
  BY <1>3 DEF StartOldIter, Fail, Advances
<1> QED
  BY <1>2, <1>3

LEMMA AdvancesAlways == Spec => []Advances
<1>1. Init => Advances
  BY DEF Init, Advances
<1>2. CutInv /\ Advances /\ [Next]_vars => Advances'
  <2> SUFFICES ASSUME CutInv, Advances, [Next]_vars PROVE Advances'
    OBVIOUS
  <2>1. CASE StartFile
    BY <2>1 DEF StartFile, Start, Fail, Advances
  <2>2. CASE Cut \/ MergeRest \/ YieldRest \/ Read
    BY <2>2 DEF Cut, MergeRest, YieldRest, Read, Advances, Endless
  <2>3. CASE Finish
    BY <2>3 DEF Finish, Advances
  <2>4. CASE UNCHANGED vars
    BY <2>4 DEF vars, Advances, Endless
  <2> QED
    BY <2>1, <2>2, <2>3, <2>4, StartIterAdvances, StartOldIterAdvances DEF Next
<1> QED
  BY <1>1, <1>2, CutInvariant, PTL DEF Spec

(* A loop that takes the elements up to the given one.                     *)
LEMMA TakeNears ==
  ASSUME CutInv, stage = "cutting", NEW to \in Nat, total < to, to <= call.n,
         total' = to, UNCHANGED <<call, stage>>
  PROVE  ToGo' < ToGo
<1>1. total \in Nat /\ call.n \in Nat
  BY InputTypes DEF CutInv, TypeOK
<1> QED
  BY <1>1 DEF ToGo, Rest

LEMMA StepNears ==
  ASSUME CutInv, Advances, Next, ~ Endless
  PROVE  ToGo' < ToGo
<1>1. total \in Nat /\ call.n \in Nat /\ num \in Nat /\ total <= call.n
  BY InputTypes DEF CutInv, TypeOK
<1>2. CASE StartIter \/ StartOldIter \/ StartFile
  <2>1. stage = "called" /\ total = 0
    BY <1>2 DEF StartIter, StartOldIter, StartFile, CutInv, Fresh
  <2>2. call' = call /\ total' = total /\ stage' \in {"cutting", "failed"}
    BY <1>2 DEF StartIter, StartOldIter, StartFile, Start, Fail
  <2> QED
    BY <1>1, <2>1, <2>2 DEF ToGo, Rest
<1>3. CASE Cut
  <2>1. stage = "cutting" /\ call.op # "from_file" /\ total < call.n
        /\ total' = total + PerChunk /\ UNCHANGED <<call, stage>>
    BY <1>3 DEF Cut, Cutting
  <2>2. PerChunk > 0 /\ PerChunk \in Nat
    BY <1>1, <2>1, PerChunkPositive, PerChunkBounds DEF Advances
  <2>3. CutInv'
    BY <1>3, CutKeeps
  <2>4. total + PerChunk <= call.n
    BY <1>1, <2>1, <2>2, <2>3 DEF CutInv, TypeOK
  <2> QED
    BY <1>1, <2>1, <2>2, <2>4, TakeNears
<1>4. CASE MergeRest \/ YieldRest
  BY <1>1, <1>4, TakeNears DEF MergeRest, YieldRest, Cutting
<1>5. CASE Read
  BY <1>1, <1>5, TakeNears DEF Read, Cutting, Rest
<1>6. CASE Finish
  BY <1>1, <1>6 DEF Finish, ToGo, Rest
<1> QED
  BY <1>2, <1>3, <1>4, <1>5, <1>6 DEF Next

(* Cutting n elements takes at most n rounds: every step of an operation   *)
(* that is not asked for the impossible brings its end nearer.             *)
THEOREM NearsEndAlways == Spec => NearsEnd
<1>1. CutInv /\ Advances /\ [Next]_vars => [Endless \/ ToGo' < ToGo]_vars
  BY StepNears
<1> QED
  BY <1>1, CutInvariant, AdvancesAlways, PTL DEF Spec, NearsEnd
===============================================================================
