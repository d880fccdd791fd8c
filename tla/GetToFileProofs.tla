--------------------------- MODULE GetToFileProofs ---------------------------
(***************************************************************************)
(* What is in the file of get_to_file, for any number of calls, crashes,   *)
(* puts and deletes, of chunks and blocks.  The lemmas about the writers,  *)
(* values and Join are those of GetBallProofs, about the same variables.   *)
(***************************************************************************)
EXTENDS GetToFile, TLAPS, FiniteSetTheorems, SequenceTheorems, WellFoundedInduction

StoreTypes ==
  /\ meta \in [Chunks -> Puts \cup {None}] /\ data \in [Chunks -> Puts \cup {None}]
  /\ phase \in [Calls -> {"idle", "uploading", "erasing", "ok", "err"}]
  /\ tasks \in [Puts -> SUBSET Chunks] /\ acked \in [Puts -> SUBSET Chunks]

(* Chunks are stored for values that have them.                            *)
StoreInv == /\ StoreTypes
            /\ \A p \in Puts : tasks[p] \subseteq ChunksOf[p]
            /\ \A c \in Chunks : /\ meta[c] # None => c \in ChunksOf[meta[c]]
                                 /\ data[c] # None => c \in ChunksOf[data[c]]

LEMMA Constants ==
  /\ None \notin Puts /\ ProbeIndex \in Chunks /\ MaxCalls \in Nat
  /\ \A c \in Chunks : c \in Nat
  /\ \A p \in Puts : ChunksOf[p] \subseteq Chunks
BY StoreAssumption, ReadAssumption, FileAssumption

(* A value has its chunks from 0 on.                                       *)
LEMMA FirstChunk ==
  ASSUME NEW p \in Puts
  PROVE  /\ Cardinality(ChunksOf[p]) \in 0..Cardinality(Chunks)
         /\ Cardinality(ChunksOf[p]) \in Nat
         /\ ChunksOf[p] = 0 .. Cardinality(ChunksOf[p]) - 1
<1> DEFINE S == ChunksOf[p]
           n == Cardinality(S)
           T == 0 .. n - 1
<1>1. /\ IsFiniteSet(Chunks) /\ S \subseteq Chunks /\ Chunks \subseteq Nat
      /\ S = {c \in Chunks : c < n}
  BY ReadAssumption, Constants
<1>2. IsFiniteSet(S) /\ n <= Cardinality(Chunks) /\ n \in Nat /\ Cardinality(Chunks) \in Nat
  BY <1>1, FS_Subset, FS_CardinalityType
<1> HIDE DEF n
<1>3. S \subseteq T
  <2> SUFFICES ASSUME NEW c \in S PROVE c \in T
    OBVIOUS
  <2>1. c \in Nat /\ c < n
    BY <1>1
  <2> QED
    BY <1>2, <2>1
<1>4. IsFiniteSet(T) /\ Cardinality(T) = n
  <2>1. n - 1 \in Int /\ 0 \in Int
    BY <1>2
  <2>2. IsFiniteSet(T) /\ Cardinality(T) = IF 0 > n - 1 THEN 0 ELSE (n - 1) - 0 + 1
    BY <2>1, FS_Interval
  <2> QED
    BY <1>2, <2>2
<1>5. S = T
  BY <1>2, <1>3, <1>4, FS_Subset DEF n
<1> QED
  BY <1>2, <1>5 DEF n

LEMMA InitStore == ReadInit => StoreInv
<1> SUFFICES ASSUME ReadInit PROVE StoreInv
  OBVIOUS
<1>1. Old \in Puts \cup {None}
  BY ReadAssumption DEF ReadInit, Old
<1>2. \A p \in Puts : ChunksOf[p] \in SUBSET Chunks
  BY Constants
<1>3. StoreTypes
  BY <1>1, <1>2 DEF ReadInit, StoreTypes
<1> QED
  BY <1>1, <1>3, Constants DEF ReadInit, StoreInv

LEMMA StoreStep == StoreInv /\ [StoreNext]_storeVars => StoreInv'
<1> SUFFICES ASSUME StoreInv, [StoreNext]_storeVars PROVE StoreInv'
  OBVIOUS
<1>1. StoreTypes /\ None \notin Puts
  BY Constants DEF StoreInv
<1>2. CASE UNCHANGED storeVars
  BY <1>2 DEF storeVars, StoreInv, StoreTypes
<1>3. ASSUME NEW p \in Puts, NEW c \in Chunks, Post(p, c)
      PROVE  StoreInv'
  BY <1>1, <1>3 DEF Post, StoreInv, StoreTypes
<1>4. ASSUME NEW p \in Puts, NEW c \in Chunks, Upload(p, c)
      PROVE  StoreInv'
  BY <1>1, <1>4 DEF Upload, StoreInv, StoreTypes
<1>5. ASSUME NEW k \in Calls, NEW c \in Chunks, Erase(k, c)
      PROVE  StoreInv'
  BY <1>1, <1>5 DEF Erase, StoreInv, StoreTypes
<1>6. ASSUME NEW k \in Calls, GiveUp(k) \/ Begin(k) \/ ReturnOk(k) \/ ReturnErr(k)
      PROVE  StoreInv'
  BY <1>1, <1>6 DEF GiveUp, Begin, ReturnOk, ReturnErr, Become, StoreInv, StoreTypes
<1>7. \A p \in Puts : p \in Calls
  BY DEF Calls
<1> QED
  BY <1>2, <1>3, <1>4, <1>5, <1>6, <1>7 DEF StoreNext

-----------------------------------------------------------------------------
(* Induction, with a set in place of a predicate.                          *)
LEMMA NatInSet ==
  ASSUME NEW S, 0 \in S, \A n \in Nat : n \in S => n + 1 \in S
  PROVE  Nat \subseteq S
<1> DEFINE T == Nat \ S
           R == OpToRel(<, Nat)
<1> SUFFICES ASSUME T # {} PROVE FALSE
  OBVIOUS
<1>1. T \subseteq Nat /\ IsWellFoundedOn(R, Nat)
  BY NatLessThanWellFounded
<1> HIDE DEF R
<1>2. PICK x \in T : \A y \in T : ~ (<<y, x>> \in R)
  BY <1>1, WFMin
<1>3. x # 0 /\ x \in Nat
  OBVIOUS
<1>4. x - 1 \in Nat /\ x - 1 < x /\ (x - 1) + 1 = x
  BY <1>3
<1>5. x - 1 \in T
  BY <1>2, <1>4
<1>6. <<x - 1, x>> \in R
  BY <1>3, <1>4 DEF R, OpToRel
<1> QED
  BY <1>2, <1>5, <1>6

(* The function in FlattenSeq, for the first m elements of s.              *)
Flattens(g, s, m) == g = [i \in 1..m |-> IF i = 1 THEN s[i] ELSE g[i - 1] \o s[i]]

LEMMA FlattenExists ==
  ASSUME NEW s
  PROVE  \A m \in Nat : \E g : Flattens(g, s, m)
<1> DEFINE S == {m \in Nat : \E g : Flattens(g, s, m)}
<1>1. 0 \in S
  <2>1. Flattens([i \in 1..0 |-> 0], s, 0)
    BY DEF Flattens
  <2> QED
    BY <2>1
<1>2. ASSUME NEW m \in Nat, m \in S
      PROVE  m + 1 \in S
  <2>1. PICK g : Flattens(g, s, m)
    BY <1>2
  <2> DEFINE last == IF m = 0 THEN s[1] ELSE g[m] \o s[m + 1]
             h == [i \in 1..(m + 1) |-> IF i = m + 1 THEN last ELSE g[i]]
  <2>2. ASSUME NEW i \in 1..m PROVE h[i] = g[i]
    OBVIOUS
  <2>3. h[m + 1] = last
    OBVIOUS
  <2>4. h = [i \in 1..(m + 1) |-> h[i]]
    OBVIOUS
  <2> HIDE DEF h
  <2>5. ASSUME NEW i \in 1..(m + 1)
        PROVE  h[i] = IF i = 1 THEN s[i] ELSE h[i - 1] \o s[i]
    <3>1. CASE i = m + 1
      <4>1. CASE m = 0
        BY <2>3, <3>1, <4>1
      <4>2. CASE m # 0
        <5>1. m \in 1..m /\ i # 1 /\ i - 1 = m
          BY <3>1, <4>2
        <5> QED
          BY <2>2, <2>3, <3>1, <4>2, <5>1
      <4> QED
        BY <4>1, <4>2
    <3>2. CASE i # m + 1
      <4>1. i \in 1..m
        BY <3>2
      <4>2. g[i] = IF i = 1 THEN s[i] ELSE g[i - 1] \o s[i]
        BY <2>1, <4>1 DEF Flattens
      <4>3. CASE i = 1
        BY <2>2, <4>1, <4>2, <4>3
      <4>4. CASE i # 1
        <5>1. i - 1 \in 1..m
          BY <4>1, <4>4
        <5> QED
          BY <2>2, <4>1, <4>2, <4>4, <5>1
      <4> QED
        BY <4>3, <4>4
    <3> QED
      BY <3>1, <3>2
  <2>6. Flattens(h, s, m + 1)
    BY <2>4, <2>5 DEF Flattens
  <2> QED
    BY <2>6
<1> QED
  <2>1. Nat \subseteq S
    <3> HIDE DEF S
    <3> QED
      BY <1>1, <1>2, NatInSet
  <2> QED
    BY <2>1

LEMMA FlattenUnique ==
  ASSUME NEW s, NEW t, NEW g, NEW h, NEW m \in Nat, NEW n \in Nat, NEW k \in Nat,
         Flattens(g, s, m), Flattens(h, t, n), k <= m, k <= n,
         \A i \in 1..k : s[i] = t[i]
  PROVE  \A i \in 1..k : g[i] = h[i]
<1> DEFINE S == {i \in Nat : i \in 1..k => g[i] = h[i]}
<1>1. 0 \in S
  OBVIOUS
<1>2. ASSUME NEW i \in Nat, i \in S
      PROVE  i + 1 \in S
  <2> SUFFICES ASSUME i + 1 \in 1..k PROVE g[i + 1] = h[i + 1]
    OBVIOUS
  <2>1. i + 1 \in 1..m /\ i + 1 \in 1..n /\ (i + 1) - 1 = i
    OBVIOUS
  <2>2. /\ g[i + 1] = IF i + 1 = 1 THEN s[i + 1] ELSE g[(i + 1) - 1] \o s[i + 1]
        /\ h[i + 1] = IF i + 1 = 1 THEN t[i + 1] ELSE h[(i + 1) - 1] \o t[i + 1]
    BY <2>1 DEF Flattens
  <2>3. s[i + 1] = t[i + 1]
    OBVIOUS
  <2>4. CASE i = 0
    BY <2>2, <2>3, <2>4
  <2>5. CASE i # 0
    <3>1. i \in 1..k
      BY <2>5
    <3>2. g[i] = h[i]
      BY <1>2, <3>1
    <3> QED
      BY <2>1, <2>2, <2>3, <2>5, <3>2
  <2> QED
    BY <2>4, <2>5
<1>3. Nat \subseteq S
  <2> HIDE DEF S
  <2> QED
    BY <1>1, <1>2, NatInSet
<1> QED
  BY <1>3

LEMMA FlattenIs ==
  ASSUME NEW n \in Nat, n # 0, NEW s, Len(s) = n
  PROVE  \E g : Flattens(g, s, n) /\ FlattenSeq(s) = g[n]
<1> DEFINE F == CHOOSE g : g = [i \in 1..Len(s) |-> IF i = 1 THEN s[i] ELSE g[i - 1] \o s[i]]
<1>1. \E g : g = [i \in 1..Len(s) |-> IF i = 1 THEN s[i] ELSE g[i - 1] \o s[i]]
  BY FlattenExists DEF Flattens
<1>2. F = [i \in 1..Len(s) |-> IF i = 1 THEN s[i] ELSE F[i - 1] \o s[i]]
  BY <1>1
<1>3. FlattenSeq(s) = F[n]
  BY DEF FlattenSeq
<1>4. Flattens(F, s, n)
  BY <1>2 DEF Flattens
<1> QED
  BY <1>3, <1>4

(* Join puts one piece after the other.                                    *)
LEMMA JoinNone == \A f : Join(f, 0) = <<>>
<1> SUFFICES ASSUME NEW f PROVE Join(f, 0) = <<>>
  OBVIOUS
<1>1. [i \in 1..0 |-> f[i - 1]] = <<>>
  OBVIOUS
<1> QED
  BY <1>1 DEF Join, FlattenSeq

LEMMA JoinNext ==
  ASSUME NEW S, NEW f, NEW n \in Nat, \A i \in 0..n : f[i] \in Seq(S)
  PROVE  Join(f, n + 1) = Join(f, n) \o f[n]
<1> DEFINE s == [i \in 1..n |-> f[i - 1]]
           t == [i \in 1..(n + 1) |-> f[i - 1]]
<1>1. /\ s \in Seq(Seq(S)) /\ Len(s) = n /\ Len(t) = n + 1
      /\ \A i \in 1..n : s[i] = t[i]
      /\ t[n + 1] = f[n]
  <2>1. \A i \in 1..n : f[i - 1] \in Seq(S)
    OBVIOUS
  <2>2. s \in Seq(Seq(S)) /\ Len(s) = n
    BY <2>1
  <2>3. \A i \in 1..(n + 1) : f[i - 1] \in Seq(S)
    OBVIOUS
  <2>4. t \in Seq(Seq(S)) /\ Len(t) = n + 1
    BY <2>3
  <2>5. /\ \A i \in 1..n : s[i] = t[i]
        /\ t[n + 1] = f[n]
    OBVIOUS
  <2> QED
    BY <2>2, <2>4, <2>5
<1>2. Join(f, n) = FlattenSeq(s) /\ Join(f, n + 1) = FlattenSeq(t)
  BY DEF Join
<1> HIDE DEF s, t
<1>3. PICK h : Flattens(h, t, n + 1) /\ FlattenSeq(t) = h[n + 1]
  BY <1>1, FlattenIs
<1>4. h[n + 1] = IF n + 1 = 1 THEN t[n + 1] ELSE h[(n + 1) - 1] \o t[n + 1]
  <2>1. n + 1 \in 1..(n + 1)
    OBVIOUS
  <2> QED
    BY <1>3, <2>1 DEF Flattens
<1>5. CASE n = 0
  <2>1. Join(f, n) = <<>>
    BY <1>5, JoinNone
  <2>2. f[n] \in Seq(S)
    OBVIOUS
  <2>3. <<>> \o f[n] = f[n]
    BY <2>2, ConcatEmptySeq
  <2>4. h[n + 1] = f[n]
    BY <1>1, <1>4, <1>5
  <2> QED
    BY <1>2, <1>3, <2>1, <2>3, <2>4
<1>6. CASE n # 0
  <2>1. PICK g : Flattens(g, s, n) /\ FlattenSeq(s) = g[n]
    BY <1>1, <1>6, FlattenIs
  <2>2. n <= n + 1 /\ n + 1 \in Nat /\ n \in 1..n /\ n + 1 # 1 /\ (n + 1) - 1 = n
    BY <1>6
  <2>3. \A i \in 1..n : g[i] = h[i]
    <3>1. Flattens(g, s, n) /\ Flattens(h, t, n + 1) /\ \A i \in 1..n : s[i] = t[i]
      BY <1>1, <1>3, <2>1
    <3>2. n <= n /\ n <= n + 1 /\ n + 1 \in Nat
      OBVIOUS
    <3> QED
      BY ONLY <3>1, <3>2, n \in Nat, FlattenUnique
  <2>4. h[n] = FlattenSeq(s)
    BY <2>1, <2>2, <2>3
  <2>5. h[n + 1] = h[n] \o t[n + 1]
    BY <1>4, <2>2
  <2> QED
    BY <1>1, <1>2, <1>3, <2>4, <2>5
<1> QED
  BY <1>5, <1>6

LEMMA JoinSame ==
  ASSUME NEW n \in Nat, NEW f, NEW g, \A i \in 1..n : f[i - 1] = g[i - 1]
  PROVE  Join(f, n) = Join(g, n)
<1>1. [i \in 1..n |-> f[i - 1]] = [i \in 1..n |-> g[i - 1]]
  OBVIOUS
<1> QED
  BY <1>1 DEF Join

-----------------------------------------------------------------------------
(* The bytes of a value are not cut when its own metadata tells their size.*)
LEMMA WholeDownload ==
  ASSUME NEW c \in Chunks, NEW p \in Puts, c \in ChunksOf[p], data[c] = p, seen[c] = p
  PROVE  Downloaded(c) = Content[p][c]
<1> DEFINE s == Content[p][c]
<1>1. s \in Seq(Range(s))
  BY ReadAssumption
<1> HIDE DEF s
<1>2. SubSeq(s, 1, Len(s)) = s
  BY <1>1
<1> QED
  BY <1>2 DEF Downloaded, s

(* The bytes fetched of each chunk.                                        *)
Bytes == [c \in Chunks |-> pieces[c][2]]

Blocks == UNION {Range(Content[k[1]][k[2]]) : k \in {q \in Puts \X Chunks : q[2] \in ChunksOf[q[1]]}}

LEMMA ContentType ==
  ASSUME NEW p \in Puts, NEW c \in ChunksOf[p]
  PROVE  Content[p][c] \in Seq(Blocks)
<1> DEFINE s == Content[p][c]
           S == Range(s)
<1>1. s \in Seq(S)
  BY ReadAssumption
<1>2. S \subseteq Blocks
  <2>1. <<p, c>> \in {q \in Puts \X Chunks : q[2] \in ChunksOf[q[1]]}
    BY Constants
  <2> QED
    BY <2>1 DEF Blocks
<1> HIDE DEF s, S
<1>3. s \in Seq(Blocks)
  BY <1>1, <1>2, SeqMonotonic
<1> QED
  BY <1>3 DEF s

LEMMA DownloadedType ==
  ASSUME NEW p \in Puts, NEW q \in Puts, NEW c, c \in ChunksOf[p], c \in ChunksOf[q],
         seen[c] = p, data[c] = q, Len(Content[q][c]) >= Len(Content[p][c])
  PROVE  Downloaded(c) \in Seq(Blocks)
<1> DEFINE s == Content[q][c]
           n == Len(Content[p][c])
<1>1. s \in Seq(Blocks) /\ n \in Nat /\ n <= Len(s)
  BY ContentType
<1>2. Downloaded(c) = SubSeq(s, 1, n)
  BY DEF Downloaded
<1> HIDE DEF s, n
<1>3. SubSeq(s, 1, n) \in Seq(Blocks)
  BY <1>1, SubSeqProperties
<1> QED
  BY <1>2, <1>3

-----------------------------------------------------------------------------
FileTypes ==
  /\ situation \in Situations /\ Old \in Puts \cup {None}
  /\ call \in {"idle", "probing", "fetching", "ok", "err"}
  /\ fetch \in [Chunks -> FetchStates] /\ seen \in [Chunks -> Puts \cup {None}]
  /\ pieces = [c \in Chunks |-> pieces[c]]
  /\ \A c \in Chunks : Bytes[c] \in Seq(Blocks)
  /\ file = Absent \/ file \in Seq(Blocks)
  /\ total \in Nat /\ 0 .. total - 1 \subseteq Chunks
  /\ written \in 0..total /\ opened \in BOOLEAN /\ calls \in 0..MaxCalls

(* The file is open from the first fetch on, and what is written has been  *)
(* fetched.                                                                *)
Ordered ==
  /\ call \in {"idle", "probing"} => ~ opened /\ written = 0
  /\ call = "fetching" => opened
  /\ opened => /\ file \in Seq(Blocks)
               /\ file = Join(Bytes, written)
               /\ \A i \in 0 .. written - 1 : fetch[i] = "fetched"
               /\ call = "ok" => written = total

(* Metadata that was read is of a value that has the chunk.                *)
Asked == \A c \in Chunks : fetch[c] = "reading" => seen[c] \in Puts /\ c \in ChunksOf[seen[c]]

FileInv == StoreInv /\ FileTypes /\ Ordered /\ Asked

LEMMA InitFile == Init => FileInv
<1> SUFFICES ASSUME Init PROVE FileInv
  OBVIOUS
<1>1. StoreInv
  BY InitStore DEF Init
<1>2. situation \in Situations /\ Old \in Puts \cup {None}
  BY ReadAssumption DEF Init, ReadInit, Old
<1>3. \A c \in Chunks : Bytes[c] \in Seq(Blocks)
  BY EmptySeq DEF Init, ReadInit, Bytes
<1>4. 0 .. 0 - 1 \subseteq Chunks /\ 0 \in 0..0 /\ 0 \in 0..MaxCalls
  BY Constants
<1>5. pieces = [c \in Chunks |-> pieces[c]]
  BY DEF Init, ReadInit
<1>6. /\ call = "idle" /\ fetch = [c \in Chunks |-> "idle"] /\ seen = [c \in Chunks |-> None]
      /\ total = 0 /\ file = Absent /\ written = 0 /\ opened = FALSE /\ calls = 0
  BY DEF Init, ReadInit
<1>7. FileTypes
  BY <1>2, <1>3, <1>4, <1>5, <1>6 DEF FileTypes, FetchStates
<1>8. Ordered /\ Asked
  BY <1>6 DEF Ordered, Asked
<1> QED
  BY <1>1, <1>7, <1>8 DEF FileInv

(* The writers, the probing or the end of the call leave the rest alone.   *)
LEMMA CallMoves ==
  ASSUME FileInv, [StoreNext]_storeVars,
         UNCHANGED <<situation, total, fetch, seen, pieces, file, written, opened, calls>>,
         call' \in {"idle", "probing", "fetching", "ok", "err"},
         call' \in {"idle", "probing"} => call \in {"idle", "probing"},
         call' = "fetching" => call = "fetching",
         call' = "ok" => call = "ok" \/ ~ opened \/ written = total
  PROVE  FileInv'
<1> USE DEF FileInv
<1>1. StoreInv'
  BY StoreStep
<1>2. Old' = Old /\ Bytes' = Bytes
  BY DEF Old, Bytes
<1>3. FileTypes' /\ Ordered' /\ Asked'
  BY <1>2 DEF FileTypes, Ordered, Asked
<1> QED
  BY <1>1, <1>3

(* One coroutine moves on: what is written is of others.                   *)
LEMMA FetchMoves ==
  ASSUME FileInv, call = "fetching", NEW c \in Chunks, NEW s \in FetchStates,
         fetch[c] # "fetched", fetch' = [fetch EXCEPT ![c] = s],
         UNCHANGED <<storeVars, situation, call, total, file, written, opened, calls>>,
         seen' \in [Chunks -> Puts \cup {None}],
         pieces' = [d \in Chunks |-> pieces'[d]], Bytes'[c] \in Seq(Blocks),
         \A d \in Chunks \ {c} : seen'[d] = seen[d] /\ pieces'[d] = pieces[d],
         s = "reading" => seen'[c] \in Puts /\ c \in ChunksOf[seen'[c]]
  PROVE  FileInv'
<1> USE DEF FileInv
<1>1. StoreInv'
  BY StoreStep
<1>2. Old' = Old
  BY DEF Old
<1>3. \A d \in Chunks : fetch'[d] = IF d = c THEN s ELSE fetch[d]
  BY DEF FileTypes
<1>4. \A d \in Chunks \ {c} : Bytes'[d] = Bytes[d]
  BY DEF Bytes
<1>5. \A d \in Chunks : Bytes'[d] \in Seq(Blocks)
  BY <1>4 DEF FileTypes
<1>6. FileTypes'
  BY <1>2, <1>5 DEF FileTypes
<1>7. Asked'
  BY <1>3 DEF Asked
<1>8. \A i \in 0 .. written - 1 : fetch[i] = "fetched" /\ i \in Chunks /\ i # c
  BY DEF Ordered, FileTypes
<1>9. Join(Bytes', written) = Join(Bytes, written)
  <2>1. written \in Nat
    BY DEF FileTypes
  <2>2. \A i \in 1..written : Bytes'[i - 1] = Bytes[i - 1]
    BY <1>4, <1>8, <2>1
  <2> QED
    BY <2>1, <2>2, JoinSame
<1>10. Ordered'
  BY <1>3, <1>8, <1>9 DEF Ordered
<1> QED
  BY <1>1, <1>6, <1>7, <1>10

LEMMA OpenKeeps ==
  ASSUME FileInv, Open
  PROVE  FileInv'
<1> USE DEF FileInv
<1> DEFINE p == meta[ProbeIndex]
           n == Cardinality(ChunksOf[p])
<1>1. /\ call = "probing" /\ call' = "fetching" /\ total' = n /\ p # None
      /\ fetch' = [c \in Chunks |-> IF c \in AllChunks THEN "waiting" ELSE "idle"]
      /\ UNCHANGED <<storeVars, situation, probes, seen, pieces>>
      /\ file' = <<>> /\ opened' = TRUE /\ UNCHANGED <<written, calls>>
  BY DEF Open, ProbeAnswered
<1>2. p \in Puts
  BY <1>1, Constants DEF StoreInv, StoreTypes
<1>3. n \in Nat /\ ChunksOf[p] = 0 .. n - 1 /\ ChunksOf[p] \subseteq Chunks
  BY <1>2, FirstChunk, Constants
<1> HIDE DEF n, p
<1>4. StoreInv'
  BY <1>1, StoreStep
<1>5. Old' = Old /\ Bytes' = Bytes
  BY <1>1 DEF Old, Bytes
<1>6. written = 0
  BY <1>1 DEF Ordered
<1>7. FileTypes'
  BY <1>1, <1>3, <1>5, <1>6, EmptySeq DEF FileTypes, FetchStates
<1>8. Ordered'
  BY <1>1, <1>6, EmptySeq, JoinNone DEF Ordered
<1>9. Asked'
  BY <1>1 DEF Asked
<1> QED
  BY <1>4, <1>7, <1>8, <1>9

LEMMA WriteKeeps ==
  ASSUME FileInv, WriteNext
  PROVE  FileInv'
<1> USE DEF FileInv
<1>1. /\ call = "fetching" /\ written < total /\ fetch[written] = "fetched"
      /\ file' = file \o pieces[written][2] /\ written' = written + 1
      /\ UNCHANGED <<storeVars, situation, call, total, fetch, seen, pieces, opened, calls>>
  BY DEF WriteNext, readVars
<1>2. /\ written \in Nat /\ written \in Chunks
      /\ \A i \in 0..written : i \in Chunks
  BY <1>1 DEF FileTypes
<1>3. \A i \in 0..written : Bytes[i] \in Seq(Blocks)
  BY <1>2 DEF FileTypes
<1>4. file \in Seq(Blocks) /\ file = Join(Bytes, written) /\ opened
  BY <1>1 DEF Ordered
<1>5. pieces[written][2] = Bytes[written]
  BY <1>2 DEF Bytes
<1>6. file' = Join(Bytes, written + 1)
  BY <1>1, <1>2, <1>3, <1>4, <1>5, JoinNext
<1>7. file' \in Seq(Blocks)
  BY <1>1, <1>3, <1>2, <1>4, <1>5, ConcatProperties
<1>8. Old' = Old /\ Bytes' = Bytes
  BY <1>1 DEF Old, Bytes
<1>9. StoreInv'
  BY <1>1, StoreStep
<1>10. FileTypes'
  BY <1>1, <1>2, <1>7, <1>8 DEF FileTypes
<1>11. \A i \in 0 .. written' - 1 : fetch'[i] = "fetched"
  BY <1>1, <1>2, <1>4 DEF Ordered
<1>12. Ordered' /\ Asked'
  BY <1>1, <1>4, <1>6, <1>7, <1>8, <1>11 DEF Ordered, Asked
<1> QED
  BY <1>9, <1>10, <1>12

LEMMA ForgetKeeps ==
  ASSUME FileInv, Forget, file' = Absent \/ file' \in Seq(Blocks)
  PROVE  FileInv'
<1> USE DEF FileInv
<1>1. /\ calls < MaxCalls /\ calls' = calls + 1 /\ call' = "idle" /\ total' = 0
      /\ fetch' = [c \in Chunks |-> "idle"] /\ seen' = [c \in Chunks |-> None]
      /\ pieces' = [c \in Chunks |-> <<None, <<>>>>]
      /\ written' = 0 /\ opened' = FALSE /\ UNCHANGED <<storeVars, situation>>
  BY DEF Forget
<1>2. StoreInv'
  BY <1>1, StoreStep
<1>3. \A c \in Chunks : Bytes'[c] \in Seq(Blocks)
  BY <1>1, EmptySeq DEF Bytes
<1>4. /\ Old' = Old /\ calls' \in 0..MaxCalls
      /\ 0 .. 0 - 1 \subseteq Chunks /\ 0 \in 0..0
      /\ pieces' = [c \in Chunks |-> pieces'[c]]
  BY <1>1, Constants DEF Old, FileTypes
<1>5. FileTypes'
  BY <1>1, <1>3, <1>4 DEF FileTypes, FetchStates
<1>6. Ordered' /\ Asked'
  BY <1>1 DEF Ordered, Asked
<1> QED
  BY <1>2, <1>5, <1>6

LEMMA StepFile == FileInv /\ [Next]_vars => FileInv'
<1> SUFFICES ASSUME FileInv, [Next]_vars PROVE FileInv'
  OBVIOUS
<1> USE DEF FileInv
<1>1. CASE UNCHANGED vars
  BY <1>1, CallMoves DEF vars, readVars, fileVars, FileTypes, Ordered
<1>2. CASE WriterStep /\ UNCHANGED fileVars
  BY <1>2, CallMoves DEF WriterStep, readVars, fileVars, FileTypes, Ordered
<1>3. CASE StartCall /\ UNCHANGED fileVars
  BY <1>3, CallMoves DEF StartCall, fileVars
<1>4. CASE ProbeFails /\ UNCHANGED fileVars
  BY <1>4, CallMoves DEF ProbeFails, fileVars
<1>5. CASE ProbeHit
  BY <1>5, CallMoves DEF ProbeHit, fileVars, Ordered
<1>6. CASE Finish
  BY <1>6, CallMoves DEF Finish, fileVars
<1>7. ASSUME NEW c \in Chunks, Miss(c)
      PROVE  FileInv'
  BY <1>7, CallMoves DEF Miss, Misses, fileVars
<1>8. CASE Open
  BY <1>8, OpenKeeps
<1>9. CASE WriteNext
  BY <1>9, WriteKeeps
<1>10. CASE CallAgain
  BY <1>10, ForgetKeeps DEF CallAgain, FileTypes
<1>11. CASE Crash
  <2>1. Forget /\ IF opened THEN \E n \in 0..Len(file) : file' = SubSeq(file, 1, n)
                  ELSE UNCHANGED file
    BY <1>11 DEF Crash
  <2>2. CASE opened
    <3>1. file \in Seq(Blocks)
      BY <2>2 DEF Ordered
    <3>2. PICK n \in 0..Len(file) : file' = SubSeq(file, 1, n)
      BY <2>1, <2>2
    <3>3. SubSeq(file, 1, n) \in Seq(Blocks)
      BY <3>1, SubSeqProperties
    <3> QED
      BY <2>1, <3>2, <3>3, ForgetKeeps
  <2>3. CASE ~ opened
    BY <2>1, <2>3, ForgetKeeps DEF FileTypes
  <2> QED
    BY <2>2, <2>3
<1>12. ASSUME NEW c \in Chunks, Acquire(c), UNCHANGED fileVars
       PROVE  FileInv'
  <2>1. "waiting" # "fetched" /\ "asking" \in FetchStates
    BY DEF FetchStates
  <2>2. Bytes' = Bytes
    BY <1>12 DEF Acquire, Bytes
  <2> QED
    BY <1>12, <2>1, <2>2, FetchMoves DEF Acquire, fileVars, FileTypes
<1>13. ASSUME NEW c \in Chunks, AskMetadata(c), UNCHANGED fileVars
       PROVE  FileInv'
  <2>1. /\ fetch[c] = "asking" /\ meta[c] # None /\ call = "fetching"
        /\ fetch' = [fetch EXCEPT ![c] = "reading"] /\ seen' = [seen EXCEPT ![c] = meta[c]]
        /\ UNCHANGED <<storeVars, situation, call, probes, total, pieces, fileVars>>
    BY <1>13 DEF AskMetadata
  <2>2. meta[c] \in Puts /\ c \in ChunksOf[meta[c]]
    BY <2>1 DEF StoreInv, StoreTypes
  <2>3. /\ seen'[c] = meta[c] /\ seen' \in [Chunks -> Puts \cup {None}]
        /\ \A d \in Chunks \ {c} : seen'[d] = seen[d]
    BY <2>1, <2>2 DEF FileTypes
  <2>4. Bytes' = Bytes /\ "reading" \in FetchStates
    BY <2>1 DEF Bytes, FetchStates
  <2> QED
    BY <2>1, <2>2, <2>3, <2>4, FetchMoves DEF fileVars, FileTypes
<1>14. ASSUME NEW c \in Chunks, ReadData(c), UNCHANGED fileVars
       PROVE  FileInv'
  <2>1. /\ fetch[c] = "reading" /\ data[c] # None /\ call = "fetching"
        /\ Len(Content[data[c]][c]) >= Len(Content[seen[c]][c])
        /\ fetch' = [fetch EXCEPT ![c] = "fetched"]
        /\ pieces' = [pieces EXCEPT ![c] = <<seen[c], Downloaded(c)>>]
        /\ UNCHANGED <<storeVars, situation, call, probes, total, seen, fileVars>>
    BY <1>14 DEF ReadData
  <2>2. /\ data[c] \in Puts /\ c \in ChunksOf[data[c]]
        /\ seen[c] \in Puts /\ c \in ChunksOf[seen[c]]
    BY <2>1 DEF StoreInv, StoreTypes, Asked
  <2>3. Downloaded(c) \in Seq(Blocks)
    BY <2>1, <2>2, DownloadedType
  <2>4. /\ pieces' = [d \in Chunks |-> pieces'[d]] /\ pieces'[c] = <<seen[c], Downloaded(c)>>
        /\ \A d \in Chunks \ {c} : pieces'[d] = pieces[d]
    BY <2>1 DEF FileTypes
  <2>5. Bytes'[c] \in Seq(Blocks)
    BY <2>3, <2>4 DEF Bytes
  <2>6. "fetched" \in FetchStates
    BY DEF FetchStates
  <2> QED
    BY <2>1, <2>4, <2>5, <2>6, FetchMoves DEF fileVars, FileTypes
<1> QED
  BY <1>1, <1>2, <1>3, <1>4, <1>5, <1>6, <1>7, <1>8, <1>9, <1>10, <1>11, <1>12, <1>13, <1>14
  DEF Next, ReaderStep, FetchStep

LEMMA FileInvariant == Spec => []FileInv
BY InitFile, StepFile, PTL DEF Spec

(* The state of a download keeps its types; no more is written than there  *)
(* are chunks.                                                             *)
THEOREM ToFileTypeCorrect == Spec => []TypeOK
<1>1. FileInv => TypeOK
  BY LenProperties DEF FileInv, FileTypes, TypeOK
<1> QED
  BY <1>1, FileInvariant, PTL

(* In whatever order the chunks of a download arrive, and whatever is      *)
(* stored or deleted meanwhile: the writer puts them into the file in      *)
(* their order and without a gap, all of them before the call answers Ok.  *)
THEOREM WrittenInOrderAlways == Spec => []WrittenInOrder
<1>1. FileInv => WrittenInOrder
  BY DEF FileInv, Ordered, WrittenInOrder, Bytes, Fetched
<1> QED
  BY <1>1, FileInvariant, PTL

(* No call, and no crash of one, changes a file that the call has found.   *)
THEOREM ExistingFileKeptAlways == Spec => ExistingFileKept
<1>1. FileInv /\ [Next]_vars => [file # Absent /\ ~ opened => file' = file]_vars
  BY DEF FileInv, Ordered, Next, StartCall, WriterStep, ReaderStep, ProbeHit, Open,
         WriteNext, Finish, Miss, CallAgain, Crash, Forget, fileVars, vars
<1> QED
  BY <1>1, FileInvariant, PTL DEF Spec, ExistingFileKept

-----------------------------------------------------------------------------
(* A ball at rest: no call but the one that stored it has begun.           *)
AtRest == Old # None /\ \A k \in Calls \ {Old} : phase[k] = "idle"

(* What a coroutine finds is of this value.                                *)
OldFound(c) == /\ meta[c] = IF c \in ChunksOf[Old] THEN Old ELSE None
               /\ data[c] = meta[c]
               /\ fetch[c] = "reading" => seen[c] = Old
               /\ fetch[c] = "fetched" => c \in ChunksOf[Old] /\ pieces[c][2] = Content[Old][c]

RestInv ==
  AtRest => /\ phase[Old] = "ok"
            /\ \A c \in Chunks : OldFound(c)
            /\ call = "fetching" => total = Cardinality(ChunksOf[Old])
            /\ call = "ok" => file = Value(Old)

LEMMA InitRest == Init => RestInv
<1> SUFFICES ASSUME Init, AtRest
             PROVE  phase[Old] = "ok" /\ (\A c \in Chunks : OldFound(c)) /\ call = "idle"
  BY DEF RestInv
<1>1. Old \in Calls
  BY ReadAssumption DEF Init, ReadInit, Old, AtRest, Calls
<1> QED
  BY <1>1 DEF Init, ReadInit, OldFound, AtRest

(* No call of the others begins without ending the rest.                   *)
LEMMA RestIsStill ==
  ASSUME FileInv, RestInv, AtRest', [StoreNext]_storeVars, UNCHANGED situation
  PROVE  AtRest /\ UNCHANGED storeVars
<1>1. Old' = Old /\ Old # None
  BY DEF Old, AtRest
<1>2. phase \in [Calls -> {"idle", "uploading", "erasing", "ok", "err"}]
  BY DEF FileInv, StoreInv, StoreTypes
<1>3. ASSUME NEW k \in Calls, NEW s, s # "idle", phase' = [phase EXCEPT ![k] = s]
      PROVE  k = Old
  BY <1>1, <1>2, <1>3 DEF AtRest
<1>4. ASSUME NEW k \in Calls, phase[k] # "idle", UNCHANGED phase
      PROVE  k = Old
  BY <1>1, <1>4 DEF AtRest
<1>5. AtRest
  <2>1. CASE UNCHANGED phase
    BY <1>1, <2>1 DEF AtRest
  <2>2. CASE phase' # phase
    <3>1. PICK k \in Calls, s \in {"uploading", "erasing", "ok", "err"} :
            phase' = [phase EXCEPT ![k] = s]
      BY <2>2 DEF StoreNext, storeVars, Post, Upload, Erase, GiveUp, Begin, ReturnOk,
                  ReturnErr, Become, Calls
    <3>2. k = Old
      BY <1>3, <3>1
    <3> QED
      BY <1>1, <1>2, <3>1, <3>2 DEF AtRest
  <2> QED
    BY <2>1, <2>2
<1>6. phase[Old] = "ok"
  BY <1>5 DEF RestInv
<1>7. ASSUME NEW k \in Calls
      PROVE  phase[k] \in {"idle", "ok"} /\ phase'[k] \in {"idle", phase'[Old]}
  BY <1>1, <1>5, <1>6 DEF AtRest
<1>8. ~ \E p \in Puts, c \in Chunks : Post(p, c) \/ Upload(p, c)
  BY <1>7 DEF Post, Upload, Calls
<1>9. ~ \E k \in Calls, c \in Chunks : Erase(k, c)
  BY <1>7 DEF Erase
<1>10. ASSUME NEW k \in Calls, Begin(k) \/ ReturnOk(k) \/ ReturnErr(k) \/ GiveUp(k)
       PROVE  FALSE
  <2>1. PICK s \in {"uploading", "erasing", "ok", "err"} :
          phase' = [phase EXCEPT ![k] = s]
    BY <1>10 DEF Begin, ReturnOk, ReturnErr, GiveUp, Become
  <2>2. k = Old
    BY <1>3, <2>1
  <2> QED
    BY <1>6, <1>10, <2>2 DEF Begin, ReturnOk, ReturnErr, GiveUp, Become
<1>11. \A p \in Puts : p \in Calls
  BY DEF Calls
<1> QED
  BY <1>5, <1>8, <1>9, <1>10, <1>11 DEF StoreNext

(* The reader moves on beside a store that is still.                       *)
LEMMA RestMoves ==
  ASSUME FileInv, RestInv, AtRest, UNCHANGED storeVars, UNCHANGED situation,
         \A c \in Chunks :
           /\ fetch'[c] = "reading" => seen'[c] = Old
           /\ fetch'[c] = "fetched" =>
                c \in ChunksOf[Old] /\ pieces'[c][2] = Content[Old][c],
         call' = "fetching" => total' = Cardinality(ChunksOf[Old]),
         call' = "ok" => file' = Value(Old)
  PROVE  RestInv'
<1>1. Old' = Old /\ Value(Old)' = Value(Old)
  BY DEF Old, Value, Join
<1>2. UNCHANGED <<meta, data, phase>>
  BY DEF storeVars
<1> QED
  BY <1>1, <1>2 DEF RestInv, OldFound

(* All pieces of the value, one after the other, are the value.            *)
LEMMA WholeValue ==
  ASSUME FileInv, RestInv, AtRest, call = "fetching", written = total
  PROVE  file = Value(Old)
<1> DEFINE n == Cardinality(ChunksOf[Old])
           g == Content[Old]
<1>1. Old \in Puts
  BY DEF FileInv, FileTypes, AtRest
<1>2. n \in Nat /\ ChunksOf[Old] = 0 .. n - 1 /\ ChunksOf[Old] \subseteq Chunks
  BY <1>1, FirstChunk, Constants
<1>3. total = n
  BY DEF RestInv
<1> HIDE DEF n
<1>4. file = Join(Bytes, n) /\ \A i \in 0 .. n - 1 : fetch[i] = "fetched"
  BY <1>3 DEF FileInv, Ordered
<1>5. \A c \in ChunksOf[Old] : pieces[c][2] = g[c]
  BY <1>2, <1>4 DEF RestInv, OldFound
<1> HIDE DEF g
<1>6. \A i \in 1..n : Bytes[i - 1] = g[i - 1]
  <2> SUFFICES ASSUME NEW i \in 1..n PROVE Bytes[i - 1] = g[i - 1]
    OBVIOUS
  <2>1. i - 1 \in ChunksOf[Old] /\ i - 1 \in Chunks
    BY <1>2
  <2> QED
    BY <1>5, <2>1 DEF Bytes
<1>7. Join(Bytes, n) = Join(g, n)
  BY <1>2, <1>6, JoinSame
<1> QED
  BY <1>4, <1>7 DEF Value, n, g

LEMMA StepRest == FileInv /\ RestInv /\ [Next]_vars => RestInv'
<1> SUFFICES ASSUME FileInv, RestInv, [Next]_vars, AtRest' PROVE RestInv'
  BY DEF RestInv
<1>1. [StoreNext]_storeVars /\ UNCHANGED situation
  BY DEF Next, WriterStep, ReaderStep, FetchStep, StartCall, ProbeHit, Open, ProbeAnswered,
         ProbeFails, Acquire, AskMetadata, ReadData, WriteNext, Miss, Finish, CallAgain,
         Crash, Forget, vars, storeVars, readVars, fileVars
<1>2. AtRest /\ UNCHANGED storeVars
  BY <1>1, RestIsStill
<1>3. Old \in Puts /\ ChunksOf[Old] \subseteq Chunks
  BY <1>2, Constants DEF FileInv, FileTypes, AtRest
<1>4. \A c \in Chunks : OldFound(c)
  BY <1>2 DEF RestInv
<1>5. FileTypes
  BY DEF FileInv
<1>6. ASSUME UNCHANGED <<total, fetch, seen, pieces>>,
             call' = "fetching" => call = "fetching", call' = "ok" => file' = Value(Old)
      PROVE  RestInv'
  BY <1>1, <1>2, <1>4, <1>6, RestMoves DEF RestInv, OldFound
<1>7. CASE UNCHANGED vars
  BY <1>2, <1>6, <1>7 DEF vars, readVars, fileVars, RestInv
<1>8. CASE (StartCall \/ WriterStep) /\ UNCHANGED fileVars
  BY <1>2, <1>6, <1>8 DEF StartCall, WriterStep, readVars, fileVars, RestInv
<1>9. CASE ProbeFails /\ UNCHANGED fileVars
  BY <1>6, <1>9 DEF ProbeFails
<1>10. ASSUME NEW c \in Chunks, Miss(c)
       PROVE  RestInv'
  BY <1>6, <1>10 DEF Miss
<1>11. CASE ProbeHit
  <2>1. meta[ProbeIndex] = Old
    BY <1>4, <1>11, Constants DEF ProbeHit, OldFound
  <2>2. /\ UNCHANGED <<total, fetch, seen, pieces>> /\ call' # "fetching"
        /\ call' = "ok" => file' = Value(Old)
    BY <1>11, <2>1 DEF ProbeHit, fileVars
  <2> QED
    BY <1>6, <2>2
<1>12. CASE Finish
  <2>1. /\ UNCHANGED <<total, fetch, seen, pieces>> /\ call' = "ok" /\ file' = file
        /\ call = "fetching" /\ written = total
    BY <1>12 DEF Finish, fileVars
  <2>2. file = Value(Old)
    BY <1>2, <2>1, WholeValue
  <2> QED
    BY <1>6, <2>1, <2>2
<1>13. CASE WriteNext
  BY <1>6, <1>13 DEF WriteNext, readVars
<1>14. CASE Open
  <2>1. /\ meta[ProbeIndex] # None /\ call' = "fetching"
        /\ total' = Cardinality(ChunksOf[meta[ProbeIndex]])
        /\ fetch' = [c \in Chunks |-> IF c \in AllChunks THEN "waiting" ELSE "idle"]
    BY <1>14 DEF Open, ProbeAnswered
  <2>2. meta[ProbeIndex] = Old
    BY <1>4, <2>1, Constants DEF OldFound
  <2>3. \A c \in Chunks : fetch'[c] \in {"waiting", "idle"}
    BY <2>1
  <2> QED
    BY <1>1, <1>2, <2>1, <2>2, <2>3, RestMoves
<1>15. CASE CallAgain \/ Crash
  <2>1. call' = "idle" /\ fetch' = [c \in Chunks |-> "idle"]
    BY <1>15 DEF CallAgain, Crash, Forget
  <2>2. \A c \in Chunks : fetch'[c] = "idle"
    BY <2>1
  <2> QED
    BY <1>1, <1>2, <2>1, <2>2, RestMoves
<1>16. ASSUME NEW c \in Chunks, NEW s, call = "fetching", UNCHANGED <<call, total>>,
              fetch' = [fetch EXCEPT ![c] = s],
              \A d \in Chunks \ {c} : seen'[d] = seen[d] /\ pieces'[d] = pieces[d],
              s = "reading" => seen'[c] = Old,
              s = "fetched" => c \in ChunksOf[Old] /\ pieces'[c][2] = Content[Old][c]
       PROVE  RestInv'
  <2>1. \A d \in Chunks : fetch'[d] = IF d = c THEN s ELSE fetch[d]
    BY <1>5, <1>16 DEF FileTypes
  <2>2. ASSUME NEW d \in Chunks
        PROVE  /\ fetch'[d] = "reading" => seen'[d] = Old
               /\ fetch'[d] = "fetched" =>
                    d \in ChunksOf[Old] /\ pieces'[d][2] = Content[Old][d]
    <3>1. CASE d = c
      BY <1>16, <2>1, <3>1
    <3>2. CASE d # c
      BY <1>4, <1>16, <2>1, <3>2 DEF OldFound
    <3> QED
      BY <3>1, <3>2
  <2>3. total' = Cardinality(ChunksOf[Old]) /\ call' = "fetching"
    BY <1>2, <1>16 DEF RestInv
  <2> QED
    BY <1>1, <1>2, <2>2, <2>3, RestMoves
<1>17. ASSUME NEW c \in Chunks, Acquire(c)
       PROVE  RestInv'
  BY <1>16, <1>17 DEF Acquire
<1>18. ASSUME NEW c \in Chunks, AskMetadata(c)
       PROVE  RestInv'
  <2>1. /\ call = "fetching" /\ meta[c] # None /\ fetch' = [fetch EXCEPT ![c] = "reading"]
        /\ seen' = [seen EXCEPT ![c] = meta[c]] /\ UNCHANGED <<call, total, pieces>>
    BY <1>18 DEF AskMetadata
  <2>2. meta[c] = Old
    BY <1>4, <2>1 DEF OldFound
  <2>3. seen'[c] = Old /\ \A d \in Chunks \ {c} : seen'[d] = seen[d]
    BY <1>5, <2>1, <2>2 DEF FileTypes
  <2> QED
    BY <1>16, <2>1, <2>3
<1>19. ASSUME NEW c \in Chunks, ReadData(c)
       PROVE  RestInv'
  <2>1. /\ call = "fetching" /\ fetch[c] = "reading" /\ data[c] # None
        /\ fetch' = [fetch EXCEPT ![c] = "fetched"]
        /\ pieces' = [pieces EXCEPT ![c] = <<seen[c], Downloaded(c)>>]
        /\ UNCHANGED <<call, total, seen>>
    BY <1>19 DEF ReadData
  <2>2. seen[c] = Old /\ c \in ChunksOf[Old] /\ data[c] = Old
    BY <1>4, <2>1 DEF OldFound
  <2>3. Downloaded(c) = Content[Old][c]
    BY <1>3, <2>2, WholeDownload
  <2>4. /\ pieces'[c][2] = Content[Old][c]
        /\ \A d \in Chunks \ {c} : pieces'[d] = pieces[d]
    BY <1>5, <2>1, <2>3 DEF FileTypes
  <2> QED
    BY <1>16, <2>1, <2>2, <2>4
<1> QED
  BY <1>7, <1>8, <1>9, <1>10, <1>11, <1>12, <1>13, <1>14, <1>15, <1>17, <1>18, <1>19
  DEF Next, ReaderStep, FetchStep

(* Of a ball that nobody writes or deletes, Ok means the whole value: what *)
(* an earlier call left in the file that failed, or that a crash cut short *)
(* anywhere, is never taken for it.                                        *)
THEOREM OkIsWholeFileAlways == Spec => []OkIsWholeFile
<1>1. Init => RestInv
  BY InitRest
<1>2. RestInv => OkIsWholeFile
  BY DEF RestInv, AtRest, OkIsWholeFile
<1>3. Spec => []RestInv
  BY <1>1, StepRest, FileInvariant, PTL DEF Spec
<1> QED
  BY <1>2, <1>3, PTL
=============================================================================
