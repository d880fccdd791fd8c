---------------------------- MODULE GetBallProofs ----------------------------
(***************************************************************************)
(* What get answers, for any number of puts and deletes beside it, of      *)
(* chunks, blocks, retries and parallel gets.  GetToFile has other actions *)
(* on the same variables, so what is said here of the writers and of Join  *)
(* is proved there again.                                                  *)
(***************************************************************************)
EXTENDS GetBall, TLAPS, FiniteSetTheorems, SequenceTheorems, WellFoundedInduction

StoreTypes ==
  /\ meta \in [Chunks -> Puts \cup {None}] /\ data \in [Chunks -> Puts \cup {None}]
  /\ phase \in [Calls -> {"idle", "uploading", "erasing", "ok", "err"}]
  /\ tasks \in [Puts -> SUBSET Chunks] /\ acked \in [Puts -> SUBSET Chunks]

(* Chunks are stored for values that have them.                            *)
StoreInv == /\ StoreTypes
            /\ \A p \in Puts : tasks[p] \subseteq ChunksOf[p]
            /\ \A c \in Chunks : /\ meta[c] # None => c \in ChunksOf[meta[c]]
                                 /\ data[c] # None => c \in ChunksOf[data[c]]

LEMMA Constants ==
  /\ None \notin Puts /\ ProbeIndex \in Chunks
  /\ \A c \in Chunks : c \in Nat
  /\ \A p \in Puts : ChunksOf[p] \subseteq Chunks
BY StoreAssumption, ReadAssumption

(* A value has its chunks from 0 on.                                       *)
LEMMA FirstChunk ==
  ASSUME NEW p \in Puts
  PROVE  /\ Cardinality(ChunksOf[p]) \in 0..Cardinality(Chunks)
         /\ Cardinality(ChunksOf[p]) \in Nat
         /\ ChunksOf[p] = 0 .. Cardinality(ChunksOf[p]) - 1
<1> DEFINE S == ChunksOf[p]
           n == Cardinality(S)
           T == 0 .. n - 1
<1>1. /\ IsFiniteSet(Chunks) /\ S \subseteq Chunks /\ Chunks \subseteq Nat
      /\ S = {c \in Chunks : c < n}
  BY ReadAssumption, Constants
<1>2. IsFiniteSet(S) /\ n <= Cardinality(Chunks) /\ n \in Nat /\ Cardinality(Chunks) \in Nat
  BY <1>1, FS_Subset, FS_CardinalityType
<1> HIDE DEF n
<1>3. S \subseteq T
  <2> SUFFICES ASSUME NEW c \in S PROVE c \in T
    OBVIOUS
  <2>1. c \in Nat /\ c < n
    BY <1>1
  <2> QED
    BY <1>2, <2>1
<1>4. IsFiniteSet(T) /\ Cardinality(T) = n
  <2>1. n - 1 \in Int /\ 0 \in Int
    BY <1>2
  <2>2. IsFiniteSet(T) /\ Cardinality(T) = IF 0 > n - 1 THEN 0 ELSE (n - 1) - 0 + 1
    BY <2>1, FS_Interval
  <2> QED
    BY <1>2, <2>2
<1>5. S = T
  BY <1>2, <1>3, <1>4, FS_Subset DEF n
<1> QED
  BY <1>2, <1>5 DEF n

LEMMA InitStore == ReadInit => StoreInv
<1> SUFFICES ASSUME ReadInit PROVE StoreInv
  OBVIOUS
<1>1. Old \in Puts \cup {None}
  BY ReadAssumption DEF ReadInit, Old
<1>2. \A p \in Puts : ChunksOf[p] \in SUBSET Chunks
  BY Constants
<1>3. StoreTypes
  BY <1>1, <1>2 DEF ReadInit, StoreTypes
<1> QED
  BY <1>1, <1>3, Constants DEF ReadInit, StoreInv

LEMMA StoreStep == StoreInv /\ [StoreNext]_storeVars => StoreInv'
<1> SUFFICES ASSUME StoreInv, [StoreNext]_storeVars PROVE StoreInv'
  OBVIOUS
<1>1. StoreTypes /\ None \notin Puts
  BY Constants DEF StoreInv
<1>2. CASE UNCHANGED storeVars
  BY <1>2 DEF storeVars, StoreInv, StoreTypes
<1>3. ASSUME NEW p \in Puts, NEW c \in Chunks, Post(p, c)
      PROVE  StoreInv'
  BY <1>1, <1>3 DEF Post, StoreInv, StoreTypes
<1>4. ASSUME NEW p \in Puts, NEW c \in Chunks, Upload(p, c)
      PROVE  StoreInv'
  BY <1>1, <1>4 DEF Upload, StoreInv, StoreTypes
<1>5. ASSUME NEW k \in Calls, NEW c \in Chunks, Erase(k, c)
      PROVE  StoreInv'
  BY <1>1, <1>5 DEF Erase, StoreInv, StoreTypes
<1>6. ASSUME NEW k \in Calls, GiveUp(k) \/ Begin(k) \/ ReturnOk(k) \/ ReturnErr(k)
      PROVE  StoreInv'
  BY <1>1, <1>6 DEF GiveUp, Begin, ReturnOk, ReturnErr, Become, StoreInv, StoreTypes
<1>7. \A p \in Puts : p \in Calls
  BY DEF Calls
<1> QED
  BY <1>2, <1>3, <1>4, <1>5, <1>6, <1>7 DEF StoreNext

-----------------------------------------------------------------------------
(* Induction, with a set in place of a predicate.                          *)
LEMMA NatInSet ==
  ASSUME NEW S, 0 \in S, \A n \in Nat : n \in S => n + 1 \in S
  PROVE  Nat \subseteq S
<1> DEFINE T == Nat \ S
           R == OpToRel(<, Nat)
<1> SUFFICES ASSUME T # {} PROVE FALSE
  OBVIOUS
<1>1. T \subseteq Nat /\ IsWellFoundedOn(R, Nat)
  BY NatLessThanWellFounded
<1> HIDE DEF R
<1>2. PICK x \in T : \A y \in T : ~ (<<y, x>> \in R)
  BY <1>1, WFMin
<1>3. x # 0 /\ x \in Nat
  OBVIOUS
<1>4. x - 1 \in Nat /\ x - 1 < x /\ (x - 1) + 1 = x
  BY <1>3
<1>5. x - 1 \in T
  BY <1>2, <1>4
<1>6. <<x - 1, x>> \in R
  BY <1>3, <1>4 DEF R, OpToRel
<1> QED
  BY <1>2, <1>5, <1>6

(* The function in FlattenSeq, for the first m elements of s.              *)
Flattens(g, s, m) == g = [i \in 1..m |-> IF i = 1 THEN s[i] ELSE g[i - 1] \o s[i]]

LEMMA FlattenExists ==
  ASSUME NEW s
  PROVE  \A m \in Nat : \E g : Flattens(g, s, m)
<1> DEFINE S == {m \in Nat : \E g : Flattens(g, s, m)}
<1>1. 0 \in S
  <2>1. Flattens([i \in 1..0 |-> 0], s, 0)
    BY DEF Flattens
  <2> QED
    BY <2>1
<1>2. ASSUME NEW m \in Nat, m \in S
      PROVE  m + 1 \in S
  <2>1. PICK g : Flattens(g, s, m)
    BY <1>2
  <2> DEFINE last == IF m = 0 THEN s[1] ELSE g[m] \o s[m + 1]
             h == [i \in 1..(m + 1) |-> IF i = m + 1 THEN last ELSE g[i]]
  <2>2. ASSUME NEW i \in 1..m PROVE h[i] = g[i]
    OBVIOUS
  <2>3. h[m + 1] = last
    OBVIOUS
  <2>4. h = [i \in 1..(m + 1) |-> h[i]]
    OBVIOUS
  <2> HIDE DEF h
  <2>5. ASSUME NEW i \in 1..(m + 1)
        PROVE  h[i] = IF i = 1 THEN s[i] ELSE h[i - 1] \o s[i]
    <3>1. CASE i = m + 1
      <4>1. CASE m = 0
        BY <2>3, <3>1, <4>1
      <4>2. CASE m # 0
        <5>1. m \in 1..m /\ i # 1 /\ i - 1 = m
          BY <3>1, <4>2
        <5> QED
          BY <2>2, <2>3, <3>1, <4>2, <5>1
      <4> QED
        BY <4>1, <4>2
    <3>2. CASE i # m + 1
      <4>1. i \in 1..m
        BY <3>2
      <4>2. g[i] = IF i = 1 THEN s[i] ELSE g[i - 1] \o s[i]
        BY <2>1, <4>1 DEF Flattens
      <4>3. CASE i = 1
        BY <2>2, <4>1, <4>2, <4>3
      <4>4. CASE i # 1
        <5>1. i - 1 \in 1..m
          BY <4>1, <4>4
        <5> QED
          BY <2>2, <4>1, <4>2, <4>4, <5>1
      <4> QED
        BY <4>3, <4>4
    <3> QED
      BY <3>1, <3>2
  <2>6. Flattens(h, s, m + 1)
    BY <2>4, <2>5 DEF Flattens
  <2> QED
    BY <2>6
<1> QED
  <2>1. Nat \subseteq S
    <3> HIDE DEF S
    <3> QED
      BY <1>1, <1>2, NatInSet
  <2> QED
    BY <2>1

LEMMA FlattenUnique ==
  ASSUME NEW s, NEW t, NEW g, NEW h, NEW m \in Nat, NEW n \in Nat, NEW k \in Nat,
         Flattens(g, s, m), Flattens(h, t, n), k <= m, k <= n,
         \A i \in 1..k : s[i] = t[i]
  PROVE  \A i \in 1..k : g[i] = h[i]
<1> DEFINE S == {i \in Nat : i \in 1..k => g[i] = h[i]}
<1>1. 0 \in S
  OBVIOUS
<1>2. ASSUME NEW i \in Nat, i \in S
      PROVE  i + 1 \in S
  <2> SUFFICES ASSUME i + 1 \in 1..k PROVE g[i + 1] = h[i + 1]
    OBVIOUS
  <2>1. i + 1 \in 1..m /\ i + 1 \in 1..n /\ (i + 1) - 1 = i
    OBVIOUS
  <2>2. /\ g[i + 1] = IF i + 1 = 1 THEN s[i + 1] ELSE g[(i + 1) - 1] \o s[i + 1]
        /\ h[i + 1] = IF i + 1 = 1 THEN t[i + 1] ELSE h[(i + 1) - 1] \o t[i + 1]
    BY <2>1 DEF Flattens
  <2>3. s[i + 1] = t[i + 1]
    OBVIOUS
  <2>4. CASE i = 0
    BY <2>2, <2>3, <2>4
  <2>5. CASE i # 0
    <3>1. i \in 1..k
      BY <2>5
    <3>2. g[i] = h[i]
      BY <1>2, <3>1
    <3> QED
      BY <2>1, <2>2, <2>3, <2>5, <3>2
  <2> QED
    BY <2>4, <2>5
<1>3. Nat \subseteq S
  <2> HIDE DEF S
  <2> QED
    BY <1>1, <1>2, NatInSet
<1> QED
  BY <1>3

LEMMA FlattenIs ==
  ASSUME NEW n \in Nat, n # 0, NEW s, Len(s) = n
  PROVE  \E g : Flattens(g, s, n) /\ FlattenSeq(s) = g[n]
<1> DEFINE F == CHOOSE g : g = [i \in 1..Len(s) |-> IF i = 1 THEN s[i] ELSE g[i - 1] \o s[i]]
<1>1. \E g : g = [i \in 1..Len(s) |-> IF i = 1 THEN s[i] ELSE g[i - 1] \o s[i]]
  BY FlattenExists DEF Flattens
<1>2. F = [i \in 1..Len(s) |-> IF i = 1 THEN s[i] ELSE F[i - 1] \o s[i]]
  BY <1>1
<1>3. FlattenSeq(s) = F[n]
  BY DEF FlattenSeq
<1>4. Flattens(F, s, n)
  BY <1>2 DEF Flattens
<1> QED
  BY <1>3, <1>4

(* Join puts one piece after the other.                                    *)
LEMMA JoinNone == \A f : Join(f, 0) = <<>>
<1> SUFFICES ASSUME NEW f PROVE Join(f, 0) = <<>>
  OBVIOUS
<1>1. [i \in 1..0 |-> f[i - 1]] = <<>>
  OBVIOUS
<1> QED
  BY <1>1 DEF Join, FlattenSeq

LEMMA JoinNext ==
  ASSUME NEW S, NEW f, NEW n \in Nat, \A i \in 0..n : f[i] \in Seq(S)
  PROVE  Join(f, n + 1) = Join(f, n) \o f[n]
<1> DEFINE s == [i \in 1..n |-> f[i - 1]]
           t == [i \in 1..(n + 1) |-> f[i - 1]]
<1>1. /\ s \in Seq(Seq(S)) /\ Len(s) = n /\ Len(t) = n + 1
      /\ \A i \in 1..n : s[i] = t[i]
      /\ t[n + 1] = f[n]
  <2>1. \A i \in 1..n : f[i - 1] \in Seq(S)
    OBVIOUS
  <2>2. s \in Seq(Seq(S)) /\ Len(s) = n
    BY <2>1
  <2>3. \A i \in 1..(n + 1) : f[i - 1] \in Seq(S)
    OBVIOUS
  <2>4. t \in Seq(Seq(S)) /\ Len(t) = n + 1
    BY <2>3
  <2>5. /\ \A i \in 1..n : s[i] = t[i]
        /\ t[n + 1] = f[n]
    OBVIOUS
  <2> QED
    BY <2>2, <2>4, <2>5
<1>2. Join(f, n) = FlattenSeq(s) /\ Join(f, n + 1) = FlattenSeq(t)
  BY DEF Join
<1> HIDE DEF s, t
<1>3. PICK h : Flattens(h, t, n + 1) /\ FlattenSeq(t) = h[n + 1]
  BY <1>1, FlattenIs
<1>4. h[n + 1] = IF n + 1 = 1 THEN t[n + 1] ELSE h[(n + 1) - 1] \o t[n + 1]
  <2>1. n + 1 \in 1..(n + 1)
    OBVIOUS
  <2> QED
    BY <1>3, <2>1 DEF Flattens
<1>5. CASE n = 0
  <2>1. Join(f, n) = <<>>
    BY <1>5, JoinNone
  <2>2. f[n] \in Seq(S)
    OBVIOUS
  <2>3. <<>> \o f[n] = f[n]
    BY <2>2, ConcatEmptySeq
  <2>4. h[n + 1] = f[n]
    BY <1>1, <1>4, <1>5
  <2> QED
    BY <1>2, <1>3, <2>1, <2>3, <2>4
<1>6. CASE n # 0
  <2>1. PICK g : Flattens(g, s, n) /\ FlattenSeq(s) = g[n]
    BY <1>1, <1>6, FlattenIs
  <2>2. n <= n + 1 /\ n + 1 \in Nat /\ n \in 1..n /\ n + 1 # 1 /\ (n + 1) - 1 = n
    BY <1>6
  <2>3. \A i \in 1..n : g[i] = h[i]
    <3>1. Flattens(g, s, n) /\ Flattens(h, t, n + 1) /\ \A i \in 1..n : s[i] = t[i]
      BY <1>1, <1>3, <2>1
    <3>2. n <= n /\ n <= n + 1 /\ n + 1 \in Nat
      OBVIOUS
    <3> QED
      BY ONLY <3>1, <3>2, n \in Nat, FlattenUnique
  <2>4. h[n] = FlattenSeq(s)
    BY <2>1, <2>2, <2>3
  <2>5. h[n + 1] = h[n] \o t[n + 1]
    BY <1>4, <2>2
  <2> QED
    BY <1>1, <1>2, <1>3, <2>4, <2>5
<1> QED
  BY <1>5, <1>6

LEMMA JoinSame ==
  ASSUME NEW n \in Nat, NEW f, NEW g, \A i \in 1..n : f[i - 1] = g[i - 1]
  PROVE  Join(f, n) = Join(g, n)
<1>1. [i \in 1..n |-> f[i - 1]] = [i \in 1..n |-> g[i - 1]]
  OBVIOUS
<1> QED
  BY <1>1 DEF Join

-----------------------------------------------------------------------------
(* The bytes of a value are not cut when its own metadata tells their size.*)
LEMMA WholeDownload ==
  ASSUME NEW c \in Chunks, NEW p \in Puts, c \in ChunksOf[p], data[c] = p, seen[c] = p
  PROVE  Downloaded(c) = Content[p][c]
<1> DEFINE s == Content[p][c]
<1>1. s \in Seq(Range(s))
  BY ReadAssumption
<1> HIDE DEF s
<1>2. SubSeq(s, 1, Len(s)) = s
  BY <1>1
<1> QED
  BY <1>2 DEF Downloaded, s

(* All the blocks there are.                                             *)
Blocks == UNION {Range(Content[k[1]][k[2]]) : k \in {q \in Puts \X Chunks : q[2] \in ChunksOf[q[1]]}}

LEMMA ContentType ==
  ASSUME NEW p \in Puts, NEW c \in ChunksOf[p]
  PROVE  Content[p][c] \in Seq(Blocks)
<1> DEFINE s == Content[p][c]
           S == Range(s)
<1>1. s \in Seq(S)
  BY ReadAssumption
<1>2. S \subseteq Blocks
  <2>1. <<p, c>> \in {q \in Puts \X Chunks : q[2] \in ChunksOf[q[1]]}
    BY Constants
  <2> QED
    BY <2>1 DEF Blocks
<1> HIDE DEF s, S
<1>3. s \in Seq(Blocks)
  BY <1>1, <1>2, SeqMonotonic
<1> QED
  BY <1>3 DEF s

-----------------------------------------------------------------------------
(* What Join makes of n sequences over S: their elements, at least as many *)
(* as of shorter ones, and more than of the first m of them.               *)
LEMMA ConcatRange ==
  ASSUME NEW S, NEW s \in Seq(S), NEW t \in Seq(S)
  PROVE  Range(s \o t) = Range(s) \cup Range(t)
<1>1. /\ Len(s \o t) = Len(s) + Len(t) /\ Len(s) \in Nat /\ Len(t) \in Nat
      /\ \A i \in 1..(Len(s) + Len(t)) :
           (s \o t)[i] = IF i <= Len(s) THEN s[i] ELSE t[i - Len(s)]
      /\ DOMAIN s = 1..Len(s) /\ DOMAIN t = 1..Len(t)
      /\ DOMAIN (s \o t) = 1..(Len(s) + Len(t))
  OBVIOUS
<1> DEFINE u == s \o t
<1> HIDE DEF u
<1>2. /\ Len(s) \in Nat /\ Len(t) \in Nat
      /\ \A i \in 1..(Len(s) + Len(t)) : u[i] = IF i <= Len(s) THEN s[i] ELSE t[i - Len(s)]
      /\ DOMAIN s = 1..Len(s) /\ DOMAIN t = 1..Len(t) /\ DOMAIN u = 1..(Len(s) + Len(t))
  BY <1>1 DEF u
<1>3. ASSUME NEW x \in Range(u)
      PROVE  x \in Range(s) \cup Range(t)
  <2>1. PICK i \in 1..(Len(s) + Len(t)) : x = u[i]
    BY <1>2 DEF Range
  <2>2. CASE i <= Len(s)
    BY <1>2, <2>1, <2>2 DEF Range
  <2>3. CASE ~ (i <= Len(s))
    <3>1. i - Len(s) \in 1..Len(t)
      BY <1>2, <2>3
    <3> QED
      BY <1>2, <2>1, <2>3, <3>1 DEF Range
  <2> QED
    BY <2>2, <2>3
<1>4. ASSUME NEW x \in Range(s)
      PROVE  x \in Range(u)
  <2>1. PICK i \in 1..Len(s) : x = s[i]
    BY <1>2 DEF Range
  <2>2. i \in 1..(Len(s) + Len(t)) /\ i <= Len(s)
    BY <1>2
  <2> QED
    BY <1>2, <2>1, <2>2 DEF Range
<1>5. ASSUME NEW x \in Range(t)
      PROVE  x \in Range(u)
  <2>1. PICK i \in 1..Len(t) : x = t[i]
    BY <1>2 DEF Range
  <2>2. /\ i + Len(s) \in 1..(Len(s) + Len(t)) /\ ~ (i + Len(s) <= Len(s))
        /\ (i + Len(s)) - Len(s) = i
    BY <1>2
  <2>3. u[i + Len(s)] = t[i]
    BY <1>2, <2>2
  <2> QED
    BY <1>2, <2>1, <2>2, <2>3 DEF Range
<1> QED
  BY <1>3, <1>4, <1>5 DEF u

LEMMA JoinElements ==
  ASSUME NEW S, NEW f, NEW n \in Nat, \A i \in 0 .. n - 1 : f[i] \in Seq(S)
  PROVE  /\ Join(f, n) \in Seq(S)
         /\ \A x : x \in Range(Join(f, n)) <=> \E i \in 0 .. n - 1 : x \in Range(f[i])
<1> DEFINE Good(m) ==
             /\ Join(f, m) \in Seq(S)
             /\ \A x : x \in Range(Join(f, m)) <=> \E i \in 0 .. m - 1 : x \in Range(f[i])
           T == {m \in Nat : m <= n => Good(m)}
<1>1. 0 \in T
  <2>1. 0 .. 0 - 1 = {} /\ Join(f, 0) = <<>>
    BY JoinNone
  <2>2. <<>> \in Seq(S) /\ Range(<<>>) = {}
    BY EmptySeq DEF Range
  <2> QED
    BY <2>1, <2>2
<1>2. ASSUME NEW m \in Nat, m \in T
      PROVE  m + 1 \in T
  <2> SUFFICES ASSUME m + 1 <= n PROVE Good(m + 1)
    OBVIOUS
  <2>1. /\ m <= n /\ \A i \in 0..m : i \in 0 .. n - 1
        /\ \A i : i \in 0 .. (m + 1) - 1 <=> i \in 0 .. m - 1 \/ i = m
    OBVIOUS
  <2>2. Good(m)
    BY <1>2, <2>1
  <2>3. f[m] \in Seq(S) /\ \A i \in 0..m : f[i] \in Seq(S)
    BY <2>1
  <2>4. Join(f, m + 1) = Join(f, m) \o f[m]
    BY <2>3, JoinNext
  <2> DEFINE a == Join(f, m)
             b == f[m]
  <2>5. a \in Seq(S) /\ b \in Seq(S) /\ Join(f, m + 1) = a \o b
    BY <2>2, <2>3, <2>4
  <2> HIDE DEF a, b
  <2>6. Range(a \o b) = Range(a) \cup Range(b) /\ a \o b \in Seq(S)
    BY <2>5, ConcatRange, ConcatProperties
  <2> DEFINE R(i) == Range(f[i])
  <2>7. (\A x : x \in Range(a) <=> \E i \in 0 .. m - 1 : x \in R(i)) /\ Range(b) = R(m)
    BY <2>2 DEF a, b
  <2> HIDE DEF R
  <2>8. \A x : x \in Range(a \o b) <=> \E i \in 0 .. (m + 1) - 1 : x \in R(i)
    BY <2>1, <2>6, <2>7
  <2> QED
    BY <2>5, <2>6, <2>8 DEF R
<1>3. n \in T
  <2> HIDE DEF T
  <2> QED
    BY <1>1, <1>2, NatInSet
<1> QED
  BY <1>3

LEMMA JoinLonger ==
  ASSUME NEW S, NEW f, NEW g, NEW n \in Nat, NEW m \in 0..n,
         \A i \in 0 .. m - 1 : f[i] \in Seq(S) /\ Len(f[i]) <= Len(g[i]),
         \A i \in 0 .. n - 1 : g[i] \in Seq(S) /\ g[i] # <<>>
  PROVE  /\ Len(Join(f, m)) <= Len(Join(g, n))
         /\ m < n => Len(Join(f, m)) < Len(Join(g, n))
<1>1. ASSUME NEW k \in 0 .. n - 1
      PROVE  /\ Len(Join(g, k)) \in Nat /\ Len(g[k]) \in Nat \ {0}
             /\ Len(Join(g, k + 1)) = Len(Join(g, k)) + Len(g[k])
  <2>1. /\ \A i \in 0..k : g[i] \in Seq(S)
        /\ \A i \in 0 .. k - 1 : g[i] \in Seq(S)
        /\ k \in Nat /\ g[k] \in Seq(S) /\ g[k] # <<>>
    OBVIOUS
  <2>2. Join(g, k + 1) = Join(g, k) \o g[k]
    BY <2>1, JoinNext
  <2>3. Join(g, k) \in Seq(S)
    BY <2>1, JoinElements
  <2>4. Len(g[k]) \in Nat /\ Len(g[k]) # 0
    BY <2>1, EmptySeq
  <2> QED
    BY <2>1, <2>2, <2>3, <2>4, ConcatProperties, LenProperties
<1>2. ASSUME NEW k \in 0 .. m - 1
      PROVE  /\ Len(Join(f, k)) \in Nat /\ Len(f[k]) \in Nat /\ Len(f[k]) <= Len(g[k])
             /\ Len(Join(f, k + 1)) = Len(Join(f, k)) + Len(f[k])
  <2>1. /\ \A i \in 0..k : f[i] \in Seq(S)
        /\ \A i \in 0 .. k - 1 : f[i] \in Seq(S)
        /\ k \in Nat /\ f[k] \in Seq(S)
    OBVIOUS
  <2>2. Join(f, k + 1) = Join(f, k) \o f[k]
    BY <2>1, JoinNext
  <2>3. Join(f, k) \in Seq(S)
    BY <2>1, JoinElements
  <2> QED
    BY <2>1, <2>2, <2>3, ConcatProperties, LenProperties
<1>3. Len(Join(f, 0)) = 0 /\ Len(Join(g, 0)) = 0
  BY JoinNone, EmptySeq
<1> DEFINE F(k) == Len(Join(f, k))
           G(k) == Len(Join(g, k))
           T == {k \in Nat : /\ k <= m => F(k) <= G(k) /\ F(k) \in Nat
                             /\ k \in m..n => F(m) <= G(k)
                             /\ k \in m..n /\ m < k => F(m) < G(k)
                             /\ k <= n => G(k) \in Nat}
<1> HIDE DEF F, G
<1>4. 0 \in T
  BY <1>3 DEF F, G
<1>5. ASSUME NEW k \in Nat, k \in T
      PROVE  k + 1 \in T
  <2>1. k \in 0 .. n - 1 => G(k) \in Nat /\ Len(g[k]) \in Nat \ {0} /\ G(k + 1) = G(k) + Len(g[k])
    BY <1>1 DEF G
  <2>2. k \in 0 .. m - 1 => /\ F(k) \in Nat /\ Len(f[k]) \in Nat /\ Len(f[k]) <= Len(g[k])
                            /\ F(k + 1) = F(k) + Len(f[k])
    BY <1>2 DEF F
  <2> DEFINE x == Len(g[k])
             y == Len(f[k])
  <2> HIDE DEF x, y
  <2>3. k \in 0 .. n - 1 => G(k) \in Nat /\ x \in Nat \ {0} /\ G(k + 1) = G(k) + x
    BY <2>1 DEF x
  <2>4. k \in 0 .. m - 1 => F(k) \in Nat /\ y \in Nat /\ y <= x /\ F(k + 1) = F(k) + y
    BY <2>2 DEF x, y
  <2>5. k + 1 <= m => F(k + 1) <= G(k + 1) /\ F(k + 1) \in Nat
    BY <1>5, <2>3, <2>4
  <2>6. k + 1 <= n => G(k + 1) \in Nat
    BY <1>5, <2>3
  <2>7. ASSUME k + 1 \in m..n
        PROVE  F(m) <= G(k + 1) /\ (m < k + 1 => F(m) < G(k + 1))
    <3>1. CASE m = k + 1
      BY <2>5, <3>1
    <3>2. CASE m # k + 1
      <4>1. k \in m..n /\ k \in 0 .. n - 1 /\ m \in Nat
        BY <2>7, <3>2
      <4>2. F(m) <= G(k)
        BY <1>5, <4>1
      <4>3. F(m) \in Nat
        <5>1. CASE m = k
          BY <1>5, <5>1
        <5>2. CASE m # k
          BY <1>2 DEF F
        <5> QED
          BY <5>1, <5>2
      <4> QED
        BY <2>3, <4>1, <4>2, <4>3
    <3> QED
      BY <3>1, <3>2
  <2> QED
    BY <2>5, <2>6, <2>7
<1>6. n \in T
  <2> HIDE DEF T
  <2> QED
    BY <1>4, <1>5, NatInSet
<1> QED
  BY <1>6 DEF F, G

-----------------------------------------------------------------------------
ReaderTypes ==
  /\ situation \in Situations /\ MaxRetries \in Nat /\ Old \in Puts \cup {None}
  /\ call \in {"idle", "probing", "fetching", "ok", "err"}
  /\ probes \in 0..MaxRetries /\ total \in 0..Cardinality(Chunks)
  /\ fetch \in [Chunks -> FetchStates] /\ seen \in [Chunks -> Puts \cup {None}]
  /\ pieces = [c \in Chunks |-> pieces[c]]
  /\ \A c \in Chunks : pieces[c][1] \in Puts \cup {None}
  /\ tries \in [Chunks -> 0..MaxRetries]

(* Where a coroutine is tells what its last attempt has found, and how     *)
(* often it has tried.                                                     *)
Counted ==
  /\ call = "idle" => probes = 0
  /\ call = "probing" => probes < MaxRetries
  /\ call \in {"idle", "probing"} => \A c \in Chunks : tries[c] = 0
  /\ call = "fetching" => \A c \in Chunks :
       fetch[c] \in {"waiting", "asking", "reading"} => tries[c] < MaxRetries

Found(c) == /\ fetch[c] = "reading" => seen[c] \in Puts
            /\ fetch[c] = "fetched" => pieces[c][1] \in Puts
            /\ fetch[c] = "failed" => tries[c] = MaxRetries

(* get fetches the first chunk too, and has compared what it answers with  *)
(* the value that the first chunk is of.                                   *)
Compared ==
  operation = "get" =>
    /\ call = "fetching" => 0 \in Chunks /\ fetch[0] # "idle"
    /\ call = "ok" => pieces[0][1] \in Puts /\ Fetched = Value(pieces[0][1])

ReaderInv == ReaderTypes /\ Counted /\ (\A c \in Chunks : Found(c)) /\ Compared

LEMMA InitReader == Init => ReaderInv
<1> SUFFICES ASSUME Init PROVE ReaderInv
  OBVIOUS
<1>1. situation \in Situations /\ MaxRetries \in Nat /\ Old \in Puts \cup {None}
  BY ReadAssumption DEF Init, ReadInit, MaxRetries, Old
<1>2. Cardinality(Chunks) \in Nat
  BY ReadAssumption, FS_CardinalityType
<1>3. ReaderTypes
  BY <1>1, <1>2 DEF Init, ReadInit, ReaderTypes, FetchStates
<1>4. Counted /\ \A c \in Chunks : Found(c)
  BY <1>1 DEF Init, ReadInit, Counted, Found
<1>5. Compared
  BY DEF Init, ReadInit, Compared
<1> QED
  BY <1>3, <1>4, <1>5 DEF ReaderInv

(* The call, its probing, or nothing of the reader moves on.               *)
LEMMA CallMoves ==
  ASSUME ReaderInv, UNCHANGED <<situation, total, fetch, seen, pieces, tries>>,
         call' \in {"idle", "probing", "fetching", "ok", "err"},
         probes' \in 0..MaxRetries,
         call' = "probing" => call \in {"idle", "probing"} /\ probes' < MaxRetries,
         call' \in {"idle", "fetching"} => call' = call /\ probes' = probes,
         call' = "ok" /\ operation = "get" =>
           pieces[0][1] \in Puts /\ Fetched = Value(pieces[0][1])
  PROVE  ReaderInv'
<1> USE DEF ReaderInv
<1>1. operation' = operation /\ MaxRetries' = MaxRetries /\ Old' = Old /\ Fetched' = Fetched
  BY DEF operation, MaxRetries, Old, Fetched
<1>2. ReaderTypes' /\ Counted' /\ \A c \in Chunks : Found(c)'
  BY <1>1 DEF ReaderTypes, Counted, Found
<1>3. Compared'
  BY <1>1 DEF Compared
<1> QED
  BY <1>2, <1>3

(* One coroutine moves on.                                                 *)
LEMMA FetchMoves ==
  ASSUME ReaderInv, call = "fetching", NEW c \in Chunks, NEW s \in FetchStates \ {"idle"},
         fetch' = [fetch EXCEPT ![c] = s],
         UNCHANGED <<situation, call, probes, total>>,
         seen' \in [Chunks -> Puts \cup {None}], tries' \in [Chunks -> 0..MaxRetries],
         pieces' = [d \in Chunks |-> pieces'[d]], pieces'[c][1] \in Puts \cup {None},
         \A d \in Chunks \ {c} : /\ seen'[d] = seen[d] /\ pieces'[d] = pieces[d]
                                 /\ tries'[d] = tries[d],
         s \in {"waiting", "asking", "reading"} => tries'[c] < MaxRetries,
         Found(c)'
  PROVE  ReaderInv'
<1> USE DEF ReaderInv
<1>1. operation' = operation /\ MaxRetries' = MaxRetries /\ Old' = Old
  BY DEF operation, MaxRetries, Old
<1>2. ReaderTypes'
  BY <1>1 DEF ReaderTypes
<1>3. Counted'
  BY <1>1 DEF ReaderTypes, Counted
<1>4. \A d \in Chunks : Found(d)'
  BY <1>1 DEF ReaderTypes, Found
<1>5. Compared'
  BY <1>1 DEF ReaderTypes, Compared
<1> QED
  BY <1>2, <1>3, <1>4, <1>5

LEMMA ProbeAnsweredKeeps ==
  ASSUME StoreInv, ReaderInv, ProbeAnswered(Wanted), UNCHANGED tries
  PROVE  ReaderInv'
<1> USE DEF ReaderInv
<1> DEFINE p == meta[ProbeIndex]
           n == Cardinality(ChunksOf[p])
<1>1. p \in Puts /\ ProbeIndex \in ChunksOf[p] /\ p # None
  BY Constants DEF ProbeAnswered, StoreInv, StoreTypes
<1>2. n \in 0..Cardinality(Chunks) /\ n \in Nat /\ ChunksOf[p] = 0 .. n - 1
  BY <1>1, FirstChunk
<1>3. 0 \in Chunks /\ 0 < n
  BY <1>1, <1>2, Constants
<1>4. /\ call = "probing" /\ call' = "fetching" /\ total' = n
      /\ fetch' = [c \in Chunks |-> IF c \in Wanted THEN "waiting" ELSE "idle"]
      /\ UNCHANGED <<situation, probes, seen, pieces, tries>>
  BY DEF ProbeAnswered
<1>5. operation' = operation /\ MaxRetries' = MaxRetries /\ Old' = Old
  BY <1>4 DEF operation, MaxRetries, Old
<1>6. operation = "get" => 0 \in Wanted
  BY <1>3 DEF Wanted
<1>7. \A c \in Chunks : tries[c] = 0
  BY <1>4 DEF Counted
<1>8. 0 < MaxRetries
  BY <1>4 DEF Counted, ReaderTypes
<1> HIDE DEF n, p
<1>9. ReaderTypes' /\ Counted' /\ \A c \in Chunks : Found(c)'
  BY <1>2, <1>4, <1>5, <1>7, <1>8 DEF ReaderTypes, Counted, Found, FetchStates
<1>10. Compared'
  BY <1>3, <1>4, <1>5, <1>6 DEF Compared
<1> QED
  BY <1>9, <1>10

LEMMA FinishKeeps ==
  ASSUME ReaderInv, Finish
  PROVE  ReaderInv'
<1> USE DEF ReaderInv
<1>1. /\ call = "fetching" /\ call' \in {"ok", "err"}
      /\ UNCHANGED <<situation, probes, total, fetch, seen, pieces, tries>>
      /\ call' = "ok" => Intact /\ \A c \in Chunks : fetch[c] \in {"idle", "fetched"}
  BY DEF Finish
<1>2. ASSUME call' = "ok", operation = "get"
      PROVE  pieces[0][1] \in Puts /\ Fetched = Value(pieces[0][1])
  <2>1. 0 \in Chunks /\ fetch[0] = "fetched"
    BY <1>1, <1>2 DEF Compared
  <2> QED
    BY <1>1, <1>2, <2>1 DEF Intact, Found
<1>3. probes' \in 0..MaxRetries
  BY <1>1 DEF ReaderTypes
<1> QED
  BY <1>1, <1>2, <1>3, CallMoves

LEMMA StepReader == StoreInv /\ ReaderInv /\ [Next]_vars => ReaderInv'
<1> SUFFICES ASSUME StoreInv, ReaderInv, [Next]_vars PROVE ReaderInv'
  OBVIOUS
<1>1. ReaderTypes /\ Counted /\ \A c \in Chunks : Found(c)
  BY DEF ReaderInv
<1>2. ASSUME UNCHANGED readVars, UNCHANGED tries
      PROVE  ReaderInv'
  BY <1>1, <1>2, CallMoves DEF ReaderTypes, Counted, ReaderInv, Compared, readVars
<1>3. CASE StartCall /\ UNCHANGED tries
  <2>1. /\ call = "idle" /\ call' = IF MaxRetries = 0 THEN "err" ELSE "probing"
        /\ UNCHANGED <<situation, probes, total, fetch, seen, pieces, tries>>
    BY <1>3 DEF StartCall
  <2>2. probes' \in 0..MaxRetries /\ (call' = "probing" => probes' < MaxRetries)
    BY <1>1, <2>1 DEF ReaderTypes, Counted
  <2> QED
    BY <2>1, <2>2, CallMoves
<1>4. CASE ProbeAnswered(Wanted) /\ UNCHANGED tries
  BY <1>4, ProbeAnsweredKeeps
<1>5. CASE ProbeFails /\ UNCHANGED tries
  <2>1. /\ call = "probing" /\ probes' = probes + 1
        /\ call' = IF probes + 1 < MaxRetries THEN "probing" ELSE "err"
        /\ UNCHANGED <<situation, total, fetch, seen, pieces, tries>>
    BY <1>5 DEF ProbeFails
  <2>2. probes' \in 0..MaxRetries /\ (call' = "probing" => probes' < MaxRetries)
    BY <1>1, <2>1 DEF ReaderTypes, Counted
  <2> QED
    BY <2>1, <2>2, CallMoves
<1>6. ASSUME NEW c \in Chunks, Acquire(c), UNCHANGED tries
      PROVE  ReaderInv'
  <2>1. /\ call = "fetching" /\ fetch[c] = "waiting"
        /\ fetch' = [fetch EXCEPT ![c] = "asking"]
        /\ UNCHANGED <<situation, call, probes, total, seen, pieces, tries>>
    BY <1>6 DEF Acquire
  <2>2. tries[c] < MaxRetries /\ Found(c)'
    BY <1>1, <2>1 DEF Counted, Found, ReaderTypes
  <2> QED
    BY <1>1, <2>1, <2>2, FetchMoves DEF ReaderTypes, FetchStates
<1>7. ASSUME NEW c \in Chunks, AskMetadata(c), UNCHANGED tries
      PROVE  ReaderInv'
  <2>1. /\ call = "fetching" /\ fetch[c] = "asking" /\ meta[c] # None
        /\ fetch' = [fetch EXCEPT ![c] = "reading"]
        /\ seen' = [seen EXCEPT ![c] = meta[c]]
        /\ UNCHANGED <<situation, call, probes, total, pieces, tries>>
    BY <1>7 DEF AskMetadata
  <2>2. meta[c] \in Puts
    BY <2>1 DEF StoreInv, StoreTypes
  <2>3. tries[c] < MaxRetries /\ Found(c)'
    BY <1>1, <2>1, <2>2 DEF Counted, Found, ReaderTypes
  <2> QED
    BY <1>1, <2>1, <2>2, <2>3, FetchMoves DEF ReaderTypes, FetchStates
<1>8. ASSUME NEW c \in Chunks, ReadData(c), UNCHANGED tries
      PROVE  ReaderInv'
  <2>1. /\ call = "fetching" /\ fetch[c] = "reading"
        /\ fetch' = [fetch EXCEPT ![c] = "fetched"]
        /\ pieces' = [pieces EXCEPT ![c] = <<seen[c], Downloaded(c)>>]
        /\ UNCHANGED <<situation, call, probes, total, seen, tries>>
    BY <1>8 DEF ReadData
  <2>2. seen[c] \in Puts
    BY <1>1, <2>1 DEF Found
  <2>3. /\ pieces' = [d \in Chunks |-> pieces'[d]] /\ pieces'[c][1] = seen[c]
        /\ \A d \in Chunks \ {c} : pieces'[d] = pieces[d]
    BY <1>1, <2>1 DEF ReaderTypes
  <2>4. Found(c)'
    BY <1>1, <2>1, <2>2, <2>3 DEF Found, ReaderTypes
  <2> QED
    BY <1>1, <2>1, <2>2, <2>3, <2>4, FetchMoves DEF ReaderTypes, FetchStates
<1>9. ASSUME NEW c \in Chunks, Miss(c)
      PROVE  ReaderInv'
  <2> DEFINE s == IF tries[c] + 1 < MaxRetries THEN "waiting" ELSE "failed"
  <2>1. /\ call = "fetching" /\ fetch[c] \in {"asking", "reading"}
        /\ tries' = [tries EXCEPT ![c] = tries[c] + 1]
        /\ fetch' = [fetch EXCEPT ![c] = s]
        /\ UNCHANGED <<situation, call, probes, total, seen, pieces>>
    BY <1>9 DEF Miss, Misses
  <2>2. tries[c] \in Nat /\ tries[c] < MaxRetries /\ MaxRetries \in Nat
    BY <1>1, <2>1 DEF ReaderTypes, Counted
  <2>3. /\ tries' \in [Chunks -> 0..MaxRetries] /\ tries'[c] = tries[c] + 1
        /\ \A d \in Chunks \ {c} : tries'[d] = tries[d]
    BY <1>1, <2>1, <2>2 DEF ReaderTypes
  <2>4. /\ s \in FetchStates \ {"idle"} /\ s \in {"waiting", "failed"}
        /\ s = "waiting" => tries'[c] < MaxRetries
        /\ s = "failed" => tries'[c] = MaxRetries
    BY <2>2, <2>3 DEF FetchStates
  <2> HIDE DEF s
  <2>5. fetch'[c] = s /\ MaxRetries' = MaxRetries
    BY <1>1, <2>1 DEF ReaderTypes, MaxRetries
  <2>6. Found(c)'
    BY <2>4, <2>5 DEF Found
  <2>7. s \in {"waiting", "asking", "reading"} => tries'[c] < MaxRetries
    BY <2>4
  <2> QED
    BY <1>1, <2>1, <2>3, <2>4, <2>6, <2>7, FetchMoves DEF ReaderTypes
<1>10. CASE Finish
  BY <1>10, FinishKeeps
<1>11. CASE UNCHANGED vars
  BY <1>2, <1>11 DEF vars
<1>12. CASE WriterStep /\ UNCHANGED tries
  BY <1>2, <1>12 DEF WriterStep
<1> QED
  BY <1>3, <1>4, <1>5, <1>6, <1>7, <1>8, <1>9, <1>10, <1>11, <1>12
  DEF Next, Step, ReaderStep, FetchStep

-----------------------------------------------------------------------------
GetInv == StoreInv /\ ReaderInv

LEMMA GetInvariant == Spec => []GetInv
<1>1. Init => GetInv
  BY InitStore, InitReader DEF Init, GetInv
<1>2. GetInv /\ [Next]_vars => GetInv'
  <2> SUFFICES ASSUME GetInv, [Next]_vars PROVE GetInv'
    OBVIOUS
  <2>1. [StoreNext]_storeVars
    BY DEF Next, Step, WriterStep, ReaderStep, FetchStep, StartCall, ProbeAnswered,
           ProbeFails, Acquire, AskMetadata, ReadData, Miss, Finish, vars, storeVars
  <2> QED
    BY <2>1, StoreStep, StepReader DEF GetInv
<1> QED
  BY <1>1, <1>2, PTL DEF Spec

(* The state of readers and writers keeps its types; no chunk is tried, and*)
(* no first metadata asked for, more than MaxRetries times.                *)
THEOREM GetTypeCorrect == Spec => []TypeOK
<1>1. GetInv => TypeOK
  BY DEF GetInv, StoreInv, StoreTypes, ReaderInv, ReaderTypes, TypeOK
<1> QED
  BY <1>1, GetInvariant, PTL

-----------------------------------------------------------------------------
(* A ball at rest: no call but the one that stored it has begun.           *)
AtEase == Old # None /\ \A k \in Calls \ {Old} : phase[k] = "idle"

Excuse == probes = MaxRetries \/ \E c \in ChunksOf[Old] : tries[c] = MaxRetries

(* Every coroutine is of a chunk of the value and finds this value.        *)
OldFound(c) == /\ meta[c] = IF c \in ChunksOf[Old] THEN Old ELSE None
               /\ data[c] = meta[c]
               /\ fetch[c] # "idle" => c \in ChunksOf[Old]
               /\ fetch[c] = "reading" => seen[c] = Old
               /\ fetch[c] = "fetched" => pieces[c] = <<Old, Content[Old][c]>>

RestInv ==
  AtEase => /\ phase[Old] = "ok"
            /\ \A c \in Chunks : OldFound(c)
            /\ call = "fetching" =>
                 /\ total = Cardinality(ChunksOf[Old])
                 /\ operation = "get" => \A c \in ChunksOf[Old] : fetch[c] # "idle"
            /\ call = "err" => Excuse

LEMMA InitRest == Init => RestInv
<1> SUFFICES ASSUME Init, AtEase
             PROVE  /\ phase[Old] = "ok" /\ \A c \in Chunks : OldFound(c)
                    /\ call = "idle"
  BY DEF RestInv
<1>1. Old \in Calls
  BY ReadAssumption DEF Init, ReadInit, Old, AtEase, Calls
<1> QED
  BY <1>1 DEF Init, ReadInit, OldFound, AtEase

(* No call of the others begins without ending the rest.                   *)
LEMMA RestIsStill ==
  ASSUME GetInv, RestInv, AtEase', [StoreNext]_storeVars, UNCHANGED situation
  PROVE  AtEase /\ UNCHANGED storeVars
<1>1. Old' = Old /\ Old # None
  BY DEF Old, AtEase
<1>2. phase \in [Calls -> {"idle", "uploading", "erasing", "ok", "err"}]
  BY DEF GetInv, StoreInv, StoreTypes
<1>3. ASSUME NEW k \in Calls, NEW s, s # "idle", phase' = [phase EXCEPT ![k] = s]
      PROVE  k = Old
  BY <1>1, <1>2, <1>3 DEF AtEase
<1>4. ASSUME NEW k \in Calls, phase[k] # "idle", UNCHANGED phase
      PROVE  k = Old
  BY <1>1, <1>4 DEF AtEase
<1>5. AtEase
  <2>1. CASE UNCHANGED phase
    BY <1>1, <2>1 DEF AtEase
  <2>2. CASE phase' # phase
    <3>1. PICK k \in Calls, s \in {"uploading", "erasing", "ok", "err"} :
            phase' = [phase EXCEPT ![k] = s]
      BY <2>2 DEF StoreNext, storeVars, Post, Upload, Erase, GiveUp, Begin, ReturnOk,
                  ReturnErr, Become, Calls
    <3>2. k = Old
      BY <1>3, <3>1
    <3> QED
      BY <1>1, <1>2, <3>1, <3>2 DEF AtEase
  <2> QED
    BY <2>1, <2>2
<1>6. phase[Old] = "ok"
  BY <1>5 DEF RestInv
<1>7. ASSUME NEW k \in Calls
      PROVE  phase[k] \in {"idle", "ok"} /\ phase'[k] \in {"idle", phase'[Old]}
  BY <1>1, <1>5, <1>6 DEF AtEase
<1>8. ~ \E p \in Puts, c \in Chunks : Post(p, c) \/ Upload(p, c)
  BY <1>7 DEF Post, Upload, Calls
<1>9. ~ \E k \in Calls, c \in Chunks : Erase(k, c)
  BY <1>7 DEF Erase
<1>10. ASSUME NEW k \in Calls, Begin(k) \/ ReturnOk(k) \/ ReturnErr(k) \/ GiveUp(k)
       PROVE  FALSE
  <2>1. PICK s \in {"uploading", "erasing", "ok", "err"} :
          phase' = [phase EXCEPT ![k] = s]
    BY <1>10 DEF Begin, ReturnOk, ReturnErr, GiveUp, Become
  <2>2. k = Old
    BY <1>3, <2>1
  <2> QED
    BY <1>6, <1>10, <2>2 DEF Begin, ReturnOk, ReturnErr, GiveUp, Become
<1>11. \A p \in Puts : p \in Calls
  BY DEF Calls
<1> QED
  BY <1>5, <1>8, <1>9, <1>10, <1>11 DEF StoreNext

(* When every chunk of the value is there, the checksums agree.            *)
LEMMA RestIntact ==
  ASSUME GetInv, RestInv, AtEase, call = "fetching",
         \A c \in Chunks : fetch[c] # "idle" => fetch[c] = "fetched"
  PROVE  Intact
<1> SUFFICES ASSUME operation = "get" PROVE Fetched = Value(pieces[0][1])
  BY DEF Intact
<1> DEFINE n == Cardinality(ChunksOf[Old])
           f == [c \in Chunks |-> pieces[c][2]]
           g == Content[Old]
<1>1. Old \in Puts
  BY DEF GetInv, ReaderInv, ReaderTypes, AtEase
<1>2. n \in Nat /\ ChunksOf[Old] = 0 .. n - 1 /\ ChunksOf[Old] \subseteq Chunks
  BY <1>1, FirstChunk, Constants
<1>3. total = n /\ \A c \in ChunksOf[Old] : fetch[c] # "idle"
  BY DEF RestInv
<1>4. \A c \in ChunksOf[Old] : pieces[c] = <<Old, g[c]>>
  BY <1>2, <1>3 DEF RestInv, OldFound
<1>5. 0 \in ChunksOf[Old]
  BY DEF GetInv, ReaderInv, Compared, RestInv, OldFound
<1>6. pieces[0][1] = Old
  BY <1>4, <1>5
<1> HIDE DEF g
<1>7. \A i \in 1..n : f[i - 1] = g[i - 1]
  <2> SUFFICES ASSUME NEW i \in 1..n PROVE f[i - 1] = g[i - 1]
    OBVIOUS
  <2>1. i - 1 \in ChunksOf[Old] /\ i - 1 \in Chunks
    BY <1>2
  <2> QED
    BY <1>4, <2>1
<1> HIDE DEF f
<1>8. Join(f, n) = Join(g, n)
  BY <1>2, <1>7, JoinSame
<1>9. Fetched = Join(f, n) /\ Value(Old) = Join(g, n)
  BY <1>3 DEF Fetched, Value, f, g
<1> QED
  BY <1>6, <1>8, <1>9

(* The reader moves on beside a store that is still.                       *)
LEMMA RestMoves ==
  ASSUME GetInv, RestInv, AtEase, UNCHANGED storeVars, UNCHANGED situation,
         \A c \in Chunks : /\ fetch'[c] # "idle" => c \in ChunksOf[Old]
                           /\ fetch'[c] = "reading" => seen'[c] = Old
                           /\ fetch'[c] = "fetched" => pieces'[c] = <<Old, Content[Old][c]>>,
         call' = "fetching" =>
           /\ total' = Cardinality(ChunksOf[Old])
           /\ operation = "get" => \A c \in ChunksOf[Old] : fetch'[c] # "idle",
         call' = "err" => Excuse'
  PROVE  RestInv'
<1>1. Old' = Old /\ operation' = operation
  BY DEF Old, operation
<1>2. UNCHANGED <<meta, data, phase>>
  BY DEF storeVars
<1> QED
  BY <1>1, <1>2 DEF RestInv, OldFound

LEMMA StepRest == GetInv /\ RestInv /\ [Next]_vars => RestInv'
<1> SUFFICES ASSUME GetInv, RestInv, [Next]_vars, AtEase' PROVE RestInv'
  BY DEF RestInv
<1>1. [StoreNext]_storeVars /\ UNCHANGED situation
  BY DEF Next, Step, WriterStep, ReaderStep, FetchStep, StartCall, ProbeAnswered,
         ProbeFails, Acquire, AskMetadata, ReadData, Miss, Finish, vars, storeVars, readVars
<1>2. AtEase /\ UNCHANGED storeVars
  BY <1>1, RestIsStill
<1>3. Old \in Puts /\ Old' = Old /\ MaxRetries' = MaxRetries /\ MaxRetries \in Nat
  BY <1>1, <1>2 DEF GetInv, ReaderInv, ReaderTypes, AtEase, Old, MaxRetries
<1>4. \A c \in Chunks : OldFound(c)
  BY <1>2 DEF RestInv
<1>5. ReaderTypes /\ Counted /\ \A c \in Chunks : Found(c)
  BY DEF GetInv, ReaderInv
<1>6. ASSUME UNCHANGED <<call, probes, total, fetch, seen, pieces, tries>>
      PROVE  RestInv'
  BY <1>1, <1>2, <1>3, <1>4, <1>6, RestMoves DEF RestInv, OldFound, Excuse
<1>7. ASSUME UNCHANGED <<total, fetch, seen, pieces, tries>>,
             call' = "fetching" => call = "fetching", call' = "err" => Excuse'
      PROVE  RestInv'
  BY <1>1, <1>2, <1>3, <1>4, <1>7, RestMoves DEF RestInv, OldFound
<1>8. CASE StartCall /\ UNCHANGED tries
  <2>1. call = "idle" /\ call' = (IF MaxRetries = 0 THEN "err" ELSE "probing")
        /\ UNCHANGED <<probes, total, fetch, seen, pieces, tries>>
    BY <1>8 DEF StartCall
  <2>2. probes = 0
    BY <1>5, <2>1 DEF Counted
  <2> QED
    BY <1>3, <1>7, <2>1, <2>2 DEF Excuse
<1>9. CASE ProbeFails /\ UNCHANGED tries
  <2>1. call = "probing" /\ call' = (IF probes + 1 < MaxRetries THEN "probing" ELSE "err")
        /\ probes' = probes + 1 /\ UNCHANGED <<total, fetch, seen, pieces, tries>>
    BY <1>9 DEF ProbeFails
  <2>2. probes < MaxRetries /\ probes \in Nat
    BY <1>3, <1>5, <2>1 DEF Counted, ReaderTypes
  <2> QED
    BY <1>3, <1>7, <2>1, <2>2 DEF Excuse
<1>10. CASE ProbeAnswered(Wanted) /\ UNCHANGED tries
  <2>1. /\ meta[ProbeIndex] # None /\ call' = "fetching"
        /\ total' = Cardinality(ChunksOf[meta[ProbeIndex]])
        /\ fetch' = [c \in Chunks |-> IF c \in Wanted THEN "waiting" ELSE "idle"]
    BY <1>10 DEF ProbeAnswered
  <2>2. meta[ProbeIndex] = Old /\ ProbeIndex \in ChunksOf[Old]
    BY <1>4, <2>1, Constants DEF OldFound
  <2>3. ChunksOf[Old] = {c \in Chunks : c < Cardinality(ChunksOf[Old])}
    BY <1>3, ReadAssumption
  <2>4. Wanted \subseteq ChunksOf[Old] /\ (operation = "get" => Wanted = ChunksOf[Old])
    BY <2>2, <2>3 DEF Wanted
  <2>5. \A c \in Chunks : /\ fetch'[c] \in {"waiting", "idle"}
                          /\ fetch'[c] # "idle" <=> c \in Wanted
    BY <2>1
  <2>6. ChunksOf[Old] \subseteq Chunks
    BY <1>3, Constants
  <2> QED
    BY <1>1, <1>2, <2>1, <2>2, <2>4, <2>5, <2>6, RestMoves
<1>11. ASSUME NEW c \in Chunks, NEW s \in FetchStates \ {"idle"},
              call = "fetching", fetch[c] # "idle", fetch' = [fetch EXCEPT ![c] = s],
              UNCHANGED <<call, total>>,
              \A d \in Chunks \ {c} : seen'[d] = seen[d] /\ pieces'[d] = pieces[d],
              s = "reading" => seen'[c] = Old,
              s = "fetched" => pieces'[c] = <<Old, Content[Old][c]>>
       PROVE  RestInv'
  <2>1. /\ fetch'[c] = s /\ s # "idle" /\ c \in ChunksOf[Old]
        /\ \A d \in Chunks \ {c} : fetch'[d] = fetch[d]
    BY <1>4, <1>5, <1>11 DEF ReaderTypes, OldFound
  <2>2. ASSUME NEW d \in Chunks
        PROVE  /\ fetch'[d] # "idle" => d \in ChunksOf[Old]
               /\ fetch'[d] = "reading" => seen'[d] = Old
               /\ fetch'[d] = "fetched" => pieces'[d] = <<Old, Content[Old][d]>>
    <3>1. CASE d = c
      BY <1>11, <2>1, <3>1
    <3>2. CASE d # c
      BY <1>4, <1>11, <2>1, <3>2 DEF OldFound
    <3> QED
      BY <3>1, <3>2
  <2>3. ChunksOf[Old] \subseteq Chunks
    BY <1>3, Constants
  <2>4. /\ total' = Cardinality(ChunksOf[Old]) /\ call' = "fetching"
        /\ operation = "get" => \A d \in ChunksOf[Old] : fetch'[d] # "idle"
    BY <1>2, <1>11, <2>1, <2>3 DEF RestInv
  <2> QED
    BY <1>1, <1>2, <2>2, <2>4, RestMoves
<1>12. ASSUME NEW c \in Chunks, Acquire(c)
       PROVE  RestInv'
  <2>1. "asking" \in FetchStates \ {"idle"}
    BY DEF FetchStates
  <2> QED
    BY <1>11, <1>12, <2>1 DEF Acquire
<1>13. ASSUME NEW c \in Chunks, AskMetadata(c)
       PROVE  RestInv'
  <2>1. /\ call = "fetching" /\ fetch[c] = "asking" /\ meta[c] # None
        /\ fetch' = [fetch EXCEPT ![c] = "reading"] /\ seen' = [seen EXCEPT ![c] = meta[c]]
        /\ UNCHANGED <<call, total, pieces>>
    BY <1>13 DEF AskMetadata
  <2>2. meta[c] = Old
    BY <1>4, <2>1 DEF OldFound
  <2>3. seen'[c] = Old /\ \A d \in Chunks \ {c} : seen'[d] = seen[d]
    BY <1>5, <2>1, <2>2 DEF ReaderTypes
  <2>4. "reading" \in FetchStates \ {"idle"}
    BY DEF FetchStates
  <2> QED
    BY <1>11, <2>1, <2>3, <2>4
<1>14. ASSUME NEW c \in Chunks, ReadData(c)
       PROVE  RestInv'
  <2>1. /\ call = "fetching" /\ fetch[c] = "reading" /\ data[c] # None
        /\ fetch' = [fetch EXCEPT ![c] = "fetched"]
        /\ pieces' = [pieces EXCEPT ![c] = <<seen[c], Downloaded(c)>>]
        /\ UNCHANGED <<call, total, seen>>
    BY <1>14 DEF ReadData
  <2>2. seen[c] = Old /\ c \in ChunksOf[Old] /\ data[c] = Old
    BY <1>4, <2>1 DEF OldFound
  <2>3. Downloaded(c) = Content[Old][c]
    BY <1>3, <2>2, WholeDownload
  <2>4. /\ pieces'[c] = <<Old, Content[Old][c]>>
        /\ \A d \in Chunks \ {c} : pieces'[d] = pieces[d]
    BY <1>5, <2>1, <2>2, <2>3 DEF ReaderTypes
  <2>5. "fetched" \in FetchStates \ {"idle"}
    BY DEF FetchStates
  <2> QED
    BY <1>11, <2>1, <2>4, <2>5
<1>15. ASSUME NEW c \in Chunks, Miss(c)
       PROVE  RestInv'
  <2> DEFINE s == IF tries[c] + 1 < MaxRetries THEN "waiting" ELSE "failed"
  <2>1. /\ call = "fetching" /\ fetch[c] # "idle" /\ fetch' = [fetch EXCEPT ![c] = s]
        /\ UNCHANGED <<call, total, seen, pieces>>
    BY <1>15 DEF Miss, Misses
  <2>2. s \in FetchStates \ {"idle"} /\ s \in {"waiting", "failed"}
    BY DEF FetchStates
  <2> HIDE DEF s
  <2> QED
    BY <1>11, <2>1, <2>2
<1>16. CASE Finish
  <2>1. /\ call = "fetching" /\ UNCHANGED <<total, fetch, seen, pieces, tries, probes>>
        /\ \A c \in Chunks : fetch[c] # "idle" => fetch[c] \in {"fetched", "failed"}
        /\ call' \in {"ok", "err"}
        /\ call' = "err" => ~ (/\ \A c \in Chunks : fetch[c] # "idle" => fetch[c] = "fetched"
                               /\ Intact)
    BY <1>16 DEF Finish
  <2>2. ASSUME call' = "err"
        PROVE  Excuse'
    <3>1. PICK c \in Chunks : fetch[c] # "idle" /\ fetch[c] # "fetched"
      BY <1>2, <2>1, <2>2, RestIntact
    <3>2. fetch[c] = "failed" /\ tries[c] = MaxRetries /\ c \in ChunksOf[Old]
      BY <1>4, <1>5, <2>1, <3>1 DEF Found, OldFound
    <3> QED
      BY <1>3, <2>1, <3>2 DEF Excuse
  <2> QED
    BY <1>7, <2>1, <2>2
<1>17. CASE UNCHANGED vars
  BY <1>6, <1>17 DEF vars, readVars
<1>18. CASE WriterStep /\ UNCHANGED tries
  BY <1>6, <1>18 DEF WriterStep, readVars
<1> QED
  BY <1>8, <1>9, <1>10, <1>12, <1>13, <1>14, <1>15, <1>16, <1>17, <1>18
  DEF Next, Step, ReaderStep, FetchStep

(* A get of a ball that nobody writes or deletes fails only when the       *)
(* requests about one chunk failed as often as the caller allows: the      *)
(* chunks that come back add up to the value, and the checksums agree.     *)
THEOREM GetErrOnlyAfterAllRetries == Spec => []ErrOnlyAfterAllRetries
<1>1. Init => RestInv
  BY InitRest
<1>2. GetInv /\ RestInv => ErrOnlyAfterAllRetries
  BY DEF RestInv, AtEase, Excuse, ErrOnlyAfterAllRetries
<1>3. Spec => []RestInv
  BY <1>1, StepRest, GetInvariant, PTL DEF Spec
<1> QED
  BY <1>2, <1>3, GetInvariant, PTL

-----------------------------------------------------------------------------
(* Whose chunk a coroutine has fetched: its blocks are blocks of that      *)
(* chunk, and not more of them.                                            *)
Of(c, p) == /\ fetch[c] = "fetched" /\ c \in ChunksOf[p]
            /\ pieces[c][2] \in Seq(Blocks) /\ pieces[c][2] # <<>>
            /\ Range(pieces[c][2]) \subseteq Range(Content[p][c])
            /\ Len(pieces[c][2]) <= Len(Content[p][c])

(* The put behind a chunk that was fetched, what the metadata that was     *)
(* read is of, and which chunks are fetched.                               *)
Pieces ==
  /\ Old \in Calls => phase[Old] = "ok"
  /\ total \in Nat /\ 0 .. total - 1 \subseteq Chunks
  /\ call \in {"idle", "probing"} => \A c \in Chunks : fetch[c] = "idle"
  /\ call = "fetching" /\ operation = "get" => \A c \in 0 .. total - 1 : fetch[c] # "idle"
  /\ \A c \in Chunks : fetch[c] = "reading" => seen[c] \in Puts /\ c \in ChunksOf[seen[c]]
  /\ ShareNothing => \A c \in Chunks : fetch[c] = "fetched" => \E p \in Puts : Of(c, p)

(* A put that uploads nothing any more, and one of whose chunks is neither *)
(* there nor fetched; and a put that may still complete its value, whose   *)
(* fetched chunks are still there.                                         *)
Gone(p) == /\ p = Old \/ phase[p] \in {"erasing", "err"}
           /\ \E c \in ChunksOf[p] : data[c] # p /\ ~ Of(c, p)

Live(p) == /\ p # Old /\ phase[p] \in {"idle", "uploading", "ok"}
           /\ \A c \in ChunksOf[p] : Of(c, p) => data[c] = p

WasInv ==
  /\ Calling => Held \subseteq whole
  /\ call = "fetching" /\ ShareNothing =>
       \A p \in Puts : Alone(p) => Value(p) \in whole \/ Gone(p) \/ Live(p)
  /\ AnswerWasThere

LEMMA PrefixIs ==
  ASSUME NEW S, NEW s \in Seq(S), NEW n \in Nat, n <= Len(s), n # 0
  PROVE  /\ SubSeq(s, 1, n) \in Seq(S) /\ SubSeq(s, 1, n) # <<>>
         /\ Len(SubSeq(s, 1, n)) = n
         /\ Range(SubSeq(s, 1, n)) \subseteq Range(s)
<1> DEFINE t == SubSeq(s, 1, n)
<1>1. /\ t \in Seq(S) /\ Len(t) = n /\ DOMAIN t = 1..n
      /\ DOMAIN s = 1..Len(s) /\ Len(s) \in Nat
      /\ \A i \in 1..n : t[i] = s[i]
  OBVIOUS
<1> HIDE DEF t
<1>2. t # <<>>
  BY <1>1, EmptySeq
<1>3. Range(t) \subseteq Range(s)
  <2> SUFFICES ASSUME NEW i \in 1..n PROVE t[i] \in Range(s)
    BY <1>1 DEF Range
  <2>1. i \in 1..Len(s)
    BY <1>1
  <2> QED
    BY <1>1, <2>1 DEF Range
<1> QED
  BY <1>1, <1>2, <1>3 DEF t

LEMMA SomeElement ==
  ASSUME NEW S, NEW s \in Seq(S), s # <<>>
  PROVE  \E x : x \in Range(s)
<1>1. Len(s) \in Nat \ {0} /\ DOMAIN s = 1..Len(s)
  BY EmptySeq, LenProperties
<1>2. 1 \in DOMAIN s
  BY <1>1
<1> QED
  BY <1>2 DEF Range

(* Values that share no blocks: a fetched chunk is of one put only.        *)
LEMMA OnlyOne ==
  ASSUME ShareNothing, NEW p \in Puts, NEW q \in Puts, NEW c \in ChunksOf[p], NEW d \in ChunksOf[q],
         NEW x, x \in Range(Content[p][c]), x \in Range(Content[q][d])
  PROVE  p = q
<1> SUFFICES ASSUME p # q PROVE FALSE
  OBVIOUS
<1>1. Range(Content[p][c]) \cap Range(Content[q][d]) = {}
  BY DEF ShareNothing
<1> QED
  BY <1>1

LEMMA AllHeld ==
  ASSUME NEW p \in Puts, \A c \in ChunksOf[p] : data[c] = p
  PROVE  Value(p) \in Held
BY Constants DEF Held

LEMMA ReadOf ==
  ASSUME GetInv, Pieces, ShareNothing, NEW c \in Chunks, ReadData(c)
  PROVE  \E w \in Puts : /\ w = data[c] /\ Of(c, w)'
                         /\ \A p \in Puts : Of(c, p)' => p = w
<1> PICK w : w = data[c]
  OBVIOUS
<1> DEFINE q == seen[c]
           n == Len(Content[q][c])
           s == Content[w][c]
           t == SubSeq(s, 1, n)
<1>1. /\ fetch[c] = "reading" /\ w # None /\ Len(s) >= n
      /\ fetch' = [fetch EXCEPT ![c] = "fetched"]
      /\ pieces' = [pieces EXCEPT ![c] = <<q, t>>]
  BY DEF ReadData, Downloaded
<1>2. /\ w \in Puts /\ c \in ChunksOf[w]
      /\ q \in Puts /\ c \in ChunksOf[q]
  BY <1>1 DEF GetInv, StoreInv, StoreTypes, Pieces
<1>3. Content[q][c] \in Seq(Blocks) /\ s \in Seq(Blocks) /\ Content[q][c] # <<>>
  BY <1>2, ContentType DEF ShareNothing
<1>4. n \in Nat /\ n # 0 /\ n <= Len(s) /\ Len(s) \in Nat
  BY <1>1, <1>3, EmptySeq, LenProperties
<1>5. fetch'[c] = "fetched" /\ pieces'[c][2] = t
  BY <1>1 DEF GetInv, ReaderInv, ReaderTypes
<1> HIDE DEF n, s
<1>6. /\ t \in Seq(Blocks) /\ t # <<>> /\ Len(t) = n /\ Range(t) \subseteq Range(s)
  BY <1>3, <1>4, PrefixIs
<1> HIDE DEF t
<1>7. Of(c, w)'
  <2>1. /\ fetch'[c] = "fetched" /\ c \in ChunksOf[w]
        /\ pieces'[c][2] \in Seq(Blocks) /\ pieces'[c][2] # <<>>
        /\ Range(pieces'[c][2]) \subseteq Range(Content[w][c])
        /\ Len(pieces'[c][2]) <= Len(Content[w][c])
    BY <1>2, <1>4, <1>5, <1>6 DEF s
  <2> QED
    BY <2>1 DEF Of
<1>8. ASSUME NEW p \in Puts, Of(c, p)'
      PROVE  w = p
  <2>1. c \in ChunksOf[p] /\ Range(t) \subseteq Range(Content[p][c])
    BY <1>5, <1>8 DEF Of
  <2>2. PICK x : x \in Range(t)
    BY <1>6, SomeElement
  <2> QED
    BY <1>2, <1>6, <2>1, <2>2, OnlyOne DEF s
<1> QED
  BY <1>2, <1>7, <1>8

(* An Ok answer that is the value of p was put together from chunks of p.  *)
LEMMA AllOf ==
  ASSUME Pieces, ShareNothing, NEW p \in Puts,
         \A c \in 0 .. total - 1 : fetch[c] = "fetched", Fetched = Value(p)
  PROVE  \A c \in ChunksOf[p] : Of(c, p)
<1> DEFINE f == [c \in Chunks |-> pieces[c][2]]
           g == Content[p]
           n == Cardinality(ChunksOf[p])
<1>1. n \in Nat /\ ChunksOf[p] = 0 .. n - 1 /\ total \in Nat /\ 0 .. total - 1 \subseteq Chunks
  BY FirstChunk DEF Pieces
<1>2. Join(f, total) = Join(g, n)
  BY DEF Fetched, Value
<1>3. \A c \in 0 .. n - 1 : g[c] \in Seq(Blocks) /\ g[c] # <<>>
  BY <1>1, ContentType DEF ShareNothing
<1>4. ASSUME NEW c \in 0 .. total - 1
      PROVE  /\ \E q \in Puts : Of(c, q)
             /\ f[c] = pieces[c][2] /\ f[c] \in Seq(Blocks) /\ f[c] # <<>>
  BY <1>1 DEF Pieces, Of
<1> HIDE DEF f, n
<1>5. \A x : x \in Range(Join(f, total)) <=> \E i \in 0 .. total - 1 : x \in Range(f[i])
  BY <1>1, <1>4, JoinElements
<1>6. \A x : x \in Range(Join(g, n)) <=> \E i \in 0 .. n - 1 : x \in Range(g[i])
  BY <1>1, <1>3, JoinElements
<1>7. ASSUME NEW c \in 0 .. total - 1
      PROVE  Of(c, p)
  <2>1. PICK q \in Puts : Of(c, q)
    BY <1>4
  <2>2. PICK x : x \in Range(f[c])
    BY <1>4, SomeElement
  <2>3. PICK i \in 0 .. n - 1 : x \in Range(g[i])
    BY <1>2, <1>5, <1>6, <2>2
  <2>4. c \in ChunksOf[q] /\ x \in Range(Content[q][c])
    BY <1>4, <2>1, <2>2 DEF Of
  <2>5. p = q
    BY <1>1, <2>3, <2>4, OnlyOne
  <2> QED
    BY <2>1, <2>5
<1>8. total <= n
  <2> SUFFICES ASSUME ~ (total <= n) PROVE FALSE
    OBVIOUS
  <2>1. n \in 0 .. total - 1
    BY <1>1
  <2>2. n \in 0 .. n - 1
    BY <1>1, <1>7, <2>1 DEF Of
  <2> QED
    BY <1>1, <2>2
<1>9. \A c \in 0 .. total - 1 : Len(f[c]) <= Len(g[c])
  BY <1>4, <1>7 DEF Of
<1>10. ~ (total < n)
  <2> SUFFICES ASSUME total < n PROVE FALSE
    OBVIOUS
  <2>1. total \in 0..n
    BY <1>1, <1>8
  <2>2. Len(Join(f, total)) < Len(Join(g, n))
    BY <1>1, <1>3, <1>4, <1>9, <2>1, JoinLonger
  <2>3. Join(g, n) \in Seq(Blocks)
    BY <1>1, <1>3, JoinElements
  <2>4. Len(Join(g, n)) \in Nat
    BY <2>3, LenProperties
  <2> QED
    BY <1>2, <2>2, <2>4
<1> QED
  BY <1>1, <1>7, <1>8, <1>10

-----------------------------------------------------------------------------
LEMMA InitPieces == Init => Pieces /\ WasInv
<1> SUFFICES ASSUME Init PROVE Pieces /\ WasInv
  OBVIOUS
<1>2. 0 .. 0 - 1 = {} /\ 0 \in Nat
  OBVIOUS
<1>3. Pieces
  BY <1>2 DEF Init, ReadInit, Pieces
<1>4. WasInv
  BY DEF Init, ReadInit, WasInv, Calling, AnswerWasThere
<1> QED
  BY <1>3, <1>4

(* No step of the writers changes a call that has answered Ok.             *)
LEMMA OkStays ==
  ASSUME StoreInv, [StoreNext]_storeVars, NEW k \in Calls, phase[k] = "ok"
  PROVE  phase'[k] = "ok"
<1>1. phase \in [Calls -> {"idle", "uploading", "erasing", "ok", "err"}]
  BY DEF StoreInv, StoreTypes
<1>2. \A p \in Puts : p \in Calls
  BY DEF Calls
<1>3. CASE UNCHANGED phase
  BY <1>3
<1>4. CASE phase' # phase
  <2>1. PICK j \in Calls : GiveUp(j) \/ Begin(j) \/ ReturnOk(j) \/ ReturnErr(j)
    BY <1>2, <1>4 DEF StoreNext, storeVars, Post, Upload, Erase
  <2>2. PICK s : phase' = [phase EXCEPT ![j] = s] /\ phase[j] # "ok"
    BY <2>1 DEF GiveUp, Begin, ReturnOk, ReturnErr, Become
  <2> QED
    BY <1>1, <2>2
<1> QED
  BY <1>3, <1>4

(* A coroutine moves on, and what it has fetched, if anything, is of some  *)
(* put.                                                                    *)
LEMMA PieceMoves ==
  ASSUME GetInv, Pieces, call = "fetching", NEW c \in Chunks, NEW s \in FetchStates \ {"idle"},
         fetch[c] # "fetched",
         fetch' = [fetch EXCEPT ![c] = s],
         UNCHANGED <<storeVars, situation, call, total>>,
         \A d \in Chunks \ {c} : seen'[d] = seen[d] /\ pieces'[d] = pieces[d],
         s = "reading" => seen'[c] \in Puts /\ c \in ChunksOf[seen'[c]],
         ShareNothing /\ s = "fetched" => \E p \in Puts : Of(c, p)'
  PROVE  Pieces'
<1>1. Old' = Old /\ operation' = operation /\ phase' = phase
  BY DEF Old, operation, storeVars
<1>2. \A d \in Chunks : fetch'[d] = IF d = c THEN s ELSE fetch[d]
  BY DEF GetInv, ReaderInv, ReaderTypes
<1>3. \A d \in Chunks : fetch'[d] = "reading" => seen'[d] \in Puts /\ d \in ChunksOf[seen'[d]]
  BY <1>2 DEF Pieces
<1>4. ASSUME ShareNothing, NEW d \in Chunks, fetch'[d] = "fetched"
      PROVE  \E p \in Puts : Of(d, p)'
  <2>1. CASE d = c
    BY <1>2, <1>4, <2>1
  <2>2. CASE d # c
    <3>1. PICK p \in Puts : Of(d, p)
      BY <1>2, <1>4, <2>2 DEF Pieces
    <3>2. Of(d, p)'
      BY <1>2, <2>2, <3>1 DEF Of
    <3> QED
      BY <3>2
  <2> QED
    BY <2>1, <2>2
<1> QED
  BY <1>1, <1>2, <1>3, <1>4 DEF Pieces

LEMMA StepPieces == GetInv /\ Pieces /\ [Next]_vars => Pieces'
<1> SUFFICES ASSUME GetInv, Pieces, [Next]_vars PROVE Pieces'
  OBVIOUS
<1>1. [StoreNext]_storeVars /\ UNCHANGED situation /\ Old' = Old /\ operation' = operation
  BY DEF Next, Step, WriterStep, ReaderStep, FetchStep, StartCall, ProbeAnswered, Old, operation,
         ProbeFails, Acquire, AskMetadata, ReadData, Miss, Finish, vars, storeVars, readVars
<1>2. Old \in Calls => phase'[Old] = "ok"
  BY <1>1, OkStays DEF Pieces, GetInv, ReaderInv, ReaderTypes, Calls
<1>3. ASSUME UNCHANGED <<total, fetch, seen, pieces>>,
             call' \in {"idle", "probing"} => call \in {"idle", "probing"},
             call' = "fetching" => call = "fetching"
      PROVE  Pieces'
  <2>1. \A c \in Chunks, p \in Puts : Of(c, p)' = Of(c, p)
    BY <1>3 DEF Of
  <2> QED
    BY <1>1, <1>2, <1>3, <2>1 DEF Pieces
<1>4. CASE UNCHANGED vars \/ WriterStep \/ StartCall \/ ProbeFails \/ Finish
  BY <1>3, <1>4 DEF vars, WriterStep, StartCall, ProbeFails, Finish, readVars
<1>5. CASE ProbeAnswered(Wanted)
  <2> DEFINE p == meta[ProbeIndex]
             n == Cardinality(ChunksOf[p])
  <2>1. /\ p # None /\ call' = "fetching" /\ total' = n
        /\ fetch' = [c \in Chunks |-> IF c \in Wanted THEN "waiting" ELSE "idle"]
    BY <1>5 DEF ProbeAnswered
  <2>2. p \in Puts
    BY <2>1, Constants DEF GetInv, StoreInv, StoreTypes
  <2>3. n \in Nat /\ ChunksOf[p] = 0 .. n - 1 /\ ChunksOf[p] \subseteq Chunks
    BY <2>2, FirstChunk, Constants
  <2>4. operation = "get" => 0 .. n - 1 \subseteq Wanted
    BY <2>2, <2>3, Constants DEF Wanted
  <2> HIDE DEF n
  <2>5. \A c \in Chunks : fetch'[c] \in {"waiting", "idle"}
    BY <2>1
  <2>6. operation = "get" => \A c \in 0 .. total' - 1 : fetch'[c] # "idle"
    BY <2>1, <2>3, <2>4
  <2> QED
    BY <1>1, <1>2, <2>1, <2>3, <2>5, <2>6 DEF Pieces
<1>6. ASSUME NEW c \in Chunks, NEW s \in {"asking", "waiting", "failed"},
             call = "fetching", fetch[c] # "fetched", fetch' = [fetch EXCEPT ![c] = s],
             UNCHANGED <<storeVars, call, total, seen, pieces>>
      PROVE  Pieces'
  <2>1. s \in FetchStates \ {"idle"}
    BY DEF FetchStates
  <2> QED
    BY <1>1, <1>6, <2>1, PieceMoves
<1>7. ASSUME NEW c \in Chunks, Acquire(c) \/ Miss(c)
      PROVE  Pieces'
  <2> DEFINE s == IF Acquire(c) THEN "asking"
                  ELSE IF tries[c] + 1 < MaxRetries THEN "waiting" ELSE "failed"
  <2>1. /\ call = "fetching" /\ fetch[c] # "fetched" /\ fetch' = [fetch EXCEPT ![c] = s]
        /\ UNCHANGED <<storeVars, call, total, seen, pieces>>
    BY <1>7 DEF Acquire, Miss, Misses
  <2>2. s \in {"asking", "waiting", "failed"}
    OBVIOUS
  <2> HIDE DEF s
  <2> QED
    BY <1>6, <2>1, <2>2
<1>8. ASSUME NEW c \in Chunks, AskMetadata(c)
      PROVE  Pieces'
  <2>1. /\ call = "fetching" /\ fetch[c] = "asking" /\ meta[c] # None
        /\ fetch' = [fetch EXCEPT ![c] = "reading"] /\ seen' = [seen EXCEPT ![c] = meta[c]]
        /\ UNCHANGED <<storeVars, call, total, pieces>>
    BY <1>8 DEF AskMetadata
  <2>2. meta[c] \in Puts /\ c \in ChunksOf[meta[c]]
    BY <2>1 DEF GetInv, StoreInv, StoreTypes
  <2>3. seen'[c] = meta[c] /\ \A d \in Chunks \ {c} : seen'[d] = seen[d]
    BY <2>1 DEF GetInv, ReaderInv, ReaderTypes
  <2>4. "reading" \in FetchStates \ {"idle"}
    BY DEF FetchStates
  <2> QED
    BY <1>1, <2>1, <2>2, <2>3, <2>4, PieceMoves
<1>9. ASSUME NEW c \in Chunks, ReadData(c)
      PROVE  Pieces'
  <2>1. /\ call = "fetching" /\ fetch[c] = "reading" /\ fetch' = [fetch EXCEPT ![c] = "fetched"]
        /\ pieces' = [pieces EXCEPT ![c] = <<seen[c], Downloaded(c)>>]
        /\ UNCHANGED <<storeVars, call, total, seen>>
    BY <1>9 DEF ReadData
  <2>2. \A d \in Chunks \ {c} : pieces'[d] = pieces[d]
    BY <2>1 DEF GetInv, ReaderInv, ReaderTypes
  <2>3. ShareNothing => \E p \in Puts : Of(c, p)'
    BY <1>9, ReadOf
  <2>4. "fetched" \in FetchStates \ {"idle"}
    BY DEF FetchStates
  <2> QED
    BY <1>1, <2>1, <2>2, <2>3, <2>4, PieceMoves
<1> QED
  BY <1>4, <1>5, <1>7, <1>8, <1>9 DEF Next, Step, ReaderStep, FetchStep

-----------------------------------------------------------------------------
(* What is to be shown of each put while the chunks are fetched.           *)
Fate(p) == Value(p) \in whole \/ Gone(p) \/ Live(p)

(* The fetching begins: nothing is fetched yet.                            *)
LEMMA FateBegins ==
  ASSUME GetInv, WasInv, Calling, NEW p \in Puts, whole \subseteq whole',
         UNCHANGED <<storeVars, situation>>, \A c \in Chunks : ~ Of(c, p)'
  PROVE  Fate(p)'
<1>1. /\ phase[p] \in {"idle", "uploading", "erasing", "ok", "err"}
      /\ phase' = phase /\ data' = data /\ Old' = Old
      /\ ChunksOf[p] \subseteq Chunks
  BY Constants DEF GetInv, StoreInv, StoreTypes, Calls, storeVars, Old
<1>2. CASE \A c \in ChunksOf[p] : data[c] = p
  BY <1>2, AllHeld DEF WasInv, Fate
<1>3. CASE (\E c \in ChunksOf[p] : data[c] # p) /\ (p = Old \/ phase[p] \in {"erasing", "err"})
  BY <1>1, <1>3 DEF Gone, Fate
<1>4. CASE p # Old /\ phase[p] \in {"idle", "uploading", "ok"}
  BY <1>1, <1>4 DEF Live, Fate
<1> QED
  BY <1>1, <1>2, <1>3, <1>4

(* The reader moves on: what it fetches is what is there.                  *)
LEMMA FateRead ==
  ASSUME NEW p \in Puts, Fate(p), whole \subseteq whole',
         UNCHANGED <<storeVars, situation>>,
         \A c \in ChunksOf[p] : Of(c, p)' => Of(c, p) \/ data[c] = p
  PROVE  Fate(p)'
<1>1. phase' = phase /\ data' = data /\ Old' = Old
  BY DEF storeVars, Old
<1>2. CASE Value(p) \in whole
  BY <1>2 DEF Fate
<1>3. CASE Gone(p)
  BY <1>1, <1>3 DEF Gone, Fate
<1>4. CASE Live(p)
  BY <1>1, <1>4 DEF Live, Fate
<1> QED
  BY <1>2, <1>3, <1>4 DEF Fate

(* A call that has begun is not made to have not begun.                    *)
LEMMA AloneBefore ==
  ASSUME GetInv, [StoreNext]_storeVars, UNCHANGED situation, NEW p \in Puts, Alone(p)'
  PROVE  Alone(p)
<1>1. StoreTypes /\ Old' = Old
  BY DEF GetInv, StoreInv, Old
<1>2. CASE phase' = phase
  BY <1>1, <1>2 DEF Alone
<1>3. ASSUME NEW k \in Calls, NEW s, s # "idle", phase' = [phase EXCEPT ![k] = s]
      PROVE  Alone(p)
  <2>1. phase'[k] = s /\ \A j \in Calls \ {k} : phase'[j] = phase[j]
    BY <1>1, <1>3 DEF StoreTypes
  <2> QED
    BY <1>1, <1>3, <2>1 DEF Alone
<1>4. phase' = phase \/ \E k \in Calls, s \in {"uploading", "erasing", "ok", "err"} :
                          phase' = [phase EXCEPT ![k] = s]
  BY DEF StoreNext, storeVars, Post, Upload, Erase, GiveUp, Begin, ReturnOk, ReturnErr, Become, Calls
<1> QED
  BY <1>2, <1>3, <1>4

(* The writers move on: of a live put only its own steps are left, and     *)
(* when it stops uploading all its chunks are there, or one never was.     *)
LEMMA FateWrite ==
  ASSUME GetInv, Pieces, WasInv, Calling, NEW p \in Puts, Alone(p), Alone(p)', Fate(p), StoreNext,
         whole \subseteq whole', UNCHANGED readVars
  PROVE  Fate(p)'
<1>1. /\ StoreTypes /\ Old \in Puts \cup {None} /\ None \notin Puts
      /\ Old' = Old /\ p \in Calls /\ (p = Old => Old \in Calls)
      /\ \A c \in Chunks : Of(c, p)' = Of(c, p)
      /\ ChunksOf[p] \subseteq Chunks
  BY Constants DEF GetInv, StoreInv, ReaderInv, ReaderTypes, Old, readVars, Calls, Of
<1>2. Old \in Calls => phase[Old] = "ok"
  BY DEF Pieces
<1>3. ASSUME p # Old, NEW k \in Calls, NEW s, s # "idle", phase' = [phase EXCEPT ![k] = s]
      PROVE  k \in {Old, p}
  <2>1. phase'[k] = s
    BY <1>1, <1>3 DEF StoreTypes
  <2> QED
    BY <1>1, <1>3, <2>1 DEF Alone
<1>4. ASSUME p # Old, NEW k \in Calls, phase[k] \notin {"idle", "ok"}
      PROVE  k = p
  BY <1>1, <1>2, <1>4 DEF Alone
<1>5. CASE Value(p) \in whole
  BY <1>5 DEF Fate
<1>6. ASSUME NEW q \in Puts, NEW d \in Chunks, Post(q, d) \/ Upload(q, d)
      PROVE  Fate(p)'
  <2>1. /\ phase[q] = "uploading" /\ phase' = phase /\ q \in Calls
        /\ data' = data \/ data' = [data EXCEPT ![d] = q]
    BY <1>6 DEF Post, Upload, Calls
  <2>2. CASE Gone(p)
    <3>1. q # p
      BY <1>1, <1>2, <2>1, <2>2 DEF Gone
    <3>2. \A c \in Chunks : data[c] # p => data'[c] # p
      BY <1>1, <2>1, <3>1 DEF StoreTypes
    <3> QED
      BY <1>1, <2>1, <2>2, <3>2 DEF Gone, Fate
  <2>3. CASE Live(p)
    <3>1. q = p
      BY <1>4, <2>1, <2>3 DEF Live
    <3>2. \A c \in Chunks : data[c] = p => data'[c] = p
      BY <1>1, <2>1, <3>1 DEF StoreTypes
    <3> QED
      BY <1>1, <2>1, <2>3, <3>2 DEF Live, Fate
  <2> QED
    BY <1>5, <2>2, <2>3 DEF Fate
<1>7. ASSUME NEW k \in Calls, NEW d \in Chunks, Erase(k, d)
      PROVE  Fate(p)'
  <2>1. phase[k] = "erasing" /\ phase' = phase /\ data' = [data EXCEPT ![d] = None]
    BY <1>7 DEF Erase
  <2>2. CASE Gone(p)
    <3>1. \A c \in Chunks : data[c] # p => data'[c] # p
      BY <1>1, <2>1 DEF StoreTypes
    <3> QED
      BY <1>1, <2>1, <2>2, <3>1 DEF Gone, Fate
  <2>3. CASE Live(p)
    <3>1. k = p
      BY <1>4, <2>1, <2>3 DEF Live
    <3> QED
      BY <2>1, <2>3, <3>1 DEF Live
  <2> QED
    BY <1>5, <2>2, <2>3 DEF Fate
<1>8. ASSUME NEW k \in Calls, GiveUp(k) \/ Begin(k) \/ ReturnOk(k) \/ ReturnErr(k)
      PROVE  Fate(p)'
  <2>1. PICK s \in {"uploading", "erasing", "ok", "err"} :
          /\ phase' = [phase EXCEPT ![k] = s] /\ data' = data
          /\ phase[k] \in {"idle", "uploading", "erasing"}
          /\ k \in Puts /\ phase[k] = "erasing" => s = "err"
    BY <1>8 DEF GiveUp, Begin, ReturnOk, ReturnErr, Become
  <2>2. phase'[k] = s /\ \A j \in Calls \ {k} : phase'[j] = phase[j]
    BY <1>1, <2>1 DEF StoreTypes
  <2>3. p # Old => k \in {Old, p}
    BY <1>3, <2>1
  <2>4. CASE Gone(p)
    <3>1. \A c \in Chunks : data[c] # p => data'[c] # p
      BY <2>1
    <3>2. p = Old \/ phase'[p] \in {"erasing", "err"}
      BY <1>1, <2>1, <2>2, <2>4 DEF Gone
    <3> QED
      BY <1>1, <2>1, <2>3, <2>4, <3>1, <3>2 DEF Gone, Fate
  <2>5. CASE Live(p)
    <3>1. k = p
      BY <1>2, <2>1, <2>3, <2>5, Constants DEF Live, Calls
    <3>2. CASE s \in {"uploading", "ok"}
      BY <1>1, <2>1, <2>2, <2>3, <2>5, <3>1, <3>2 DEF Live, Fate
    <3>3. CASE s \in {"erasing", "err"} /\ \A c \in ChunksOf[p] : data[c] = p
      BY <2>3, <3>3, AllHeld DEF WasInv, Fate
    <3>4. CASE s \in {"erasing", "err"} /\ \E c \in ChunksOf[p] : data[c] # p
      BY <1>1, <2>1, <2>2, <2>3, <2>5, <3>1, <3>4 DEF Live, Gone, Fate
    <3> QED
      BY <2>1, <3>2, <3>3, <3>4
  <2> QED
    BY <1>5, <2>4, <2>5 DEF Fate
<1> QED
  BY <1>6, <1>7, <1>8 DEF StoreNext, Calls

LEMMA StepWas == GetInv /\ Pieces /\ WasInv /\ [Next]_vars => WasInv'
<1> SUFFICES ASSUME GetInv, Pieces, WasInv, [Next]_vars PROVE WasInv'
  OBVIOUS
<1>1. /\ UNCHANGED situation /\ Old' = Old /\ operation' = operation
  BY DEF Next, Step, WriterStep, ReaderStep, FetchStep, StartCall, ProbeAnswered, Old, operation,
         ProbeFails, Acquire, AskMetadata, ReadData, Miss, Finish, vars, storeVars, readVars
<1>2. CASE UNCHANGED vars
  <2>1. /\ Calling' = Calling /\ Held' = Held /\ Fetched' = Fetched
        /\ \A p \in Puts : Of(0, p)' = Of(0, p) /\ Alone(p)' = Alone(p)
    BY <1>1, <1>2 DEF vars, storeVars, readVars, Calling, Held, Fetched, Of, Alone
  <2>2. \A p : Alone(p)' = Alone(p) /\ Gone(p)' = Gone(p) /\ Live(p)' = Live(p)
    BY <1>1, <1>2 DEF vars, storeVars, readVars, Alone, Gone, Live, Of
  <2>3. UNCHANGED <<call, whole, pieces>>
    BY <1>2 DEF vars, readVars
  <2> QED
    BY <1>1, <2>1, <2>2, <2>3 DEF WasInv, AnswerWasThere
<1> SUFFICES ASSUME Step, Remember PROVE WasInv'
  BY <1>2 DEF Next
<1>3. /\ Calling' => Held' \subseteq whole'
      /\ whole \subseteq whole'
      /\ ~ Calling' => whole' = whole
  BY DEF Remember
<1> DEFINE Fates == \A p \in Puts : Alone(p)' => Fate(p)'
<1>4. ASSUME ShareNothing => (call' = "fetching" => Fates),
             call' = "ok" => \/ /\ call = "ok" /\ UNCHANGED <<total, pieces, whole>>
                                /\ \A p \in Puts : Alone(p)' => Alone(p)
                             \/ AnswerWasThere'
      PROVE  WasInv'
  <2>1. AnswerWasThere'
    <3>1. CASE call' = "ok" /\ call = "ok" /\ UNCHANGED <<total, pieces, whole>>
               /\ (\A p \in Puts : Alone(p)' => Alone(p))
      <4>1. Fetched' = Fetched
        BY <3>1 DEF Fetched
      <4>2. operation = "get" => pieces[0][1] \in Puts
        BY <3>1 DEF GetInv, ReaderInv, Compared
      <4>3. PICK p : p = pieces[0][1]
        OBVIOUS
      <4>4. pieces'[0][1] = p
        BY <3>1, <4>3
      <4>5. operation = "get" => (Alone(p)' => Alone(p))
        BY <3>1, <4>2, <4>3
      <4>6. AnswerWasThere
        BY DEF WasInv
      <4> QED
        BY <1>1, <3>1, <4>1, <4>3, <4>4, <4>5, <4>6 DEF AnswerWasThere, Alone
    <3>2. CASE call' # "ok"
      BY <3>2 DEF AnswerWasThere
    <3> QED
      BY <1>4, <3>1, <3>2
  <2> QED
    BY <1>3, <1>4, <2>1 DEF WasInv, Fate
<1>5. CASE StartCall \/ ProbeFails
  BY <1>4, <1>5 DEF StartCall, ProbeFails
<1>6. CASE ProbeAnswered(Wanted)
  <2>1. /\ call = "probing" /\ call' = "fetching" /\ UNCHANGED <<storeVars, situation>>
        /\ \A c \in Chunks : fetch'[c] # "fetched"
    BY <1>6 DEF ProbeAnswered
  <2>2. \A c \in Chunks, p \in Puts : ~ Of(c, p)'
    BY <2>1 DEF Of
  <2>3. Calling
    BY <2>1 DEF Calling
  <2>4. Fates
    BY <1>3, <2>1, <2>2, <2>3, FateBegins
  <2> QED
    BY <1>4, <2>1, <2>4
<1>7. ASSUME call = "fetching", call' = "fetching", UNCHANGED <<storeVars, situation>>,
             ShareNothing => \A c \in Chunks, p \in Puts : Of(c, p)' => Of(c, p) \/ data[c] = p
      PROVE  WasInv'
  <2>1. ASSUME ShareNothing, NEW p \in Puts, Alone(p)'
        PROVE  Fate(p)'
    <3>1. Alone(p)
      BY <1>1, <1>7, <2>1 DEF Alone, storeVars
    <3>2. Fate(p) /\ ChunksOf[p] \subseteq Chunks
      BY <1>7, <2>1, <3>1, Constants DEF WasInv, Fate
    <3> QED
      BY <1>3, <1>7, <2>1, <3>2, FateRead
  <2> QED
    BY <1>4, <1>7, <2>1
<1>8. ASSUME NEW c \in Chunks, Acquire(c) \/ AskMetadata(c) \/ Miss(c)
      PROVE  WasInv'
  <2>1. PICK s \in {"asking", "reading", "waiting", "failed"} :
          /\ fetch' = [fetch EXCEPT ![c] = s] /\ UNCHANGED <<storeVars, situation, pieces>>
          /\ call = "fetching" /\ call' = "fetching"
    BY <1>8 DEF Acquire, AskMetadata, Miss, Misses
  <2>2. \A d \in Chunks : fetch'[d] = "fetched" => fetch[d] = "fetched"
    BY <2>1 DEF GetInv, ReaderInv, ReaderTypes
  <2>3. \A d \in Chunks, p \in Puts : Of(d, p)' => Of(d, p)
    BY <2>1, <2>2 DEF Of
  <2> QED
    BY <1>7, <2>1, <2>3
<1>9. ASSUME NEW c \in Chunks, ReadData(c)
      PROVE  WasInv'
  <2>1. /\ fetch' = [fetch EXCEPT ![c] = "fetched"]
        /\ pieces' = [pieces EXCEPT ![c] = <<seen[c], Downloaded(c)>>]
        /\ call = "fetching" /\ call' = "fetching" /\ UNCHANGED <<storeVars, situation>>
    BY <1>9 DEF ReadData
  <2>2. \A d \in Chunks \ {c} : fetch'[d] = fetch[d] /\ pieces'[d] = pieces[d]
    BY <2>1 DEF GetInv, ReaderInv, ReaderTypes
  <2>3. \A d \in Chunks \ {c}, p \in Puts : Of(d, p)' => Of(d, p)
    BY <2>2 DEF Of
  <2>4. ShareNothing => \A p \in Puts : Of(c, p)' => data[c] = p
    BY <1>9, ReadOf
  <2> QED
    BY <1>7, <2>1, <2>3, <2>4
<1>10. CASE Finish
  <2>1. /\ call = "fetching" /\ call' \in {"ok", "err"}
        /\ UNCHANGED <<storeVars, situation, total, fetch, pieces>>
        /\ call' = "ok" => Intact /\ \A c \in Chunks : fetch[c] \in {"idle", "fetched"}
    BY <1>10 DEF Finish
  <2>2. ASSUME operation = "get", call' = "ok", ShareNothing, NEW p, p = pieces[0][1], Alone(p)'
        PROVE  Fetched \in whole
    <3>1. \A c \in 0 .. total - 1 : fetch[c] = "fetched"
      BY <2>1, <2>2 DEF Pieces
    <3>2. 0 \in Chunks /\ fetch[0] = "fetched"
      BY <2>1, <2>2 DEF GetInv, ReaderInv, Compared
    <3>3. p \in Puts /\ Fetched = Value(p)
      BY <2>1, <2>2, <3>2 DEF GetInv, ReaderInv, Found, Intact
    <3>4. \A c \in ChunksOf[p] : Of(c, p)
      BY <2>2, <3>1, <3>3, AllOf
    <3>5. Alone(p)
      BY <1>1, <2>1, <2>2 DEF Alone, storeVars
    <3>6. Fate(p)
      BY <2>1, <2>2, <3>3, <3>5 DEF WasInv, Fate
    <3>7. CASE Live(p)
      BY <2>1, <3>3, <3>4, <3>7, AllHeld DEF Live, WasInv, Calling
    <3>8. ~ Gone(p)
      BY <3>4 DEF Gone
    <3> QED
      BY <3>3, <3>6, <3>7, <3>8 DEF Fate
  <2>3. PICK p : p = pieces[0][1]
    OBVIOUS
  <2>4. pieces'[0][1] = p /\ Fetched' = Fetched
    BY <2>1, <2>3 DEF Fetched
  <2>5. AnswerWasThere'
    BY <1>1, <1>3, <2>2, <2>3, <2>4 DEF AnswerWasThere, Alone
  <2> QED
    BY <1>4, <2>1, <2>5
<1>11. CASE WriterStep
  <2>1. StoreNext /\ UNCHANGED readVars /\ UNCHANGED <<call, total, pieces>>
    BY <1>11 DEF WriterStep, readVars
  <2>2. ASSUME call' = "fetching", ShareNothing, NEW p \in Puts, Alone(p)'
        PROVE  Fate(p)'
    <3>1. Calling /\ call = "fetching"
      BY <2>1, <2>2 DEF Calling
    <3>2. Alone(p)
      BY <1>1, <2>1, <2>2, AloneBefore
    <3> QED
      BY <1>3, <2>1, <2>2, <3>1, <3>2, FateWrite DEF WasInv, Fate
  <2>3. ASSUME NEW p \in Puts, Alone(p)'
        PROVE  Alone(p)
    BY <1>1, <2>1, <2>3, AloneBefore
  <2>4. call' = "ok" => UNCHANGED whole
    BY <1>3 DEF Calling
  <2> QED
    BY <1>4, <2>1, <2>2, <2>3, <2>4
<1> QED
  BY <1>5, <1>6, <1>8, <1>9, <1>10, <1>11 DEF Step, ReaderStep, FetchStep

(* A get that answers Ok answers a value the ball really held during the   *)
(* call, for any number of puts and deletes beside it, of retries, chunks  *)
(* and blocks.  The value of the put that had stored the ball was whole    *)
(* when the call began, or one of its chunks was not fetched; a newer put  *)
(* was complete, or had not yet written a chunk that was not fetched.      *)
THEOREM AnswerWasThereAlways == Spec => []AnswerWasThere
<1>1. Init => Pieces /\ WasInv
  BY InitPieces
<1>2. Spec => [](Pieces /\ WasInv)
  BY <1>1, StepPieces, StepWas, GetInvariant, PTL DEF Spec
<1>3. WasInv => AnswerWasThere
  BY DEF WasInv
<1> QED
  BY <1>2, <1>3, PTL

-----------------------------------------------------------------------------
(* What a put that has no rival has stored so far.                         *)
Solo(p) == \A k \in Calls \ {Old, p} : phase[k] = "idle"

Stored(p) == /\ \A c \in tasks[p] \cup acked[p] : meta[c] = p
             /\ \A c \in acked[p] : data[c] = p

Bare(p) == tasks[p] = {} /\ acked[p] = {}

SoloInv ==
  \A p \in Puts :
    /\ phase[p] = "idle" => Bare(p)
    /\ phase[p] = "ok" => acked[p] = ChunksOf[p]
    /\ Solo(p) /\ phase[p] \in {"uploading", "ok"} => Stored(p)

OldDone == Old \in Calls => phase[Old] = "ok"

LEMMA InitSolo == Init => SoloInv /\ OldDone
<1> SUFFICES ASSUME Init PROVE SoloInv /\ OldDone
  OBVIOUS
<1>1. OldDone
  BY DEF Init, ReadInit, OldDone
<1>2. ASSUME NEW p \in Puts
      PROVE  /\ phase[p] = "idle" => Bare(p)
             /\ phase[p] = "ok" => acked[p] = ChunksOf[p]
             /\ phase[p] \in {"uploading", "ok"} => Stored(p)
  <2>1. /\ p \in Calls /\ p # None /\ ChunksOf[p] \subseteq Chunks
        /\ phase[p] = IF p = Old THEN "ok" ELSE "idle"
        /\ tasks[p] = {} /\ acked[p] = IF p = Old THEN ChunksOf[p] ELSE {}
    BY Constants DEF Init, ReadInit, Calls
  <2>2. CASE p # Old
    BY <2>1, <2>2 DEF Bare
  <2>3. CASE p = Old
    <3>1. \A c \in ChunksOf[p] : meta[c] = p /\ data[c] = p
      BY <2>1, <2>3 DEF Init, ReadInit
    <3> QED
      BY <2>1, <2>3, <3>1 DEF Stored
  <2> QED
    BY <2>2, <2>3
<1> QED
  BY <1>1, <1>2 DEF SoloInv

(* A call that a put without rivals sees at work is this put.              *)
LEMMA NoRival ==
  ASSUME OldDone, NEW p \in Puts, Solo(p), NEW k \in Calls, phase[k] \notin {"idle", "ok"}
  PROVE  k = p
BY DEF OldDone, Solo

LEMMA StillIdle ==
  ASSUME StoreInv, [StoreNext]_storeVars, NEW k \in Calls, phase'[k] = "idle"
  PROVE  phase[k] = "idle"
<1>1. phase \in [Calls -> {"idle", "uploading", "erasing", "ok", "err"}]
  BY DEF StoreInv, StoreTypes
<1>2. \A p \in Puts : p \in Calls
  BY DEF Calls
<1>3. CASE UNCHANGED phase
  BY <1>3
<1>4. CASE phase' # phase
  <2>1. PICK j \in Calls : GiveUp(j) \/ Begin(j) \/ ReturnOk(j) \/ ReturnErr(j)
    BY <1>2, <1>4 DEF StoreNext, storeVars, Post, Upload, Erase
  <2>2. PICK s : phase' = [phase EXCEPT ![j] = s] /\ s # "idle"
    BY <2>1 DEF GiveUp, Begin, ReturnOk, ReturnErr, Become
  <2> QED
    BY <1>1, <2>2
<1> QED
  BY <1>3, <1>4

LEMMA StepSolo ==
  ASSUME StoreInv, SoloInv, OldDone, [StoreNext]_storeVars, UNCHANGED situation
  PROVE  SoloInv' /\ OldDone'
<1>1. StoreTypes /\ Old' = Old /\ \A p \in Puts : p \in Calls
  BY DEF StoreInv, Old, Calls
<1>2. OldDone'
  BY <1>1, OkStays DEF OldDone
<1>3. ASSUME NEW p \in Puts, Solo(p)'
      PROVE  Solo(p)
  <2> SUFFICES ASSUME NEW k \in Calls \ {Old, p} PROVE phase[k] = "idle"
    BY DEF Solo
  <2>1. phase'[k] = "idle"
    BY <1>1, <1>3 DEF Solo
  <2> QED
    BY <2>1, StillIdle
<1> SUFFICES ASSUME NEW p \in Puts
             PROVE  /\ phase'[p] = "idle" => Bare(p)'
                    /\ phase'[p] = "ok" => acked'[p] = ChunksOf[p]
                    /\ Solo(p)' /\ phase'[p] \in {"uploading", "ok"} => Stored(p)'
  BY <1>2 DEF SoloInv
<1> DEFINE Old1 == /\ phase[p] = "idle" => Bare(p)
                   /\ phase[p] = "ok" => acked[p] = ChunksOf[p]
                   /\ Solo(p) /\ phase[p] \in {"uploading", "ok"} => Stored(p)
<1>4. Old1
  BY DEF SoloInv
<1>5. CASE UNCHANGED storeVars
  <2>1. UNCHANGED <<phase, meta, data, tasks, acked>>
    BY <1>5 DEF storeVars
  <2> QED
    BY <1>3, <1>4, <2>1 DEF Bare, Stored
<1>6. ASSUME NEW q \in Puts, NEW c \in Chunks, Post(q, c)
      PROVE  /\ phase'[p] = "idle" => Bare(p)'
             /\ phase'[p] = "ok" => acked'[p] = ChunksOf[p]
             /\ Solo(p)' /\ phase'[p] \in {"uploading", "ok"} => Stored(p)'
  <2>1. /\ phase[q] = "uploading" /\ UNCHANGED <<phase, data, acked>>
        /\ meta' = [meta EXCEPT ![c] = q]
        /\ tasks' = [tasks EXCEPT ![q] = @ \cup {c}] \/ UNCHANGED tasks
    BY <1>6 DEF Post
  <2>2. CASE q = p
    <3>1. \A d \in Chunks : meta'[d] = IF d = c THEN p ELSE meta[d]
      BY <1>1, <2>1, <2>2 DEF StoreTypes
    <3>2. tasks'[p] \subseteq tasks[p] \cup {c} /\ tasks[p] \cup acked[p] \subseteq Chunks
      BY <1>1, <2>1, <2>2 DEF StoreTypes
    <3> QED
      BY <1>3, <1>4, <2>1, <2>2, <3>1, <3>2 DEF Stored
  <2>3. CASE q # p
    <3>1. ~ Solo(p)'
      BY <1>1, <1>3, <2>1, <2>3, NoRival
    <3>2. tasks'[p] = tasks[p]
      BY <1>1, <2>1, <2>3 DEF StoreTypes
    <3> QED
      BY <1>4, <2>1, <3>1, <3>2 DEF Bare
  <2> QED
    BY <2>2, <2>3
<1>7. ASSUME NEW q \in Puts, NEW c \in Chunks, Upload(q, c)
      PROVE  /\ phase'[p] = "idle" => Bare(p)'
             /\ phase'[p] = "ok" => acked'[p] = ChunksOf[p]
             /\ Solo(p)' /\ phase'[p] \in {"uploading", "ok"} => Stored(p)'
  <2>1. /\ phase[q] = "uploading" /\ c \in tasks[q] /\ UNCHANGED <<phase, meta>>
        /\ tasks' = [tasks EXCEPT ![q] = @ \ {c}]
        /\ \/ /\ data' = [data EXCEPT ![c] = q]
              /\ acked' = [acked EXCEPT ![q] = @ \cup {c}] \/ UNCHANGED acked
           \/ UNCHANGED <<data, acked>>
    BY <1>7 DEF Upload
  <2>2. CASE q = p
    <3>1. \A d \in Chunks : data'[d] = data[d] \/ data'[d] = p
      BY <1>1, <2>1, <2>2 DEF StoreTypes
    <3>2. /\ tasks'[p] \subseteq tasks[p] /\ tasks[p] \cup acked[p] \subseteq Chunks
          /\ acked'[p] \subseteq acked[p] \cup tasks[p]
      BY <1>1, <2>1, <2>2 DEF StoreTypes
    <3>3. \A d \in acked'[p] : d \in acked[p] \/ data'[d] = p
      BY <1>1, <2>1, <2>2 DEF StoreTypes
    <3> QED
      BY <1>3, <1>4, <2>1, <2>2, <3>1, <3>2, <3>3 DEF Stored
  <2>3. CASE q # p
    <3>1. ~ Solo(p)'
      BY <1>1, <1>3, <2>1, <2>3, NoRival
    <3>2. tasks'[p] = tasks[p] /\ acked'[p] = acked[p]
      BY <1>1, <2>1, <2>3 DEF StoreTypes
    <3> QED
      BY <1>4, <2>1, <3>1, <3>2 DEF Bare
  <2> QED
    BY <2>2, <2>3
<1>8. ASSUME NEW k \in Calls, NEW c \in Chunks, Erase(k, c)
      PROVE  /\ phase'[p] = "idle" => Bare(p)'
             /\ phase'[p] = "ok" => acked'[p] = ChunksOf[p]
             /\ Solo(p)' /\ phase'[p] \in {"uploading", "ok"} => Stored(p)'
  <2>1. phase[k] = "erasing" /\ UNCHANGED <<phase, tasks, acked>>
    BY <1>8 DEF Erase
  <2>2. Solo(p)' => k = p
    BY <1>3, <2>1, NoRival
  <2> QED
    BY <1>4, <2>1, <2>2 DEF Bare
<1>9. ASSUME NEW k \in Calls, GiveUp(k) \/ Begin(k) \/ ReturnOk(k) \/ ReturnErr(k)
      PROVE  /\ phase'[p] = "idle" => Bare(p)'
             /\ phase'[p] = "ok" => acked'[p] = ChunksOf[p]
             /\ Solo(p)' /\ phase'[p] \in {"uploading", "ok"} => Stored(p)'
  <2>1. UNCHANGED <<meta, data, tasks, acked>>
    BY <1>9 DEF GiveUp, Begin, ReturnOk, ReturnErr
  <2>2. PICK s \in {"uploading", "erasing", "ok", "err"} :
          /\ phase' = [phase EXCEPT ![k] = s]
          /\ k \in Puts /\ s = "uploading" => phase[k] = "idle"
          /\ k \in Puts /\ s = "ok" => phase[k] = "uploading" /\ acked[k] = ChunksOf[k]
    BY <1>9 DEF GiveUp, Begin, ReturnOk, ReturnErr, Become
  <2>3. Bare(p)' <=> Bare(p)
    BY <2>1 DEF Bare
  <2>4. Stored(p)' <=> Stored(p)
    BY <2>1 DEF Stored
  <2>5. CASE k # p
    <3>1. phase'[p] = phase[p]
      BY <1>1, <2>2, <2>5 DEF StoreTypes
    <3> QED
      BY <1>3, <1>4, <2>1, <2>3, <2>4, <3>1
  <2>6. CASE k = p
    <3>1. phase'[p] = s
      BY <1>1, <2>2, <2>6 DEF StoreTypes
    <3>2. phase[p] = "idle" => Stored(p)
      BY <1>4 DEF Bare, Stored
    <3> QED
      BY <1>3, <1>4, <2>1, <2>2, <2>4, <2>6, <3>1, <3>2
  <2> QED
    BY <2>5, <2>6
<1> QED
  BY <1>1, <1>5, <1>6, <1>7, <1>8, <1>9 DEF StoreNext

(* A ball at rest is there, whole and with its metadata.                   *)
LEMMA RestStored ==
  ASSUME SoloInv, NEW p \in Puts, AtRest(p)
  PROVE  \A c \in ChunksOf[p] : meta[c] = p /\ data[c] = p
BY DEF SoloInv, AtRest, Solo, Stored

(* While it stays at rest, no writer makes a step.                         *)
LEMMA RestStill ==
  ASSUME StoreInv, OldDone, [StoreNext]_storeVars, UNCHANGED situation,
         NEW p \in Puts, phase[p] = "ok", AtRest(p)'
  PROVE  AtRest(p) /\ UNCHANGED storeVars
<1>1. Old' = Old /\ \A q \in Puts : q \in Calls
  BY DEF Old, Calls
<1>2. AtRest(p)
  <2>1. ASSUME NEW k \in Calls \ {Old, p}
        PROVE  phase[k] = "idle"
    BY <1>1, StillIdle DEF AtRest
  <2> QED
    BY <2>1 DEF AtRest
<1>3. \A k \in Calls : phase[k] \in {"idle", "ok"} /\ phase'[k] \in {"idle", "ok"}
  <2>1. ASSUME NEW k \in Calls, k = Old \/ k = p
        PROVE  phase[k] = "ok" /\ phase'[k] = "ok"
    BY <2>1, OkStays DEF OldDone
  <2> QED
    BY <1>1, <1>2, <2>1 DEF AtRest
<1>4. ~ \E q \in Puts, c \in Chunks : Post(q, c) \/ Upload(q, c)
  BY <1>1, <1>3 DEF Post, Upload
<1>5. ~ \E k \in Calls, c \in Chunks : Erase(k, c)
  BY <1>3 DEF Erase
<1>6. ASSUME NEW k \in Calls, GiveUp(k) \/ Begin(k) \/ ReturnOk(k) \/ ReturnErr(k)
      PROVE  FALSE
  <2>1. PICK s \in {"uploading", "erasing", "ok", "err"} :
          /\ phase' = [phase EXCEPT ![k] = s]
          /\ s = "ok" => phase[k] \in {"uploading", "erasing"}
    BY <1>6 DEF GiveUp, Begin, ReturnOk, ReturnErr, Become
  <2>2. phase'[k] = s
    BY <2>1 DEF StoreInv, StoreTypes
  <2> QED
    BY <1>3, <2>1, <2>2
<1> QED
  BY <1>1, <1>2, <1>4, <1>5, <1>6 DEF StoreNext

-----------------------------------------------------------------------------
(* The read of a ball at rest has come across no other put.                *)
Reads(p) == p \in rested /\ AtRest(p) /\ ProbeIndex \in ChunksOf[p]

OnlyItsChunks(p) ==
  /\ call # "idle"
  /\ \A c \in Chunks : /\ fetch[c] = "reading" => seen[c] = p
                       /\ fetch[c] = "fetched" => pieces[c] = <<p, Content[p][c]>>
                       /\ fetch[c] # "idle" => c \in Asked(p)
  /\ call \in {"fetching", "ok"} =>
       total = Cardinality(ChunksOf[p]) /\ \A c \in Asked(p) : fetch[c] # "idle"
  /\ call = "ok" => \A c \in Chunks : fetch[c] \in {"idle", "fetched"}

ReadsInv == /\ call = "idle" => rested = {}
            /\ rested \subseteq {p \in Puts : phase[p] = "ok"}
            /\ \A p \in Puts : Reads(p) => OnlyItsChunks(p)

LEMMA InitReads == Init => ReadsInv
BY DEF Init, ReadsInv, Reads

LEMMA AskedChunks ==
  ASSUME NEW p \in Puts, ProbeIndex \in ChunksOf[p]
  PROVE  Asked(p) \subseteq ChunksOf[p] /\ ChunksOf[p] \subseteq Chunks
BY Constants DEF Asked

(* The reader moves on beside a ball at rest.                              *)
LEMMA ReadMoves ==
  ASSUME GetInv, SoloInv, Pieces, NEW p \in Puts, Reads(p), OnlyItsChunks(p),
         ReaderStep
  PROVE  OnlyItsChunks(p)'
<1>1. ReaderTypes
  BY DEF GetInv, ReaderInv
<1>2. /\ ProbeIndex \in ChunksOf[p] /\ Asked(p) \subseteq ChunksOf[p]
      /\ ChunksOf[p] \subseteq Chunks
      /\ \A c \in ChunksOf[p] : meta[c] = p /\ data[c] = p
  BY AskedChunks, RestStored DEF Reads
<1>3. UNCHANGED situation /\ Asked(p)' = Asked(p)
  BY DEF ReaderStep, FetchStep, ProbeAnswered, ProbeFails, Acquire, AskMetadata, ReadData,
         Miss, Finish, Asked, operation
<1>4. CASE ProbeFails
  <2>1. call = "probing" /\ call' \in {"probing", "err"} /\ UNCHANGED <<fetch, seen, pieces>>
    BY <1>4 DEF ProbeFails
  <2> QED
    BY <1>3, <2>1 DEF OnlyItsChunks
<1>5. CASE ProbeAnswered(Wanted)
  <2>1. /\ call' = "fetching" /\ total' = Cardinality(ChunksOf[meta[ProbeIndex]])
        /\ fetch' = [c \in Chunks |-> IF c \in Wanted THEN "waiting" ELSE "idle"]
    BY <1>5 DEF ProbeAnswered
  <2>2. meta[ProbeIndex] = p
    BY <1>2
  <2>3. ChunksOf[p] = {c \in Chunks : c < Cardinality(ChunksOf[p])}
    BY ReadAssumption
  <2>4. Wanted = Asked(p)
    BY <2>2, <2>3 DEF Wanted, Asked
  <2>5. \A c \in Chunks : /\ fetch'[c] \in {"waiting", "idle"}
                          /\ fetch'[c] # "idle" <=> c \in Asked(p)
    BY <2>1, <2>4
  <2> QED
    BY <1>2, <1>3, <2>1, <2>2, <2>5 DEF OnlyItsChunks
<1>6. ASSUME NEW c \in Chunks, NEW s \in FetchStates \ {"idle"},
             call = "fetching", fetch[c] # "idle", fetch' = [fetch EXCEPT ![c] = s],
             UNCHANGED <<call, total>>,
             \A d \in Chunks \ {c} : seen'[d] = seen[d] /\ pieces'[d] = pieces[d],
             s = "reading" => seen'[c] = p,
             s = "fetched" => pieces'[c] = <<p, Content[p][c]>>
      PROVE  OnlyItsChunks(p)'
  <2>1. /\ fetch'[c] = s /\ s # "idle" /\ c \in Asked(p)
        /\ \A d \in Chunks \ {c} : fetch'[d] = fetch[d]
    BY <1>1, <1>6 DEF ReaderTypes, OnlyItsChunks
  <2>2. ASSUME NEW d \in Chunks
        PROVE  /\ fetch'[d] = "reading" => seen'[d] = p
               /\ fetch'[d] = "fetched" => pieces'[d] = <<p, Content[p][d]>>
               /\ fetch'[d] # "idle" => d \in Asked(p)
    <3>1. CASE d = c
      BY <1>6, <2>1, <3>1
    <3>2. CASE d # c
      BY <1>6, <2>1, <3>2 DEF OnlyItsChunks
    <3> QED
      BY <3>1, <3>2
  <2>3. total' = Cardinality(ChunksOf[p]) /\ \A d \in Asked(p) : fetch'[d] # "idle"
    BY <1>2, <1>6, <2>1 DEF OnlyItsChunks
  <2> QED
    BY <1>3, <1>6, <2>2, <2>3 DEF OnlyItsChunks
<1>7. ASSUME NEW c \in Chunks, Acquire(c)
      PROVE  OnlyItsChunks(p)'
  <2>1. "asking" \in FetchStates \ {"idle"}
    BY DEF FetchStates
  <2> QED
    BY <1>6, <1>7, <2>1 DEF Acquire
<1>8. ASSUME NEW c \in Chunks, AskMetadata(c)
      PROVE  OnlyItsChunks(p)'
  <2>1. /\ call = "fetching" /\ fetch[c] = "asking"
        /\ fetch' = [fetch EXCEPT ![c] = "reading"] /\ seen' = [seen EXCEPT ![c] = meta[c]]
        /\ UNCHANGED <<call, total, pieces>>
    BY <1>8 DEF AskMetadata
  <2>2. meta[c] = p
    BY <1>2, <2>1 DEF OnlyItsChunks
  <2>3. seen'[c] = p /\ \A d \in Chunks \ {c} : seen'[d] = seen[d]
    BY <1>1, <2>1, <2>2 DEF ReaderTypes
  <2>4. "reading" \in FetchStates \ {"idle"}
    BY DEF FetchStates
  <2> QED
    BY <1>6, <2>1, <2>3, <2>4
<1>9. ASSUME NEW c \in Chunks, ReadData(c)
      PROVE  OnlyItsChunks(p)'
  <2>1. /\ call = "fetching" /\ fetch[c] = "reading"
        /\ fetch' = [fetch EXCEPT ![c] = "fetched"]
        /\ pieces' = [pieces EXCEPT ![c] = <<seen[c], Downloaded(c)>>]
        /\ UNCHANGED <<call, total, seen>>
    BY <1>9 DEF ReadData
  <2>2. seen[c] = p /\ c \in ChunksOf[p] /\ data[c] = p
    BY <1>2, <2>1 DEF OnlyItsChunks
  <2>3. Downloaded(c) = Content[p][c]
    BY <2>2, WholeDownload
  <2>4. /\ pieces'[c] = <<p, Content[p][c]>>
        /\ \A d \in Chunks \ {c} : pieces'[d] = pieces[d]
    BY <1>1, <2>1, <2>2, <2>3 DEF ReaderTypes
  <2>5. "fetched" \in FetchStates \ {"idle"}
    BY DEF FetchStates
  <2> QED
    BY <1>6, <2>1, <2>4, <2>5
<1>10. ASSUME NEW c \in Chunks, Miss(c)
       PROVE  OnlyItsChunks(p)'
  <2> DEFINE s == IF tries[c] + 1 < MaxRetries THEN "waiting" ELSE "failed"
  <2>1. /\ call = "fetching" /\ fetch[c] # "idle" /\ fetch' = [fetch EXCEPT ![c] = s]
        /\ UNCHANGED <<call, total, seen, pieces>>
    BY <1>10 DEF Miss, Misses
  <2>2. s \in FetchStates \ {"idle"} /\ s \in {"waiting", "failed"}
    BY DEF FetchStates
  <2> HIDE DEF s
  <2> QED
    BY <1>6, <2>1, <2>2
<1>11. CASE Finish
  <2>1. /\ call = "fetching" /\ UNCHANGED <<total, fetch, seen, pieces>>
        /\ call' \in {"ok", "err"}
        /\ call' = "ok" => \A c \in Chunks : fetch[c] # "idle" => fetch[c] = "fetched"
    BY <1>11 DEF Finish
  <2> QED
    BY <1>3, <2>1 DEF OnlyItsChunks
<1> QED
  BY <1>4, <1>5, <1>7, <1>8, <1>9, <1>10, <1>11 DEF ReaderStep, FetchStep

LEMMA StepReads ==
  GetInv /\ Pieces /\ SoloInv /\ OldDone /\ ReadsInv /\ [Next]_vars => ReadsInv'
<1> SUFFICES ASSUME GetInv, Pieces, SoloInv, OldDone, ReadsInv, [Next]_vars PROVE ReadsInv'
  OBVIOUS
<1>1. [StoreNext]_storeVars /\ UNCHANGED situation /\ Old' = Old /\ operation' = operation
  BY DEF Next, Step, WriterStep, ReaderStep, FetchStep, StartCall, ProbeAnswered, Old, operation,
         ProbeFails, Acquire, AskMetadata, ReadData, Miss, Finish, vars, storeVars, readVars
<1>2. StoreInv /\ \A p \in Puts : p \in Calls
  BY DEF GetInv, Calls
<1>3. rested' = rested \/ (call = "idle" /\ call' # "idle" /\ rested' = {p \in Puts : AtRest(p)})
  BY DEF Next, Remember, vars
<1>4. call' = "idle" => call = "idle"
  BY DEF Next, Step, WriterStep, ReaderStep, FetchStep, StartCall, ProbeAnswered,
         ProbeFails, Acquire, AskMetadata, ReadData, Miss, Finish, vars, readVars
<1>5. call' = "idle" => rested' = {}
  BY <1>3, <1>4 DEF ReadsInv
<1>6. ASSUME NEW p \in rested'
      PROVE  p \in Puts /\ phase[p] = "ok" /\ phase'[p] = "ok"
  <2>1. p \in Puts /\ phase[p] = "ok"
    BY <1>3, <1>6 DEF ReadsInv, AtRest
  <2> QED
    BY <1>1, <1>2, <2>1, OkStays
<1>7. ASSUME NEW p \in Puts, Reads(p)'
      PROVE  OnlyItsChunks(p)'
  <2>1. p \in rested' /\ AtRest(p)' /\ ProbeIndex \in ChunksOf[p]
    BY <1>7 DEF Reads
  <2>2. AtRest(p) /\ UNCHANGED storeVars
    BY <1>1, <1>2, <1>6, <2>1, RestStill
  <2>3. Asked(p)' = Asked(p)
    BY <1>1 DEF Asked
  <2>4. CASE call = "idle"
    <3>1. call' # "idle"
      BY <1>5, <2>1
    <3>2. StartCall
      BY <2>4, <3>1 DEF Next, Step, WriterStep, ReaderStep, FetchStep, ProbeAnswered,
         ProbeFails, Acquire, AskMetadata, ReadData, Miss, Misses, Finish, vars, readVars
    <3>3. call' \in {"probing", "err"} /\ \A c \in Chunks : fetch'[c] = "idle"
      BY <2>4, <3>2 DEF StartCall, Pieces
    <3> QED
      BY <3>3 DEF OnlyItsChunks
  <2>5. CASE call # "idle"
    <3>1. Reads(p) /\ OnlyItsChunks(p)
      BY <1>3, <2>1, <2>2, <2>5 DEF Reads, ReadsInv
    <3>2. CASE ReaderStep
      BY <3>1, <3>2, ReadMoves
    <3>3. CASE ~ ReaderStep
      <4>1. UNCHANGED readVars
        BY <2>5, <3>3 DEF Next, Step, WriterStep, StartCall, vars
      <4> QED
        BY <2>3, <3>1, <4>1 DEF OnlyItsChunks, readVars
    <3> QED
      BY <3>2, <3>3
  <2> QED
    BY <2>4, <2>5
<1> QED
  BY <1>5, <1>6, <1>7 DEF ReadsInv

(* Read your writes: a get, get_chunks or get_chunk that begins when a put *)
(* has answered Ok hands out the chunks of this put, as many as it has and *)
(* nothing of the ball it has replaced, for any number of puts, chunks,    *)
(* retries and parallel gets, unless a third call begins.  The put alone   *)
(* has stored metadata and bytes of every chunk of it, the first metadata  *)
(* tells their number, and the writers are still while all is at rest.     *)
THEOREM ReadsTheBallAlways == Spec => []ReadsTheBall
<1>1. Init => Pieces /\ SoloInv /\ OldDone /\ ReadsInv
  BY InitPieces, InitSolo, InitReads
<1>2. GetInv /\ SoloInv /\ OldDone /\ [Next]_vars => SoloInv' /\ OldDone'
  <2> SUFFICES ASSUME GetInv, SoloInv, OldDone, [Next]_vars PROVE SoloInv' /\ OldDone'
    OBVIOUS
  <2>1. [StoreNext]_storeVars /\ UNCHANGED situation /\ StoreInv
    BY DEF Next, Step, WriterStep, ReaderStep, FetchStep, StartCall, ProbeAnswered, GetInv,
           ProbeFails, Acquire, AskMetadata, ReadData, Miss, Finish, vars, storeVars, readVars
  <2> QED
    BY <2>1, StepSolo
<1>3. Spec => [](Pieces /\ SoloInv /\ OldDone /\ ReadsInv)
  BY <1>1, <1>2, StepPieces, StepReads, GetInvariant, PTL DEF Spec
<1>4. ReadsInv => ReadsTheBall
  <2> SUFFICES ASSUME ReadsInv, call = "ok", NEW p \in rested, AtRest(p),
                      ProbeIndex \in ChunksOf[p]
               PROVE  /\ total = Cardinality(ChunksOf[p])
                      /\ {c \in Chunks : fetch[c] = "fetched"} = Asked(p)
                      /\ \A c \in Asked(p) : pieces[c] = <<p, Content[p][c]>>
    BY DEF ReadsTheBall
  <2>1. p \in Puts /\ OnlyItsChunks(p)
    BY DEF ReadsInv, Reads
  <2>2. Asked(p) \subseteq Chunks
    BY <2>1, AskedChunks
  <2>3. \A c \in Chunks : c \in Asked(p) <=> fetch[c] = "fetched"
    BY <2>1, <2>2 DEF OnlyItsChunks
  <2> QED
    BY <2>1, <2>2, <2>3 DEF OnlyItsChunks
<1> QED
  BY <1>3, <1>4, PTL
=============================================================================
