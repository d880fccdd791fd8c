---------------------------- MODULE BucketsProofs ----------------------------
(***************************************************************************)
(* The bucket operations keep their hands off balls with other names, and  *)
(* count what they delete once per router, for any calls, names, chunks    *)
(* and routers.                                                            *)
(***************************************************************************)
EXTENDS Buckets, FiniteSetTheorems, SequenceTheorems, WellFoundedInduction, TLAPS

-----------------------------------------------------------------------------
(* What sanitize_str does, for names of any length.  Induction runs with a *)
(* set in place of a predicate, over numbers and over sequences.           *)
LEMMA NatInSet ==
  ASSUME NEW S, 0 \in S, \A n \in Nat : n \in S => n + 1 \in S
  PROVE  Nat \subseteq S
<1> DEFINE T == Nat \ S
           R == OpToRel(<, Nat)
<1> SUFFICES ASSUME T # {} PROVE FALSE
  OBVIOUS
<1>1. T \subseteq Nat /\ IsWellFoundedOn(R, Nat)
  BY NatLessThanWellFounded
<1> HIDE DEF R
<1>2. PICK x \in T : \A y \in T : ~ (<<y, x>> \in R)
  BY <1>1, WFMin
<1>3. x # 0 /\ x \in Nat
  OBVIOUS
<1>4. x - 1 \in Nat /\ x - 1 < x /\ (x - 1) + 1 = x
  BY <1>3
<1>5. x - 1 \in T
  BY <1>2, <1>4
<1>6. <<x - 1, x>> \in R
  BY <1>3, <1>4 DEF R, OpToRel
<1> QED
  BY <1>2, <1>5, <1>6

LEMMA SeqInSet ==
  ASSUME NEW S, NEW Q, <<>> \in Q,
         \A x \in Seq(S), ch \in S : x \in Q => Append(x, ch) \in Q
  PROVE  Seq(S) \subseteq Q
<1> DEFINE T == {n \in Nat : \A x \in Seq(S) : Len(x) = n => x \in Q}
<1>1. 0 \in T
  BY EmptySeq
<1>2. ASSUME NEW n \in Nat, n \in T
      PROVE  n + 1 \in T
  <2> SUFFICES ASSUME NEW x \in Seq(S), Len(x) = n + 1 PROVE x \in Q
    OBVIOUS
  <2> DEFINE y == SubSeq(x, 1, n)
  <2>1. y \in Seq(S) /\ Len(y) = n /\ x[n + 1] \in S
    OBVIOUS
  <2>2. x = Append(y, x[n + 1])
    OBVIOUS
  <2> HIDE DEF y
  <2>3. y \in Q
    BY <1>2, <2>1
  <2>4. Append(y, x[n + 1]) \in Q
    BY <2>1, <2>3
  <2> QED
    BY <2>2, <2>4
<1>3. Nat \subseteq T
  <2> HIDE DEF T
  <2> QED
    BY <1>1, <1>2, NatInSet
<1> QED
  BY <1>3, LenProperties

(* The loops of sanitize_str: there is a function that satisfies the       *)
(* recursion, and only one.                                                *)
Steps(S, n) == [1..n -> [Seq(S) -> Seq(S)]]

Loops(S, n, H) == {g \in [0..n -> Seq(S)] :
                     g[0] = <<>> /\ \A i \in 1..n : g[i] = H[i][g[i - 1]]}

LEMMA LoopExists ==
  ASSUME NEW S, NEW n \in Nat, NEW H \in Steps(S, n)
  PROVE  Loops(S, n, H) # {}
<1> DEFINE Ok(m) == \E g \in [0..m -> Seq(S)] :
                      g[0] = <<>> /\ \A i \in 1..m : g[i] = H[i][g[i - 1]]
           T == {m \in Nat : m <= n => Ok(m)}
<1>1. 0 \in T
  <2> DEFINE g == [i \in 0..0 |-> <<>>]
  <2>1. g \in [0..0 -> Seq(S)] /\ g[0] = <<>> /\ \A i \in 1..0 : FALSE
    BY EmptySeq
  <2> HIDE DEF g
  <2> QED
    BY <2>1
<1>2. ASSUME NEW m \in Nat, m \in T
      PROVE  m + 1 \in T
  <2> SUFFICES ASSUME m + 1 <= n PROVE Ok(m + 1)
    <3> HIDE DEF Ok
    <3> QED
      OBVIOUS
  <2>1. PICK g \in [0..m -> Seq(S)] :
          g[0] = <<>> /\ \A i \in 1..m : g[i] = H[i][g[i - 1]]
    <3>1. m <= n
      OBVIOUS
    <3> QED
      BY <1>2, <3>1
  <2> DEFINE last == H[m + 1][g[m]]
             h == [i \in 0..(m + 1) |-> IF i = m + 1 THEN last ELSE g[i]]
  <2>2. last \in Seq(S)
    BY DEF Steps
  <2>3. h \in [0..(m + 1) -> Seq(S)] /\ h[m + 1] = last /\ \A i \in 0..m : h[i] = g[i]
    BY <2>2
  <2> HIDE DEF h
  <2>4. ASSUME NEW i \in 1..(m + 1)
        PROVE  h[i] = H[i][h[i - 1]]
    <3>1. CASE i = m + 1
      <4>1. m \in 0..m /\ i - 1 = m
        BY <3>1
      <4> QED
        BY <2>3, <3>1, <4>1
    <3>2. CASE i # m + 1
      <4>1. i \in 1..m /\ i \in 0..m /\ i - 1 \in 0..m
        BY <3>2
      <4> QED
        BY <2>1, <2>3, <4>1
    <3> QED
      BY <3>1, <3>2
  <2>5. h[0] = <<>>
    BY <2>1, <2>3
  <2> QED
    BY <2>3, <2>4, <2>5
<1>3. n \in T
  <2> HIDE DEF T
  <2> QED
    BY <1>1, <1>2, NatInSet
<1>4. n <= n
  OBVIOUS
<1> QED
  BY <1>3, <1>4 DEF Loops

(* Two loops that start at the same value and whose turns agree have the   *)
(* same value after every turn.                                            *)
SameTurns(g, h, k) ==
  /\ g[0] = h[0]
  /\ \A i \in 1..k : g[i - 1] = h[i - 1] => g[i] = h[i]

LEMMA LoopSame ==
  ASSUME NEW k \in Nat, NEW g, NEW h, SameTurns(g, h, k)
  PROVE  g[k] = h[k]
<1>0. /\ g[0] = h[0]
      /\ \A i \in 1..k : g[i - 1] = h[i - 1] => g[i] = h[i]
  BY DEF SameTurns
<1> DEFINE T == {i \in Nat : i <= k => g[i] = h[i]}
<1>1. 0 \in T
  BY <1>0
<1>2. ASSUME NEW i \in Nat, i \in T
      PROVE  i + 1 \in T
  <2> SUFFICES ASSUME i + 1 <= k PROVE g[i + 1] = h[i + 1]
    OBVIOUS
  <2>1. i + 1 \in 1..k /\ (i + 1) - 1 = i /\ i <= k
    OBVIOUS
  <2> QED
    BY <1>0, <1>2, <2>1
<1>3. Nat \subseteq T
  <2> HIDE DEF T
  <2> QED
    BY <1>1, <1>2, NatInSet
<1>4. k <= k
  OBVIOUS
<1> QED
  BY <1>3, <1>4

(* What defines the functions upTo of Kept and Collapsed.                  *)
KeepLoop(g, x) ==
  g = [i \in 0..Len(x) |-> IF i = 0 THEN <<>> ELSE Keep(g[i - 1], x[i])]

CollapseLoop(g, x) ==
  g = [i \in 0..Len(x) |-> IF i = 0 THEN <<>> ELSE Collapse(g[i - 1], x[i])]

LEMMA KeepType ==
  ASSUME NEW S, NEW d \in Seq(S), NEW ch \in S
  PROVE  Keep(d, ch) \in Seq(S)
<1>1. Append(d, ch) \in Seq(S)
  OBVIOUS
<1> QED
  BY <1>1 DEF Keep

LEMMA CollapseType ==
  ASSUME NEW S, "-" \in S, NEW d \in Seq(S), NEW ch \in S
  PROVE  Collapse(d, ch) \in Seq(S)
<1>1. CASE d # <<>> /\ {d[Len(d)], ch} \subseteq Separators
  <2>1. Len(d) \in 1..Len(d)
    BY <1>1, EmptySeq, LenProperties
  <2>2. [d EXCEPT ![Len(d)] = "-"] \in Seq(S)
    BY <2>1, ExceptSeq
  <2> QED
    BY <1>1, <2>2 DEF Collapse
<1>2. CASE ~ (d # <<>> /\ {d[Len(d)], ch} \subseteq Separators)
  BY <1>2 DEF Collapse
<1> QED
  BY <1>1, <1>2

LEMMA KeptIs ==
  ASSUME NEW S, NEW x \in Seq(S)
  PROVE  \E g : KeepLoop(g, x) /\ Kept(x) = g[Len(x)]
<1> DEFINE F == CHOOSE g : KeepLoop(g, x)
<1>1. PICK n \in Nat : n = Len(x) /\ \A i \in 1..n : x[i] \in S
  OBVIOUS
<1>2. PICK H \in Steps(S, n) :
        \A i \in 1..n, d \in Seq(S) : H[i][d] = Keep(d, x[i])
  <2> DEFINE I == [i \in 1..n |-> [d \in Seq(S) |-> Keep(d, x[i])]]
  <2>1. I \in Steps(S, n)
    BY <1>1, KeepType DEF Steps
  <2>2. \A i \in 1..n, d \in Seq(S) : I[i][d] = Keep(d, x[i])
    OBVIOUS
  <2> HIDE DEF I
  <2> QED
    BY <2>1, <2>2
<1>3. PICK g \in [0..n -> Seq(S)] : g[0] = <<>> /\ \A i \in 1..n : g[i] = H[i][g[i - 1]]
  <2>1. PICK g \in Loops(S, n, H) : TRUE
    BY LoopExists
  <2> QED
    BY <2>1 DEF Loops
<1>4. ASSUME NEW i \in 0..n
      PROVE  g[i] = IF i = 0 THEN <<>> ELSE Keep(g[i - 1], x[i])
  <2>1. CASE i = 0
    BY <1>3, <2>1
  <2>2. CASE i # 0
    <3>1. i \in 1..n /\ i - 1 \in 0..n
      BY <2>2
    <3>2. g[i] = H[i][g[i - 1]] /\ g[i - 1] \in Seq(S)
      BY <1>3, <3>1
    <3> QED
      BY <1>2, <2>2, <3>1, <3>2
  <2> QED
    BY <2>1, <2>2
<1>5. g = [i \in 0..n |-> IF i = 0 THEN <<>> ELSE Keep(g[i - 1], x[i])]
  BY <1>4
<1>6. KeepLoop(F, x)
  BY <1>1, <1>5 DEF KeepLoop
<1>7. Kept(x) = F[Len(x)]
  BY DEF Kept, KeepLoop
<1> QED
  BY <1>6, <1>7

LEMMA CollapsedIs ==
  ASSUME NEW S, "-" \in S, NEW x \in Seq(S)
  PROVE  \E g : CollapseLoop(g, x) /\ Collapsed(x) = g[Len(x)]
<1> DEFINE F == CHOOSE g : CollapseLoop(g, x)
<1>1. PICK n \in Nat : n = Len(x) /\ \A i \in 1..n : x[i] \in S
  OBVIOUS
<1>2. PICK H \in Steps(S, n) :
        \A i \in 1..n, d \in Seq(S) : H[i][d] = Collapse(d, x[i])
  <2> DEFINE I == [i \in 1..n |-> [d \in Seq(S) |-> Collapse(d, x[i])]]
  <2>1. I \in Steps(S, n)
    BY <1>1, CollapseType DEF Steps
  <2>2. \A i \in 1..n, d \in Seq(S) : I[i][d] = Collapse(d, x[i])
    OBVIOUS
  <2> HIDE DEF I
  <2> QED
    BY <2>1, <2>2
<1>3. PICK g \in [0..n -> Seq(S)] : g[0] = <<>> /\ \A i \in 1..n : g[i] = H[i][g[i - 1]]
  <2>1. PICK g \in Loops(S, n, H) : TRUE
    BY LoopExists
  <2> QED
    BY <2>1 DEF Loops
<1>4. ASSUME NEW i \in 0..n
      PROVE  g[i] = IF i = 0 THEN <<>> ELSE Collapse(g[i - 1], x[i])
  <2>1. CASE i = 0
    BY <1>3, <2>1
  <2>2. CASE i # 0
    <3>1. i \in 1..n /\ i - 1 \in 0..n
      BY <2>2
    <3>2. g[i] = H[i][g[i - 1]] /\ g[i - 1] \in Seq(S)
      BY <1>3, <3>1
    <3> QED
      BY <1>2, <2>2, <3>1, <3>2
  <2> QED
    BY <2>1, <2>2
<1>5. g = [i \in 0..n |-> IF i = 0 THEN <<>> ELSE Collapse(g[i - 1], x[i])]
  BY <1>4
<1>6. CollapseLoop(F, x)
  BY <1>1, <1>5 DEF CollapseLoop
<1>7. Collapsed(x) = F[Len(x)]
  BY DEF Collapsed, CollapseLoop
<1> QED
  BY <1>6, <1>7

LEMMA KeptNone ==
  ASSUME NEW S
  PROVE  Kept(<<>>) = <<>>
<1>1. <<>> \in Seq(S) /\ Len(<<>>) = 0
  BY EmptySeq
<1>2. PICK g : KeepLoop(g, <<>>) /\ Kept(<<>>) = g[0]
  BY <1>1, KeptIs
<1> QED
  BY <1>1, <1>2 DEF KeepLoop

LEMMA KeptAppend ==
  ASSUME NEW S, NEW x \in Seq(S), NEW ch \in S
  PROVE  Kept(Append(x, ch)) = Keep(Kept(x), ch)
<1>1. PICK y \in Seq(S) : y = Append(x, ch)
  <2>1. Append(x, ch) \in Seq(S)
    OBVIOUS
  <2> QED
    BY <2>1
<1>2. PICK n \in Nat : n = Len(x) /\ Len(y) = n + 1 /\ y[n + 1] = ch
                     /\ \A i \in 1..n : y[i] = x[i]
  BY <1>1
<1>3. PICK g : KeepLoop(g, x) /\ Kept(x) = g[n]
  BY <1>2, KeptIs
<1>4. PICK h : KeepLoop(h, y) /\ Kept(y) = h[n + 1]
  BY <1>2, KeptIs
<1>5. \A i \in 0..n : g[i] = IF i = 0 THEN <<>> ELSE Keep(g[i - 1], x[i])
  BY <1>2, <1>3 DEF KeepLoop
<1>6. \A i \in 0..(n + 1) : h[i] = IF i = 0 THEN <<>> ELSE Keep(h[i - 1], y[i])
  BY <1>2, <1>4 DEF KeepLoop
<1>7. g[0] = h[0]
  <2>1. 0 \in 0..n /\ 0 \in 0..(n + 1)
    OBVIOUS
  <2> QED
    BY <1>5, <1>6, <2>1
<1>8. \A i \in 1..n : g[i - 1] = h[i - 1] => g[i] = h[i]
  <2> SUFFICES ASSUME NEW i \in 1..n, g[i - 1] = h[i - 1]
               PROVE  g[i] = h[i]
    OBVIOUS
  <2>1. i \in 0..n /\ i \in 0..(n + 1) /\ i # 0
    OBVIOUS
  <2>2. y[i] = x[i]
    BY <1>2
  <2> QED
    BY <1>5, <1>6, <2>1, <2>2
<1>9. g[n] = h[n]
  <2>1. SameTurns(g, h, n)
    BY <1>7, <1>8 DEF SameTurns
  <2> QED
    BY <2>1, LoopSame
<1>10. h[n + 1] = Keep(h[n], ch)
  <2>1. n + 1 \in 0..(n + 1) /\ n + 1 # 0 /\ (n + 1) - 1 = n
    OBVIOUS
  <2> QED
    BY <1>2, <1>6, <2>1
<1> QED
  BY <1>1, <1>3, <1>4, <1>9, <1>10

LEMMA CollapsedNone ==
  ASSUME NEW S, "-" \in S
  PROVE  Collapsed(<<>>) = <<>>
<1>1. <<>> \in Seq(S) /\ Len(<<>>) = 0
  BY EmptySeq
<1>2. PICK g : CollapseLoop(g, <<>>) /\ Collapsed(<<>>) = g[0]
  BY <1>1, CollapsedIs
<1> QED
  BY <1>1, <1>2 DEF CollapseLoop

LEMMA CollapsedAppend ==
  ASSUME NEW S, "-" \in S, NEW x \in Seq(S), NEW ch \in S
  PROVE  Collapsed(Append(x, ch)) = Collapse(Collapsed(x), ch)
<1>1. PICK y \in Seq(S) : y = Append(x, ch)
  <2>1. Append(x, ch) \in Seq(S)
    OBVIOUS
  <2> QED
    BY <2>1
<1>2. PICK n \in Nat : n = Len(x) /\ Len(y) = n + 1 /\ y[n + 1] = ch
                     /\ \A i \in 1..n : y[i] = x[i]
  BY <1>1
<1>3. PICK g : CollapseLoop(g, x) /\ Collapsed(x) = g[n]
  BY <1>2, CollapsedIs
<1>4. PICK h : CollapseLoop(h, y) /\ Collapsed(y) = h[n + 1]
  BY <1>2, CollapsedIs
<1>5. \A i \in 0..n : g[i] = IF i = 0 THEN <<>> ELSE Collapse(g[i - 1], x[i])
  BY <1>2, <1>3 DEF CollapseLoop
<1>6. \A i \in 0..(n + 1) : h[i] = IF i = 0 THEN <<>> ELSE Collapse(h[i - 1], y[i])
  BY <1>2, <1>4 DEF CollapseLoop
<1>7. g[0] = h[0]
  <2>1. 0 \in 0..n /\ 0 \in 0..(n + 1)
    OBVIOUS
  <2> QED
    BY <1>5, <1>6, <2>1
<1>8. \A i \in 1..n : g[i - 1] = h[i - 1] => g[i] = h[i]
  <2> SUFFICES ASSUME NEW i \in 1..n, g[i - 1] = h[i - 1]
               PROVE  g[i] = h[i]
    OBVIOUS
  <2>1. i \in 0..n /\ i \in 0..(n + 1) /\ i # 0
    OBVIOUS
  <2>2. y[i] = x[i]
    BY <1>2
  <2> QED
    BY <1>5, <1>6, <2>1, <2>2
<1>9. g[n] = h[n]
  <2>1. SameTurns(g, h, n)
    BY <1>7, <1>8 DEF SameTurns
  <2> QED
    BY <2>1, LoopSame
<1>10. h[n + 1] = Collapse(h[n], ch)
  <2>1. n + 1 \in 0..(n + 1) /\ n + 1 # 0 /\ (n + 1) - 1 = n
    OBVIOUS
  <2> QED
    BY <1>2, <1>6, <2>1
<1> QED
  BY <1>1, <1>3, <1>4, <1>9, <1>10

LEMMA KeptType ==
  ASSUME NEW S, NEW x \in Seq(S)
  PROVE  Kept(x) \in Seq(S \ {"."})
<1> DEFINE Q == {y \in Seq(S) : Kept(y) \in Seq(S \ {"."})}
<1>1. <<>> \in Q
  BY KeptNone, EmptySeq
<1>2. ASSUME NEW y \in Seq(S), NEW ch \in S, y \in Q
      PROVE  Append(y, ch) \in Q
  <2>1. Append(y, ch) \in Seq(S)
    OBVIOUS
  <2>2. Kept(Append(y, ch)) = Keep(Kept(y), ch)
    BY KeptAppend
  <2>3. PICK k \in Seq(S \ {"."}) : k = Kept(y)
    BY <1>2
  <2>4. ch # "." => Append(k, ch) \in Seq(S \ {"."})
    OBVIOUS
  <2> QED
    BY <2>1, <2>2, <2>3, <2>4 DEF Keep
<1>3. Seq(S) \subseteq Q
  <2> HIDE DEF Q
  <2> QED
    BY <1>1, <1>2, SeqInSet
<1> QED
  BY <1>3

LEMMA KeptSame ==
  ASSUME NEW S, "." \notin S, NEW x \in Seq(S)
  PROVE  Kept(x) = x
<1> DEFINE Q == {y \in Seq(S) : Kept(y) = y}
<1>1. <<>> \in Q
  BY KeptNone, EmptySeq
<1>2. ASSUME NEW y \in Seq(S), NEW ch \in S, y \in Q
      PROVE  Append(y, ch) \in Q
  <2>1. Append(y, ch) \in Seq(S)
    OBVIOUS
  <2>2. Kept(Append(y, ch)) = Keep(Kept(y), ch)
    BY KeptAppend
  <2> QED
    BY <1>2, <2>1, <2>2 DEF Keep
<1>3. Seq(S) \subseteq Q
  <2> HIDE DEF Q
  <2> QED
    BY <1>1, <1>2, SeqInSet
<1> QED
  BY <1>3

LEMMA CollapsedType ==
  ASSUME NEW S, "-" \in S, NEW x \in Seq(S)
  PROVE  Collapsed(x) \in Seq(S)
<1> DEFINE Q == {y \in Seq(S) : Collapsed(y) \in Seq(S)}
<1>1. <<>> \in Q
  BY CollapsedNone, EmptySeq
<1>2. ASSUME NEW y \in Seq(S), NEW ch \in S, y \in Q
      PROVE  Append(y, ch) \in Q
  <2>1. Append(y, ch) \in Seq(S)
    OBVIOUS
  <2>2. Collapsed(Append(y, ch)) = Collapse(Collapsed(y), ch)
    BY CollapsedAppend
  <2>3. PICK k \in Seq(S) : k = Collapsed(y)
    BY <1>2
  <2>4. Collapse(k, ch) \in Seq(S)
    BY CollapseType
  <2> QED
    BY <2>1, <2>2, <2>3, <2>4
<1>3. Seq(S) \subseteq Q
  <2> HIDE DEF Q
  <2> QED
    BY <1>1, <1>2, SeqInSet
<1> QED
  BY <1>3

(* No two separators stand side by side.                                   *)
Spaced(x) == \A i, j \in 1..Len(x) :
              j = i + 1 => ~ (x[i] \in Separators /\ x[j] \in Separators)

LEMMA CollapsedSame ==
  ASSUME NEW S, "-" \in S, NEW x \in Seq(S), Spaced(x)
  PROVE  Collapsed(x) = x
<1> DEFINE Q == {y \in Seq(S) : Spaced(y) => Collapsed(y) = y}
<1>1. <<>> \in Q
  BY CollapsedNone, EmptySeq
<1>2. ASSUME NEW y \in Seq(S), NEW ch \in S, y \in Q
      PROVE  Append(y, ch) \in Q
  <2>1. PICK z \in Seq(S) : z = Append(y, ch)
    <3>1. Append(y, ch) \in Seq(S)
      OBVIOUS
    <3> QED
      BY <3>1
  <2> SUFFICES ASSUME Spaced(z) PROVE Collapsed(z) = z
    BY <2>1
  <2>2. Collapsed(z) = Collapse(Collapsed(y), ch)
    BY <2>1, CollapsedAppend
  <2>3. PICK n \in Nat : n = Len(y) /\ Len(z) = n + 1 /\ z[n + 1] = ch
                       /\ \A i \in 1..n : z[i] = y[i]
    BY <2>1
  <2>4. Spaced(y)
    <3> SUFFICES ASSUME NEW i \in 1..n, NEW j \in 1..n, j = i + 1
                 PROVE  ~ (y[i] \in Separators /\ y[j] \in Separators)
      BY <2>3 DEF Spaced
    <3>1. i \in 1..(n + 1) /\ j \in 1..(n + 1)
      OBVIOUS
    <3> QED
      BY <2>3, <3>1 DEF Spaced
  <2>5. Collapsed(y) = y
    BY <1>2, <2>4
  <2>6. y # <<>> => ~ {y[Len(y)], ch} \subseteq Separators
    <3> SUFFICES ASSUME y # <<>> PROVE ~ (y[n] \in Separators /\ ch \in Separators)
      BY <2>3
    <3>1. n # 0
      BY <2>3, EmptySeq
    <3>2. n \in 1..n /\ n \in 1..(n + 1) /\ n + 1 \in 1..(n + 1)
      BY <3>1
    <3> QED
      BY <2>3, <3>2 DEF Spaced
  <2> QED
    BY <2>1, <2>2, <2>5, <2>6 DEF Collapse
<1>3. Seq(S) \subseteq Q
  <2> HIDE DEF Q
  <2> QED
    BY <1>1, <1>2, SeqInSet
<1> QED
  BY <1>3

(* A clean name is left alone.                                             *)
LEMMA TrimmedType ==
  ASSUME NEW S, NEW x \in Seq(S)
  PROVE  Trimmed(x) \in Seq(S)
<1>1. CASE x = <<>>
  <2>1. Trimmed(x) = SubSeq(x, 1, Len(x))
    BY <1>1 DEF Trimmed
  <2> QED
    BY <2>1, SubSeqProperties
<1>2. CASE x # <<>>
  <2>1. PICK i \in 1..2, n \in Nat :
          n \in {Len(x) - 1, Len(x)} /\ Trimmed(x) = SubSeq(x, i, n)
    <3>1. Len(x) \in Nat /\ Len(x) # 0
      BY <1>2, EmptySeq
    <3> DEFINE i == IF x # <<>> /\ Head(x) = "-" THEN 2 ELSE 1
               n == IF x # <<>> /\ x[Len(x)] = "-" THEN Len(x) - 1 ELSE Len(x)
    <3>2. i \in 1..2 /\ n \in Nat /\ n \in {Len(x) - 1, Len(x)}
      BY <3>1
    <3>3. Trimmed(x) = SubSeq(x, i, n)
      BY DEF Trimmed
    <3> HIDE DEF i, n
    <3> QED
      BY <3>2, <3>3
  <2>2. \A k \in i..n : x[k] \in S
    BY <2>1
  <2> QED
    BY <2>1, <2>2, SubSeqProperties
<1> QED
  BY <1>1, <1>2

LEMMA TrimmedSame ==
  ASSUME NEW S, NEW x \in Seq(S), WellFormed(x)
  PROVE  Trimmed(x) = x
<1>1. x # <<>> /\ Len(x) \in Nat /\ Len(x) # 0
  BY EmptySeq DEF WellFormed
<1>2. 1 \in 1..Len(x) /\ Len(x) \in 1..Len(x)
  BY <1>1
<1>3. Head(x) = x[1]
  BY <1>1
<1>4. x[1] \notin Separators /\ x[Len(x)] \notin Separators
  BY <1>1, <1>2 DEF WellFormed
<1>5. Head(x) # "-" /\ x[Len(x)] # "-"
  BY <1>3, <1>4 DEF Separators
<1>6. Trimmed(x) = SubSeq(x, 1, Len(x))
  BY <1>5 DEF Trimmed
<1> QED
  BY <1>6

LEMMA CleanStays ==
  ASSUME NEW S, "-" \in S, NEW x \in Seq(S)
  PROVE  Sanitize(Sanitize(x)) = Sanitize(x)
<1> DEFINE P == S \ {"."}
           t == Trimmed(Collapsed(Kept(x)))
<1>1. "-" \in P /\ "." \notin P
  OBVIOUS
<1>2. t \in Seq(P)
  <2>1. Kept(x) \in Seq(P)
    BY KeptType
  <2> HIDE DEF P
  <2>2. Collapsed(Kept(x)) \in Seq(P)
    BY <1>1, <2>1, CollapsedType
  <2> QED
    BY <2>2, TrimmedType
<1> HIDE DEF P
<1>3. Sanitize(x) = IF WellFormed(t) THEN t ELSE NoName
  BY DEF Sanitize
<1> HIDE DEF t
<1>4. ASSUME WellFormed(t)
      PROVE  Sanitize(t) = t
  <2>1. Kept(t) = t
    BY <1>1, <1>2, KeptSame
  <2>2. Spaced(t)
    BY <1>2, <1>4 DEF Spaced, WellFormed
  <2>3. Collapsed(t) = t
    BY <1>1, <1>2, <2>2, CollapsedSame
  <2>4. Trimmed(t) = t
    BY <1>2, <1>4, TrimmedSame
  <2> QED
    BY <1>4, <2>1, <2>3, <2>4 DEF Sanitize
<1>5. Sanitize(NoName) = NoName
  <2>1. Kept(NoName) = <<>> /\ Collapsed(<<>>) = <<>>
    BY <1>1, KeptNone, CollapsedNone DEF NoName
  <2>2. Trimmed(<<>>) = SubSeq(<<>>, 1, Len(<<>>))
    BY DEF Trimmed
  <2>3. SubSeq(<<>>, 1, Len(<<>>)) = <<>>
    OBVIOUS
  <2> QED
    BY <2>1, <2>2, <2>3 DEF Sanitize, WellFormed, NoName
<1> QED
  BY <1>3, <1>4, <1>5

LEMMA UnderscoreIs == Underscore # "-" /\ Underscore # "."
BY Zenon DEF Underscore

(* The key of a chunk has one ball and one index.                          *)
KeyOf(key, n, i) ==
  /\ Len(key) = Len(n) + 2
  /\ \A k \in 1..Len(n) : key[k] = n[k]
  /\ key[Len(n) + 1] = Underscore
  /\ key[Len(n) + 2] = i

LEMMA KeyIs ==
  ASSUME NEW S, Underscore \in S, NEW n \in Seq(S), NEW i \in S
  PROVE  /\ ChunkKey(n, i) \in Seq(S)
         /\ ChunkKey(n, i) = Append(Append(n, Underscore), i)
         /\ KeyOf(ChunkKey(n, i), n, i)
<1>1. <<Underscore, i>> \in Seq(S) /\ Len(<<Underscore, i>>) = 2
  OBVIOUS
<1>2. Len(n) \in Nat
  OBVIOUS
<1>3. PICK key : key = ChunkKey(n, i)
  OBVIOUS
<1>4. /\ key \in Seq(S) /\ Len(key) = Len(n) + 2
      /\ \A k \in 1..(Len(n) + 2) :
           key[k] = IF k <= Len(n) THEN n[k] ELSE <<Underscore, i>>[k - Len(n)]
  BY <1>1, <1>3, ConcatProperties DEF ChunkKey
<1>5. \A k \in 1..Len(n) : key[k] = n[k]
  BY <1>2, <1>4
<1>6. key[Len(n) + 1] = Underscore /\ key[Len(n) + 2] = i
  BY <1>2, <1>4
<1>7. PICK other \in Seq(S) :
        /\ other = Append(Append(n, Underscore), i) /\ Len(other) = Len(n) + 2
        /\ \A k \in 1..Len(n) : other[k] = n[k]
        /\ other[Len(n) + 1] = Underscore /\ other[Len(n) + 2] = i
  <2>1. PICK y \in Seq(S) : /\ y = Append(n, Underscore) /\ Len(y) = Len(n) + 1
                            /\ \A k \in 1..Len(n) : y[k] = n[k]
                            /\ y[Len(n) + 1] = Underscore
    BY AppendProperties
  <2>2. /\ Append(y, i) \in Seq(S) /\ Len(Append(y, i)) = Len(n) + 2
        /\ \A k \in 1..(Len(n) + 1) : Append(y, i)[k] = y[k]
        /\ Append(y, i)[Len(n) + 2] = i
    BY <1>2, <2>1, AppendProperties
  <2>3. \A k \in 1..Len(n) : k \in 1..(Len(n) + 1)
    BY <1>2
  <2>4. Len(n) + 1 \in 1..(Len(n) + 1)
    BY <1>2
  <2> QED
    BY <2>1, <2>2, <2>3, <2>4
<1>8. key = other
  <2>1. \A k \in 1..(Len(n) + 2) : key[k] = other[k]
    BY <1>2, <1>5, <1>6, <1>7
  <2> QED
    BY <1>4, <1>7, <2>1, SeqEqual
<1>9. KeyOf(key, n, i)
  BY <1>4, <1>5, <1>6 DEF KeyOf
<1> QED
  BY <1>3, <1>4, <1>7, <1>8, <1>9

LEMMA KeysDiffer ==
  ASSUME NEW S, Underscore \in S
  PROVE  \A n, m \in Seq(S), i, j \in S :
           ChunkKey(n, i) = ChunkKey(m, j) => n = m /\ i = j
<1> SUFFICES ASSUME NEW n \in Seq(S), NEW m \in Seq(S), NEW i \in S, NEW j \in S,
                    ChunkKey(n, i) = ChunkKey(m, j)
             PROVE  n = m /\ i = j
  OBVIOUS
<1>1. PICK key : key = ChunkKey(n, i) /\ key = ChunkKey(m, j)
  OBVIOUS
<1>2. /\ Len(key) = Len(n) + 2 /\ key[Len(n) + 2] = i
      /\ \A k \in 1..Len(n) : key[k] = n[k]
  <2>1. KeyOf(key, n, i)
    BY <1>1, KeyIs
  <2> QED
    BY <2>1 DEF KeyOf
<1>3. /\ Len(key) = Len(m) + 2 /\ key[Len(m) + 2] = j
      /\ \A k \in 1..Len(m) : key[k] = m[k]
  <2>1. KeyOf(key, m, j)
    BY <1>1, KeyIs
  <2> QED
    BY <2>1 DEF KeyOf
<1>4. Len(n) = Len(m)
  BY <1>2, <1>3, LenProperties
<1> QED
  BY <1>2, <1>3, <1>4, SeqEqual

(* The key of a chunk becomes the key of a chunk only of the ball that the *)
(* name becomes.                                                           *)
LEMMA KeyBecomes ==
  ASSUME NEW S, {"-", Underscore, "."} \subseteq S
  PROVE  \A n, m \in Seq(S), i \in S \ {"-", Underscore, "."}, j \in S :
           Sanitize(ChunkKey(n, i)) = ChunkKey(m, j) => Sanitize(n) = m /\ i = j
<1> SUFFICES ASSUME NEW n \in Seq(S), NEW m \in Seq(S), NEW i \in S, NEW j \in S,
                    i \notin {"-", Underscore, "."},
                    Sanitize(ChunkKey(n, i)) = ChunkKey(m, j)
             PROVE  Sanitize(n) = m /\ i = j
  OBVIOUS
<1>1. PICK d \in Seq(S) : d = Collapsed(Kept(n))
  <2>1. Kept(n) \in Seq(S \ {"."}) /\ S \ {"."} \subseteq S
    BY KeptType
  <2>2. Kept(n) \in Seq(S)
    BY <2>1
  <2> QED
    BY <2>2, CollapsedType
<1>2. PICK e : /\ e = Collapse(Collapse(d, Underscore), i)
               /\ e = Collapsed(Kept(ChunkKey(n, i)))
  <2>1. PICK k \in Seq(S) : k = Kept(n)
    <3>1. Kept(n) \in Seq(S \ {"."}) /\ S \ {"."} \subseteq S
      BY KeptType
    <3> QED
      BY <3>1
  <2>2. PICK y \in Seq(S) : y = Append(n, Underscore)
    <3>1. Append(n, Underscore) \in Seq(S)
      BY AppendProperties
    <3> QED
      BY <3>1
  <2>3. ChunkKey(n, i) = Append(y, i)
    BY <2>2, KeyIs
  <2>4. Kept(Append(y, i)) = Keep(Kept(y), i)
    BY KeptAppend
  <2>5. Kept(y) = Keep(k, Underscore)
    BY <2>1, <2>2, KeptAppend
  <2>6. PICK l \in Seq(S) : l = Append(k, Underscore)
    <3>1. Append(k, Underscore) \in Seq(S)
      BY AppendProperties
    <3> QED
      BY <3>1
  <2>7. Kept(ChunkKey(n, i)) = Append(l, i)
    BY <2>3, <2>4, <2>5, <2>6, UnderscoreIs DEF Keep
  <2>8. Collapsed(Append(l, i)) = Collapse(Collapsed(l), i)
    BY <2>6, CollapsedAppend
  <2>9. Collapsed(l) = Collapse(d, Underscore)
    BY <1>1, <2>1, <2>6, CollapsedAppend
  <2> QED
    BY <2>7, <2>8, <2>9
<1>3. PICK t : t = Trimmed(e) /\ WellFormed(t) /\ t = ChunkKey(m, j)
  <2>1. ChunkKey(m, j) # NoName
    <3>1. Len(ChunkKey(m, j)) = Len(m) + 2 /\ Len(m) \in Nat
      BY KeyIs, LenProperties DEF KeyOf
    <3>2. Len(NoName) = 0
      BY DEF NoName
    <3> QED
      BY <3>1, <3>2
  <2>2. Sanitize(ChunkKey(n, i)) = IF WellFormed(Trimmed(e)) THEN Trimmed(e) ELSE NoName
    BY <1>2 DEF Sanitize
  <2> QED
    BY <2>1, <2>2
<1>4. PICK q \in Seq(S) : q = Collapse(d, Underscore)
  <2>1. Collapse(d, Underscore) \in Seq(S)
    BY CollapseType
  <2> QED
    BY <2>1
<1>5. e = Append(q, i)
  BY <1>2, <1>4 DEF Collapse, Separators
<1>6. /\ e \in Seq(S) /\ Len(e) = Len(q) + 1 /\ e[Len(q) + 1] = i
      /\ \A k \in 1..Len(q) : e[k] = q[k]
  BY <1>5, AppendProperties
<1>7. PICK f \in 1..2 : /\ (f = 2) <=> (e[1] = "-")
                       /\ t = SubSeq(e, f, Len(e))
  <2>1. e # <<>> /\ Len(e) \in Nat /\ e[Len(e)] # "-"
    BY <1>5, <1>6, AppendProperties, LenProperties
  <2>2. Head(e) = e[1]
    BY <1>6, <2>1
  <2>3. t = SubSeq(e, IF e[1] = "-" THEN 2 ELSE 1, Len(e))
    BY <1>3, <2>1, <2>2 DEF Trimmed
  <2> QED
    BY <2>3
<1>8. /\ Len(e) \in Nat /\ Len(m) \in Nat /\ Len(q) \in Nat /\ Len(d) \in Nat
      /\ Len(t) = Len(m) + 2 /\ t[Len(m) + 1] = Underscore /\ t[Len(m) + 2] = j
      /\ \A k \in 1..Len(m) : t[k] = m[k]
  <2>1. KeyOf(t, m, j)
    BY <1>3, KeyIs
  <2> QED
    BY <1>6, <2>1, LenProperties DEF KeyOf
<1>9. Len(e) + 1 = f + Len(t) /\ \A k \in 1..Len(t) : t[k] = e[f + k - 1]
  <2>1. \A k \in f..Len(e) : e[k] \in S
    BY <1>6, <1>8, LenProperties
  <2>2. f \in Int /\ Len(e) \in Int
    BY <1>8
  <2>3. /\ Len(t) = IF f <= Len(e) THEN Len(e) - f + 1 ELSE 0
        /\ \A k \in 1..(Len(e) - f + 1) : t[k] = e[f + k - 1]
    BY <1>7, <2>1, <2>2, SubSeqProperties
  <2>4. f <= Len(e)
    BY <1>8, <2>2, <2>3
  <2>5. Len(t) = Len(e) - f + 1
    BY <2>3, <2>4
  <2>6. \A k \in 1..Len(t) : t[k] = e[f + k - 1]
    BY <2>3, <2>5
  <2>7. Len(e) + 1 = f + Len(t)
    BY <1>8, <2>2, <2>5
  <2> QED
    BY <2>6, <2>7
<1>10. q[Len(q)] = Underscore /\ i = j /\ Len(q) = f + Len(m)
       /\ Len(q) \in 1..Len(q)
  <2>1. Len(q) = f + Len(m)
    BY <1>6, <1>8, <1>9
  <2>2. /\ Len(m) + 1 \in 1..Len(t) /\ Len(m) + 2 \in 1..Len(t)
        /\ f + (Len(m) + 1) - 1 = Len(q) /\ f + (Len(m) + 2) - 1 = Len(q) + 1
        /\ Len(q) \in 1..Len(q)
    BY <1>8, <2>1
  <2>3. e[Len(q)] = Underscore /\ e[Len(q) + 1] = j
    BY <1>8, <1>9, <2>2
  <2> QED
    BY <1>6, <2>1, <2>2, <2>3
<1>11. q = Append(d, Underscore)
  <2> SUFFICES ASSUME d # <<>>, {d[Len(d)], Underscore} \subseteq Separators PROVE FALSE
    BY <1>4 DEF Collapse
  <2>1. Len(d) \in 1..Len(d)
    BY <1>8, EmptySeq
  <2>2. q = [d EXCEPT ![Len(d)] = "-"]
    BY <1>4 DEF Collapse
  <2>3. Len(q) = Len(d) /\ q[Len(d)] = "-"
    BY <2>1, <2>2, ExceptSeq
  <2> QED
    BY <1>10, <2>3, UnderscoreIs
<1>12. /\ Len(q) = Len(d) + 1
       /\ \A k \in 1..Len(d) : q[k] = d[k]
  BY <1>11, AppendProperties
<1>13. Len(d) + 1 = f + Len(m) /\ \A k \in 1..Len(m) : m[k] = d[f + k - 1]
  <2>1. Len(d) + 1 = f + Len(m)
    BY <1>8, <1>10, <1>12
  <2>2. ASSUME NEW k \in 1..Len(m)
        PROVE  m[k] = d[f + k - 1]
    <3>1. k \in 1..Len(t) /\ f + k - 1 \in 1..Len(q) /\ f + k - 1 \in 1..Len(d)
      BY <1>8, <1>12, <2>1
    <3>2. m[k] = t[k] /\ t[k] = e[f + k - 1]
      BY <1>8, <1>9, <3>1
    <3>3. e[f + k - 1] = q[f + k - 1] /\ q[f + k - 1] = d[f + k - 1]
      BY <1>6, <1>12, <3>1
    <3> QED
      BY <3>2, <3>3
  <2> QED
    BY <2>1, <2>2
<1>14. WellFormed(m)
  <2>1. m # <<>>
    <3> SUFFICES ASSUME m = <<>> PROVE FALSE
      OBVIOUS
    <3>1. Len(m) = 0
      BY EmptySeq
    <3>2. t[1] \in Separators /\ 1 \in 1..Len(t)
      BY <1>8, <3>1 DEF Separators
    <3> QED
      BY <1>3, <3>2 DEF WellFormed
  <2>2. ASSUME NEW k \in 1..Len(m), m[k] \in Separators
        PROVE  k > 1 /\ k < Len(m) /\ m[k + 1] \notin Separators
    <3>1. k \in 1..Len(t) /\ t[k] \in Separators
      BY <1>8, <2>2
    <3>2. k > 1 /\ t[k + 1] \notin Separators
      BY <1>3, <3>1 DEF WellFormed
    <3>3. k # Len(m)
      BY <1>8, <3>2 DEF Separators
    <3>4. k < Len(m) /\ k + 1 \in 1..Len(m)
      BY <1>8, <3>3
    <3> QED
      BY <1>8, <3>2, <3>4
  <2> QED
    BY <2>1, <2>2 DEF WellFormed
<1>15. Len(m) \in 1..Len(m) /\ 1 \in 1..Len(m)
  <2>1. Len(m) # 0
    BY <1>14, EmptySeq DEF WellFormed
  <2> QED
    BY <1>8, <2>1
<1>16. Len(d) \in 1..Len(d) /\ 1 \in 1..Len(d) /\ d # <<>>
  <2>1. Len(d) # 0
    BY <1>8, <1>13, <1>15
  <2> QED
    BY <1>8, <2>1, EmptySeq
<1>17. Trimmed(d) = SubSeq(d, f, Len(d))
  <2>1. f + Len(m) - 1 = Len(d)
    BY <1>8, <1>13
  <2>2. d[Len(d)] = m[Len(m)]
    BY <1>13, <1>15, <2>1
  <2>3. m[Len(m)] \notin Separators
    BY <1>8, <1>14, <1>15 DEF WellFormed
  <2>4. d[Len(d)] # "-"
    BY <2>2, <2>3 DEF Separators
  <2>5. 1 \in 1..Len(q)
    BY <1>8, <1>10
  <2>6. e[1] = d[1]
    BY <1>6, <1>12, <1>16, <2>5
  <2>7. Head(d) = d[1]
    BY <1>1, <1>16
  <2> QED
    BY <1>7, <1>16, <2>4, <2>6, <2>7 DEF Trimmed
<1>18. m = Trimmed(d)
  <2>1. \A k \in f..Len(d) : d[k] \in S
    BY <1>1, <1>8, LenProperties
  <2>2. f \in Int /\ Len(d) \in Int /\ f <= Len(d)
    BY <1>8, <1>13, <1>15
  <2>3. PICK s : s = SubSeq(d, f, Len(d))
    OBVIOUS
  <2>4. /\ s \in Seq(S) /\ Len(s) = Len(d) - f + 1
        /\ \A k \in 1..(Len(d) - f + 1) : s[k] = d[f + k - 1]
    BY <2>1, <2>2, <2>3, SubSeqProperties
  <2>5. Len(s) = Len(m)
    BY <1>8, <1>13, <2>4
  <2>6. \A k \in 1..Len(m) : m[k] = s[k]
    BY <1>13, <2>4, <2>5
  <2>7. m = s
    BY <2>4, <2>5, <2>6, SeqEqual
  <2> QED
    BY <1>17, <2>3, <2>7
<1> QED
  BY <1>1, <1>10, <1>14, <1>18 DEF Sanitize
(* A clean name is left alone, a chunk's key is the key of no other chunk, *)
(* and a key becomes the key of another chunk only if that is a chunk of   *)
(* the ball that the name becomes.                                         *)
THEOREM NamesStayApart ==
  /\ \A n \in BallNames : Sanitize(Sanitize(n)) = Sanitize(n)
  /\ \A n, m \in BallNames, i, j \in Indices :
       /\ ChunkKey(n, i) = ChunkKey(m, j) => n = m /\ i = j
       /\ Sanitize(ChunkKey(n, i)) = ChunkKey(m, j) => Sanitize(n) = m /\ i = j
<1>1. PICK S : /\ {"-", Underscore, "."} \subseteq S
               /\ \A n \in BallNames : n \in Seq(S)
               /\ \A i \in Indices : i \in S /\ i \notin {"-", Underscore, "."}
  <2> DEFINE S == Letters \cup Separators \cup {"."}
  <2>1. {"-", Underscore, "."} \subseteq S
    BY DEF Separators
  <2>2. \A n \in BallNames : n \in Seq(S)
    BY NamesAssumption
  <2>3. \A i \in Indices : i \in S /\ i \notin {"-", Underscore, "."}
    BY NamesAssumption DEF Separators
  <2> HIDE DEF S
  <2> QED
    BY <2>1, <2>2, <2>3
<1>2. ASSUME NEW n \in BallNames
      PROVE  Sanitize(Sanitize(n)) = Sanitize(n)
  BY <1>1, CleanStays
<1>3. ASSUME NEW n \in BallNames, NEW m \in BallNames, NEW i \in Indices, NEW j \in Indices
      PROVE  /\ ChunkKey(n, i) = ChunkKey(m, j) => n = m /\ i = j
             /\ Sanitize(ChunkKey(n, i)) = ChunkKey(m, j) => Sanitize(n) = m /\ i = j
  <2>1. n \in Seq(S) /\ m \in Seq(S)
    BY <1>1
  <2>2. i \in S \ {"-", Underscore, "."} /\ i \in S /\ j \in S
    BY <1>1
  <2>3. \A x, y \in Seq(S), k, l \in S : ChunkKey(x, k) = ChunkKey(y, l) => x = y /\ k = l
    BY <1>1, KeysDiffer
  <2>4. \A x, y \in Seq(S), k \in S \ {"-", Underscore, "."}, l \in S :
          Sanitize(ChunkKey(x, k)) = ChunkKey(y, l) => Sanitize(x) = y /\ k = l
    BY <1>1, KeyBecomes
  <2> QED
    BY <2>1, <2>2, <2>3, <2>4
<1> QED
  BY <1>2, <1>3

-----------------------------------------------------------------------------
(* From here on, Sanitize and ChunkKey are used through NamesStayApart.    *)
USE DEF Kind

LEMMA CleanIsSanitize ==
  ASSUME NEW x \in BallNames \cup Keys
  PROVE  Clean[x] = Sanitize(x)
BY DEF Clean

LEMMA OperationType ==
  ASSUME program \in Programs, NEW c \in Calls
  PROVE  /\ program[c].kind \in Writers \cup Erasers \cup Queries
         /\ program[c].bucket \in BallNames /\ program[c].ball \in BallNames
         /\ program[c].indices \subseteq Indices
<1>1. program[c] \in Operations
  BY BucketsAssumption
<1> QED
  BY <1>1 DEF Operations

LEMMA EntryType ==
  ASSUME program \in Programs, NEW c \in Calls, NEW i \in Indices
  PROVE  /\ EntryOf(c, i) \in Entry
         /\ BucketOf(c) = Sanitize(program[c].bucket)
         /\ BallOf(c) = Sanitize(program[c].ball)
         /\ EntryOf(c, i).bucket = BucketOf(c)
         /\ EntryOf(c, i).key = ChunkKey(program[c].ball, i)
         /\ ChunkKey(program[c].ball, i) \in Keys
         /\ EntryOf(c, i).ball \in {program[c].ball, BallOf(c)}
<1>1. program[c].bucket \in BallNames /\ program[c].ball \in BallNames
  BY OperationType
<1>2. /\ BucketOf(c) = Sanitize(program[c].bucket)
      /\ BallOf(c) = Sanitize(program[c].ball)
  BY <1>1, CleanIsSanitize DEF BucketOf, BallOf
<1>3. ChunkKey(program[c].ball, i) \in Keys
  BY <1>1 DEF Keys
<1> QED
  BY <1>1, <1>2, <1>3 DEF EntryOf, Entry

LEMMA KeysOfEntries ==
  ASSUME entries \subseteq Entry
  PROVE  \A e \in entries : e.key \in Keys
BY DEF Entry

(* A key is asked for at most once per router that lists it, per router.   *)
LEMMA RequestCount ==
  ASSUME NEW found, NEW k
  PROVE  Routers * Cardinality(Listers(found, k)) \in 0..(Routers * Routers)
<1>1. Routers \in Nat
  BY BucketsAssumption
<1>2. IsFiniteSet(RouterSet) /\ Cardinality(RouterSet) = Routers
  BY <1>1, FS_Interval, BucketsAssumption DEF RouterSet
<1>3. Listers(found, k) \in SUBSET RouterSet
  BY DEF Listers
<1>4. /\ IsFiniteSet(Listers(found, k))
      /\ Cardinality(Listers(found, k)) <= Cardinality(RouterSet)
  BY <1>2, <1>3, FS_Subset, Zenon
<1>5. Cardinality(Listers(found, k)) \in Nat
  BY <1>4, FS_CardinalityType
<1>6. ASSUME NEW n \in Nat, NEW m \in Nat, m <= n
      PROVE  n * m \in 0..(n * n)
  <2>1. n * (n - m) >= 0 /\ n * m >= 0
    BY <1>6
  <2>2. n * (n - m) = n * n - n * m
    OBVIOUS
  <2> QED
    BY <2>1, <2>2
<1> QED
  BY <1>1, <1>2, <1>4, <1>5, <1>6

-----------------------------------------------------------------------------
LEMMA TypeInit == Init => TypeOK
BY BucketsAssumption DEF Init, TypeOK

LEMMA TypeStarts ==
  ASSUME TypeOK, NEW c \in Calls, Begin(c) \/ Query(c)
  PROVE  TypeOK'
<1>1. CASE Begin(c)
  BY <1>1 DEF TypeOK, Begin, Go
<1>2. CASE Query(c)
  <2>1. Asked(c) \subseteq Keys
    BY DEF Asked, ChunkFor, BallKeys, KeysIn, At, Entry, TypeOK
  <2>2. answer' \in [Calls -> SUBSET Keys]
    <3>1. \A X \in SUBSET Keys : [answer EXCEPT ![c] = X] \in [Calls -> SUBSET Keys]
      BY DEF TypeOK
    <3>2. CASE answer' = [answer EXCEPT ![c] = IF Kind(c) = "get_bucket_metadata"
                                              THEN {} ELSE Asked(c)]
      BY <2>1, <3>1, <3>2
    <3>3. CASE UNCHANGED answer
      BY <3>3 DEF TypeOK
    <3> QED
      BY <1>2, <3>2, <3>3 DEF Query
  <2>3. phase' \in [Calls -> {"idle", "storing", "listing", "erasing", "ok", "err"}]
    BY <1>2 DEF TypeOK, Query, Go
  <2> QED
    BY <1>2, <2>2, <2>3 DEF TypeOK, Query
<1> QED
  BY <1>1, <1>2

LEMMA TypeWriters ==
  ASSUME TypeOK, NEW c \in Calls,
         (\E i \in Indices : Post(c, i)) \/ StoringStep(c)
  PROVE  TypeOK'
<1>1. ASSUME NEW i \in Indices, Post(c, i)
      PROVE  TypeOK'
  <2>1. EntryOf(c, i) \in Entry
    BY EntryType DEF TypeOK
  <2> QED
    BY <1>1, <2>1 DEF TypeOK, Post, Become, At
<1>2. ASSUME NEW i \in Indices, Settle(c, i)
      PROVE  TypeOK'
  <2>1. \A state \in {"stored", "lost"} : Become(c, i, state) =>
          chunk' \in [Calls -> [Indices -> {"todo", "posted", "stored", "lost"}]]
    BY DEF TypeOK, Become
  <2>2. Become(c, i, "stored") \/ Become(c, i, "lost")
    BY <1>2 DEF Settle
  <2> QED
    BY <1>2, <2>1, <2>2 DEF TypeOK, Settle
<1>3. CASE FinishStoring(c)
  <2>1. phase' \in [Calls -> {"idle", "storing", "listing", "erasing", "ok", "err"}]
    BY <1>3 DEF TypeOK, FinishStoring, Go
  <2> QED
    BY <1>3, <2>1 DEF TypeOK, FinishStoring
<1> QED
  BY <1>1, <1>2, <1>3 DEF StoringStep

LEMMA TypeErasers ==
  ASSUME TypeOK, NEW c \in Calls, ErasingStep(c)
  PROVE  TypeOK'
<1>0. Routers \in Nat \ {0} /\ \A b : KeysIn(b) \subseteq Keys
  BY BucketsAssumption DEF KeysIn, Entry, TypeOK
<1>1. CASE ListBall(c)
  <2>1. BallKeys(c) \subseteq Keys
    BY DEF BallKeys, Entry, TypeOK
  <2>2. [listed[c] EXCEPT ![1] = BallKeys(c)] \in [RouterSet -> SUBSET Keys]
    BY <2>1 DEF TypeOK
  <2>3. listed' \in [Calls -> [RouterSet -> SUBSET Keys]]
    BY <1>1, <2>2 DEF ListBall, TypeOK
  <2>4. todo' \in [Calls -> [Keys -> 0..(Routers * Routers)]]
    BY <1>1, RequestCount DEF ListBall, StartErasing, TypeOK
  <2> QED
    BY <1>1, <2>3, <2>4 DEF ListBall, Go, TypeOK
<1>2. CASE ListBallFails(c)
  BY <1>2 DEF TypeOK, ListBallFails, Go
<1>3. ASSUME NEW r \in RouterSet, ListBucket(c, r)
      PROVE  TypeOK'
  <2>1. listed' \in [Calls -> [RouterSet -> SUBSET Keys]]
    <3>1. CASE listed' = [listed EXCEPT ![c][r] = KeysIn(program[c].bucket)]
      BY <1>0, <3>1 DEF TypeOK
    <3>2. CASE UNCHANGED listed
      BY <3>2 DEF TypeOK
    <3> QED
      BY <1>3, <3>1, <3>2 DEF ListBucket
  <2>2. /\ refusals' \in [Calls -> SUBSET RouterSet]
        /\ pending' \in [Calls -> SUBSET RouterSet]
    <3>1. pending' \in [Calls -> SUBSET RouterSet]
      BY <1>3 DEF ListBucket, TypeOK
    <3>2. CASE refusals' = refusals
      BY <3>1, <3>2 DEF TypeOK
    <3>3. CASE refusals' = [refusals EXCEPT ![c] = @ \cup {r}]
      BY <3>1, <3>3 DEF TypeOK
    <3> QED
      BY <1>3, <3>2, <3>3 DEF ListBucket
  <2>3. UNCHANGED <<program, entries, phase, chunk, todo, answer, sure, before>>
    BY <1>3 DEF ListBucket
  <2> QED
    BY <2>1, <2>2, <2>3 DEF TypeOK
<1>4. CASE EraseBucket(c)
  <2>1. todo' \in [Calls -> [Keys -> 0..(Routers * Routers)]]
    BY <1>4, RequestCount DEF EraseBucket, StartErasing, TypeOK
  <2> QED
    BY <1>4, <2>1 DEF EraseBucket, Go, TypeOK
<1>5. ASSUME NEW k \in Keys, Erase(c, k)
      PROVE  TypeOK'
  <2>1. todo' = [todo EXCEPT ![c][k] = @ - 1] /\ todo[c][k] > 0
    BY <1>5 DEF Erase
  <2>2. \A n \in Nat : \A m \in 0..n : m > 0 => m - 1 \in 0..n
    OBVIOUS
  <2>3. Routers * Routers \in Nat
    BY <1>0
  <2>4. todo' \in [Calls -> [Keys -> 0..(Routers * Routers)]]
    BY <2>1, <2>2, <2>3 DEF TypeOK
  <2>5. entries' \subseteq entries /\ sure' \in [Calls -> SUBSET Keys]
    BY <1>5 DEF Erase, TypeOK
  <2> QED
    BY <1>5, <2>4, <2>5 DEF Erase, TypeOK
<1>6. CASE FinishErasing(c)
  BY <1>6 DEF TypeOK, FinishErasing, Go
<1> QED
  BY <1>1, <1>2, <1>3, <1>4, <1>5, <1>6 DEF ErasingStep

LEMMA TypeStep == TypeOK /\ [Next]_vars => TypeOK'
<1> SUFFICES ASSUME TypeOK, [Next]_vars
             PROVE  TypeOK'
  OBVIOUS
<1>1. CASE UNCHANGED vars
  BY <1>1 DEF TypeOK, vars
<1>2. CASE Next
  BY <1>2, TypeStarts, TypeWriters, TypeErasers DEF Next
<1> QED
  BY <1>1, <1>2

(* Every variable of the bucket operations keeps its type: what is stored  *)
(* are chunks under names that sanitize_str has made, what is listed are   *)
(* their keys, and the requests to delete a key stay below the square of   *)
(* the number of routers.                                                  *)
THEOREM BucketsTypeCorrect == Spec => []TypeOK
BY TypeInit, TypeStep, PTL DEF Spec

-----------------------------------------------------------------------------
(* What the phase of a call says of the rest of its state.                 *)
PhaseFits(c) ==
  /\ phase[c] = "idle" => sure[c] = {} /\ \A i \in Indices : chunk[c][i] = "todo"
  /\ phase[c] = "storing" => Kind(c) \in Writers
  /\ phase[c] \in {"listing", "erasing"} => Kind(c) \in Erasers \cup {"put"}
  /\ phase[c] = "ok" /\ Kind(c) \in {"put", "put_file"} =>
       \A i \in program[c].indices : chunk[c][i] = "stored"
  /\ phase[c] \in {"erasing", "ok"} /\ Kind(c) = "delete_bucket" => pending[c] = {}

PhasesFit == \A c \in Calls : PhaseFits(c)

LEMMA PhasesInit == Init => PhasesFit
BY DEF Init, PhasesFit, PhaseFits

LEMMA PhasesStep == TypeOK /\ PhasesFit /\ [Next]_vars => PhasesFit'
<1> SUFFICES ASSUME TypeOK, PhasesFit, [Next]_vars, NEW d \in Calls
             PROVE  PhaseFits(d)'
  BY DEF PhasesFit
<1> USE DEF PhaseFits, Go, Writers, Erasers, Queries
<1>0. PhaseFits(d) /\ program[d].indices \subseteq Indices
  <2>1. program \in Programs
    BY DEF TypeOK
  <2> QED
    BY <2>1, OperationType DEF PhasesFit
<1>1. CASE UNCHANGED vars
  BY <1>0, <1>1 DEF vars
<1>2. ASSUME NEW c \in Calls, Begin(c) \/ Query(c)
      PROVE  PhaseFits(d)'
  <2>1. CASE Begin(c)
    <3>1. CASE d = c
      <4>1. phase'[c] = IF Kind(c) \in Writers THEN "storing" ELSE "listing"
        BY <2>1 DEF Begin, TypeOK
      <4>2. Kind(c) \in Writers \cup Erasers
        BY <2>1, OperationType DEF Begin, TypeOK
      <4> QED
        BY <3>1, <2>1, <4>1, <4>2 DEF Begin
    <3>2. CASE d # c
      BY <1>0, <2>1, <3>2 DEF Begin, TypeOK
    <3> QED
      BY <3>1, <3>2
  <2>2. CASE Query(c)
    BY <1>0, <2>2 DEF Query, TypeOK
  <2> QED
    BY <1>2, <2>1, <2>2
<1>3. ASSUME NEW c \in Calls, NEW i \in Indices, Post(c, i) \/ Settle(c, i)
      PROVE  PhaseFits(d)'
  <2>1. UNCHANGED <<program, phase, pending, sure>> /\ phase[c] = "storing"
    BY <1>3 DEF Post, Settle
  <2>2. d # c => chunk'[d] = chunk[d]
    BY <1>3 DEF Post, Settle, Become, TypeOK
  <2> QED
    BY <1>0, <2>1, <2>2
<1>4. ASSUME NEW c \in Calls, FinishStoring(c)
      PROVE  PhaseFits(d)'
  BY <1>0, <1>4 DEF FinishStoring, TypeOK
<1>5. ASSUME NEW c \in Calls, ErasingStep(c)
      PROVE  PhaseFits(d)'
  <2>1. CASE ListBall(c)
    BY <1>0, <2>1 DEF ListBall, TypeOK
  <2>2. CASE ListBallFails(c)
    BY <1>0, <2>2 DEF ListBallFails, TypeOK
  <2>3. ASSUME NEW r \in RouterSet, ListBucket(c, r)
        PROVE  PhaseFits(d)'
    <3>1. UNCHANGED <<program, phase, chunk, sure>> /\ phase[c] = "listing"
      BY <2>3 DEF ListBucket
    <3>2. d # c => pending'[d] = pending[d]
      BY <2>3 DEF ListBucket, TypeOK
    <3> QED
      BY <1>0, <3>1, <3>2
  <2>4. CASE EraseBucket(c)
    BY <1>0, <2>4 DEF EraseBucket, AllListed, TypeOK
  <2>5. ASSUME NEW k \in Keys, Erase(c, k)
        PROVE  PhaseFits(d)'
    <3>1. UNCHANGED <<program, phase, chunk, pending>> /\ phase[c] = "erasing"
      BY <2>5 DEF Erase
    <3>2. d # c => sure'[d] = sure[d]
      BY <2>5 DEF Erase, TypeOK
    <3> QED
      BY <1>0, <3>1, <3>2
  <2>6. CASE FinishErasing(c)
    BY <1>0, <2>6 DEF FinishErasing, TypeOK
  <2> QED
    BY <1>5, <2>1, <2>2, <2>3, <2>4, <2>5, <2>6 DEF ErasingStep
<1> QED
  BY <1>1, <1>2, <1>3, <1>4, <1>5 DEF Next, StoringStep

-----------------------------------------------------------------------------
(* A call that is over stays so, one that has begun has begun.             *)
LEMMA PhasesAdvance ==
  ASSUME TypeOK, [Next]_vars, NEW c \in Calls
  PROVE  /\ program' = program
         /\ phase[c] # "idle" => phase'[c] # "idle"
         /\ Over(c) => Over(c)'
         /\ Changes(c) => Changes(c)'
<1> USE DEF Go, Over, Changes
<1>1. CASE UNCHANGED vars
  BY <1>1 DEF vars
<1>2. ASSUME NEW d \in Calls, Begin(d) \/ Query(d)
      PROVE  /\ program' = program
             /\ phase[c] # "idle" => phase'[c] # "idle"
             /\ Over(c) => Over(c)'
  BY <1>2 DEF Begin, Query, TypeOK
<1>3. ASSUME NEW d \in Calls, (\E i \in Indices : Post(d, i)) \/ StoringStep(d)
      PROVE  /\ program' = program
             /\ phase[c] # "idle" => phase'[c] # "idle"
             /\ Over(c) => Over(c)'
  BY <1>3 DEF Post, StoringStep, Settle, FinishStoring, TypeOK
<1>4. ASSUME NEW d \in Calls, ErasingStep(d)
      PROVE  /\ program' = program
             /\ phase[c] # "idle" => phase'[c] # "idle"
             /\ Over(c) => Over(c)'
  BY <1>4 DEF ErasingStep, ListBall, ListBallFails, ListBucket, EraseBucket, Erase,
              FinishErasing, TypeOK
<1> QED
  BY <1>1, <1>2, <1>3, <1>4 DEF Next

LEMMA NamesStay ==
  ASSUME program' = program, NEW c \in Calls, NEW i
  PROVE  /\ EntryOf(c, i)' = EntryOf(c, i)
         /\ BucketOf(c)' = BucketOf(c) /\ BallOf(c)' = BallOf(c)
         /\ Kind(c)' = Kind(c)
BY DEF EntryOf, BucketOf, BallOf

-----------------------------------------------------------------------------
(* What is stored is a chunk of some writer.                               *)
IsOf(e, w, i) == Kind(w) \in Writers /\ e = EntryOf(w, i)

Written == \A e \in entries : \E w \in Calls, i \in Indices : IsOf(e, w, i)

(* Only a writer adds something, and the same request takes the place of   *)
(* what was stored under the key.                                          *)
LEMMA EntriesChange ==
  ASSUME TypeOK, [Next]_vars
  PROVE  \/ entries' = entries
         \/ \E c \in Calls, i \in Indices : Post(c, i)
         \/ \E c \in Calls, k \in Keys : Erase(c, k)
BY DEF Next, StoringStep, ErasingStep, Begin, Query, Settle, FinishStoring, ListBall,
       ListBallFails, ListBucket, EraseBucket, FinishErasing, vars

LEMMA EraseShrinks ==
  ASSUME NEW c \in Calls, NEW k \in Keys, Erase(c, k)
  PROVE  entries' = entries \/ entries' = entries \ At(BucketOf(c), Clean[k])
BY DEF Erase

LEMMA WrittenStep == TypeOK /\ PhasesFit /\ Written /\ [Next]_vars => Written'
<1> SUFFICES ASSUME TypeOK, PhasesFit, Written, [Next]_vars, NEW e \in entries'
             PROVE  \E w \in Calls, i \in Indices : IsOf(e, w, i)'
  BY DEF Written
<1>1. /\ program' = program
      /\ \A w \in Calls, i \in Indices : IsOf(e, w, i)' <=> IsOf(e, w, i)
  <2>1. program' = program
    BY PhasesAdvance DEF Next, vars
  <2> QED
    BY <2>1, NamesStay DEF IsOf
<1>2. CASE e \in entries
  BY <1>1, <1>2 DEF Written
<1>3. CASE e \notin entries
  <2>1. PICK c \in Calls, i \in Indices : Post(c, i)
    BY <1>3, EntriesChange, EraseShrinks
  <2>2. e = EntryOf(c, i)
    BY <1>3, <2>1 DEF Post
  <2>3. Kind(c) \in Writers
    BY <2>1 DEF Post, PhasesFit, PhaseFits
  <2> QED
    BY <1>1, <2>2, <2>3 DEF IsOf
<1> QED
  BY <1>2, <1>3

-----------------------------------------------------------------------------
(* What a delete, or a put that cleans up, still has to erase it has found *)
(* under its own bucket and ball.                                          *)
Found(c, k) == \E w \in Calls, i \in Indices :
                 /\ Kind(w) \in Writers
                 /\ k = ChunkKey(program[w].ball, i)
                 /\ EntryOf(w, i).ball = BallOf(c)

ErasesItsOwn == \A c \in Calls, k \in Keys :
                  Kind(c) # "delete_bucket" /\ todo[c][k] > 0 => Found(c, k)

LEMMA SomeLister ==
  ASSUME NEW found, NEW k, Routers * Cardinality(Listers(found, k)) > 0
  PROVE  \E r \in RouterSet : k \in found[r]
<1>1. Routers \in Nat
  BY BucketsAssumption
<1>2. CASE Listers(found, k) = {}
  <2>1. Cardinality(Listers(found, k)) = 0
    BY <1>2, FS_EmptySet
  <2> QED
    BY <1>1, <2>1
<1>3. CASE Listers(found, k) # {}
  BY <1>3 DEF Listers
<1> QED
  BY <1>2, <1>3

LEMMA ErasesItsOwnStep ==
  TypeOK /\ Written /\ ErasesItsOwn /\ [Next]_vars => ErasesItsOwn'
<1> SUFFICES ASSUME TypeOK, Written, ErasesItsOwn, [Next]_vars,
                    NEW c \in Calls, NEW k \in Keys,
                    Kind(c)' # "delete_bucket", todo'[c][k] > 0
             PROVE  Found(c, k)'
  BY DEF ErasesItsOwn
<1>1. program' = program
  BY PhasesAdvance
<1>2. Found(c, k)' <=> Found(c, k)
  BY <1>1, NamesStay DEF Found
<1>3. CASE todo[c][k] > 0
  BY <1>1, <1>2, <1>3 DEF ErasesItsOwn
<1>4. ASSUME NEW d \in Calls, ListBall(d)
      PROVE  Found(c, k)
  <2>1. CASE d # c
    <3>1. todo'[c][k] = todo[c][k]
      BY <1>4, <2>1 DEF ListBall, StartErasing, TypeOK
    <3> QED
      BY <1>1, <1>2, <1>3, <3>1
  <2>2. CASE d = c
    <3> DEFINE found == [r \in RouterSet |-> IF r = 1 THEN BallKeys(c) ELSE {}]
    <3>1. todo'[c][k] = Routers * Cardinality(Listers(found, k))
      BY <1>4, <2>2 DEF ListBall, StartErasing, TypeOK
    <3>2. k \in BallKeys(c)
      <4> HIDE DEF found
      <4>1. PICK r \in RouterSet : k \in found[r]
        BY <3>1, SomeLister
      <4> QED
        BY <4>1 DEF found
    <3>3. PICK e \in entries : e.key = k /\ e.ball = BallOf(c)
      BY <3>2 DEF BallKeys
    <3>4. PICK w \in Calls, i \in Indices : IsOf(e, w, i)
      BY <3>3 DEF Written
    <3>5. e.key = ChunkKey(program[w].ball, i)
      BY <3>4 DEF IsOf, EntryOf
    <3> QED
      BY <3>3, <3>4, <3>5 DEF Found, IsOf
  <2> QED
    BY <2>1, <2>2
<1>5. ASSUME NEW d \in Calls, EraseBucket(d)
      PROVE  Found(c, k)
  <2>1. d # c
    BY <1>1, <1>5 DEF EraseBucket
  <2>2. todo'[c][k] = todo[c][k]
    BY <1>5, <2>1 DEF EraseBucket, StartErasing, TypeOK
  <2> QED
    BY <1>1, <1>2, <1>3, <2>2
<1>6. ASSUME NEW d \in Calls, NEW j \in Keys, Erase(d, j)
      PROVE  todo[c][k] > 0
  <2>1. todo' = [todo EXCEPT ![d][j] = @ - 1] /\ todo[d][j] > 0
    BY <1>6 DEF Erase
  <2>2. CASE d = c /\ j = k
    BY <2>1, <2>2
  <2>3. CASE ~ (d = c /\ j = k)
    BY <2>1, <2>3 DEF TypeOK
  <2> QED
    BY <2>2, <2>3
<1>7. CASE UNCHANGED todo
  BY <1>2, <1>3, <1>7
<1>8. \/ UNCHANGED todo
      \/ \E d \in Calls : ListBall(d) \/ EraseBucket(d) \/ \E j \in Keys : Erase(d, j)
  BY DEF Next, StoringStep, ErasingStep, Begin, Query, Post, Settle, FinishStoring,
         ListBallFails, ListBucket, FinishErasing, vars
<1> QED
  BY <1>2, <1>3, <1>4, <1>5, <1>6, <1>7, <1>8

-----------------------------------------------------------------------------
(* While nothing else is called for its names, the chunks that a put has   *)
(* posted and not given up are there.                                      *)
Holds(c, i) == /\ Kind(c) \in {"put", "put_file"} /\ phase[c] \in {"storing", "ok"}
               /\ chunk[c][i] \in {"posted", "stored"}

PostedStays == \A c \in Calls : \A i \in program[c].indices :
                 Apart(c) /\ Holds(c, i) => EntryOf(c, i) \in entries

(* The names of two balls, one of whose keys sanitize_str makes a key of   *)
(* the other, are made equal.                                              *)
LEMMA SameNames ==
  ASSUME NEW n \in BallNames, NEW m \in BallNames, NEW i \in Indices, NEW j \in Indices,
         Clean[ChunkKey(n, i)] = ChunkKey(m, j)
  PROVE  Sanitize(n) = m /\ Sanitize(m) = m
<1>1. ChunkKey(n, i) \in Keys
  BY DEF Keys
<1>2. Sanitize(ChunkKey(n, i)) = ChunkKey(m, j)
  BY <1>1, CleanIsSanitize
<1> QED
  BY <1>2, NamesStayApart

LEMMA PostKeeps ==
  ASSUME TypeOK, NEW c \in Calls, NEW d \in Calls, NEW i \in Indices, NEW j \in Indices,
         Post(d, j), phase[d] = "storing" => Kind(d) \in Writers,
         Apart(c), EntryOf(c, i) \in entries
  PROVE  EntryOf(c, i) \in entries'
<1> DEFINE e == EntryOf(c, i)
           f == EntryOf(d, j)
<1>1. program \in Programs
  BY DEF TypeOK
<1>2. /\ entries' = (entries \ At(f.bucket, f.key)) \cup {f}
      /\ phase[d] = "storing"
  BY DEF Post
<1>3. CASE e \notin At(f.bucket, f.key)
  BY <1>2, <1>3
<1>4. CASE e \in At(f.bucket, f.key)
  <2>1. /\ BucketOf(c) = BucketOf(d)
        /\ ChunkKey(program[c].ball, i) = ChunkKey(program[d].ball, j)
    BY <1>1, <1>4, EntryType DEF At
  <2>2. program[c].ball = program[d].ball /\ i = j
    BY <1>1, <2>1, OperationType, NamesStayApart
  <2>3. BallOf(c) = BallOf(d) /\ Changes(d)
    BY <1>2, <2>2 DEF BallOf, Changes, Writers, Queries
  <2>4. c = d
    BY <2>1, <2>3 DEF Apart, SameBucket
  <2> QED
    BY <1>2, <2>2, <2>4
<1> QED
  BY <1>3, <1>4

LEMMA EraseKeeps ==
  ASSUME TypeOK, ErasesItsOwn, NEW c \in Calls, NEW d \in Calls, NEW i \in Indices,
         NEW k \in Keys, Erase(d, k), PhaseFits(d),
         Apart(c), Holds(c, i), EntryOf(c, i) \in entries
  PROVE  EntryOf(c, i) \in entries'
<1>1. program \in Programs
  BY DEF TypeOK
<1>2. /\ phase[d] = "erasing" /\ todo[d][k] > 0 /\ c # d
      /\ Kind(d) \in Erasers \cup {"put"}
  BY DEF Erase, Holds, PhaseFits
<1>3. SUFFICES ASSUME EntryOf(c, i) \in At(BucketOf(d), Clean[k])
               PROVE  FALSE
  BY EraseShrinks
<1>4. SameBucket(c, d) /\ Clean[k] = ChunkKey(program[c].ball, i)
  BY <1>1, <1>3, EntryType DEF At, SameBucket
<1>5. Changes(d)
  BY <1>2 DEF Changes, Erasers, Queries
<1>6. BallOf(d) # BallOf(c) /\ Kind(d) # "delete_bucket"
  BY <1>2, <1>4, <1>5 DEF Apart
<1>7. PICK w \in Calls, j \in Indices : /\ k = ChunkKey(program[w].ball, j)
                                       /\ EntryOf(w, j).ball = BallOf(d)
  BY <1>2, <1>6 DEF ErasesItsOwn, Found
<1>8. /\ program[w].ball \in BallNames /\ program[c].ball \in BallNames
      /\ program[d].ball \in BallNames
  BY <1>1, OperationType
<1>9. /\ Sanitize(program[w].ball) = program[c].ball
      /\ Sanitize(program[c].ball) = program[c].ball
  BY <1>4, <1>7, <1>8, SameNames
<1>10. BallOf(c) = program[c].ball /\ BallOf(w) = program[c].ball
  BY <1>1, <1>9, EntryType
<1>11. CASE BallOf(d) = program[w].ball
  <2>1. Sanitize(BallOf(d)) = BallOf(d)
    BY <1>1, <1>8, EntryType, NamesStayApart
  <2> QED
    BY <1>6, <1>9, <1>10, <1>11, <2>1
<1>12. CASE BallOf(d) = BallOf(w)
  BY <1>6, <1>10, <1>12
<1> QED
  BY <1>1, <1>7, <1>11, <1>12, EntryType

(* A put comes to hold a chunk only by posting it.                         *)
LEMMA HoldsBefore ==
  ASSUME TypeOK, PhasesFit, [Next]_vars, NEW c \in Calls, NEW i \in Indices, Holds(c, i)'
  PROVE  Holds(c, i) \/ Post(c, i)
<1> USE DEF Holds, Go, PhasesFit, PhaseFits
<1>1. CASE UNCHANGED vars
  BY <1>1 DEF vars
<1>2. ASSUME NEW d \in Calls, Begin(d) \/ Query(d)
      PROVE  Holds(c, i)
  BY <1>2 DEF Begin, Query, Queries, TypeOK
<1>3. ASSUME NEW d \in Calls, NEW j \in Indices, Post(d, j)
      PROVE  Holds(c, i) \/ Post(c, i)
  BY <1>3 DEF Post, Become, TypeOK
<1>4. ASSUME NEW d \in Calls, NEW j \in Indices, Settle(d, j)
      PROVE  Holds(c, i)
  <2>1. phase' = phase /\ program' = program
    BY <1>4 DEF Settle
  <2>2. chunk'[c][i] = chunk[c][i] \/ (c = d /\ i = j)
    BY <1>4 DEF Settle, Become, TypeOK
  <2>3. CASE c = d /\ i = j
    <3>1. \/ chunk[d][j] = "posted"
          \/ chunk'[d][j] = "lost"
      BY <1>4 DEF Settle, Become, TypeOK
    <3> QED
      BY <2>1, <2>3, <3>1
  <2> QED
    BY <2>1, <2>2, <2>3
<1>5. ASSUME NEW d \in Calls, FinishStoring(d)
      PROVE  Holds(c, i)
  BY <1>5 DEF FinishStoring, TypeOK
<1>6. ASSUME NEW d \in Calls, ErasingStep(d)
      PROVE  Holds(c, i)
  BY <1>6 DEF ErasingStep, ListBall, ListBallFails, ListBucket, EraseBucket, Erase,
              FinishErasing, Erasers, TypeOK
<1> QED
  BY <1>1, <1>2, <1>3, <1>4, <1>5, <1>6 DEF Next, StoringStep

LEMMA ApartBefore ==
  ASSUME TypeOK, [Next]_vars, NEW c \in Calls, Apart(c)'
  PROVE  Apart(c)
<1>1. program' = program /\ \A k \in Calls : Changes(k) => Changes(k)'
  BY PhasesAdvance
<1> QED
  BY <1>1, NamesStay DEF Apart, SameBucket

LEMMA PostedStaysStep ==
  TypeOK /\ PhasesFit /\ ErasesItsOwn /\ PostedStays /\ [Next]_vars => PostedStays'
<1> SUFFICES ASSUME TypeOK, PhasesFit, ErasesItsOwn, PostedStays, [Next]_vars,
                    NEW c \in Calls, NEW i \in program'[c].indices,
                    Apart(c)', Holds(c, i)'
             PROVE  EntryOf(c, i)' \in entries'
  BY DEF PostedStays
<1>1. /\ program' = program /\ i \in program[c].indices /\ i \in Indices
      /\ Apart(c) /\ EntryOf(c, i)' = EntryOf(c, i)
  <2>1. program' = program
    BY PhasesAdvance
  <2>2. program[c].indices \subseteq Indices
    BY OperationType DEF TypeOK
  <2> QED
    BY <2>1, <2>2, ApartBefore, NamesStay
<1>2. CASE Post(c, i)
  BY <1>1, <1>2 DEF Post
<1>3. CASE Holds(c, i)
  <2>1. EntryOf(c, i) \in entries
    BY <1>1, <1>3 DEF PostedStays
  <2>2. ASSUME NEW d \in Calls, NEW j \in Indices, Post(d, j)
        PROVE  EntryOf(c, i) \in entries'
    BY <1>1, <2>1, <2>2, PostKeeps DEF PhasesFit, PhaseFits
  <2>3. ASSUME NEW d \in Calls, NEW k \in Keys, Erase(d, k)
        PROVE  EntryOf(c, i) \in entries'
    BY <1>1, <1>3, <2>1, <2>3, EraseKeeps DEF PhasesFit
  <2> QED
    BY <1>1, <2>1, <2>2, <2>3, EntriesChange
<1> QED
  BY <1>1, <1>2, <1>3, HoldsBefore

BucketsInv == TypeOK /\ PhasesFit /\ Written /\ ErasesItsOwn /\ PostedStays

LEMMA BucketsInvInit == Init => BucketsInv
<1> SUFFICES ASSUME Init
             PROVE  BucketsInv
  OBVIOUS
<1>1. TypeOK /\ PhasesFit /\ Written
  BY TypeInit, PhasesInit DEF Init, Written
<1>2. ErasesItsOwn
  BY DEF Init, ErasesItsOwn
<1>3. PostedStays
  BY DEF Init, PostedStays, Holds
<1> QED
  BY <1>1, <1>2, <1>3 DEF BucketsInv

LEMMA BucketsInvStep == BucketsInv /\ [Next]_vars => BucketsInv'
BY TypeStep, PhasesStep, WrittenStep, ErasesItsOwnStep, PostedStaysStep DEF BucketsInv

LEMMA BucketsInvAlways == Spec => []BucketsInv
BY BucketsInvInit, BucketsInvStep, PTL DEF Spec

(* A ball that was put successfully stays, all its chunks, as long as      *)
(* nothing is called for names that sanitize_str makes equal to its own:   *)
(* whatever is put, fails, is cleaned up or deleted elsewhere meanwhile.   *)
THEOREM OkPutStaysApart == Spec => []OkStaysApart
<1>1. BucketsInv => OkStaysApart
  <2> SUFFICES ASSUME BucketsInv, NEW c \in Calls, OkPut(c), Apart(c),
                      NEW i \in program[c].indices
               PROVE  EntryOf(c, i) \in entries
    BY DEF OkStaysApart, Stands
  <2>1. Holds(c, i)
    BY DEF OkPut, Holds, BucketsInv, PhasesFit, PhaseFits
  <2> QED
    BY <2>1 DEF BucketsInv, PostedStays
<1> QED
  BY <1>1, BucketsInvAlways, PTL

-----------------------------------------------------------------------------
(* The calls that were over when a call began are over.                    *)
EarlierOver == \A c, w \in Calls : w \in before[c] => Over(w)

LEMMA EarlierOverStep == TypeOK /\ EarlierOver /\ [Next]_vars => EarlierOver'
<1> SUFFICES ASSUME TypeOK, EarlierOver, [Next]_vars, NEW c \in Calls, NEW w \in Calls,
                    w \in before'[c]
             PROVE  Over(w)'
  BY DEF EarlierOver
<1>1. Over(w) => Over(w)'
  BY PhasesAdvance
<1>2. ASSUME NEW d \in Calls, Begin(d)
      PROVE  Over(w)
  BY <1>2 DEF Begin, TypeOK, EarlierOver
<1>3. CASE UNCHANGED before
  BY <1>1, <1>3 DEF EarlierOver
<1>4. UNCHANGED before \/ \E d \in Calls : Begin(d)
  BY DEF Next, StoringStep, ErasingStep, Query, Post, Settle, FinishStoring, ListBall,
         ListBallFails, ListBucket, EraseBucket, Erase, FinishErasing, vars
<1> QED
  BY <1>1, <1>2, <1>3, <1>4

(* What a delete_bucket that goes on has done about a key of its bucket.   *)
OfCleanBucket(c) == Kind(c) = "delete_bucket" /\ BucketOf(c) = program[c].bucket

Passed(c, k) == /\ \A r \in RouterSet \ (pending[c] \cup refusals[c]) : k \in listed[c][r]
                /\ Clean[k] # k \/ k \notin sure[c]

LeftoversPassed ==
  \A c \in Calls : OfCleanBucket(c) /\ phase[c] # "idle" =>
    \A k \in KeysIn(BucketOf(c)) : Overlaps(c, k) \/ Passed(c, k)

LEMMA OverlapsStays ==
  ASSUME TypeOK, [Next]_vars, NEW c \in Calls, phase[c] # "idle", NEW k, Overlaps(c, k)
  PROVE  Overlaps(c, k)'
<1>1. program' = program /\ \A w \in Calls : phase[w] # "idle" => phase'[w] # "idle"
  BY PhasesAdvance
<1>2. before'[c] = before[c]
  BY DEF Next, StoringStep, ErasingStep, Begin, Query, Post, Settle, FinishStoring,
         ListBall, ListBallFails, ListBucket, EraseBucket, Erase, FinishErasing, vars,
         TypeOK
<1> QED
  BY <1>1, <1>2 DEF Overlaps

(* A key that comes in while the bucket is deleted is of a writer that was *)
(* not over before.                                                        *)
LEMMA NewKeyOverlaps ==
  ASSUME TypeOK, PhasesFit, EarlierOver, [Next]_vars, NEW c \in Calls, phase[c] # "idle",
         NEW b, NEW k \in KeysIn(b)', k \notin KeysIn(b)
  PROVE  Overlaps(c, k)'
<1>1. PICK e \in entries' : e.bucket = b /\ e.key = k /\ e \notin entries
  BY DEF KeysIn
<1>2. PICK w \in Calls, i \in Indices : Post(w, i)
  BY <1>1, EntriesChange, EraseShrinks
<1>3. e = EntryOf(w, i)
  BY <1>1, <1>2 DEF Post
<1>4. /\ k = ChunkKey(program[w].ball, i) /\ i \in program[w].indices
      /\ phase[w] = "storing" /\ Kind(w) \in Writers
  BY <1>1, <1>2, <1>3 DEF Post, EntryOf, PhasesFit, PhaseFits
<1>5. w \notin before[c]
  BY <1>4 DEF EarlierOver, Over
<1>6. Overlaps(c, k)
  BY <1>4, <1>5 DEF Overlaps
<1> QED
  BY <1>6, OverlapsStays

LEMMA PassedStays ==
  ASSUME TypeOK, [Next]_vars, NEW c \in Calls, phase[c] # "idle", OfCleanBucket(c),
         NEW k \in Keys, k \in KeysIn(BucketOf(c)), k \in KeysIn(BucketOf(c))', Passed(c, k)
  PROVE  Passed(c, k)'
<1>1. CASE UNCHANGED <<pending, refusals, listed, sure>>
  BY <1>1 DEF Passed
<1>2. ASSUME NEW d \in Calls, Begin(d)
      PROVE  Passed(c, k)'
  BY <1>2 DEF Begin, Passed, TypeOK
<1>3. ASSUME NEW d \in Calls, ListBall(d)
      PROVE  Passed(c, k)'
  BY <1>3 DEF ListBall, Passed, OfCleanBucket, TypeOK
<1>4. ASSUME NEW d \in Calls, NEW r \in RouterSet, ListBucket(d, r)
      PROVE  Passed(c, k)'
  <2>1. CASE d # c
    <3>1. /\ pending'[c] = pending[c] /\ refusals'[c] = refusals[c]
          /\ listed'[c] = listed[c] /\ sure' = sure
      BY <1>4, <2>1 DEF ListBucket, TypeOK
    <3> QED
      BY <3>1 DEF Passed
  <2>2. CASE d = c
    <3>1. pending'[c] = pending[c] \ {r} /\ sure' = sure
      BY <1>4, <2>2 DEF ListBucket, TypeOK
    <3>2. CASE /\ listed' = [listed EXCEPT ![c][r] = KeysIn(program[c].bucket)]
               /\ UNCHANGED refusals
      <4>1. k \in listed'[c][r] /\ \A q \in RouterSet \ {r} : listed'[c][q] = listed[c][q]
        BY <3>2 DEF TypeOK, OfCleanBucket
      <4> QED
        BY <3>1, <3>2, <4>1 DEF Passed
    <3>3. CASE refusals' = [refusals EXCEPT ![c] = @ \cup {r}] /\ UNCHANGED listed
      <4>1. refusals'[c] = refusals[c] \cup {r}
        BY <3>3 DEF TypeOK
      <4> QED
        BY <3>1, <3>3, <4>1 DEF Passed
    <3> QED
      BY <1>4, <2>2, <3>2, <3>3 DEF ListBucket
  <2> QED
    BY <2>1, <2>2
<1>5. ASSUME NEW d \in Calls, NEW j \in Keys, Erase(d, j)
      PROVE  Passed(c, k)'
  <2>1. UNCHANGED <<pending, refusals, listed>>
    BY <1>5 DEF Erase
  <2>2. CASE k \in sure'[c] /\ k \notin sure[c]
    <3>1. c = d /\ j = k /\ entries' = entries \ At(BucketOf(c), Clean[k])
      BY <1>5, <2>2 DEF Erase, TypeOK
    <3>2. Clean[k] # k
      BY <3>1, PhasesAdvance, NamesStay DEF KeysIn, At
    <3> QED
      BY <2>1, <3>2 DEF Passed
  <2>3. CASE ~ (k \in sure'[c] /\ k \notin sure[c])
    BY <2>1, <2>3 DEF Passed
  <2> QED
    BY <2>2, <2>3
<1>6. \/ UNCHANGED <<pending, refusals, listed, sure>>
      \/ \E d \in Calls : \/ Begin(d) \/ ListBall(d)
                          \/ \E r \in RouterSet : ListBucket(d, r)
                          \/ \E j \in Keys : Erase(d, j)
  BY DEF Next, StoringStep, ErasingStep, Query, Post, Settle, FinishStoring,
         ListBallFails, EraseBucket, FinishErasing, vars
<1> QED
  BY <1>1, <1>2, <1>3, <1>4, <1>5, <1>6

(* A call that begins has passed every key there is.                       *)
LEMMA BeginPasses ==
  ASSUME TypeOK, PhasesFit, [Next]_vars, NEW c \in Calls, OfCleanBucket(c),
         phase[c] = "idle", phase'[c] # "idle", NEW k
  PROVE  entries' = entries /\ Passed(c, k)'
<1>1. sure[c] = {}
  BY DEF PhasesFit, PhaseFits
<1>2. Begin(c)
  BY DEF Next, StoringStep, ErasingStep, Begin, Query, Post, Settle, FinishStoring,
         ListBall, ListBallFails, ListBucket, EraseBucket, Erase, FinishErasing, vars,
         Go, TypeOK, OfCleanBucket, Queries
<1> QED
  BY <1>1, <1>2 DEF Begin, Passed, OfCleanBucket, TypeOK

LEMMA LeftoversPassedStep ==
  TypeOK /\ PhasesFit /\ EarlierOver /\ LeftoversPassed /\ [Next]_vars => LeftoversPassed'
<1> SUFFICES ASSUME TypeOK, PhasesFit, EarlierOver, LeftoversPassed, [Next]_vars,
                    NEW c \in Calls, OfCleanBucket(c)', phase'[c] # "idle",
                    NEW k \in KeysIn(BucketOf(c))', ~ Overlaps(c, k)'
             PROVE  Passed(c, k)'
  BY DEF LeftoversPassed
<1>1. program' = program /\ BucketOf(c)' = BucketOf(c) /\ OfCleanBucket(c)
  BY PhasesAdvance, NamesStay DEF OfCleanBucket
<1>2. CASE phase[c] = "idle"
  BY <1>1, <1>2, BeginPasses
<1>3. CASE phase[c] # "idle"
  <2>1. k \in KeysIn(BucketOf(c)) /\ k \in Keys
    <3>1. k \in KeysIn(BucketOf(c))
      BY <1>1, <1>3, NewKeyOverlaps DEF KeysIn
    <3> QED
      BY <3>1, KeysOfEntries DEF KeysIn, TypeOK
  <2>2. Passed(c, k)
    BY <1>1, <1>3, <2>1, OverlapsStays DEF LeftoversPassed
  <2> QED
    BY <1>1, <1>3, <2>1, <2>2, PassedStays
<1> QED
  BY <1>2, <1>3

(* What delete_bucket leaves of a bucket with a clean name when it says Ok *)
(* has a reason: a writer at work meanwhile, a key that sanitize_str       *)
(* changes, or a deletion that no router has confirmed.                    *)
THEOREM BucketLeftoversHaveReasons == Spec => []LeftoversHaveReasons
<1> DEFINE Inv == BucketsInv /\ EarlierOver /\ LeftoversPassed
<1>1. Init => EarlierOver /\ LeftoversPassed
  BY DEF Init, EarlierOver, LeftoversPassed
<1>2. Inv /\ [Next]_vars => Inv'
  BY BucketsInvStep, EarlierOverStep, LeftoversPassedStep DEF BucketsInv
<1>3. Inv => LeftoversHaveReasons
  <2> SUFFICES ASSUME Inv, NEW c \in Calls, Deleted(c), BucketOf(c) = program[c].bucket,
                      NEW k \in KeysIn(BucketOf(c)), ~ Overlaps(c, k)
               PROVE  /\ \A r \in RouterSet \ refusals[c] : k \in listed[c][r]
                      /\ Clean[k] # k \/ k \notin sure[c]
    BY DEF LeftoversHaveReasons
  <2>1. Passed(c, k)
    BY DEF LeftoversPassed, Deleted, OfCleanBucket
  <2>2. pending[c] = {}
    BY DEF Deleted, BucketsInv, PhasesFit, PhaseFits
  <2> QED
    BY <2>1, <2>2 DEF Passed
<1> QED
  BY <1>1, <1>2, <1>3, BucketsInvInit, PTL DEF Spec

-----------------------------------------------------------------------------
LEMMA KeysAreFinite == IsFiniteSet(Keys)
<1> DEFINE f == [t \in BallNames \X Indices |-> ChunkKey(t[1], t[2])]
<1>1. IsFiniteSet(BallNames \X Indices)
  BY BucketsAssumption, FS_Product
<1>2. f \in Surjection(BallNames \X Indices, Keys)
  <2>1. ASSUME NEW k \in Keys
        PROVE  \E t \in BallNames \X Indices : f[t] = k
    <3>1. PICK n \in BallNames, i \in Indices : k = ChunkKey(n, i)
      BY DEF Keys
    <3>2. <<n, i>> \in BallNames \X Indices /\ f[<<n, i>>] = k
      BY <3>1
    <3> QED
      BY <3>2
  <2>2. f \in [BallNames \X Indices -> Keys]
    BY DEF Keys
  <2> QED
    BY <2>1, <2>2 DEF Surjection
<1> QED
  BY <1>1, <1>2, FS_Surjection

(* Four segments take in every element of a list that has one.             *)
LEMMA SomeSegment ==
  ASSUME NEW n \in Nat \ {0}
  PROVE  GroupChunksRaises(n)
<1>1. SegmentSize(n) \in Nat \ {0}
  BY DEF SegmentSize, Threads
<1>2. 1 \in Segment(n, 1)
  BY <1>1 DEF Segment
<1> QED
  BY <1>2 DEF GroupChunksRaises, Threads

(* group_chunks loses no chunk and groups none twice, however long the     *)
(* listing: the slices of its four threads share it out.                   *)
THEOREM SegmentsShareOut ==
  ASSUME NEW n \in Nat, NEW j \in 1..n
  PROVE  \E i \in 1..Threads :
           /\ j \in Segment(n, i)
           /\ \A k \in 1..Threads \ {i} : j \notin Segment(n, k)
<1> DEFINE s == SegmentSize(n)
<1>1. s \in Nat /\ n <= 4 * s
  BY DEF SegmentSize, Threads
<1>2. \A i \in 1..Threads : j \in Segment(n, i) <=> (i - 1) * s < j /\ j <= i * s
  BY DEF Segment
<1> HIDE DEF s
<1>3. /\ j \in Segment(n, 1) <=> j <= s
      /\ j \in Segment(n, 2) <=> s < j /\ j <= 2 * s
      /\ j \in Segment(n, 3) <=> 2 * s < j /\ j <= 3 * s
      /\ j \in Segment(n, 4) <=> 3 * s < j /\ j <= 4 * s
  <2>1. /\ (1 - 1) * s = 0 /\ 1 * s = s /\ (2 - 1) * s = s
        /\ (3 - 1) * s = 2 * s /\ (4 - 1) * s = 3 * s
    BY <1>1
  <2> QED
    BY <1>2, <2>1 DEF Threads
<1>4. 1..Threads = {1, 2, 3, 4}
  BY DEF Threads
<1>5. CASE j <= s
  BY <1>1, <1>3, <1>4, <1>5
<1>6. CASE s < j /\ j <= 2 * s
  BY <1>1, <1>3, <1>4, <1>6
<1>7. CASE 2 * s < j /\ j <= 3 * s
  BY <1>1, <1>3, <1>4, <1>7
<1>8. CASE 3 * s < j
  BY <1>1, <1>3, <1>4, <1>8
<1> QED
  BY <1>1, <1>5, <1>6, <1>7, <1>8

(* A call that lists a bucket with Ok hands out every key stored there:    *)
(* get_bucket_metadata comes to an Ok only when there is none.             *)
LEMMA ListsAll ==
  ASSUME TypeOK, Next, NEW q \in Calls, Lists(q)
  PROVE  answer'[q] = KeysIn(BucketOf(q))
<1>1. Query(q)
  BY DEF Next, StoringStep, ErasingStep, Begin, Query, Post, Settle, FinishStoring,
         ListBall, ListBallFails, ListBucket, EraseBucket, Erase, FinishErasing,
         Go, TypeOK, Queries, Lists
<1>2. /\ ~ Raises(q)
      /\ answer'[q] = IF Kind(q) = "get_bucket_metadata" THEN {} ELSE Asked(q)
  BY <1>1 DEF Query, Go, TypeOK, Lists
<1>3. Asked(q) = KeysIn(BucketOf(q))
  BY DEF Asked, Lists
<1>4. CASE Kind(q) = "get_bucket_metadata"
  <2>1. KeysIn(BucketOf(q)) \in SUBSET Keys
    BY KeysOfEntries DEF KeysIn, TypeOK
  <2>2. IsFiniteSet(KeysIn(BucketOf(q)))
    BY <2>1, KeysAreFinite, FS_Subset
  <2>3. Cardinality(KeysIn(BucketOf(q))) = 0
    BY <1>2, <1>3, <1>4, <2>2, FS_CardinalityType, SomeSegment DEF Raises
  <2> QED
    BY <1>2, <1>4, <2>2, <2>3, FS_EmptySet
<1>5. CASE Kind(q) # "get_bucket_metadata"
  BY <1>2, <1>3, <1>5
<1> QED
  BY <1>4, <1>5

(* What was put with Ok is listed: put stores under the clean name of the  *)
(* bucket, the queries ask under the name they are given, and no call for  *)
(* another ball touches an entry of one that stands apart.                 *)
THEOREM ListingsHaveWhatWasPutAlways == Spec => ListingsHaveWhatWasPut
<1> DEFINE Has == \A q, c \in Calls : Lists(q) /\ OkPut(c) /\ Apart(c) /\ SameBucket(c, q) =>
                    \A i \in program[c].indices : ChunkKey(program[c].ball, i) \in answer'[q]
<1>1. BucketsInv /\ OkStaysApart /\ [Next]_vars => [Has]_vars
  <2> SUFFICES ASSUME TypeOK, OkStaysApart, Next, NEW q \in Calls, NEW c \in Calls, Lists(q),
                      OkPut(c), Apart(c), SameBucket(c, q), NEW i \in program[c].indices
               PROVE  ChunkKey(program[c].ball, i) \in answer'[q]
    BY DEF BucketsInv
  <2>1. EntryOf(c, i) \in entries
    BY DEF OkStaysApart, Stands
  <2>2. EntryOf(c, i).bucket = BucketOf(q) /\ EntryOf(c, i).key = ChunkKey(program[c].ball, i)
    BY DEF EntryOf, SameBucket
  <2>3. ChunkKey(program[c].ball, i) \in KeysIn(BucketOf(q))
    BY <2>1, <2>2 DEF KeysIn
  <2> QED
    BY <2>3, ListsAll
<1> QED
  BY <1>1, BucketsInvAlways, OkPutStaysApart, PTL DEF Spec, ListingsHaveWhatWasPut
=============================================================================
