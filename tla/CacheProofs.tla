----------------------------- MODULE CacheProofs -----------------------------
(***************************************************************************)
(* What the two caches evict, and what the LRU cache counts, for any keys, *)
(* sizes, capacity and number of calls.                                    *)
(***************************************************************************)
EXTENDS Cache, TLAPS, SequenceTheorems, FiniteSetTheorems, WellFoundedInduction

LfuTypes == /\ cache \in [Keys -> Sizes \cup {None}]
            /\ freq \in [Keys -> Nat]
            /\ heap \in SUBSET ((Nat \ {0}) \X Keys)

Reach(k) == /\ freq[k] > 0 <=> k \in Cached
            /\ k \in Cached => <<freq[k], k>> \in heap

LfuInv == policy = "LFU" => LfuTypes /\ \A k \in Keys : Reach(k)

(* The entry that is taken is of a cached key with the lowest frequency,   *)
(* and the entries of the other keys stay behind it.                       *)
LEMMA FirstIsLeast ==
  ASSUME LfuTypes, \A k \in Keys : Reach(k),
         NEW e \in heap, First(e)
  PROVE  /\ e[1] \in Nat \ {0} /\ e[2] \in Cached /\ freq[e[2]] = e[1]
         /\ \A k \in Cached : freq[e[2]] <= freq[k]
         /\ \A k \in Cached \ {e[2]} : Before(e, <<freq[k], k>>)
<1>1. /\ e[1] \in Nat \ {0} /\ e[2] \in Keys /\ freq[e[2]] = e[1]
  BY DEF LfuTypes, First, Current
<1>2. e[2] \in Cached
  BY <1>1 DEF Reach, LfuTypes
<1>3. ASSUME NEW k \in Cached, k # e[2]
      PROVE  Before(e, <<freq[k], k>>)
  <2> DEFINE f == <<freq[k], k>>
  <2>1. k \in Keys /\ f \in heap /\ f[1] = freq[k] /\ f[2] = k
    BY DEF Cached, Reach
  <2>2. f \in Current \ {e}
    BY <2>1, <1>3 DEF Current
  <2> QED
    BY <2>2 DEF First
<1>4. ASSUME NEW k \in Cached
      PROVE  freq[e[2]] <= freq[k]
  <2>1. CASE k = e[2]
    BY <2>1, <1>1
  <2>2. CASE k # e[2]
    <3>1. Before(e, <<freq[k], k>>)
      BY <1>3, <2>2
    <3>2. k \in Keys /\ freq[k] \in Nat
      BY DEF Cached, LfuTypes
    <3> QED
      BY <1>1, <3>1, <3>2 DEF Before
  <2> QED
    BY <2>1, <2>2
<1> QED
  BY <1>1, <1>2, <1>3, <1>4

-----------------------------------------------------------------------------
(* A key that is counted once more keeps the others reachable.             *)
LEMMA CountReaches ==
  ASSUME LfuTypes, \A k \in Keys : Reach(k), NEW k \in Keys, Count(k),
         cache' \in [Keys -> Sizes \cup {None}], cache'[k] # None,
         \A j \in Keys \ {k} : cache'[j] = cache[j]
  PROVE  LfuTypes' /\ \A j \in Keys : Reach(j)'
<1>1. /\ freq' \in [Keys -> Nat]
      /\ freq'[k] = freq[k] + 1 /\ freq[k] + 1 \in Nat \ {0}
      /\ \A j \in Keys \ {k} : freq'[j] = freq[j]
  BY DEF Count, LfuTypes
<1>2. heap \subseteq heap' /\ <<freq'[k], k>> \in heap'
      /\ heap' \in SUBSET ((Nat \ {0}) \X Keys)
  BY <1>1 DEF Count, LfuTypes
<1>3. ASSUME NEW j \in Keys
      PROVE  Reach(j)'
  <2>1. CASE j = k
    BY <2>1, <1>1, <1>2 DEF Reach, Cached
  <2>2. CASE j # k
    BY <2>2, <1>1, <1>2 DEF Reach, Cached
  <2> QED
    BY <2>1, <2>2
<1> QED
  BY <1>1, <1>2, <1>3 DEF LfuTypes

(* A key that comes in, with the frequency 1, while the key of e gives way. *)
LEMMA EvictReaches ==
  ASSUME LfuTypes, \A k \in Keys : Reach(k), NEW k \in Keys, k \notin Cached,
         NEW size \in Sizes, NEW e \in heap, First(e),
         heap' = {f \in heap : Before(e, f)} \cup {<<1, k>>},
         freq' = [freq EXCEPT ![e[2]] = 0, ![k] = 1],
         cache' = [cache EXCEPT ![e[2]] = None, ![k] = size]
  PROVE  LfuTypes' /\ \A j \in Keys : Reach(j)'
<1> DEFINE v == e[2]
<1>1. /\ v \in Cached /\ v \in Keys
      /\ \A j \in Cached \ {v} : Before(e, <<freq[j], j>>)
  BY FirstIsLeast DEF Cached
<1>2. v # k /\ None \notin Sizes
  BY <1>1, CacheAssumption
<1>3. /\ freq' \in [Keys -> Nat] /\ cache' \in [Keys -> Sizes \cup {None}]
      /\ freq'[v] = 0 /\ cache'[v] = None
      /\ freq'[k] = 1 /\ cache'[k] = size /\ cache'[k] # None
      /\ \A j \in Keys \ {v, k} : freq'[j] = freq[j] /\ cache'[j] = cache[j]
  BY <1>1, <1>2 DEF LfuTypes
<1>4. /\ <<1, k>> \in heap'
      /\ heap' \in SUBSET ((Nat \ {0}) \X Keys)
  BY DEF LfuTypes
<1>5. ASSUME NEW j \in Keys
      PROVE  Reach(j)'
  <2>1. CASE j = v
    BY <2>1, <1>3 DEF Reach, Cached
  <2>2. CASE j = k
    BY <2>2, <1>3, <1>4 DEF Reach, Cached
  <2>3. CASE j # v /\ j # k
    <3>1. /\ freq'[j] = freq[j] /\ (j \in Cached' <=> j \in Cached)
      BY <2>3, <1>3 DEF Cached
    <3>2. j \in Cached => <<freq[j], j>> \in heap'
      BY <2>3, <1>1 DEF Reach
    <3> QED
      BY <3>1, <3>2 DEF Reach
  <2> QED
    BY <2>1, <2>2, <2>3
<1> QED
  BY <1>3, <1>4, <1>5 DEF LfuTypes

-----------------------------------------------------------------------------
LEMMA LfuInit == Init => LfuInv
<1> SUFFICES ASSUME Init
             PROVE  LfuTypes /\ \A k \in Keys : Reach(k)
  BY DEF LfuInv
<1> QED
  BY DEF Init, LfuTypes, Reach, Cached

LEMMA LfuStep == LfuInv /\ [Next]_vars => LfuInv'
<1> SUFFICES ASSUME LfuInv, [Next]_vars, policy' = "LFU"
             PROVE  LfuTypes' /\ \A k \in Keys : Reach(k)'
  BY DEF LfuInv
<1>1. CASE UNCHANGED vars
  <2>1. LfuTypes /\ \A k \in Keys : Reach(k)
    BY <1>1 DEF vars, LfuInv
  <2> QED
    BY <1>1, <2>1 DEF vars, LfuTypes, Reach, Cached
<1>2. CASE Next
  <2>0. policy = "LFU"
    BY <1>2 DEF Next, Call, Lru, Lfu, LruGet, LruRemove, LfuGet, LfuRemove,
                LruOverwrite, LruInsert, LruEvict, LfuPut, LfuEvict,
                LfuNothingToEvict, Clear
  <2>1. LfuTypes /\ \A k \in Keys : Reach(k)
    BY <2>0 DEF LfuInv
  <2>2. ASSUME NEW k \in Keys, LfuGet(k)
        PROVE  LfuTypes' /\ \A j \in Keys : Reach(j)'
    BY <2>1, <2>2, CountReaches DEF LfuGet, Cached, LfuTypes
  <2>3. ASSUME NEW k \in Keys, LfuRemove(k)
        PROVE  LfuTypes' /\ \A j \in Keys : Reach(j)'
    BY <2>1, <2>3 DEF LfuRemove, LfuTypes, Reach, Cached
  <2>4. ASSUME NEW k \in Keys, NEW size \in Sizes, LfuPut(k, size)
        PROVE  LfuTypes' /\ \A j \in Keys : Reach(j)'
    <3>1. /\ Count(k)
          /\ cache' \in [Keys -> Sizes \cup {None}]
          /\ cache'[k] # None
          /\ \A j \in Keys \ {k} : cache'[j] = cache[j]
      BY <2>1, <2>4, CacheAssumption DEF LfuPut, LfuTypes
    <3> QED
      BY <2>1, <3>1, CountReaches
  <2>5. ASSUME NEW k \in Keys, NEW size \in Sizes, LfuEvict(k, size)
        PROVE  LfuTypes' /\ \A j \in Keys : Reach(j)'
    BY <2>1, <2>5, EvictReaches DEF LfuEvict
  <2>6. ASSUME NEW k \in Keys, NEW size \in Sizes, LfuNothingToEvict(k, size)
        PROVE  LfuTypes' /\ \A j \in Keys : Reach(j)'
    <3>1. Cached = {}
      <4>1. ASSUME NEW j \in Cached
            PROVE  <<freq[j], j>> \in Current
        BY <2>1 DEF Reach, Current, Cached
      <4> QED
        BY <4>1, <2>6 DEF LfuNothingToEvict
    <3>2. ASSUME NEW j \in Keys
          PROVE  freq[j] = 0 /\ cache[j] = None
      <4>1. j \notin Cached
        BY <3>1
      <4>2. freq[j] \in Nat /\ ~ (freq[j] > 0)
        BY <2>1, <4>1 DEF Reach, LfuTypes
      <4> QED
        BY <4>1, <4>2 DEF Cached
    <3> QED
      BY <2>1, <2>6, <3>2, CacheAssumption
      DEF LfuNothingToEvict, LfuTypes, Reach, Cached
  <2>7. CASE Clear
    BY <2>1, <2>7 DEF Clear, LfuTypes, Reach, Cached
  <2> QED
    BY <1>2, <2>0, <2>2, <2>3, <2>4, <2>5, <2>6, <2>7
    DEF Next, Call, Lru, LruGet, LruRemove, LruOverwrite, LruInsert, LruEvict
<1> QED
  BY <1>1, <1>2

LEMMA LfuInvariant == Spec => []LfuInv
BY LfuInit, LfuStep, PTL DEF Spec

(* The LFU cache counts exactly the keys it holds and finds each of them   *)
(* in its heap, so what it does to evict one cannot fail.                  *)
THEOREM HeapReachesAllAlways == Spec => []HeapReachesAll
<1>1. LfuInv => HeapReachesAll
  BY DEF LfuInv, HeapReachesAll, Reach
<1> QED
  BY <1>1, LfuInvariant, PTL

(* Whatever entries are outdated, the LFU cache evicts a key that was used *)
(* least frequently.                                                       *)
THEOREM LfuEvictsLeastFrequent == Spec => EvictsLeastFrequent
<1> DEFINE Least == \A v \in Keys : Evicted(v) => \A k \in Cached : freq[v] <= freq[k]
<1>1. ASSUME LfuInv, Next, policy = "LFU"
      PROVE  Least
  <2>1. LfuTypes /\ \A k \in Keys : Reach(k)
    BY <1>1 DEF LfuInv
  <2>2. SUFFICES ASSUME NEW v \in Keys, Evicted(v)
                 PROVE  \A k \in Cached : freq[v] <= freq[k]
    OBVIOUS
  <2>3. PICK c \in Keys : cache[c] = None /\ cache'[c] # None
    BY <2>2 DEF Evicted
  <2>4. ASSUME NEW k \in Keys, NEW size \in Sizes, LfuEvict(k, size)
        PROVE  \A j \in Cached : freq[v] <= freq[j]
    <3>1. PICK e \in heap : First(e) /\ cache' = [cache EXCEPT ![e[2]] = None, ![k] = size]
      BY <2>4 DEF LfuEvict
    <3>2. e[2] \in Cached /\ \A j \in Cached : freq[e[2]] <= freq[j]
      BY <2>1, <3>1, FirstIsLeast
    <3>3. cache'[v] # cache[v] /\ k \notin Cached /\ v \in Cached
      BY <2>2, <2>4 DEF Evicted, LfuEvict, Cached
    <3>4. v = e[2]
      BY <3>1, <3>3, <2>1 DEF LfuTypes, Cached
    <3> QED
      BY <3>2, <3>4
  <2>5. ASSUME NEW k \in Keys, NEW size \in Sizes,
               LfuPut(k, size) \/ LfuNothingToEvict(k, size)
        PROVE  FALSE
    <3>1. cache'[v] = None /\ cache[v] # None /\ size # None
      BY <2>2, CacheAssumption DEF Evicted
    <3>2. cache' = [cache EXCEPT ![k] = size]
      BY <2>5 DEF LfuPut, LfuNothingToEvict
    <3> QED
      BY <2>1, <3>1, <3>2 DEF LfuTypes
  <2>6. ASSUME NEW k \in Keys, LfuGet(k) \/ LfuRemove(k)
        PROVE  FALSE
    <3>1. cache' = cache \/ cache' = [cache EXCEPT ![k] = None]
      BY <2>6 DEF LfuGet, LfuRemove
    <3> QED
      BY <2>1, <2>3, <3>1 DEF LfuTypes
  <2>7. ~ Clear
    BY <2>3 DEF Clear
  <2> QED
    BY <1>1, <2>4, <2>5, <2>6, <2>7
    DEF Next, Call, Lru, LruGet, LruRemove, LruOverwrite, LruInsert, LruEvict
<1>2. LfuInv /\ [Next]_vars => [policy = "LFU" => Least]_vars
  BY <1>1
<1> QED
  BY <1>2, LfuInvariant, PTL DEF Spec, EvictsLeastFrequent

-----------------------------------------------------------------------------
(* The LRU cache: its keys, the least recently used first.                 *)
Sorted(s, use) == \A i, j \in 1..Len(s) : i < j => use[s[i]] < use[s[j]]

(* r is s without its i-th element.                                        *)
CutAt(r, s, i) == /\ r \in Seq(Keys) /\ Len(r) = Len(s) - 1
                  /\ \A j \in 1..Len(r) : r[j] = IF j < i THEN s[j] ELSE s[j + 1]

LEMMA RangeIs ==
  ASSUME NEW s \in Seq(Keys)
  PROVE  /\ Range(s) = {s[i] : i \in 1..Len(s)} /\ Range(s) \subseteq Keys
         /\ DOMAIN s = 1..Len(s) /\ Len(s) \in Nat
<1>1. DOMAIN s = 1..Len(s) /\ Len(s) \in Nat
  BY LenProperties
<1>2. \A i \in 1..Len(s) : s[i] \in Keys
  BY ElementOfSeq
<1> QED
  BY <1>1, <1>2 DEF Range

LEMMA RemoveAtCuts ==
  ASSUME NEW s \in Seq(Keys), NEW i \in 1..Len(s)
  PROVE  CutAt(RemoveAt(s, i), s, i)
<1>1. Len(s) \in Nat /\ \A j \in 1..Len(s) : s[j] \in Keys
  BY LenProperties, ElementOfSeq
<1> DEFINE a == SubSeq(s, 1, i - 1)
           b == SubSeq(s, i + 1, Len(s))
           r == a \o b
<1>2. /\ a \in Seq(Keys) /\ Len(a) = i - 1
      /\ \A j \in 1..(i - 1) : a[j] = s[j]
  <2>1. \A j \in 1..(i - 1) : s[j] \in Keys
    BY <1>1
  <2>2. /\ a \in Seq(Keys)
        /\ Len(a) = IF 1 <= i - 1 THEN (i - 1) - 1 + 1 ELSE 0
        /\ \A j \in 1..((i - 1) - 1 + 1) : a[j] = s[1 + j - 1]
    BY <2>1, SubSeqProperties
  <2> HIDE DEF a
  <2> QED
    BY <1>1, <2>2
<1>3. /\ b \in Seq(Keys) /\ Len(b) = Len(s) - i
      /\ \A j \in 1..(Len(s) - i) : b[j] = s[i + j]
  <2>1. i + 1 \in Int /\ Len(s) \in Int /\ \A j \in (i + 1)..Len(s) : s[j] \in Keys
    BY <1>1
  <2>2. /\ b \in Seq(Keys)
        /\ Len(b) = IF i + 1 <= Len(s) THEN Len(s) - (i + 1) + 1 ELSE 0
        /\ \A j \in 1..(Len(s) - (i + 1) + 1) : b[j] = s[(i + 1) + j - 1]
    BY <2>1, SubSeqProperties
  <2> HIDE DEF b
  <2> HIDE DEF b
  <2>3. Len(s) - (i + 1) + 1 = Len(s) - i
    BY <1>1
  <2>4. ASSUME NEW j \in 1..(Len(s) - i)
        PROVE  b[j] = s[i + j]
    <3>1. (i + 1) + j - 1 = i + j
      BY <1>1
    <3> QED
      BY <2>2, <2>3, <3>1
  <2>5. Len(b) = Len(s) - i
    <3>1. Len(b) = IF i + 1 <= Len(s) THEN Len(s) - (i + 1) + 1 ELSE 0
      BY <2>2
    <3> QED
      BY <1>1, <3>1
  <2> QED
    BY <2>2, <2>4, <2>5
<1> HIDE DEF a, b
<1>4. /\ r \in Seq(Keys) /\ Len(r) = Len(a) + Len(b)
      /\ \A j \in 1..(Len(a) + Len(b)) : r[j] = IF j <= Len(a) THEN a[j] ELSE b[j - Len(a)]
  BY <1>2, <1>3, ConcatProperties
<1> HIDE DEF r
<1>5. Len(r) = Len(s) - 1
  BY <1>1, <1>2, <1>3, <1>4
<1>6. ASSUME NEW j \in 1..Len(r)
      PROVE  r[j] = IF j < i THEN s[j] ELSE s[j + 1]
  <2>1. CASE j < i
    <3>1. j \in 1..(i - 1) /\ j <= Len(a)
      BY <1>1, <1>2, <1>5, <2>1
    <3> QED
      BY <1>2, <1>4, <2>1, <3>1
  <2>2. CASE ~ (j < i)
    <3>1. /\ j - Len(a) \in 1..(Len(s) - i) /\ ~ (j <= Len(a))
          /\ i + (j - Len(a)) = j + 1
      BY <1>1, <1>2, <1>5, <2>2
    <3>2. r[j] = b[j - Len(a)]
      BY <1>4, <3>1
    <3>3. b[j - Len(a)] = s[i + (j - Len(a))]
      BY <1>3, <3>1
    <3>4. s[i + (j - Len(a))] = s[j + 1]
      BY <3>1
    <3> QED
      BY <2>2, <3>2, <3>3, <3>4
  <2> QED
    BY <2>1, <2>2
<1>7. RemoveAt(s, i) = r
  BY DEF RemoveAt, r, a, b
<1> QED
  BY <1>4, <1>5, <1>6, <1>7 DEF CutAt

LEMMA TailCuts ==
  ASSUME NEW s \in Seq(Keys), s # <<>>
  PROVE  CutAt(Tail(s), s, 1) /\ 1 \in 1..Len(s) /\ Head(s) = s[1]
<1> DEFINE r == Tail(s)
<1>1. /\ r \in Seq(Keys) /\ Len(r) = Len(s) - 1 /\ Head(s) = s[1]
      /\ \A j \in 1..Len(r) : r[j] = s[j + 1]
      /\ Len(s) \in Nat \ {0}
  BY HeadTailProperties, EmptySeq
<1> HIDE DEF r
<1>2. 1 \in 1..Len(s) /\ \A j \in 1..Len(r) : ~ (j < 1)
  BY <1>1
<1>3. CutAt(r, s, 1)
  BY <1>1, <1>2 DEF CutAt
<1> QED
  BY <1>1, <1>2, <1>3 DEF r

(* A key that is there is there once, and that is what is removed.         *)
LEMMA RemoveFirstCuts ==
  ASSUME NEW s \in Seq(Keys), NEW k \in Range(s), IsInjective(s)
  PROVE  \E i \in 1..Len(s) : s[i] = k /\ CutAt(RemoveFirst(s, k), s, i)
<1>1. PICK i \in 1..Len(s) : s[i] = k
  BY RangeIs
<1>2. {j \in 1..Len(s) : s[j] = k} = {i}
  BY <1>1, RangeIs DEF IsInjective
<1>3. Min({i}) = i
  BY RangeIs DEF Min
<1>4. SelectInSeq(s, LAMBDA v : v = k) = i
  BY <1>2, <1>3 DEF SelectInSeq
<1>5. RemoveFirst(s, k) = RemoveAt(s, i)
  BY <1>1, <1>4 DEF RemoveFirst
<1> QED
  BY <1>1, <1>5, RemoveAtCuts

LEMMA SortedInjective ==
  ASSUME NEW s \in Seq(Keys), NEW use \in [Keys -> Nat], Sorted(s, use)
  PROVE  IsInjective(s)
<1> SUFFICES ASSUME NEW i \in 1..Len(s), NEW j \in 1..Len(s), s[i] = s[j]
             PROVE  i = j
  BY RangeIs DEF IsInjective
<1>1. use[s[i]] \in Nat
  BY ElementOfSeq
<1>2. ~ (i < j) /\ ~ (j < i)
  BY <1>1 DEF Sorted
<1> QED
  BY <1>2, RangeIs

(* Taking a key out leaves the others in order.                            *)
LEMMA CutSorted ==
  ASSUME NEW s \in Seq(Keys), NEW use \in [Keys -> Nat], Sorted(s, use),
         NEW i \in 1..Len(s), NEW r, CutAt(r, s, i)
  PROVE  Sorted(r, use) /\ Range(r) = Range(s) \ {s[i]}
<1>1. /\ Len(s) \in Nat /\ r \in Seq(Keys) /\ Len(r) = Len(s) - 1
      /\ \A j \in 1..Len(r) : r[j] = IF j < i THEN s[j] ELSE s[j + 1]
  BY RangeIs DEF CutAt
<1> DEFINE at(j) == IF j < i THEN j ELSE j + 1
<1>2. \A j \in 1..Len(r) : at(j) \in 1..Len(s) \ {i} /\ r[j] = s[at(j)]
  BY <1>1
<1>3. \A j, l \in 1..Len(r) : j < l => at(j) < at(l)
  BY <1>1
<1>4. \A j \in 1..Len(s) \ {i} : \E l \in 1..Len(r) : j = at(l)
  <2> SUFFICES ASSUME NEW j \in 1..Len(s) \ {i}
               PROVE  \E l \in 1..Len(r) : j = at(l)
    OBVIOUS
  <2>1. CASE j < i
    <3>1. j \in 1..Len(r) /\ j = at(j)
      BY <1>1, <2>1
    <3> QED
      BY <3>1
  <2>2. CASE ~ (j < i)
    <3>1. j - 1 \in 1..Len(r) /\ j = at(j - 1)
      BY <1>1, <2>2
    <3> QED
      BY <3>1
  <2> QED
    BY <2>1, <2>2
<1> HIDE DEF at
<1>5. Sorted(r, use)
  BY <1>2, <1>3 DEF Sorted
<1>6. \A j \in 1..Len(s) \ {i} : s[j] # s[i]
  BY SortedInjective, RangeIs DEF IsInjective
<1>7. Range(r) = {r[j] : j \in 1..Len(r)} /\ Range(s) = {s[j] : j \in 1..Len(s)}
  BY <1>1, RangeIs
<1>8. \A k \in Range(r) : k \in Range(s) /\ k # s[i]
  BY <1>2, <1>6, <1>7
<1>9. ASSUME NEW k \in Range(s), k # s[i]
      PROVE  k \in Range(r)
  <2>1. PICK j \in 1..Len(s) \ {i} : k = s[j]
    BY <1>7, <1>9
  <2>2. PICK l \in 1..Len(r) : j = at(l)
    BY <1>4
  <2> QED
    BY <1>2, <1>7, <2>1, <2>2
<1>10. Range(r) = Range(s) \ {s[i]}
  BY <1>8, <1>9
<1> QED
  BY <1>5, <1>10

(* A key that has just been used goes to the end.                          *)
LEMMA GrownSorted ==
  ASSUME NEW r \in Seq(Keys), NEW use \in [Keys -> Nat], Sorted(r, use),
         NEW k \in Keys \ Range(r), NEW n \in Nat, \A j \in Keys : use[j] <= n
  PROVE  /\ Sorted(Append(r, k), [use EXCEPT ![k] = n + 1])
         /\ Range(Append(r, k)) = Range(r) \cup {k} /\ Append(r, k) \in Seq(Keys)
<1> DEFINE t   == Append(r, k)
           new == [use EXCEPT ![k] = n + 1]
<1>1. /\ t \in Seq(Keys) /\ Len(t) = Len(r) + 1
      /\ \A i \in 1..Len(r) : t[i] = r[i]
      /\ t[Len(r) + 1] = k /\ Len(r) \in Nat
  BY AppendProperties, LenProperties
<1>2. Range(r) = {r[i] : i \in 1..Len(r)}
  BY RangeIs
<1>3. \A i \in 1..Len(r) : r[i] \in Keys \ {k}
  BY <1>2, RangeIs
<1>4. new[k] = n + 1 /\ \A j \in Keys \ {k} : new[j] = use[j] /\ new[j] \in Nat
  OBVIOUS
<1> HIDE DEF t, new
<1>5. 1..Len(t) = 1..Len(r) \cup {Len(r) + 1}
  BY <1>1
<1>6. Range(t) = Range(r) \cup {k}
  <2>1. Range(t) = {t[i] : i \in 1..Len(t)}
    BY <1>1, RangeIs
  <2> QED
    BY <1>1, <1>2, <1>5, <2>1
<1>7. ASSUME NEW i \in 1..Len(t), NEW j \in 1..Len(t), i < j
      PROVE  new[t[i]] < new[t[j]]
  <2>1. i \in 1..Len(r) /\ t[i] = r[i]
    BY <1>1, <1>7
  <2>2. CASE j \in 1..Len(r)
    <3>1. use[r[i]] < use[r[j]] /\ t[j] = r[j]
      BY <1>1, <1>7, <2>1, <2>2 DEF Sorted
    <3> QED
      BY <1>3, <1>4, <2>1, <2>2, <3>1
  <2>3. CASE j = Len(r) + 1
    <3>1. t[j] = k /\ use[r[i]] <= n /\ use[r[i]] \in Nat
      BY <1>1, <1>3, <2>1, <2>3
    <3>2. new[t[i]] = use[r[i]]
      BY <1>3, <1>4, <2>1
    <3> QED
      BY <1>4, <3>1, <3>2
  <2> QED
    BY <1>5, <2>2, <2>3
<1>8. Sorted(t, new)
  BY <1>7 DEF Sorted
<1> QED
  BY <1>1, <1>6, <1>8 DEF t, new

-----------------------------------------------------------------------------
(* The order holds the cached keys, the least recently used first.         *)
LruInv ==
  /\ cache \in [Keys -> Sizes \cup {None}] /\ order \in Seq(Keys)
  /\ lastUse \in [Keys -> Nat] /\ now \in Nat
  /\ \A k \in Keys : lastUse[k] <= now
  /\ policy = "LRU" => Range(order) = Cached /\ Sorted(order, lastUse)

LEMMA LruTouch ==
  ASSUME LruInv, policy = "LRU", NEW k \in Cached, Lru(k),
         order' = Append(RemoveFirst(order, k), k),
         cache' \in [Keys -> Sizes \cup {None}], Cached' = Cached
  PROVE  LruInv'
<1>1. k \in Keys /\ k \in Range(order) /\ order \in Seq(Keys) /\ lastUse \in [Keys -> Nat]
      /\ now \in Nat /\ \A j \in Keys : lastUse[j] <= now
      /\ Sorted(order, lastUse) /\ Range(order) = Cached
  BY DEF LruInv, Cached
<1> DEFINE rest == RemoveFirst(order, k)
<1>2. PICK i \in 1..Len(order) : order[i] = k /\ CutAt(rest, order, i)
  BY <1>1, SortedInjective, RemoveFirstCuts
<1> HIDE DEF rest
<1>3. Sorted(rest, lastUse) /\ Range(rest) = Cached \ {k} /\ rest \in Seq(Keys)
  <2>1. Sorted(rest, lastUse) /\ Range(rest) = Range(order) \ {order[i]}
    BY <1>1, <1>2, CutSorted
  <2> QED
    BY <1>1, <1>2, <2>1 DEF CutAt
<1>4. /\ lastUse' = [lastUse EXCEPT ![k] = now + 1] /\ now' = now + 1
      /\ order' = Append(rest, k)
  BY DEF Lru, LruUses, Call, rest
<1>5. /\ Sorted(order', lastUse') /\ Range(order') = Range(rest) \cup {k}
      /\ order' \in Seq(Keys)
  <2>1. k \in Keys \ Range(rest)
    BY <1>1, <1>3
  <2>2. /\ Sorted(Append(rest, k), [lastUse EXCEPT ![k] = now + 1])
        /\ Range(Append(rest, k)) = Range(rest) \cup {k} /\ Append(rest, k) \in Seq(Keys)
    BY <1>1, <1>3, <2>1, GrownSorted
  <2> QED
    BY <1>4, <2>2
<1>6. /\ lastUse' \in [Keys -> Nat] /\ now' \in Nat
      /\ \A j \in Keys : lastUse'[j] <= now'
  BY <1>1, <1>4
<1> QED
  BY <1>3, <1>5, <1>6 DEF LruInv

LEMMA LruAdd ==
  ASSUME LruInv, policy = "LRU", NEW r \in Seq(Keys), Sorted(r, lastUse),
         NEW k \in Keys \ Range(r), Lru(k), order' = Append(r, k),
         cache' \in [Keys -> Sizes \cup {None}], Cached' = Range(r) \cup {k}
  PROVE  LruInv'
<1>1. /\ lastUse \in [Keys -> Nat] /\ now \in Nat /\ \A j \in Keys : lastUse[j] <= now
      /\ lastUse' = [lastUse EXCEPT ![k] = now + 1] /\ now' = now + 1
  BY DEF LruInv, Lru, LruUses, Call
<1>2. /\ Sorted(order', lastUse') /\ Range(order') = Range(r) \cup {k}
      /\ order' \in Seq(Keys)
  BY <1>1, GrownSorted
<1>3. /\ lastUse' \in [Keys -> Nat] /\ now' \in Nat
      /\ \A j \in Keys : lastUse'[j] <= now'
  BY <1>1
<1> QED
  BY <1>2, <1>3 DEF LruInv

(* What goes is at the head.                                               *)
LEMMA HeadIsOldest ==
  ASSUME LruInv, policy = "LRU", order # <<>>
  PROVE  /\ Head(order) \in Cached
         /\ \A k \in Cached : lastUse[Head(order)] <= lastUse[k]
         /\ Sorted(Tail(order), lastUse) /\ Tail(order) \in Seq(Keys)
         /\ Range(Tail(order)) = Cached \ {Head(order)}
<1>1. /\ order \in Seq(Keys) /\ lastUse \in [Keys -> Nat]
      /\ Sorted(order, lastUse) /\ Range(order) = Cached
  BY DEF LruInv
<1>2. CutAt(Tail(order), order, 1) /\ 1 \in 1..Len(order) /\ Head(order) = order[1]
  BY <1>1, TailCuts
<1>3. Range(order) = {order[i] : i \in 1..Len(order)} /\ Range(order) \subseteq Keys
  BY <1>1, RangeIs
<1>4. ASSUME NEW i \in 1..Len(order)
      PROVE  lastUse[order[1]] <= lastUse[order[i]]
  <2>1. order[1] \in Keys /\ order[i] \in Keys
    BY <1>2, <1>3
  <2>2. lastUse[order[1]] \in Nat /\ lastUse[order[i]] \in Nat
    BY <1>1, <2>1
  <2>3. i = 1 \/ 1 < i
    BY <1>4
  <2>4. 1 < i => lastUse[order[1]] < lastUse[order[i]]
    BY <1>1, <1>2, <1>4 DEF Sorted
  <2> QED
    BY <2>2, <2>3, <2>4
<1>5. Sorted(Tail(order), lastUse) /\ Range(Tail(order)) = Range(order) \ {order[1]}
  BY <1>1, <1>2, CutSorted
<1> QED
  BY <1>1, <1>2, <1>3, <1>4, <1>5 DEF CutAt

LEMMA LruInit == Init => LruInv
<1> SUFFICES ASSUME Init PROVE LruInv
  OBVIOUS
<1>1. order = <<>> /\ order \in Seq(Keys) /\ Len(order) = 0
  BY EmptySeq DEF Init
<1>2. Range(order) = {} /\ Cached = {} /\ Sorted(order, lastUse)
  BY <1>1 DEF Init, Range, Cached, Sorted
<1> QED
  BY <1>1, <1>2 DEF Init, LruInv

LEMMA LruStep == LruInv /\ LfuInv /\ [Next]_vars => LruInv'
<1> SUFFICES ASSUME LruInv, LfuInv, [Next]_vars PROVE LruInv'
  OBVIOUS
<1>1. /\ cache \in [Keys -> Sizes \cup {None}] /\ order \in Seq(Keys)
      /\ lastUse \in [Keys -> Nat] /\ now \in Nat
      /\ \A k \in Keys : lastUse[k] <= now
  BY DEF LruInv
<1>2. /\ Sizes \subseteq Nat /\ None \notin Nat
  BY CacheAssumption
<1>3. CASE UNCHANGED vars
  BY <1>3 DEF vars, LruInv, Cached
<1>4. ASSUME NEW k \in Keys, LruGet(k)
      PROVE  LruInv'
  BY <1>1, <1>4, LruTouch DEF LruGet, Lru, Call, Cached
<1>5. ASSUME NEW k \in Keys, NEW size \in Sizes, LruOverwrite(k, size)
      PROVE  LruInv'
  <2>1. /\ policy = "LRU" /\ k \in Cached /\ cache' = [cache EXCEPT ![k] = size]
    BY <1>5 DEF LruOverwrite, Lru, Call
  <2>2. cache' \in [Keys -> Sizes \cup {None}] /\ Cached' = Cached
    BY <1>1, <1>2, <2>1 DEF Cached
  <2> QED
    BY <1>5, <2>1, <2>2, LruTouch DEF LruOverwrite
<1>6. ASSUME NEW k \in Keys, NEW size \in Sizes, LruInsert(k, size)
      PROVE  LruInv'
  <2>1. policy = "LRU" /\ k \notin Cached /\ cache' = [cache EXCEPT ![k] = size]
    BY <1>6 DEF LruInsert, Lru, Call
  <2>2. cache' \in [Keys -> Sizes \cup {None}] /\ Cached' = Cached \cup {k}
    BY <1>1, <1>2, <2>1 DEF Cached
  <2>3. Range(order) = Cached /\ Sorted(order, lastUse)
    BY <2>1 DEF LruInv
  <2> QED
    BY <1>1, <1>6, <2>1, <2>2, <2>3, LruAdd DEF LruInsert
<1>7. ASSUME NEW k \in Keys, NEW size \in Sizes, LruEvict(k, size)
      PROVE  LruInv'
  <2> DEFINE victim == Head(order)
  <2>1. /\ policy = "LRU" /\ k \notin Cached /\ order # <<>>
        /\ cache' = [cache EXCEPT ![victim] = None, ![k] = size]
    BY <1>7 DEF LruEvict, Lru, Call
  <2>2. /\ victim \in Cached /\ Sorted(Tail(order), lastUse) /\ Tail(order) \in Seq(Keys)
        /\ Range(Tail(order)) = Cached \ {victim}
    BY <2>1, HeadIsOldest
  <2>3. Lru(k) /\ order' = Append(Tail(order), k)
    BY <1>7 DEF LruEvict
  <2> HIDE DEF victim
  <2>4. cache' \in [Keys -> Sizes \cup {None}] /\ Cached' = (Cached \ {victim}) \cup {k}
    BY <1>1, <1>2, <2>1, <2>2 DEF Cached
  <2> QED
    BY <1>7, <2>1, <2>2, <2>3, <2>4, LruAdd
<1>8. ASSUME NEW k \in Keys, LruRemove(k)
      PROVE  LruInv'
  <2>1. /\ policy = "LRU" /\ k \in Cached /\ cache' = [cache EXCEPT ![k] = None]
        /\ order' = RemoveFirst(order, k) /\ lastUse' = lastUse /\ now' = now + 1
    BY <1>8 DEF LruRemove, Call
  <2>2. Range(order) = Cached /\ Sorted(order, lastUse)
    BY <2>1 DEF LruInv
  <2>3. PICK i \in 1..Len(order) : order[i] = k /\ CutAt(order', order, i)
    BY <1>1, <2>1, <2>2, SortedInjective, RemoveFirstCuts
  <2>4. Sorted(order', lastUse) /\ Range(order') = Cached \ {k} /\ order' \in Seq(Keys)
    BY <1>1, <2>2, <2>3, CutSorted DEF CutAt
  <2>5. cache' \in [Keys -> Sizes \cup {None}] /\ Cached' = Cached \ {k}
    BY <1>1, <1>2, <2>1 DEF Cached
  <2>6. \A j \in Keys : lastUse'[j] <= now'
    BY <1>1, <2>1
  <2>7. now' \in Nat /\ lastUse' \in [Keys -> Nat]
    BY <1>1, <2>1
  <2> QED
    BY <2>1, <2>4, <2>5, <2>6, <2>7 DEF LruInv
<1>9. ASSUME policy = "LFU", policy' = policy, order' = order, lastUse' = lastUse,
             now' = now + 1, cache' \in [Keys -> Sizes \cup {None}]
      PROVE  LruInv'
  <2>1. now' \in Nat /\ \A j \in Keys : lastUse'[j] <= now'
    BY <1>1, <1>9
  <2> QED
    BY <1>1, <1>9, <2>1 DEF LruInv
<1>10. ASSUME NEW k \in Keys, LfuGet(k) \/ LfuRemove(k)
       PROVE  LruInv'
  BY <1>1, <1>9, <1>10 DEF LfuGet, LfuRemove, Lfu, Call
<1>11. ASSUME NEW k \in Keys, NEW size \in Sizes,
              LfuPut(k, size) \/ LfuEvict(k, size) \/ LfuNothingToEvict(k, size)
       PROVE  LruInv'
  BY <1>1, <1>9, <1>11 DEF LfuPut, LfuEvict, LfuNothingToEvict, Lfu, Call
<1>12. CASE Clear
  <2>1. /\ order' = <<>> /\ cache' = [k \in Keys |-> None] /\ lastUse' = lastUse
        /\ now' = now + 1
    BY <1>12 DEF Clear, Call
  <2>2. order' \in Seq(Keys) /\ Len(order') = 0
    BY <2>1, EmptySeq
  <2>3. Range(order') = {} /\ Cached' = {} /\ Sorted(order', lastUse')
    BY <2>1, <2>2 DEF Range, Cached, Sorted
  <2>4. now' \in Nat /\ \A j \in Keys : lastUse'[j] <= now'
    BY <1>1, <2>1
  <2> QED
    BY <1>1, <2>1, <2>2, <2>3, <2>4 DEF LruInv
<1> QED
  BY <1>3, <1>4, <1>5, <1>6, <1>7, <1>8, <1>10, <1>11, <1>12 DEF Next

LEMMA LruInvariant == Spec => []LruInv
BY LruInit, LruStep, LfuInvariant, PTL DEF Spec

(* Of the keys the LRU cache holds, the one that gives way to a new one is *)
(* the one whose last get or put is the longest ago.                       *)
THEOREM LruEvictsLeastRecent == Spec => EvictsLeastRecent
<1> DEFINE Oldest == \A v \in Keys : Evicted(v) => \A k \in Cached : lastUse[v] <= lastUse[k]
<1>1. ASSUME LruInv, Next, policy = "LRU"
      PROVE  Oldest
  <2>1. SUFFICES ASSUME NEW v \in Keys, Evicted(v)
                 PROVE  \A k \in Cached : lastUse[v] <= lastUse[k]
    OBVIOUS
  <2>2. PICK c \in Keys : cache[c] = None /\ cache'[c] # None
    BY <2>1 DEF Evicted
  <2>3. /\ cache[v] # None /\ cache'[v] = None /\ v \in Cached
        /\ cache \in [Keys -> Sizes \cup {None}]
    BY <1>1, <2>1 DEF Evicted, Cached, LruInv
  <2>4. Sizes \subseteq Nat /\ None \notin Nat
    BY CacheAssumption
  <2>5. ASSUME NEW k \in Keys, NEW size \in Sizes, LruEvict(k, size)
        PROVE  v = Head(order) /\ order # <<>>
    BY <2>3, <2>4, <2>5 DEF LruEvict, Cached
  <2>6. ASSUME NEW k \in Keys, NEW size \in Sizes,
               LruOverwrite(k, size) \/ LruInsert(k, size)
        PROVE  FALSE
    BY <2>3, <2>4, <2>6 DEF LruOverwrite, LruInsert
  <2>7. ASSUME NEW k \in Keys, LruGet(k) \/ LruRemove(k)
        PROVE  FALSE
    BY <2>2, <2>3, <2>7 DEF LruGet, LruRemove
  <2>8. ~ Clear
    BY <2>2 DEF Clear
  <2>9. v = Head(order) /\ order # <<>>
    BY <1>1, <2>5, <2>6, <2>7, <2>8
    DEF Next, LfuGet, LfuRemove, LfuPut, LfuEvict, LfuNothingToEvict, Lfu, Call
  <2> QED
    BY <1>1, <2>9, HeadIsOldest
<1>2. LruInv /\ [Next]_vars => [policy = "LRU" => Oldest]_vars
  BY <1>1
<1>3. Spec => [][policy = "LRU" => Oldest]_vars
  BY <1>2, LruInvariant, PTL DEF Spec
<1> QED
  BY <1>3 DEF EvictsLeastRecent

-----------------------------------------------------------------------------
Rest == /\ policy \in {"LRU", "LFU"}
        /\ freq \in [Keys -> Nat] /\ heap \in SUBSET (Nat \X Keys)
        /\ used \in Int /\ now <= MaxOps

LEMMA RestStep == LruInv /\ LfuInv /\ Rest /\ [Next]_vars => Rest'
<1> SUFFICES ASSUME LruInv, LfuInv, Rest, [Next]_vars PROVE Rest'
  OBVIOUS
<1>1. /\ policy \in {"LRU", "LFU"} /\ freq \in [Keys -> Nat]
      /\ heap \in SUBSET (Nat \X Keys) /\ used \in Int /\ now <= MaxOps /\ now \in Nat
      /\ MaxOps \in Nat /\ Sizes \subseteq Nat
      /\ \A k \in Cached : k \in Keys /\ cache[k] \in Nat
  BY CacheAssumption DEF Rest, LruInv, Cached
<1>2. ASSUME NEW p, Call(p)
      PROVE  policy' \in {"LRU", "LFU"} /\ now' <= MaxOps
  BY <1>1, <1>2 DEF Call
<1>3. CASE UNCHANGED vars
  BY <1>1, <1>3 DEF vars, Rest
<1>4. ASSUME NEW k \in Keys, LruGet(k) \/ LruRemove(k)
      PROVE  Rest'
  <2>1. Call("LRU") /\ UNCHANGED <<freq, heap>>
    BY <1>4 DEF LruGet, LruRemove, Lru, LruUses
  <2>2. used' \in Int
    BY <1>1, <1>4 DEF LruGet, LruRemove, EntryLength
  <2> QED
    BY <1>1, <1>2, <2>1, <2>2 DEF Rest
<1>5. ASSUME NEW k \in Keys, NEW size \in Sizes,
             LruOverwrite(k, size) \/ LruInsert(k, size) \/ LruEvict(k, size)
      PROVE  Rest'
  <2>1. Call("LRU") /\ UNCHANGED <<freq, heap>>
    BY <1>5 DEF LruOverwrite, LruInsert, LruEvict, Lru, LruUses
  <2>2. used' = used + size \/ (order # <<>> /\ used' = used - cache[Head(order)] + size)
    BY <1>5 DEF LruOverwrite, LruInsert, LruEvict
  <2>3. order # <<>> => cache[Head(order)] \in Nat
    BY <1>1, <2>1, HeadIsOldest DEF Call
  <2>4. used' \in Int
    BY <1>1, <2>2, <2>3
  <2> QED
    BY <1>1, <1>2, <2>1, <2>4 DEF Rest
<1>6. ASSUME NEW k \in Keys, LfuGet(k) \/ LfuRemove(k)
      PROVE  Rest'
  <2>1. Call("LFU") /\ used' \in Int
    BY <1>1, <1>6 DEF LfuGet, LfuRemove, Lfu, EntryLength
  <2>2. freq' \in [Keys -> Nat] /\ heap' \in SUBSET (Nat \X Keys)
    BY <1>1, <1>6 DEF LfuGet, LfuRemove, Count
  <2> QED
    BY <1>2, <2>1, <2>2 DEF Rest
<1>7. ASSUME NEW k \in Keys, NEW size \in Sizes, LfuPut(k, size) \/ LfuNothingToEvict(k, size)
      PROVE  Rest'
  <2>1. Call("LFU") /\ used' = used
    BY <1>7 DEF LfuPut, LfuNothingToEvict, Lfu
  <2>2. freq' \in [Keys -> Nat] /\ heap' \in SUBSET (Nat \X Keys)
    BY <1>1, <1>7 DEF LfuPut, LfuNothingToEvict, Count
  <2> QED
    BY <1>1, <1>2, <2>1, <2>2 DEF Rest
<1>8. ASSUME NEW k \in Keys, NEW size \in Sizes, LfuEvict(k, size)
      PROVE  Rest'
  <2>1. Call("LFU")
    BY <1>8 DEF LfuEvict, Lfu
  <2>2. LfuTypes /\ \A j \in Keys : Reach(j)
    BY <2>1 DEF Call, LfuInv
  <2>3. PICK e \in heap :
          /\ First(e) /\ heap' = {f \in heap : Before(e, f)} \cup {<<1, k>>}
          /\ freq' = [freq EXCEPT ![e[2]] = 0, ![k] = 1]
          /\ used' = used - cache[e[2]]
    BY <1>8 DEF LfuEvict
  <2>4. e[2] \in Cached
    BY <2>2, <2>3, FirstIsLeast
  <2>5. used' \in Int
    BY <1>1, <2>3, <2>4
  <2>6. freq' \in [Keys -> Nat] /\ heap' \in SUBSET (Nat \X Keys)
    BY <1>1, <2>3
  <2> QED
    BY <1>2, <2>1, <2>5, <2>6 DEF Rest
<1>9. CASE Clear
  BY <1>1, <1>2, <1>9 DEF Clear, Rest
<1> QED
  BY <1>3, <1>4, <1>5, <1>6, <1>7, <1>8, <1>9 DEF Next

(* Neither cache ever reaches for a key or an entry that is not there: the *)
(* order of the LRU cache has every cached key exactly once, so the key it *)
(* moves or evicts exists, and used_capacity stays a number.               *)
THEOREM CacheTypeCorrect == Spec => []TypeOK
<1>1. Init => Rest
  BY CacheAssumption DEF Init, Rest
<1>2. Spec => []Rest
  BY <1>1, RestStep, LruInvariant, LfuInvariant, PTL DEF Spec
<1>3. LruInv /\ Rest => TypeOK
  BY SortedInjective, CacheAssumption DEF LruInv, Rest, TypeOK
<1> QED
  BY <1>2, <1>3, LruInvariant, PTL

-----------------------------------------------------------------------------
(* Induction, with a set in place of a predicate.                          *)
LEMMA NatInSet ==
  ASSUME NEW S, 0 \in S, \A n \in Nat : n \in S => n + 1 \in S
  PROVE  Nat \subseteq S
<1> DEFINE T == Nat \ S
           R == OpToRel(<, Nat)
<1> SUFFICES ASSUME T # {} PROVE FALSE
  OBVIOUS
<1>1. T \subseteq Nat /\ IsWellFoundedOn(R, Nat)
  BY NatLessThanWellFounded
<1> HIDE DEF R
<1>2. PICK x \in T : \A y \in T : ~ (<<y, x>> \in R)
  BY <1>1, WFMin
<1>3. x # 0 /\ x \in Nat
  OBVIOUS
<1>4. x - 1 \in Nat /\ x - 1 < x /\ (x - 1) + 1 = x
  BY <1>3
<1>5. x - 1 \in T
  BY <1>2, <1>4
<1>6. <<x - 1, x>> \in R
  BY <1>3, <1>4 DEF R, OpToRel
<1> QED
  BY <1>2, <1>5, <1>6

(* MapThenSumSet takes one element after the other from a set.             *)
Pick(T) == CHOOSE x \in T : TRUE

SumsUp(g, f, T) == g[T] = IF T = {} THEN 0 ELSE f[Pick(T)] + g[T \ {Pick(T)}]

Sums(g, f, S) == g = [T \in SUBSET S |-> IF T = {} THEN 0 ELSE f[Pick(T)] + g[T \ {Pick(T)}]]

Sum(f, S) == MapThenSumSet(LAMBDA k : f[k], S)

LEMMA OneLess ==
  ASSUME NEW T, IsFiniteSet(T), NEW x \in T
  PROVE  /\ IsFiniteSet(T \ {x}) /\ Cardinality(T \ {x}) \in Nat
         /\ Cardinality(T) \in Nat /\ Cardinality(T \ {x}) = Cardinality(T) - 1
BY FS_RemoveElement, FS_CardinalityType

LEMMA PickIn == \A T : T # {} => Pick(T) \in T
BY DEF Pick

LEMMA SumsExists ==
  ASSUME NEW S, IsFiniteSet(S), NEW f
  PROVE  \E g : Sums(g, f, S)
<1> DEFINE Upto(n, g) == /\ g = [T \in SUBSET S |-> g[T]]
                         /\ \A T \in SUBSET S : Cardinality(T) <= n => SumsUp(g, f, T)
           N == {n \in Nat : \E g : Upto(n, g)}
<1>1. \A T \in SUBSET S : IsFiniteSet(T) /\ Cardinality(T) \in Nat /\ Cardinality(T) <= Cardinality(S)
  BY FS_Subset, FS_CardinalityType
<1>2. \A T \in SUBSET S : T # {} =>
        /\ T \ {Pick(T)} \in SUBSET S
        /\ Cardinality(T \ {Pick(T)}) = Cardinality(T) - 1
  BY <1>1, OneLess, PickIn
<1>3. 0 \in N
  <2> DEFINE g == [T \in SUBSET S |-> 0]
  <2>1. \A T \in SUBSET S : Cardinality(T) <= 0 => T = {}
    BY <1>1, FS_EmptySet
  <2>2. Upto(0, g)
    BY <2>1 DEF SumsUp
  <2> QED
    BY <2>2
<1>4. ASSUME NEW n \in Nat, n \in N
      PROVE  n + 1 \in N
  <2>1. PICK g : Upto(n, g)
    BY <1>4
  <2> DEFINE h == [T \in SUBSET S |-> IF Cardinality(T) = n + 1
                                      THEN f[Pick(T)] + g[T \ {Pick(T)}] ELSE g[T]]
  <2>2. h = [T \in SUBSET S |-> h[T]]
    OBVIOUS
  <2>3. \A T \in SUBSET S : h[T] = IF Cardinality(T) = n + 1
                                   THEN f[Pick(T)] + g[T \ {Pick(T)}] ELSE g[T]
    OBVIOUS
  <2> HIDE DEF h
  <2>4. ASSUME NEW T \in SUBSET S, Cardinality(T) <= n + 1
        PROVE  SumsUp(h, f, T)
    <3>1. T # {} => Cardinality(T \ {Pick(T)}) # n + 1 /\ T \ {Pick(T)} \in SUBSET S
      BY <1>1, <1>2, <2>4
    <3>2. T # {} => h[T \ {Pick(T)}] = g[T \ {Pick(T)}]
      BY <2>3, <3>1
    <3>3. CASE Cardinality(T) = n + 1
      <4>1. T # {}
        BY <3>3, FS_EmptySet
      <4> QED
        BY <2>3, <3>2, <3>3, <4>1 DEF SumsUp
    <3>4. CASE Cardinality(T) # n + 1
      <4>1. Cardinality(T) <= n
        BY <1>1, <2>4, <3>4
      <4>2. SumsUp(g, f, T) /\ h[T] = g[T]
        BY <2>1, <2>3, <3>4, <4>1
      <4> QED
        BY <3>2, <4>2 DEF SumsUp
    <3> QED
      BY <3>3, <3>4
  <2>5. Upto(n + 1, h)
    BY <2>2, <2>4
  <2> HIDE DEF Upto
  <2>6. \E k : Upto(n + 1, k)
    BY <2>5
  <2> QED
    BY <2>6
<1>5. Cardinality(S) \in N
  <2> HIDE DEF N
  <2>1. Nat \subseteq N
    BY <1>3, <1>4, NatInSet
  <2> QED
    BY <1>1, <2>1
<1>6. PICK g : Upto(Cardinality(S), g)
  BY <1>5
<1>7. \A T \in SUBSET S : SumsUp(g, f, T)
  BY <1>1, <1>6
<1>8. g = [T \in SUBSET S |-> g[T]]
  BY <1>6
<1> HIDE DEF Upto
<1>9. Sums(g, f, S)
  BY <1>7, <1>8 DEF Sums, SumsUp
<1> QED
  BY <1>9

LEMMA SumIs ==
  ASSUME NEW S, IsFiniteSet(S), NEW f
  PROVE  \E g : Sums(g, f, S) /\ Sum(f, S) = g[S]
<1> DEFINE G == CHOOSE g : g = [T \in SUBSET S |-> IF T = {} THEN 0
                              ELSE f[CHOOSE x \in T : TRUE] + g[T \ {CHOOSE x \in T : TRUE}]]
<1>1. \E g : g = [T \in SUBSET S |-> IF T = {} THEN 0
                    ELSE f[CHOOSE x \in T : TRUE] + g[T \ {CHOOSE x \in T : TRUE}]]
  <2>1. PICK g : Sums(g, f, S)
    BY SumsExists
  <2> QED
    BY <2>1 DEF Sums, Pick
<1>2. Sums(G, f, S)
  BY <1>1 DEF Sums, Pick
<1>3. Sum(f, S) = G[S]
  BY DEF Sum, MapThenSumSet, MapThenFoldSet
<1> QED
  BY <1>2, <1>3

(* What holds of the smaller sets holds of a set.                          *)
LEMMA SumsAgree ==
  ASSUME NEW S, NEW R, IsFiniteSet(S), NEW f, NEW e, NEW g, NEW h,
         Sums(g, f, S), Sums(h, e, R)
  PROVE  \A T \in SUBSET (S \cap R) : (\A x \in T : f[x] = e[x]) => g[T] = h[T]
<1> DEFINE N == {n \in Nat : \A T \in SUBSET (S \cap R) :
                   Cardinality(T) = n /\ (\A x \in T : f[x] = e[x]) => g[T] = h[T]}
<1>1. \A T \in SUBSET (S \cap R) : IsFiniteSet(T) /\ Cardinality(T) \in Nat
  BY FS_Subset, FS_CardinalityType
<1>2. \A T \in SUBSET (S \cap R) :
        /\ g[T] = IF T = {} THEN 0 ELSE f[Pick(T)] + g[T \ {Pick(T)}]
        /\ h[T] = IF T = {} THEN 0 ELSE e[Pick(T)] + h[T \ {Pick(T)}]
  BY DEF Sums
<1>3. 0 \in N
  <2>1. \A T \in SUBSET (S \cap R) : Cardinality(T) = 0 => T = {}
    BY <1>1, FS_EmptySet
  <2> QED
    BY <1>2, <2>1
<1>4. ASSUME NEW n \in Nat, n \in N
      PROVE  n + 1 \in N
  <2> SUFFICES ASSUME NEW T \in SUBSET (S \cap R), Cardinality(T) = n + 1,
                      \A x \in T : f[x] = e[x]
               PROVE  g[T] = h[T]
    OBVIOUS
  <2>1. T # {}
    BY FS_EmptySet
  <2>2. Pick(T) \in T
    BY <2>1, PickIn
  <2>3. T \ {Pick(T)} \in SUBSET (S \cap R) /\ Cardinality(T \ {Pick(T)}) = n
    BY <1>1, <2>2, OneLess
  <2>4. g[T \ {Pick(T)}] = h[T \ {Pick(T)}]
    BY <1>4, <2>3
  <2> QED
    BY <1>2, <2>1, <2>2, <2>4
<1>5. Nat \subseteq N
  <2> HIDE DEF N
  <2> QED
    BY <1>3, <1>4, NatInSet
<1> QED
  BY <1>1, <1>5

LEMMA SumsType ==
  ASSUME NEW S, IsFiniteSet(S), NEW f, NEW g, Sums(g, f, S), \A x \in S : f[x] \in Nat
  PROVE  \A T \in SUBSET S : g[T] \in Nat
<1> DEFINE N == {n \in Nat : \A T \in SUBSET S : Cardinality(T) = n => g[T] \in Nat}
<1>1. \A T \in SUBSET S : IsFiniteSet(T) /\ Cardinality(T) \in Nat
  BY FS_Subset, FS_CardinalityType
<1>2. \A T \in SUBSET S : g[T] = IF T = {} THEN 0 ELSE f[Pick(T)] + g[T \ {Pick(T)}]
  BY DEF Sums
<1>3. 0 \in N
  <2>1. \A T \in SUBSET S : Cardinality(T) = 0 => T = {}
    BY <1>1, FS_EmptySet
  <2>2. \A T \in SUBSET S : Cardinality(T) = 0 => g[T] = 0
    BY <1>2, <2>1
  <2> QED
    BY <2>2
<1>4. ASSUME NEW n \in Nat, n \in N
      PROVE  n + 1 \in N
  <2> SUFFICES ASSUME NEW T \in SUBSET S, Cardinality(T) = n + 1
               PROVE  g[T] \in Nat
    OBVIOUS
  <2>1. T # {}
    BY FS_EmptySet
  <2>2. Pick(T) \in T
    BY <2>1, PickIn
  <2>3. T \ {Pick(T)} \in SUBSET S /\ Cardinality(T \ {Pick(T)}) = n
    BY <1>1, <2>2, OneLess
  <2>4. g[T \ {Pick(T)}] \in Nat /\ f[Pick(T)] \in Nat
    BY <1>4, <2>2, <2>3
  <2>5. g[T] = f[Pick(T)] + g[T \ {Pick(T)}]
    BY <1>2, <2>1
  <2> QED
    BY <2>4, <2>5
<1>5. Nat \subseteq N
  <2> HIDE DEF N
  <2> QED
    BY <1>3, <1>4, NatInSet
<1> QED
  BY <1>1, <1>5

(* Whatever element is taken first, the sum is the same.                   *)
Adds(g, f, T, x) == g[T] = f[x] + g[T \ {x}]

LEMMA SumsAny ==
  ASSUME NEW S, IsFiniteSet(S), NEW f, NEW g, Sums(g, f, S), \A x \in S : f[x] \in Nat
  PROVE  \A T \in SUBSET S : \A x \in T : Adds(g, f, T, x)
<1> DEFINE N == {n \in Nat : \A T \in SUBSET S : Cardinality(T) = n =>
                   \A x \in T : g[T] = f[x] + g[T \ {x}]}
<1>1. \A T \in SUBSET S : IsFiniteSet(T) /\ Cardinality(T) \in Nat /\ g[T] \in Nat
  BY FS_Subset, FS_CardinalityType, SumsType
<1>2. \A T \in SUBSET S : g[T] = IF T = {} THEN 0 ELSE f[Pick(T)] + g[T \ {Pick(T)}]
  BY DEF Sums
<1>3. 0 \in N
  <2>1. \A T \in SUBSET S : Cardinality(T) = 0 => T = {}
    BY <1>1, FS_EmptySet
  <2> QED
    BY <2>1
<1>4. ASSUME NEW n \in Nat, n \in N
      PROVE  n + 1 \in N
  <2> SUFFICES ASSUME NEW T \in SUBSET S, Cardinality(T) = n + 1, NEW x \in T
               PROVE  g[T] = f[x] + g[T \ {x}]
    OBVIOUS
  <2> DEFINE p == Pick(T)
             R == (T \ {p}) \ {x}
  <2>1. T # {} /\ p \in T
    BY PickIn
  <2>2. g[T] = f[p] + g[T \ {p}]
    BY <1>2, <2>1
  <2> HIDE DEF p
  <2>3. CASE x = p
    BY <2>2, <2>3
  <2>4. CASE x # p
    <3>1. /\ T \ {p} \in SUBSET S /\ Cardinality(T \ {p}) = n /\ x \in T \ {p}
          /\ T \ {x} \in SUBSET S /\ Cardinality(T \ {x}) = n /\ p \in T \ {x}
      BY <1>1, <2>1, <2>4, OneLess
    <3>2. g[T \ {p}] = f[x] + g[R]
      BY <1>4, <3>1
    <3>3. (T \ {x}) \ {p} = R
      OBVIOUS
    <3>4. g[T \ {x}] = f[p] + g[(T \ {x}) \ {p}]
      BY <1>4, <3>1
    <3>5. /\ R \in SUBSET S
          /\ f[x] \in Nat /\ f[p] \in Nat
      BY <2>1
    <3>6. g[R] \in Nat
      BY <1>1, <3>5
    <3>7. g[T \ {x}] = f[p] + g[R]
      BY <3>3, <3>4
    <3> HIDE DEF R
    <3>8. g[T] = f[p] + (f[x] + g[R])
      BY <2>2, <3>2
    <3>9. f[p] + (f[x] + g[R]) = f[x] + (f[p] + g[R])
      BY <3>5, <3>6
    <3> QED
      BY <3>7, <3>8, <3>9
  <2> QED
    BY <2>3, <2>4
<1>5. Nat \subseteq N
  <2> HIDE DEF N
  <2> QED
    BY <1>3, <1>4, NatInSet
<1> QED
  BY <1>1, <1>5 DEF Adds

LEMMA SumAdd ==
  ASSUME NEW S, IsFiniteSet(S), NEW f, NEW x, x \notin S, \A y \in S \cup {x} : f[y] \in Nat
  PROVE  Sum(f, S \cup {x}) = Sum(f, S) + f[x]
<1> DEFINE A == S \cup {x}
<1>1. IsFiniteSet(A) /\ S \in SUBSET A /\ A \ {x} = S /\ x \in A /\ \A y \in A : f[y] \in Nat
  BY FS_AddElement
<1> HIDE DEF A
<1>2. PICK g : Sums(g, f, A) /\ Sum(f, A) = g[A]
  BY <1>1, SumIs
<1>3. PICK h : Sums(h, f, S) /\ Sum(f, S) = h[S]
  BY SumIs
<1>4. \A T \in SUBSET (A \cap S) : (\A y \in T : f[y] = f[y]) => g[T] = h[T]
  BY <1>1, <1>2, <1>3, SumsAgree
<1>5. g[S] = h[S]
  BY <1>1, <1>4
<1>6. /\ \A T \in SUBSET A : \A y \in T : Adds(g, f, T, y)
      /\ \A T \in SUBSET A : g[T] \in Nat
  <2>1. IsFiniteSet(A) /\ Sums(g, f, A) /\ \A y \in A : f[y] \in Nat
    BY <1>1, <1>2
  <2>2. \A T \in SUBSET A : g[T] \in Nat
    BY ONLY <2>1, SumsType
  <2>3. \A T \in SUBSET A : \A y \in T : Adds(g, f, T, y)
    BY ONLY <2>1, SumsAny
  <2> QED
    BY <2>2, <2>3
<1>7. g[A] = f[x] + g[S] /\ g[S] \in Nat /\ f[x] \in Nat
  BY <1>1, <1>6 DEF Adds
<1> QED
  BY <1>2, <1>3, <1>5, <1>7 DEF A

LEMMA SumSame ==
  ASSUME NEW S, IsFiniteSet(S), NEW f, NEW e, \A x \in S : f[x] = e[x]
  PROVE  Sum(f, S) = Sum(e, S)
<1>1. PICK g : Sums(g, f, S) /\ Sum(f, S) = g[S]
  BY SumIs
<1>2. PICK h : Sums(h, e, S) /\ Sum(e, S) = h[S]
  BY SumIs
<1>3. \A T \in SUBSET (S \cap S) : (\A y \in T : f[y] = e[y]) => g[T] = h[T]
  BY <1>1, <1>2, SumsAgree
<1> QED
  BY <1>1, <1>2, <1>3

LEMMA SumType ==
  ASSUME NEW S, IsFiniteSet(S), NEW f, \A x \in S : f[x] \in Nat
  PROVE  Sum(f, S) \in Nat
<1>1. PICK g : Sums(g, f, S) /\ Sum(f, S) = g[S]
  BY SumIs
<1>2. \A T \in SUBSET S : g[T] \in Nat
  BY <1>1, SumsType
<1> QED
  BY <1>1, <1>2

LEMMA SumNone == \A f : Sum(f, {}) = 0
<1> SUFFICES ASSUME NEW f PROVE Sum(f, {}) = 0
  OBVIOUS
<1>1. PICK g : Sums(g, f, {}) /\ Sum(f, {}) = g[{}]
  BY FS_EmptySet, SumIs
<1>2. g[{}] = 0
  BY <1>1 DEF Sums
<1> QED
  BY <1>1, <1>2

LEMMA SumAtLeast ==
  ASSUME NEW m \in Nat, NEW f
  PROVE  \A S : IsFiniteSet(S) /\ (\A x \in S : f[x] \in Nat /\ m <= f[x]) =>
           Cardinality(S) * m <= Sum(f, S)
<1> DEFINE N == {n \in Nat : \A S : /\ IsFiniteSet(S) /\ Cardinality(S) = n
                                    /\ \A x \in S : f[x] \in Nat /\ m <= f[x]
                                    => n * m <= Sum(f, S)}
<1>1. 0 \in N
  <2> SUFFICES ASSUME NEW S, IsFiniteSet(S), Cardinality(S) = 0
               PROVE  0 * m <= Sum(f, S)
    OBVIOUS
  <2>1. S = {}
    BY FS_EmptySet
  <2>2. Sum(f, S) = 0
    BY <2>1, SumNone
  <2> QED
    BY <2>2
<1>2. ASSUME NEW n \in Nat, n \in N
      PROVE  n + 1 \in N
  <2> SUFFICES ASSUME NEW S, IsFiniteSet(S), Cardinality(S) = n + 1,
                      \A x \in S : f[x] \in Nat /\ m <= f[x]
               PROVE  (n + 1) * m <= Sum(f, S)
    OBVIOUS
  <2>1. PICK x \in S : TRUE
    BY FS_EmptySet
  <2> DEFINE R == S \ {x}
  <2>2. IsFiniteSet(R) /\ Cardinality(R) = n /\ R \cup {x} = S /\ x \notin R
    BY <2>1, OneLess
  <2>3. Sum(f, S) = Sum(f, R) + f[x]
    BY <2>2, SumAdd
  <2>4. n * m <= Sum(f, R)
    BY <1>2, <2>2
  <2>5. Sum(f, R) \in Nat /\ f[x] \in Nat /\ m <= f[x] /\ n * m \in Nat
    BY <2>2, SumType
  <2>6. (n + 1) * m = n * m + m
    OBVIOUS
  <2> HIDE DEF R
  <2> QED
    BY <2>3, <2>4, <2>5, <2>6
<1>3. Nat \subseteq N
  <2> HIDE DEF N
  <2> QED
    BY <1>1, <1>2, NatInSet
<1> QED
  <2> SUFFICES ASSUME NEW S, IsFiniteSet(S), \A x \in S : f[x] \in Nat /\ m <= f[x]
               PROVE  Cardinality(S) * m <= Sum(f, S)
    OBVIOUS
  <2>1. Cardinality(S) \in N
    BY <1>3, FS_CardinalityType
  <2> QED
    BY <2>1

-----------------------------------------------------------------------------
LEMMA SumWithout ==
  ASSUME NEW S, IsFiniteSet(S), NEW f, NEW x \in S, \A y \in S : f[y] \in Nat
  PROVE  /\ IsFiniteSet(S \ {x})
         /\ Sum(f, S) = Sum(f, S \ {x}) + f[x]
         /\ Sum(f, S \ {x}) \in Nat /\ Sum(f, S) \in Nat
<1> DEFINE R == S \ {x}
<1>1. IsFiniteSet(R) /\ x \notin R /\ R \cup {x} = S /\ \A y \in R : f[y] \in Nat
  BY OneLess
<1>2. Sum(f, R \cup {x}) = Sum(f, R) + f[x]
  BY <1>1, SumAdd
<1>3. Sum(f, R) \in Nat /\ Sum(f, S) \in Nat
  BY <1>1, SumType
<1> QED
  BY <1>1, <1>2, <1>3

LEMMA MinIs ==
  ASSUME NEW S \in SUBSET Nat, S # {}
  PROVE  Min(S) \in S /\ \A s \in S : Min(S) <= s
<1> DEFINE R == OpToRel(<, Nat)
<1>1. IsWellFoundedOn(R, Nat)
  BY NatLessThanWellFounded
<1> HIDE DEF R
<1>2. PICK x \in S : \A y \in S : ~ (<<y, x>> \in R)
  BY <1>1, WFMin
<1>3. \A y \in S : y < x => <<y, x>> \in R
  BY DEF R, OpToRel
<1>4. ASSUME NEW y \in S
      PROVE  x <= y
  <2>1. x \in Nat /\ y \in Nat /\ ~ (y < x)
    BY <1>2, <1>3
  <2> QED
    BY <2>1
<1> QED
  BY <1>4 DEF Min

(* The bytes held are no more than the bytes counted.                      *)
BytesCounted ==
  policy = "LRU" => /\ IsFiniteSet(Cached)
                    /\ Sum(cache, Cached) <= used
                    /\ Cardinality(Cached) * Min(Sizes) <= Capacity

LEMMA BytesStep ==
  ASSUME Sizes # {}, \A s \in Sizes : s >= EntryLength,
         LruInv, Rest, BytesCounted, [Next]_vars
  PROVE  BytesCounted'
<1> DEFINE m == Min(Sizes)
<1>1. /\ Sizes \subseteq Nat /\ None \notin Nat /\ Capacity \in Nat /\ EntryLength = 2
      /\ cache \in [Keys -> Sizes \cup {None}] /\ used \in Int
      /\ m \in Nat /\ \A s \in Sizes : m <= s
  BY CacheAssumption, MinIs DEF LruInv, Rest, EntryLength
<1>2. \A k \in Cached : k \in Keys /\ cache[k] \in Sizes /\ cache[k] \in Nat
  BY <1>1 DEF Cached
<1> HIDE DEF m
<1>3. CASE UNCHANGED vars
  BY <1>3 DEF vars, BytesCounted, Cached
<1>4. ASSUME policy' # "LRU"
      PROVE  BytesCounted'
  BY <1>4 DEF BytesCounted
<1>5. ASSUME policy = "LRU"
      PROVE  /\ IsFiniteSet(Cached) /\ Sum(cache, Cached) <= used
             /\ Cardinality(Cached) * m <= Capacity
             /\ Sum(cache, Cached) \in Nat /\ Cardinality(Cached) \in Nat
  BY <1>2, <1>5, SumType, FS_CardinalityType DEF BytesCounted, m
<1>6. ASSUME NEW k \in Keys, LruGet(k)
      PROVE  BytesCounted'
  BY <1>6 DEF LruGet, Lru, Call, BytesCounted, Cached
<1>7. ASSUME NEW k \in Keys, NEW size \in Sizes, LruOverwrite(k, size)
      PROVE  BytesCounted'
  <2> DEFINE R == Cached \ {k}
  <2>1. /\ policy = "LRU" /\ k \in Cached /\ cache' = [cache EXCEPT ![k] = size]
        /\ used' = used + size /\ size \in Nat
    BY <1>1, <1>7 DEF LruOverwrite, Lru, Call
  <2>2. Cached' = Cached /\ cache'[k] = size /\ \A j \in R : cache'[j] = cache[j]
    BY <1>1, <1>2, <2>1 DEF Cached
  <2>3. Sum(cache, Cached) = Sum(cache, R) + cache[k] /\ IsFiniteSet(R) /\ Sum(cache, R) \in Nat
    BY <1>2, <1>5, <2>1, SumWithout
  <2>4. \A j \in Cached : cache'[j] \in Nat
    BY <1>2, <2>1, <2>2
  <2>5. Sum(cache', Cached) = Sum(cache', R) + cache'[k]
    BY <1>5, <2>1, <2>4, SumWithout
  <2>6. Sum(cache', R) = Sum(cache, R)
    BY <2>2, <2>3, SumSame
  <2> HIDE DEF R
  <2>7. Sum(cache', Cached') <= used'
    BY <1>1, <1>2, <1>5, <2>1, <2>2, <2>3, <2>5, <2>6
  <2> QED
    BY <1>5, <2>1, <2>2, <2>7 DEF BytesCounted, m
<1>8. ASSUME NEW k \in Keys, NEW size \in Sizes, LruInsert(k, size)
      PROVE  BytesCounted'
  <2>1. /\ policy = "LRU" /\ k \notin Cached /\ cache' = [cache EXCEPT ![k] = size]
        /\ used' = used + size /\ size \in Nat /\ used + size <= Capacity
    BY <1>1, <1>8 DEF LruInsert, Lru, Call, Fits
  <2>2. Cached' = Cached \cup {k} /\ cache'[k] = size /\ \A j \in Cached : cache'[j] = cache[j]
    BY <1>1, <1>2, <2>1 DEF Cached
  <2>3. \A j \in Cached' : cache'[j] \in Nat /\ m <= cache'[j]
    BY <1>1, <1>2, <2>1, <2>2
  <2>4. Sum(cache', Cached \cup {k}) = Sum(cache', Cached) + cache'[k]
    <3>1. \A j \in Cached \cup {k} : cache'[j] \in Nat
      BY <2>2, <2>3
    <3> QED
      BY <1>5, <2>1, <3>1, SumAdd
  <2>5. Sum(cache', Cached) = Sum(cache, Cached)
    BY <1>5, <2>1, <2>2, SumSame
  <2>6. Sum(cache', Cached') <= used'
    BY <1>1, <1>5, <2>1, <2>2, <2>4, <2>5
  <2>7. IsFiniteSet(Cached') /\ Cardinality(Cached') \in Nat
    BY <1>5, <2>1, <2>2, FS_AddElement, FS_CardinalityType
  <2>8. Cardinality(Cached') * m <= Sum(cache', Cached')
    BY <1>1, <2>3, <2>7, SumAtLeast
  <2>9. Sum(cache', Cached') \in Nat
    BY <2>3, <2>7, SumType
  <2>10. Cardinality(Cached') * m <= Capacity
    <3>1. Cardinality(Cached') * m \in Nat /\ used' <= Capacity /\ used' \in Int
      BY <1>1, <2>1, <2>7
    <3> QED
      BY <1>1, <2>6, <2>8, <2>9, <3>1
  <2> QED
    BY <2>6, <2>7, <2>10 DEF BytesCounted, m
<1>9. ASSUME NEW k \in Keys, NEW size \in Sizes, LruEvict(k, size)
      PROVE  BytesCounted'
  <2> DEFINE v == Head(order)
             R == Cached \ {v}
  <2>1. /\ policy = "LRU" /\ k \notin Cached /\ order # <<>> /\ size \in Nat
        /\ cache' = [cache EXCEPT ![v] = None, ![k] = size]
        /\ used' = used - cache[v] + size
    BY <1>1, <1>9 DEF LruEvict, Lru, Call
  <2>2. v \in Cached
    BY <2>1, HeadIsOldest
  <2> HIDE DEF v
  <2>3. /\ Cached' = R \cup {k} /\ k \notin R /\ cache'[k] = size
        /\ \A j \in R : cache'[j] = cache[j]
    BY <1>1, <1>2, <2>1, <2>2 DEF Cached
  <2>4. Sum(cache, Cached) = Sum(cache, R) + cache[v] /\ IsFiniteSet(R) /\ Sum(cache, R) \in Nat
    BY <1>2, <1>5, <2>1, <2>2, SumWithout
  <2>5. \A j \in R \cup {k} : cache'[j] \in Nat
    BY <1>2, <2>1, <2>3
  <2>6. Cardinality(R) = Cardinality(Cached) - 1
    BY <1>5, <2>1, <2>2, OneLess
  <2> HIDE DEF R
  <2>7. Sum(cache', R \cup {k}) = Sum(cache', R) + cache'[k]
    BY <2>3, <2>4, <2>5, SumAdd
  <2>8. Sum(cache', R) = Sum(cache, R)
    BY <2>3, <2>4, SumSame
  <2>9. Sum(cache', Cached') <= used'
    BY <1>1, <1>2, <1>5, <2>1, <2>2, <2>3, <2>4, <2>7, <2>8
  <2>10. IsFiniteSet(Cached') /\ Cardinality(Cached') = Cardinality(Cached)
    <3>1. IsFiniteSet(R \cup {k}) /\ Cardinality(R \cup {k}) = Cardinality(R) + 1
      BY <2>3, <2>4, FS_AddElement
    <3> QED
      BY <1>5, <2>1, <2>3, <2>6, <3>1
  <2> QED
    BY <1>5, <2>1, <2>9, <2>10 DEF BytesCounted, m
<1>10. ASSUME NEW k \in Keys, LruRemove(k)
       PROVE  BytesCounted'
  <2> DEFINE R == Cached \ {k}
  <2>1. /\ policy = "LRU" /\ k \in Cached /\ cache' = [cache EXCEPT ![k] = None]
        /\ used' = used - 2
    BY <1>1, <1>10 DEF LruRemove, Call
  <2>2. Cached' = R /\ \A j \in R : cache'[j] = cache[j]
    BY <1>1, <2>1 DEF Cached
  <2>3. Sum(cache, Cached) = Sum(cache, R) + cache[k] /\ IsFiniteSet(R) /\ Sum(cache, R) \in Nat
    BY <1>2, <1>5, <2>1, SumWithout
  <2>4. Cardinality(R) = Cardinality(Cached) - 1 /\ Cardinality(R) \in Nat
    BY <1>5, <2>1, OneLess
  <2> HIDE DEF R
  <2>5. Sum(cache', R) = Sum(cache, R)
    BY <2>2, <2>3, SumSame
  <2>6. cache[k] \in Nat /\ cache[k] >= 2
    BY <1>1, <1>2, <2>1
  <2>7. Sum(cache', Cached') <= used'
    BY <1>1, <1>5, <2>1, <2>2, <2>3, <2>5, <2>6
  <2>8. Cardinality(R) * m <= Capacity
    <3>1. Cardinality(Cached) * m = Cardinality(R) * m + m /\ Cardinality(R) * m \in Nat
      BY <1>1, <1>5, <2>1, <2>4
    <3> QED
      BY <1>1, <1>5, <2>1, <3>1
  <2> QED
    BY <2>2, <2>3, <2>7, <2>8 DEF BytesCounted, m
<1>11. CASE Clear
  <2>1. cache' = [k \in Keys |-> None] /\ used' = 0
    BY <1>11 DEF Clear
  <2>2. Cached' = {}
    BY <2>1 DEF Cached
  <2>3. IsFiniteSet({}) /\ Cardinality({}) = 0 /\ Sum(cache', {}) = 0 /\ 0 * m = 0
    BY <1>1, FS_EmptySet, SumNone
  <2> QED
    BY <1>1, <2>1, <2>2, <2>3 DEF BytesCounted, m
<1>12. ASSUME NEW k \in Keys, LfuGet(k) \/ LfuRemove(k)
       PROVE  BytesCounted'
  BY <1>4, <1>12 DEF LfuGet, LfuRemove, Lfu, Call
<1>13. ASSUME NEW k \in Keys, NEW size \in Sizes,
              LfuPut(k, size) \/ LfuEvict(k, size) \/ LfuNothingToEvict(k, size)
       PROVE  BytesCounted'
  BY <1>4, <1>13 DEF LfuPut, LfuEvict, LfuNothingToEvict, Lfu, Call
<1> QED
  BY <1>3, <1>6, <1>7, <1>8, <1>9, <1>10, <1>11, <1>12, <1>13 DEF Next

(* If no value is shorter than the two bytes that a remove takes off, the  *)
(* LRU cache never holds more bytes than it counts, nor more entries than  *)
(* would fit if all were of the smallest size: for every capacity and      *)
(* every sequence of puts, overwrites, evictions and removes.              *)
THEOREM LruNeverUndercountsAlways ==
  ASSUME Sizes # {}, \A s \in Sizes : s >= EntryLength
  PROVE  Spec => []LruNeverUndercounts
<1>1. Init => Rest /\ BytesCounted
  <2> SUFFICES ASSUME Init PROVE Rest /\ BytesCounted
    OBVIOUS
  <2>1. Cached = {} /\ used = 0
    BY DEF Init, Cached
  <2>2. IsFiniteSet({}) /\ Cardinality({}) = 0 /\ Sum(cache, {}) = 0
    BY FS_EmptySet, SumNone
  <2>3. Min(Sizes) \in Nat /\ Capacity \in Nat
    BY MinIs, CacheAssumption
  <2>4. 0 * Min(Sizes) = 0
    BY <2>3
  <2>5. BytesCounted
    BY <2>1, <2>2, <2>3, <2>4 DEF BytesCounted
  <2> QED
    BY <2>5, CacheAssumption DEF Init, Rest
<1>2. LruInv /\ LfuInv /\ Rest /\ BytesCounted /\ [Next]_vars => Rest' /\ BytesCounted'
  BY RestStep, BytesStep
<1>3. BytesCounted => LruNeverUndercounts
  BY DEF BytesCounted, LruNeverUndercounts, Sum
<1> QED
  BY <1>1, <1>2, <1>3, LruInvariant, LfuInvariant, PTL DEF Spec
=============================================================================
