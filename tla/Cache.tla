-------------------------------- MODULE Cache --------------------------------
(***************************************************************************)
(* caching/__init__.py: LRUCache and LFUCache behind CacheFactory, used by *)
(* one caller at a time.  A value is the number of its bytes; keys are     *)
(* numbered in the order of their names, by which the heap of the LFU      *)
(* cache breaks ties.  A call that changes nothing (a get or a remove of a *)
(* key that is not there, the put that LRUCache answers with -1) is no     *)
(* step.                                                                   *)
(***************************************************************************)
EXTENDS Integers, SequencesExt

CONSTANTS Keys,
          Sizes,     \* lengths of the values that are put
          Capacity,  \* capacity_storage
          None,      \* no value
          MaxOps     \* bound on the calls that change something, for TLC

ASSUME CacheAssumption == /\ Keys \subseteq Nat /\ Sizes \subseteq Nat
                          /\ Capacity \in Nat /\ MaxOps \in Nat
                          /\ None \notin Nat

VARIABLES policy,   \* eviction_policy: which class the factory made
          cache,    \* value of every key, or None
          order,    \* LRU: the keys of the OrderedDict
          freq,     \* LFU: freq_counter, in which a key that is missing has 0
          heap,     \* LFU: freq_heap, entries <<frequency, key>> (see README)
          used,     \* used_capacity
          lastUse,  \* history, LRU: the call that used a key last
          now       \* history: calls so far

vars == <<policy, cache, order, freq, heap, used, lastUse, now>>

Cached == {k \in Keys : cache[k] # None}

(* create: any name but LFU makes an LRU cache.                            *)
Init == /\ policy \in {"LRU", "LFU"}
        /\ cache = [k \in Keys |-> None]
        /\ order = <<>>
        /\ freq = [k \in Keys |-> 0]
        /\ heap = {}
        /\ used = 0
        /\ lastUse = [k \in Keys |-> 0]
        /\ now = 0

Call(p) == policy = p /\ now < MaxOps /\ now' = now + 1 /\ UNCHANGED policy

-----------------------------------------------------------------------------
(* LRUCache *)

LruUses(k) == /\ lastUse' = [lastUse EXCEPT ![k] = now + 1]
              /\ UNCHANGED <<freq, heap>>

Lru(k) == Call("LRU") /\ LruUses(k)

Fits(size) == used + size <= Capacity

(* (variant) A get does not look whether the key is there.                 *)
LruGetUnguarded(k) == /\ Lru(k)
                      /\ order' = Append(RemoveFirst(order, k), k)
                      /\ UNCHANGED <<cache, used>>

(* (variant) A get does not touch the order.                               *)
LruGetKeepsOrder(k) == /\ k \in Cached /\ Lru(k)
                       /\ UNCHANGED <<order, cache, used>>

(* move_to_end                                                             *)
LruGet(k) == /\ k \in Cached /\ Lru(k)
             /\ order' = Append(RemoveFirst(order, k), k)
             /\ UNCHANGED <<cache, used>>

(* The old value's bytes stay counted.                                     *)
LruOverwrite(k, size) == /\ k \in Cached /\ Lru(k)
                         /\ order' = Append(RemoveFirst(order, k), k)
                         /\ cache' = [cache EXCEPT ![k] = size]
                         /\ used' = used + size

LruInsert(k, size) == /\ k \notin Cached /\ Fits(size) /\ Lru(k)
                      /\ order' = Append(order, k)
                      /\ cache' = [cache EXCEPT ![k] = size]
                      /\ used' = used + size

(* (variant) The bytes of the new value are forgotten.                     *)
LruEvictUncounted(k, size) ==
  LET victim == Head(order)
  IN  /\ k \notin Cached /\ ~ Fits(size) /\ order # <<>> /\ Lru(k)
      /\ order' = Append(Tail(order), k)
      /\ cache' = [cache EXCEPT ![victim] = None, ![k] = size]
      /\ used' = used - cache[victim]

(* popitem(last = False): one entry goes, whatever it frees.  On an empty  *)
(* cache it raises, and put returns -1.                                    *)
LruEvict(k, size) ==
  LET victim == Head(order)
  IN  /\ k \notin Cached /\ ~ Fits(size) /\ order # <<>> /\ Lru(k)
      /\ order' = Append(Tail(order), k)
      /\ cache' = [cache EXCEPT ![victim] = None, ![k] = size]
      /\ used' = used - cache[victim] + size

(* len(element): of the pair of metadata and value, not of the value.      *)
EntryLength == 2

LruRemove(k) == /\ k \in Cached /\ Call("LRU")
                /\ order' = RemoveFirst(order, k)
                /\ cache' = [cache EXCEPT ![k] = None]
                /\ used' = used - EntryLength
                /\ UNCHANGED <<freq, heap, lastUse>>

-----------------------------------------------------------------------------
(* LFUCache *)

Lfu == Call("LFU") /\ UNCHANGED <<order, lastUse>>

(* The frequency of a key rises, and an entry with the new one is pushed;  *)
(* the older entries of the key stay in the heap.                          *)
Count(k) == /\ freq' = [freq EXCEPT ![k] = freq[k] + 1]
            /\ heap' = heap \cup {<<freq[k] + 1, k>>}

(* (variant) A get counts, but pushes nothing.                             *)
LfuGetPushesNothing(k) == /\ k \in Cached /\ Lfu
                          /\ freq' = [freq EXCEPT ![k] = freq[k] + 1]
                          /\ UNCHANGED <<heap, cache, used>>

LfuGet(k) == k \in Cached /\ Lfu /\ Count(k) /\ UNCHANGED <<cache, used>>

(* used_capacity is never raised.                                          *)
LfuPut(k, size) == /\ k \in Cached \/ Fits(size)
                   /\ Lfu /\ Count(k)
                   /\ cache' = [cache EXCEPT ![k] = size]
                   /\ UNCHANGED used

(* Entries of the heap that tell the frequency their key has now.          *)
Current == {e \in heap : freq[e[2]] = e[1]}

Before(e, f) == e[1] < f[1] \/ (e[1] = f[1] /\ e[2] < f[2])

First(e) == e \in Current /\ \A f \in Current \ {e} : Before(e, f)

(* (variant) What is popped first is taken, whatever it says.              *)
LfuEvictAnyPopped(k, size) ==
  /\ k \notin Cached /\ ~ Fits(size) /\ Lfu
  /\ \E e \in heap :
       /\ e[2] \in Cached
       /\ \A f \in heap \ {e} : Before(e, f)
       /\ heap' = (heap \ {e}) \cup {<<1, k>>}
       /\ freq' = [freq EXCEPT ![e[2]] = 0, ![k] = 1]
       /\ cache' = [cache EXCEPT ![e[2]] = None, ![k] = size]
       /\ used' = used - cache[e[2]]

(* heappop until an entry is current: its key goes, and so do the entries  *)
(* popped on the way.                                                      *)
LfuEvict(k, size) ==
  /\ k \notin Cached /\ ~ Fits(size) /\ Lfu
  /\ \E e \in heap :
       /\ First(e)
       /\ heap' = {f \in heap : Before(e, f)} \cup {<<1, k>>}
       /\ freq' = [freq EXCEPT ![e[2]] = 0, ![k] = 1]
       /\ cache' = [cache EXCEPT ![e[2]] = None, ![k] = size]
       /\ used' = used - cache[e[2]]

(* The heap runs empty before; the value is stored all the same.           *)
LfuNothingToEvict(k, size) ==
  /\ k \notin Cached /\ ~ Fits(size) /\ Current = {} /\ Lfu
  /\ heap' = {<<1, k>>}
  /\ freq' = [freq EXCEPT ![k] = 1]
  /\ cache' = [cache EXCEPT ![k] = size]
  /\ UNCHANGED used

(* The heap keeps the entries of the key.                                  *)
LfuRemove(k) == /\ k \in Cached /\ Lfu
                /\ cache' = [cache EXCEPT ![k] = None]
                /\ freq' = [freq EXCEPT ![k] = 0]
                /\ used' = used - EntryLength
                /\ UNCHANGED heap

-----------------------------------------------------------------------------
(* clear, of both.                                                         *)
Clear == /\ Call(policy)
         /\ cache' = [k \in Keys |-> None]
         /\ order' = <<>>
         /\ freq' = [k \in Keys |-> 0]
         /\ heap' = {}
         /\ used' = 0
         /\ UNCHANGED lastUse

Next == \/ \E k \in Keys : LruGet(k) \/ LruRemove(k) \/ LfuGet(k) \/ LfuRemove(k)
        \/ \E k \in Keys, size \in Sizes :
             \/ LruOverwrite(k, size) \/ LruInsert(k, size) \/ LruEvict(k, size)
             \/ LfuPut(k, size) \/ LfuEvict(k, size) \/ LfuNothingToEvict(k, size)
        \/ Clear

Spec == Init /\ [][Next]_vars

-----------------------------------------------------------------------------
TypeOK == /\ policy \in {"LRU", "LFU"}
          /\ cache \in [Keys -> Sizes \cup {None}]
          /\ order \in Seq(Keys)
          /\ freq \in [Keys -> Nat]
          /\ heap \in SUBSET (Nat \X Keys)
          /\ used \in Int
          /\ lastUse \in [Keys -> Nat] /\ now \in 0..MaxOps
          /\ policy = "LRU" => /\ Range(order) = Cached
                               /\ IsInjective(order)

(* A key that gives way to another one.                                    *)
Evicted(v) == /\ cache[v] # None /\ cache'[v] = None
              /\ \E k \in Keys : cache[k] = None /\ cache'[k] # None

(***************************************************************************)
(* The LRU cache evicts the key whose last get or put is the longest ago   *)
(* ("Remove the least recently used item", caching/__init__.py:89).        *)
(***************************************************************************)
EvictsLeastRecent ==
  [][policy = "LRU" => \A v \in Keys : Evicted(v) =>
       \A k \in Cached : lastUse[v] <= lastUse[k]]_vars

(***************************************************************************)
(* The LFU cache evicts a key with the lowest frequency, however many      *)
(* entries of the heap are outdated, and of keys removed and put again.    *)
(***************************************************************************)
EvictsLeastFrequent ==
  [][policy = "LFU" => \A v \in Keys : Evicted(v) =>
       \A k \in Cached : freq[v] <= freq[k]]_vars

(***************************************************************************)
(* The LFU cache counts exactly the keys it holds and has each of them in  *)
(* its heap with its present frequency: looking up or deleting the entry   *)
(* it evicts cannot fail, and no key is out of its reach.                  *)
(***************************************************************************)
HeapReachesAll ==
  policy = "LFU" => \A k \in Keys : /\ freq[k] > 0 <=> k \in Cached
                                    /\ k \in Cached => <<freq[k], k>> \in heap

(***************************************************************************)
(* What is left of the capacity in the LRU cache, if no value is shorter   *)
(* than two bytes: it never holds more bytes than it counts, nor more      *)
(* entries than would fit if all were of the smallest size.  The bytes     *)
(* themselves may exceed the capacity: one entry goes, however long the    *)
(* value that comes.                                                       *)
(***************************************************************************)
LruNeverUndercounts ==
  policy = "LRU" => /\ MapThenSumSet(LAMBDA k : cache[k], Cached) <= used
                    /\ Cardinality(Cached) * Min(Sizes) <= Capacity
=============================================================================
