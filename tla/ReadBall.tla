------------------------------ MODULE ReadBall ------------------------------
(***************************************************************************)
(* What the readers of AsyncClient have in common: get, get_chunks,        *)
(* get_chunk and get_to_file (asyncx/__init__.py) learn from the metadata  *)
(* of one chunk how many chunks there are (raf, retry/__init__.py), then   *)
(* fetch them concurrently, each by a request for its metadata followed by *)
(* a request for its bytes (get_chunk, asyncx/utils.py).                   *)
(*                                                                         *)
(* Writers go on meanwhile.  They are those of BallStore, whose promise    *)
(* put and delete keep, so the metadata and the bytes of one chunk, and    *)
(* the chunks among themselves, may come from different puts.              *)
(***************************************************************************)
EXTENDS BallStore, Naturals, SequencesExt

CONSTANTS Content,          \* [Puts -> [chunk -> sequence of blocks]]
          Situations,       \* in which a reader may be called
          ProbeIndex,       \* chunk_index
          MaxParallelGets   \* max_paralell_gets

ASSUME ReadAssumption ==
  /\ Chunks \subseteq Nat /\ IsFiniteSet(Chunks) /\ ProbeIndex \in Chunks
  /\ \A p \in Puts : /\ ChunksOf[p] = {c \in Chunks : c < Cardinality(ChunksOf[p])}
                     /\ DOMAIN Content[p] = ChunksOf[p]
                     /\ \A c \in ChunksOf[p] : Content[p][c] \in Seq(Range(Content[p][c]))
  /\ Situations \subseteq [operation : {"get", "get_chunks", "get_chunk", "get_to_file"},
                            there : Puts \cup {None},
                            max_retries : Nat]
  /\ MaxParallelGets \in Nat \ {0}

VARIABLES situation, \* the reader called, the put whose ball is there or None, and
                     \*   max_retries
          call,    \* "idle", "probing", "fetching", "ok", "err"
          probes,  \* failed requests for the first metadata
          total,   \* num_chunks
          fetch,   \* chunk -> where its coroutine is
          seen,    \* chunk -> the put whose metadata the attempt was given
          pieces   \* chunk -> the put whose metadata came with it, its bytes

readVars == <<situation, call, probes, total, fetch, seen, pieces>>

operation == situation.operation
Old == situation.there
MaxRetries == situation.max_retries

FetchStates == {"idle", "waiting", "asking", "reading", "fetched", "failed"}

Calling == call \in {"probing", "fetching"}

(* Nothing, or the ball of a put that has answered Ok.                     *)
ReadInit ==
  /\ situation \in Situations
  /\ meta = [c \in Chunks |->
              IF Old # None /\ c \in ChunksOf[Old] THEN Old ELSE None]
  /\ data = meta
  /\ phase = [k \in Calls |-> IF k = Old THEN "ok" ELSE "idle"]
  /\ tasks = [p \in Puts |-> {}]
  /\ acked = [p \in Puts |-> IF p = Old THEN ChunksOf[p] ELSE {}]
  /\ call = "idle" /\ probes = 0 /\ total = 0
  /\ fetch = [c \in Chunks |-> "idle"]
  /\ seen = [c \in Chunks |-> None]
  /\ pieces = [c \in Chunks |-> <<None, <<>>>>]

WriterStep == StoreNext /\ UNCHANGED readVars

-----------------------------------------------------------------------------
(* raf does not try at all when it may not retry.                          *)
StartCall == /\ call = "idle"
             /\ call' = IF MaxRetries = 0 THEN "err" ELSE "probing"
             /\ UNCHANGED <<storeVars, situation, probes, total, fetch, seen, pieces>>

(* The first metadata is there; wanted are the coroutines it gives rise to. *)
ProbeAnswered(wanted) ==
  /\ call = "probing" /\ meta[ProbeIndex] # None
  /\ call' = "fetching"
  /\ total' = Cardinality(ChunksOf[meta[ProbeIndex]])
  /\ fetch' = [c \in Chunks |-> IF c \in wanted THEN "waiting" ELSE "idle"]
  /\ UNCHANGED <<storeVars, situation, probes, seen, pieces>>

(* It is not there, or the request fails: raf sleeps and tries again.      *)
ProbeFails ==
  /\ call = "probing"
  /\ probes' = probes + 1
  /\ call' = IF probes + 1 < MaxRetries THEN "probing" ELSE "err"
  /\ UNCHANGED <<storeVars, situation, total, fetch, seen, pieces>>

Holders == {c \in Chunks : fetch[c] \in {"asking", "reading"}}

(* async with semaphore: the backoff sleep, if any, is over.               *)
Acquire(c) == /\ call = "fetching" /\ fetch[c] = "waiting"
              /\ Cardinality(Holders) < MaxParallelGets
              /\ fetch' = [fetch EXCEPT ![c] = "asking"]
              /\ UNCHANGED <<storeVars, situation, call, probes, total, seen, pieces>>

(* router.get_metadata(bucket_id, key)                                     *)
AskMetadata(c) == /\ call = "fetching" /\ fetch[c] = "asking"
                  /\ meta[c] # None
                  /\ fetch' = [fetch EXCEPT ![c] = "reading"]
                  /\ seen' = [seen EXCEPT ![c] = meta[c]]
                  /\ UNCHANGED <<storeVars, situation, call, probes, total, pieces>>

(* The bytes that are there are cut to the size the metadata told of;      *)
(* fewer bytes are a failure.                                              *)
Downloaded(c) == SubSeq(Content[data[c]][c], 1, Len(Content[seen[c]][c]))

(* client.stream("GET", url)                                               *)
ReadData(c) ==
  /\ call = "fetching" /\ fetch[c] = "reading"
  /\ data[c] # None
  /\ Len(Content[data[c]][c]) >= Len(Content[seen[c]][c])
  /\ fetch' = [fetch EXCEPT ![c] = "fetched"]
  /\ pieces' = [pieces EXCEPT ![c] = <<seen[c], Downloaded(c)>>]
  /\ UNCHANGED <<storeVars, situation, call, probes, total, seen>>

(* An attempt can come to nothing at either request: not there, too short, *)
(* refused or timed out.                                                   *)
Misses(c) == call = "fetching" /\ fetch[c] \in {"asking", "reading"}

-----------------------------------------------------------------------------
(* Values, for the properties.                                             *)
Join(f, n) == FlattenSeq([i \in 1..n |-> f[i - 1]])

Value(p) == Join(Content[p], Cardinality(ChunksOf[p]))

(* The bytes fetched, in the order of the chunks.                          *)
Fetched == Join([c \in Chunks |-> pieces[c][2]], total)

(* The values the ball holds whole.                                        *)
Held == {Value(p) : p \in {q \in Puts : \A c \in ChunksOf[q] :
           data[c] # None /\ Content[data[c]][c] = Content[q][c]}}
=============================================================================
