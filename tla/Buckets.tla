------------------------------ MODULE Buckets ------------------------------
(***************************************************************************)
(* Many balls in many buckets, and the operations of AsyncClient           *)
(* (asyncx/__init__.py) as far as names decide what they do: writers,      *)
(* delete, delete_bucket and the metadata queries.                         *)
(*                                                                         *)
(* An application names a bucket and a ball; the code puts names through   *)
(* sanitize_str in some requests and not in others.  What is stored is a   *)
(* set of entries, one per chunk.  A writer behaves as BallStore promises: *)
(* it posts the metadata of a chunk once or repeatedly and then either has *)
(* the chunk acknowledged or gives it up.  A put that gave up something    *)
(* deletes the ball.  The routers share one storage; a request is answered *)
(* or refused, and a URL with an empty name in it is always refused.       *)
(***************************************************************************)
EXTENDS Names, FiniteSets

CONSTANTS Calls,     \* calls of the operations
          Programs,  \* what the calls may be: functions from calls to operations
          Letters,   \* the letters and digits
          BallNames, \* the names that buckets and balls are given
          Indices,   \* the indices of chunks, a digit each
          Routers    \* number of routers of the client

(* "put_file" stands for put_file and put_chunks, which do not clean up.   *)
Writers == {"put", "put_file", "put_single_chunk"}
Erasers == {"delete", "delete_bucket"}
Queries == {"get_metadata_by_key", "get_metadata", "get_chunks_by_bucket_id",
            "get_bucket_metadata"}

Operations == [kind : Writers \cup Erasers \cup Queries,
               bucket : BallNames, ball : BallNames, indices : SUBSET Indices]

Keys == {ChunkKey(n, i) : n \in BallNames, i \in Indices}

ASSUME NamesAssumption ==
  /\ \A ch \in Letters : ch \notin Separators /\ ch # "."
  /\ \A n \in BallNames : n \in Seq(Letters \cup Separators \cup {"."})
  /\ Indices \subseteq Letters

ASSUME BucketsAssumption ==
  /\ Programs \subseteq [Calls -> Operations]
  /\ Routers \in Nat \ {0}
  /\ IsFiniteSet(BallNames) /\ IsFiniteSet(Indices)

VARIABLES program,  \* call -> the operation called, its bucket and its ball
          entries,  \* what is stored
          phase,    \* call -> "idle", "storing", "listing", "erasing", "ok", "err"
          chunk,    \* writer -> index -> "todo", "posted", "stored", "lost"
          pending,  \* delete_bucket -> routers that have not answered yet
          listed,   \* eraser -> router -> the keys it has listed
          todo,     \* eraser -> key -> requests to delete it still to be made
          answer,   \* query -> the keys it was given
          refusals, \* history: call -> routers that refused to list
          sure,     \* history: call -> keys some router has confirmed deleted
          before    \* history: call -> calls that were over when it began

vars == <<program, entries, phase, chunk, pending, listed, todo, answer,
          refusals, sure, before>>

Entry == [bucket : {Sanitize(b) : b \in BallNames}, key : Keys,
          ball : BallNames \cup {Sanitize(n) : n \in BallNames}]

Kind(c) == program[c].kind
Over(c) == phase[c] \in {"ok", "err"}
RouterSet == 1..Routers
Clean == [x \in BallNames \cup Keys |-> Sanitize(x)]

(* The names as the requests of a call have them.                          *)
BucketOf(c) == Clean[program[c].bucket]
BallOf(c) == Clean[program[c].ball]

(* (variant) The bucket keeps the name it was given.                       *)
EntryOfRaw(c, i) == [bucket |-> program[c].bucket, key |-> ChunkKey(program[c].ball, i),
                     ball |-> IF Kind(c) = "put_single_chunk" THEN BallOf(c)
                              ELSE program[c].ball]

(* A chunk is stored under the name its ball was given, put_single_chunk   *)
(* passes on a clean ball_id.                                              *)
EntryOf(c, i) == [bucket |-> BucketOf(c), key |-> ChunkKey(program[c].ball, i),
                  ball |-> IF Kind(c) = "put_single_chunk" THEN BallOf(c)
                           ELSE program[c].ball]

At(b, k) == {e \in entries : e.bucket = b /\ e.key = k}

KeysIn(b) == {e.key : e \in {x \in entries : x.bucket = b}}

-----------------------------------------------------------------------------
Init == /\ program \in Programs
        /\ entries = {}
        /\ phase = [c \in Calls |-> "idle"]
        /\ chunk = [c \in Calls |-> [i \in Indices |-> "todo"]]
        /\ pending = [c \in Calls |-> {}]
        /\ listed = [c \in Calls |-> [r \in RouterSet |-> {}]]
        /\ todo = [c \in Calls |-> [k \in Keys |-> 0]]
        /\ answer = [c \in Calls |-> {}]
        /\ refusals = [c \in Calls |-> {}]
        /\ sure = [c \in Calls |-> {}]
        /\ before = [c \in Calls |-> {}]

Go(c, to) == phase' = [phase EXCEPT ![c] = to]

Begin(c) ==
  /\ phase[c] = "idle" /\ Kind(c) \notin Queries
  /\ Go(c, IF Kind(c) \in Writers THEN "storing" ELSE "listing")
  /\ before' = [before EXCEPT ![c] = {k \in Calls : Over(k)}]
  /\ pending' = [pending EXCEPT ![c] =
                   IF Kind(c) = "delete_bucket" THEN RouterSet ELSE {}]
  /\ UNCHANGED <<program, entries, chunk, listed, todo, answer, refusals, sure>>

-----------------------------------------------------------------------------
(* Writers.                                                                *)
Become(c, i, state) == chunk' = [chunk EXCEPT ![c][i] = state]

Post(c, i) ==
  /\ phase[c] = "storing" /\ i \in program[c].indices
  /\ chunk[c][i] \in {"todo", "posted"} /\ BucketOf(c) # NoName
  /\ LET e == EntryOf(c, i)
     IN  entries' = (entries \ At(e.bucket, e.key)) \cup {e}
  /\ Become(c, i, "posted")
  /\ UNCHANGED <<program, phase, pending, listed, todo, answer, refusals, sure, before>>

Settle(c, i) ==
  /\ phase[c] = "storing" /\ i \in program[c].indices
  /\ \/ chunk[c][i] = "posted" /\ Become(c, i, "stored")
     \/ chunk[c][i] \in {"todo", "posted"} /\ Become(c, i, "lost")
  /\ UNCHANGED <<program, entries, phase, pending, listed, todo, answer, refusals,
                 sure, before>>

(* Ok, or put deletes the ball and the others return Err.                  *)
FinishStoring(c) ==
  /\ phase[c] = "storing"
  /\ \A i \in program[c].indices : chunk[c][i] \in {"stored", "lost"}
  /\ Go(c, IF \A i \in program[c].indices : chunk[c][i] = "stored" THEN "ok"
           ELSE IF Kind(c) = "put" THEN "listing" ELSE "err")
  /\ UNCHANGED <<program, entries, chunk, pending, listed, todo, answer, refusals,
                 sure, before>>

-----------------------------------------------------------------------------
(* delete, called by the application or by a put that failed: one router   *)
(* is asked for the chunks of the ball.                                    *)
Listers(found, k) == {r \in RouterSet : k \in found[r]}

StartErasing(c, found) ==
  todo' = [todo EXCEPT ![c] = [k \in Keys |-> Routers * Cardinality(Listers(found, k))]]

(* (variant) The chunks are found by the bucket alone.                     *)
BallKeysOfAny(c) == KeysIn(BucketOf(c))

BallKeys(c) == {e.key : e \in {x \in entries : /\ x.bucket = BucketOf(c)
                                               /\ x.ball = BallOf(c)}}

ListBall(c) ==
  /\ phase[c] = "listing" /\ Kind(c) # "delete_bucket"
  /\ NoName \notin {BucketOf(c), BallOf(c)}
  /\ Go(c, "erasing")
  /\ LET found == [r \in RouterSet |-> IF r = 1 THEN BallKeys(c) ELSE {}]
     IN  /\ listed' = [listed EXCEPT ![c] = found]
         /\ StartErasing(c, found)
  /\ UNCHANGED <<program, entries, chunk, pending, answer, refusals, sure, before>>

ListBallFails(c) ==
  /\ phase[c] = "listing" /\ Kind(c) # "delete_bucket"
  /\ Go(c, "err")
  /\ UNCHANGED <<program, entries, chunk, pending, listed, todo, answer, refusals,
                 sure, before>>

(* delete_bucket asks every router at once, under the name it was given.   *)
ListBucket(c, r) ==
  /\ phase[c] = "listing" /\ r \in pending[c]
  /\ pending' = [pending EXCEPT ![c] = @ \ {r}]
  /\ \/ /\ listed' = [listed EXCEPT ![c][r] = KeysIn(program[c].bucket)]
        /\ UNCHANGED refusals
     \/ /\ refusals' = [refusals EXCEPT ![c] = @ \cup {r}]
        /\ UNCHANGED listed
  /\ UNCHANGED <<program, entries, phase, chunk, todo, answer, sure, before>>

(* (variant) gather is not waited for: the first router will do.           *)
AllListedEarly(c) == pending[c] # RouterSet

(* All have answered: every key that a router has listed is a task of its  *)
(* own, which asks every router to delete it.                              *)
AllListed(c) == pending[c] = {}

EraseBucket(c) ==
  /\ phase[c] = "listing" /\ Kind(c) = "delete_bucket" /\ AllListed(c)
  /\ Go(c, "erasing")
  /\ StartErasing(c, listed[c])
  /\ UNCHANGED <<program, entries, chunk, pending, listed, answer, refusals, sure, before>>

(* delete_by_key puts the key through sanitize_str and asks one router     *)
(* after the other; a refusal is logged.                                   *)
Erase(c, k) ==
  LET bucket == BucketOf(c)
      key == Clean[k]
  IN  /\ phase[c] = "erasing" /\ todo[c][k] > 0
      /\ todo' = [todo EXCEPT ![c][k] = @ - 1]
      /\ \/ /\ NoName \notin {bucket, key}
            /\ entries' = entries \ At(bucket, key)
            /\ sure' = [sure EXCEPT ![c] = @ \cup {k}]
         \/ UNCHANGED <<entries, sure>>
      /\ UNCHANGED <<program, phase, chunk, pending, listed, answer, refusals, before>>

(* Every delete_by_key has returned Ok.                                    *)
FinishErasing(c) ==
  /\ phase[c] = "erasing" /\ \A k \in Keys : todo[c][k] = 0
  /\ Go(c, IF Kind(c) \in Erasers THEN "ok" ELSE "err")
  /\ UNCHANGED <<program, entries, chunk, pending, listed, todo, answer, refusals,
                 sure, before>>

-----------------------------------------------------------------------------
(* The queries ask one router and return.                                  *)

(* group_chunks cuts the listing of n chunks into four segments for as     *)
(* many threads.                                                           *)
Threads == 4

SegmentSize(n) == (n + Threads - 1) \div Threads

Segment(n, i) == {j \in 1..n : (i - 1) * SegmentSize(n) < j /\ j <= i * SegmentSize(n)}

(* process_balls_segment makes a Ball of the first chunk it comes to, with *)
(* the arguments of the class Ball that the other class of this name in    *)
(* interfaces/index.py has replaced: that raises.  So what is grouped, if  *)
(* anything is, is nothing.                                                *)
GroupChunksRaises(n) == \E i \in 1..Threads : Segment(n, i) # {}

ChunkFor(c) ==
  {e.key : e \in UNION {At(BucketOf(c), Clean[ChunkKey(program[c].ball, i)]) :
                        i \in program[c].indices}}

Asked(c) == IF Kind(c) = "get_metadata_by_key" THEN ChunkFor(c)
            ELSE IF Kind(c) = "get_metadata" THEN BallKeys(c)
            ELSE KeysIn(program[c].bucket)

(* get_metadata makes a Ball too, get_metadata_by_key has its key refused  *)
(* when nothing is stored under it.                                        *)
Raises(c) == \/ Kind(c) = "get_metadata_by_key" /\ Asked(c) = {}
             \/ Kind(c) = "get_metadata"
             \/ Kind(c) = "get_bucket_metadata"
                  /\ GroupChunksRaises(Cardinality(Asked(c)))

Query(c) ==
  /\ phase[c] = "idle" /\ Kind(c) \in Queries
  /\ \/ /\ ~ Raises(c)
        /\ Go(c, "ok")
        /\ answer' = [answer EXCEPT ![c] = IF Kind(c) = "get_bucket_metadata"
                                           THEN {} ELSE Asked(c)]
     \/ Go(c, "err") /\ UNCHANGED answer
  /\ UNCHANGED <<program, entries, chunk, pending, listed, todo, refusals, sure,
                 before>>

-----------------------------------------------------------------------------
StoringStep(c) == (\E i \in Indices : Settle(c, i)) \/ FinishStoring(c)

ErasingStep(c) == \/ ListBall(c) \/ ListBallFails(c)
                  \/ \E r \in RouterSet : ListBucket(c, r)
                  \/ EraseBucket(c)
                  \/ \E k \in Keys : Erase(c, k)
                  \/ FinishErasing(c)

Next == \E c \in Calls : \/ Begin(c) \/ Query(c)
                         \/ \E i \in Indices : Post(c, i)
                         \/ StoringStep(c) \/ ErasingStep(c)

Spec == Init /\ [][Next]_vars

-----------------------------------------------------------------------------
TypeOK ==
  /\ program \in Programs
  /\ entries \subseteq Entry
  /\ phase \in [Calls -> {"idle", "storing", "listing", "erasing", "ok", "err"}]
  /\ chunk \in [Calls -> [Indices -> {"todo", "posted", "stored", "lost"}]]
  /\ pending \in [Calls -> SUBSET RouterSet]
  /\ listed \in [Calls -> [RouterSet -> SUBSET Keys]]
  /\ todo \in [Calls -> [Keys -> 0..(Routers * Routers)]]
  /\ answer \in [Calls -> SUBSET Keys]
  /\ refusals \in [Calls -> SUBSET RouterSet]
  /\ sure \in [Calls -> SUBSET Keys]
  /\ before \in [Calls -> SUBSET Calls]

Changes(k) == phase[k] # "idle" /\ Kind(k) \notin Queries

Stands(c) == \A i \in program[c].indices : EntryOf(c, i) \in entries

OkPut(c) == Kind(c) \in {"put", "put_file"} /\ phase[c] = "ok"

SameBucket(c, k) == BucketOf(c) = BucketOf(k)

(* "A ball is identified by the pair (bucket_id, ball_id)" (README.md): a  *)
(* ball that was put successfully is there as long as nothing else has     *)
(* been called for the same pair of names and its bucket is not deleted.   *)
OkStays ==
  \A c \in Calls :
    /\ OkPut(c)
    /\ \A k \in Calls \ {c} : Changes(k) =>
         /\ program[k].bucket = program[c].bucket => program[k].ball # program[c].ball
         /\ ~ (Kind(k) = "delete_bucket" /\ SameBucket(c, k))
    => Stands(c)

(* Nothing else has been called for names that sanitize_str makes equal.   *)
Apart(c) == \A k \in Calls \ {c} : Changes(k) /\ SameBucket(c, k) =>
              BallOf(k) # BallOf(c) /\ Kind(k) # "delete_bucket"

(* What holds of the pair is weaker: the ball stays as long as nothing is  *)
(* called for names that sanitize_str makes equal to its own (A 243-356,   *)
(* 1010-1085), whatever is written, fails, is cleaned up or deleted under  *)
(* other names at the same time.                                           *)
OkStaysApart == \A c \in Calls : OkPut(c) /\ Apart(c) => Stands(c)

Deleted(c) == Kind(c) = "delete_bucket" /\ phase[c] = "ok"

(* Some writer has had a part in the key that was not over when c began.   *)
Overlaps(c, k) == \E w \in Calls \ before[c] :
                    /\ Kind(w) \in Writers /\ phase[w] # "idle"
                    /\ \E i \in program[w].indices : ChunkKey(program[w].ball, i) = k

(* delete_bucket says Ok whatever was refused.  Still, what an Ok leaves   *)
(* of a bucket with a clean name has a reason: a writer was at work        *)
(* meanwhile, or every router that did not refuse to list has listed the   *)
(* key, and it is a key that sanitize_str changes, or no router has        *)
(* confirmed its deletion.                                                 *)
LeftoversHaveReasons ==
  \A c \in Calls : Deleted(c) /\ BucketOf(c) = program[c].bucket =>
    \A k \in KeysIn(BucketOf(c)) :
      \/ Overlaps(c, k)
      \/ /\ \A r \in RouterSet \ refusals[c] : k \in listed[c][r]
         /\ Clean[k] # k \/ k \notin sure[c]

Lists(q) == /\ Kind(q) \in {"get_chunks_by_bucket_id", "get_bucket_metadata"}
            /\ phase[q] = "idle" /\ phase'[q] = "ok"
            /\ BucketOf(q) = program[q].bucket

(* A listing of a bucket under its clean name, get_chunks_by_bucket_id or  *)
(* get_bucket_metadata, that answers Ok lacks no chunk of a ball that was  *)
(* put with Ok before and stands apart, under whichever name of the bucket *)
(* it was put and whatever others have written or deleted in it since.     *)
ListingsHaveWhatWasPut ==
  [][\A q, c \in Calls : Lists(q) /\ OkPut(c) /\ Apart(c) /\ SameBucket(c, q) =>
       \A i \in program[c].indices : ChunkKey(program[c].ball, i) \in answer'[q]]_vars
=============================================================================
