# A formal model of the MictlanX client

MictlanX stores *balls* in buckets of a virtual storage space (VSS).  The client
(`mictlanx/asyncx`) cuts a ball into chunks, stores every chunk as metadata plus
bytes under its own key through one of several routers, and puts the chunks
together again when the ball is read.  The routers, the peers behind them and
the storage are services; this repository is the client side.

The modules here are translated from the Python source.  TLC checks small
instances; TLAPS proves some of the properties for every value of the constants.
`PROJECT.json` maps every definition to the lines it stands for.

## Inventory

| component | state it keeps | operations | correct when |
|---|---|---|---|
| Router load balancer (`asyncx/lb.py`) | one counter per router | `get_router` | load is balanced; without router ids it is round robin |
| Writers (`asyncx/__init__.py`, `asyncx/utils.py`) | per call: a semaphore; per chunk: a coroutine and its attempt | `put`, `put_file`, `put_chunks`, `put_single_chunk` | Ok means every chunk is stored; a failure of some request is retried; every call returns; the cleanup of a failed `put` comes last |
| Deletion (`asyncx/__init__.py`) | per call: the chunks listed, the routers to be asked | `delete`, `delete_by_key` | nothing is left behind but what no router confirmed |
| Readers (`asyncx/__init__.py`, `retry/`) | per call: the number of chunks, the pieces so far | `get`, `get_chunks`, `get_chunk` | Ok of `get` is a value that was there whole; a ball at rest is read as it is; a failure is retried; every call returns |
| Download (`asyncx/__init__.py`) | the same, and the file | `get_to_file` | the file grows in order; Ok means the whole ball; a file that is there is left alone |
| Segmentation (`utils/segmentation.py`) | position in the value, chunks so far | `from_bytes`, `from_list`, `from_ndarray`, `from_generator`, `from_file`, `iter_to_chunks` | the chunks tile the value; sizes as asked; the loops end; the recorded number of chunks is right |
| Caches (`caching/`) | entries, used capacity, frequencies and a heap | `get`, `put`, `remove`, `clear` | the entry that goes is the one the policy names; the heap reaches every key; what is held is counted |
| Bucket operations and names (`asyncx/__init__.py`, `asyncx/utils.py`, `utils/index.py`) | per call: what each router has listed, the deletions still to be made | `delete_bucket`, `get_chunks_by_bucket_id`, `get_bucket_metadata` with `group_chunks`, `get_metadata`, `get_metadata_by_key`, `sanitize_str` | a call changes no ball but the one it names; what a deletion leaves has a reason; listings have what was put |
| IPC (`ipc/server.py`, `ipc/client.py`) | queues, task tables, offsets in a shared memory, copies on disk and in the cloud | `put`, `get`, `get_task_result`, `shutdown`, the server's heartbeat | what is stored is what was hashed, and stays so; answers name the right data; copies are copies |
| Summoner, router and peer calls, URI, compression, logging, data classes, contextual language | next to none, or strings only | | not modelled, see the end |

How they interact.  An operation of `AsyncClient` asks the balancer for a router
once and keeps it through all its retries.  It then runs one coroutine per chunk
on the event loop; they meet at a semaphore and in `asyncio.gather`, which waits
for all of them.  Operations of one client and of several clients meet only in
the storage.  What makes the code hard is that metadata and bytes of a chunk are
two requests; that any request may be refused, time out, or arrive after its
sender has given up on it and started over; that the chunks of one call
interleave with each other and with other calls; and that the process can die
while it writes a file.

## Modules

| module | models | extends / uses |
|---|---|---|
| `RoundRobin` | the abstract choice of routers | |
| `RouterLoadBalancer` | `get_router` | instantiates `RoundRobin` |
| `BallStore` | abstract: what the storage sees of puts and deletes | |
| `DeleteBall` | `delete`, `delete_by_key`, and the requests | |
| `PutBall` | the four writers, beside deletes | extends `DeleteBall`, instantiates `BallStore` |
| `ReadBall` | what the readers share: `raf`, the first metadata, the two requests per chunk; writers as `BallStore` promises them | extends `BallStore` |
| `GetBall` | `get`, `get_chunks`, `get_chunk` | extends `ReadBall` |
| `GetToFile` | `get_to_file`, crashes | extends `ReadBall` |
| `Names` | `sanitize_str` on characters, the keys of chunks | |
| `Buckets` | many balls: writers, `delete`, `delete_bucket`, the metadata queries, as far as names decide what they do | extends `Names` |
| `Segmentation` | the cutting loops | |
| `Cache` | `LRUCache`, `LFUCache`, `CacheFactory` | |
| `IpcServer` | the server's thread | |
| `SharedMemory` | abstract: a map that is written once, and what processes hold of it | |
| `Ipc` | the server with its clients | extends `IpcServer`, instantiates `SharedMemory` |
| `MC...` | constants for TLC | |
| `...Proofs` | theorems | |

An operator called "(variant)" in its comment is a plausible mistake in the
definition that follows it; `PROJECT.json` says which property notices it.

**RouterLoadBalancer.**  `operation_counter` is the dictionary of the code; the
dictionary keeps the order of the URI, so routers are numbered.  `GetRouter` is
`get_router()`, `GetNamedRouter` is `get_router(router_id)`.

**DeleteBall and PutBall.**  One ball.  `meta` and `data` name, per chunk, the
put whose metadata and bytes are stored.  A call goes through `phase`; `listing`
and `erasing` are `delete`, called by the application or by the `except` branch
of `put`.  A coroutine of a put goes through `step`: it waits for the semaphore
(`Acquire`), posts the metadata (`PostMetadata`), uploads the bytes for the
first task it is handed (`UploadChunk`), sleeps after a failure (`EndBackoff`)
and stops when `attempt` exceeds `max_tries` (`Loop`).  `FinishPut` is the code
after `gather`: Ok, the cleanup (`put`) or Err (the others).  A request is
answered, is refused without effect, or times out.  With `LateRequests` a
request that timed out stays in `late`, from where it may arrive at any time,
repeatedly (an HTTP proxy may resend it), or be lost.  `told`, `unsure`
and `rivals` are history: what a delete was told, what it got confirmed, and
which calls were active while a call was.  The routers of one URI front the same
VSS and so the same storage (docs/architecture.md).

**BallStore** is what readers may assume of writers.  A put posts metadata, gets
an upload task, uploads with it once; it answers Ok only when every chunk of its
value has been acknowledged; nothing changes outside running calls; a call that
has begun to erase never uploads again.  `put_delete` checks that `PutBall`
implements it (`KeepsPromise`), with `listing` seen as `erasing`, a coroutine in
`uploading` as a task, a coroutine in `stored` as an acknowledgement.  The
implementation holds when no request outlives its call (`LateRequests` FALSE);
late requests are `put_late`'s subject.

**ReadBall, GetBall, GetToFile.**  The writers are those of `BallStore`.  The
bytes of a chunk are a sequence of blocks; different puts may have blocks in
common and differ in length and number of chunks.  `probes` counts the failures
of `raf`; `total` is `num_chunks` from the first metadata; a coroutine asks for
the metadata of its chunk (`AskMetadata`), then reads that many blocks
(`ReadData`); a failed attempt is `Miss`.  `get` compares the SHA-256 of the
whole with the one that came with the first chunk; SHA-256 is taken to tell all
values apart, so `Intact` compares the values.  `situation` is what a call
meets: which reader it is, which put's ball is there (`Old`) and `max_retries`;
it is chosen at the start.  A reader that goes by retries
keeps no state of an earlier attempt.  In `GetToFile` a call starts over with
nothing in memory (`Forget`) after it has returned or died; of the bytes written
to the open file a crash leaves some prefix.  The writer coroutine writes all
chunks that are ready in one go; the model writes them one at a time, which
other actions may come between: that adds behaviours and takes none away.

**Names and Buckets.**  A name is a sequence of characters, and `Sanitize` is
`sanitize_str` step by step.  The names of buckets and balls go through it in
some requests and not in others, and `Buckets` keeps these apart: a writer stores
under the sanitized bucket, under the name as given for the key of the chunk
(`ChunkKey`) and for the `ball_id`, except `put_single_chunk`, whose `ball_id` is
sanitized; `delete` lists by sanitized names; `delete_bucket` and
`get_chunks_by_bucket_id` list by the bucket as given; `delete_by_key` sanitizes
the bucket and the key.  Here "put_file" stands for `put_file` and `put_chunks`,
which answer Err without a cleanup.  Each call has one operation throughout
(`program`).  A writer is as coarse as `BallStore` allows: it posts a chunk once
or repeatedly (`Post`) and then has it stored or gives it up (`Settle`).  The
routers share the storage, so any of them lists the same keys; each may refuse.
`todo` counts, per key, the deletions that an eraser has still to send: one per
router, for each router that listed the key (`StartErasing`).  `Erase` is one of
them.  `Query` is a query that asks one router and returns at once.
`GroupChunksRaises` says what becomes of the chunks in a segment of
`group_chunks`.  `sure`, `refusals` and `before` are history.

**Segmentation.**  A chunk is the interval of elements it holds, and the number
of elements per chunk is the fraction `num / den`, exactly; the code uses a
float, which agrees for lengths below 2^53 / num_chunks.  The minimum of 1024
bytes in `from_file` is the constant `MinFileChunk`.  `from_ndarray` behaves as
`from_list`, and `from_generator` as `from_bytes`.

**Cache.**  `policy` is the class that `CacheFactory` has made; the two share
`cache` and `used` and otherwise have a state of their own.  A value is its
number of bytes.  `freq_heap` is the set of its entries: a second copy of an
entry that is current is outdated as soon as the first is popped, so the copies
cannot be told apart.  A call that changes nothing is no step.  `lastUse` is
history.  The models keep what the code does to `used_capacity`: `LRUCache.put`
adds the size of a key that is there without taking off the old one, both
`remove`s take off the length of a pair, 2, and `LFUCache.put` never adds.  So
the LRU cache counts too much and can come to refuse every put although it is
empty, it can exceed its capacity (one entry goes, however long the new value
is), and the LFU cache evicts only when a single value exceeds what is left of a
capacity it never fills.

**IpcServer and Ipc.**  `IpcServer` is the loop of the server's thread.  A
heartbeat checks disk and cloud (`Checks`) and takes one request; a PUT is one
step up to the opening of the file (`BeginPut`), one per chunk (`ReadChunk`) and
one when all is read (`Store`, `Mismatch`), since the host may rewrite the file
between them (`Rewrite`).  The memory is made of cells; the SHA-256 of a content
is taken to tell contents apart and so is the content.  `Chunk` is what `f.read`
returns of the file as it is at that moment: it may be longer than announced and
may be empty for ever.  An exception ends the thread (`server = "down"`, as opposed to
`"gone"` after `shutdown`): a chunk
that does not fit, the full queue of a client, a GET of an unknown key before
any PUT has bound `_key`.  `Ipc` adds processes with one `client_id`, as the
app and the consumer of `examples/use-cases/03_ipc` have.  They share a queue.
POSIX queues outlive their names, so queues are numbered: `name` is the one that
has the name, `handle` the one the server has opened and keeps, `inbox` the one
a client has open.  A client's thread looks at the size of the queue (`Look`) and
then takes an answer (`Receive`), or finds that another process was faster, which
ends the thread (`TooLate`).  `SharedMemory` is what a process relies on: a key is
taken once, names a whole content then, and neither this content nor what the
process was handed of it ever changes.  In the mapping the contents are the cells
as they are now, so that a chunk written in the wrong place is a step that
`SharedMemory` has not.

## Runs

| run | question | result |
|---|---|---|
| `lb_named` | does the load stay balanced, with router ids in between? | yes, up to the calls that named a router |
| `put_delete` | do the writers keep BallStore's promise; does a cleanup leave only unconfirmed chunks; is no put given up early; does every step bring a call nearer to its end? | yes |
| `put_late` | is Ok right, does every step bring a call nearer to its end, and does every call return, with requests that arrive late? | yes |
| `delete_ok` | does Ok of `delete` mean the chunks are gone? | no: `delete_by_key` swallows failures |
| `get` | was an Ok answer of `get` there as a whole; does a read of a ball at rest get its chunks and no others; are failures retried; do calls return? | yes |
| `tofile_rest` | is the file right, over calls and crashes? | yes, for a ball at rest |
| `buckets` | what do names do to other balls; what does an Ok of `delete_bucket` leave; do listings lack a ball that was put? | a ball is safe from every name that stays different when sanitized; leftovers have reasons; a listing under the clean name lacks none |
| `names` | is a ball safe from calls for another pair of names? | no: a failed put of `a.` deletes `a` |
| `segmentation` | do the chunks tile the value, have the sizes asked for, does every round take something, do the loops end? | yes |
| `cache` | does the entry go that the policy names; does the heap reach every key; is what is held counted? | yes |
| `ipc` | is the memory a map that is written once; is what is stored, handed out and copied right, while files change, clients stop and share a queue; does a get see an earlier put; does disk catch up? | yes |
| `segmentation_count` | is the recorded number of chunks right? | no, when a rest is merged |

Some of the properties deserve a word.

* `LeftoversAreUnconfirmed` is stated for calls that come one after the other.
  TLC shows why: a delete (or the cleanup of another put) that runs between the
  two requests of a put erases the metadata, the upload then stores the bytes,
  and they stay without metadata, where no later delete finds them.  No document
  promises otherwise.
* `OkIsStored` leaves out puts that had rivals (last writer wins, chunk by
  chunk), but keeps those whose own late requests still arrive: a repeated
  request of the same put stores the same thing.
* `AnswerWasThere` assumes that values share no bytes (`ShareNothing`).  Without
  it TLC finds a `get` that returns the value of an unfinished put: one chunk
  comes from it and the other, equal, chunk from its predecessor.  It is about
  the ball that was there before the `get`, with any calls beside it, and about
  the ball of a put that is alone with it (`Alone`).  With a third call at work
  it is not so: that call may overwrite or erase a chunk that was read already,
  before the put has written the chunk that is read next.  (That an Ok of `get`
  is always the value of one put is the comparison itself, `Intact`.)  The run
  has no delete, for the sake of time; the theorem has any number of them.
* `ReadsTheBall` is about all three readers, of which `get_chunks` and
  `get_chunk` compare no checksum.  When the read begins a put has answered Ok;
  the ball that was there before may have had more chunks, and those still lie
  behind the new ones, under the same name.  The reader goes by `num_chunks` of
  the first chunk and must neither take in the old ones nor stop short.
  `rested` is history: the puts that were at rest when the read began.
* `NearsEnd` is the half of `Terminates` that is about the arithmetic: every round
  takes at least one element, so n elements take at most n rounds.  It is proved
  for any length; the other half is that the loop goes on.
* `WorkShrinks` is the same half of `Terminates` for the writers and for `delete`.
  What a call has left to do is its stage, the routers ahead of each chunk it
  erases, and `StepsLeft` of each coroutine, four steps for every try.  Each of
  its own steps takes some of it away; no step of another call, and nothing a
  late request does, gives any back.
* `OkStaysApart` is what remains of README.md:123, "a ball is identified by the
  pair (bucket_id, ball_id)": of the pair as sanitized.  The hard part is that a
  deletion by a key may hit the key of another ball (`a._0` becomes `a_0`).
* `LeftoversHaveReasons`: `delete_bucket` says Ok with a router that refused to
  list, with deletions that were refused, with keys whose sanitized form is
  another key, and with writers at work.  These are the only reasons for which
  something stays.
* `ListingsHaveWhatWasPut`: `put` stores under the sanitized bucket, the queries
  list it as given, and other writers, deletions and `delete_bucket` of other
  buckets come between; an Ok must still have every chunk of a ball that was put
  with Ok and stands apart.  `get_bucket_metadata` says Ok only of an empty
  bucket (see the limits), which must then not have been written.  The listing
  is one request to one router in the model as in the code.  That `group_chunks`
  cuts a listing into segments that share it out is arithmetic: `MCBuckets`
  assumes it of listings of up to 17 chunks, TLC evaluates that, and
  `SegmentsShareOut` proves it for any length.
* `KeepsPromise` says among other things that a cleanup never overlaps an upload
  of the same put, which rests on `gather` waiting for all coroutines.
* `LruNeverUndercounts` is what is left of a capacity, and needs values of at
  least two bytes, since `remove` takes off two.
* `ReadsWhatWasPut` rests on the priorities of the two kinds of requests (100
  and 1), and on first come, first served among equals.
* `KeepsMemoryPromise` says of every step what `SchemaIsStored` and `ResultIsData`
  say of every state: that what a process has in view is not written over.
* `DiskCatchesUp` excepts two things that TLC finds otherwise: the server's
  thread may end, and a file that got shorter after it was hashed is read for
  ever.

### Bounds, and why they are enough

Two or three routers, three chunks at most, two puts, one delete, two attempts,
one or two places at the semaphore.  Two chunks are enough for one to fail while
the other is being retried and for a torn read; two attempts for the boundary of
the retry loop and for a late request of an earlier attempt; one place for a
semaphore that has to be passed on, so that a place kept by a coroutine that has
given up would lock the other out.  `put_late` has a `put_file` of two chunks and
a `put_single_chunk`, which clean up nothing; late requests beside a cleanup are
beyond five minutes for TLC and left to the theorems `OkIsStoredAlways` and
`WorkShrinksAlways`.  `put_delete` has the cleanup and the delete; that they too
come to an end is in `WorkShrinks`, which both runs check.  `MaxOps` bounds
the balancer's counters, which only matter by their differences.  `MaxCalls`
bounds calls of `get_to_file` after the first: a failed or dead call, another
one, and one that succeeds.  `MaxCuts` (20) exceeds the longest value (17), so
only endless loops reach it.  Lengths, sizes and counts of `segmentation` cover
0, 1, exact multiples, remainders shorter and longer than half a chunk, sizes
above the length and counts above the length.  Seven calls of a cache with three
keys are enough to fill it, to leave outdated entries of an evicted key in the
heap, to put that key again and to evict once more; the sizes are the smallest
that `remove` takes off correctly, one more, one above the capacity, and one that
is above it still when the LFU cache counts below zero, after two `remove`s or the
evictions of small values: so that an LFU eviction meets keys that were removed, or
evicted, and put again.  `ipc` has a content shorter than a chunk and one of a chunk and a half, a memory that
holds both and nothing more, two requests (`MaxTasks`) by two processes, a
client queue of one message (`MailSize`), which the second answer finds full, and
one rewriting of the file (`MaxRewrites`).  Three things do not happen in it: no
entry is stored after a checksum mismatch, which leaves too little of four cells;
no file grows over the end of the memory while it is read; and with one worker
every entry is flushed and pushed, so the batches of `Checks` are of one.  A
larger memory would no longer refuse anything, a second rewriting takes TLC beyond
five minutes, and two workers with at most two entries batch no differently.
`SchemaIsStoredAlways`, `CopiesAreStoredAlways` and `ImplementsSharedMemory` hold for
any memory, number of rewritings and workers.
`get` has two puts, of two chunks and of one.  For `get`, `get_chunks` and
`get_chunk`, with retries, the longer one has left its ball there and the shorter
one overwrites it; for `get` without retries there is also none, and both write.  `buckets` has three calls
and two routers.  Its balls are `a` and `a.`, which become one, and `c`, which
does not, its buckets `b` and `b.`; the programs are a put, another writer of the
neighbour, and an eraser or a query.  That is enough for a cleanup to meet
another ball, for a key to become another's, and for a router to refuse while the
other lists.  `MCBuckets` also evaluates, for all names of up to three characters,
what `BucketsProofs` shows of `Sanitize`.  The largest run, `buckets`, has 1.6
million states, `ipc` and `get` three quarters of a million each; each takes two to
three minutes with two workers.

### Fairness

The event loop runs every coroutine that is ready, every request has a timeout,
every sleep ends: a call that has begun goes on (weak fairness per call for the
writers, of the reader's own steps for the readers, of the loop for
`Segmentation`, of the thread of the IPC server, of the thread and of the
registering of a task for its clients).  `Buckets` has no fairness: its calls
have no loops but those of `PutBall`.  Nothing is assumed of the storage, of late requests, of the
application or of other clients.  Retries are bounded, so this is enough for
`Terminates` and `Returns`.  The runs with calls that end do not report
deadlock: when all calls have returned, or the bound on calls is reached, there
is nothing left to do.

## Theorems

`RouterLoadBalancerProofs`, for any number of routers: `TypeCorrect`;
`BalancedAlways` (the invariant is `Balanced` with the types: a router that is
counted is minimal, or was named, which `pinned` counts too);
`ImplementsRoundRobin`: as the client calls it, without router ids, the balancer
implements `RoundRobin`.  There the counters form a staircase, descending along
the list by at most one, and the first minimal router is where it steps down.

`PutBallProofs`, for any calls, chunks (finitely many), routers, tries and
concurrency, and with or without late requests: `TypeCorrect`, which includes that
no chunk is tried more than `MaxTries` times; `OkIsStoredAlways`;
`ErrOnlyAfterAllTriesAlways`; `OnlyUnconfirmedLeft`; `WorkShrinksAlways`;
`SomebodyMovesAlways`.  `OkIsStored` is not
inductive: it is strengthened with what holds while a put runs without rivals,
namely that a chunk that is `uploading` or `stored` has this put's metadata, a
`stored` chunk its bytes too, and that requests of others which linger belong to
recorded rivals.

`OnlyUnconfirmedLeft` is about calls one after the other, which is a property of
the whole history.  `Witnessed`: whoever runs is a rival of every other call that
has begun, and a call with a lingering request is its own rival.  So without
rivals one call runs at a time (`OneRuns`) and nothing lingers.  `Tidy`: in such a
history bytes always have their metadata, and what is there after a deletion was
told of and has not been confirmed as deleted.

`WorkShrinksAlways` goes action by action (`CoroutineShrinks`, `FinishPutShrinks`,
`EraseStepShrinks`) and needs of the invariant that a coroutine at work has a try
left.  A try takes a coroutine through four steps at most, so `MaxTries` tries are
at most `4 * MaxTries` steps.  `SomebodyMovesAlways` is that the semaphore never
locks a put up: a coroutine that holds a place, or sleeps, depends on nobody, and
while none does the semaphore is open; `Begun` (all coroutines of an uploading put
have been started) is what has to be kept.  Together they are `Terminates` but
for the fairness: what is left is finite and shrinks, and there is always a step
to take.

`ImplementsBallStore`, in the same module: if no request outlives its call
(`LateRequests` FALSE), every step of the writers and of `delete` is a step of
`BallStore` or a stutter, for any value of the constants.  `Phases`, `Tasks` and
`Acked` say what `BallStore` sees.  A request is one step of the storage or none;
what moves coroutines through the semaphore and the backoff is a stutter.  Two
facts of the invariant are needed: while a put is `uploading` its coroutines have
their posts behind them, and when it turns to its cleanup no coroutine holds a
task, because `gather` has waited.  `ReadBall` builds on `BallStore`, so what is
proved of the readers holds beside these writers.

`GetBallProofs`, for any puts and deletes beside the reader, contents, retries and
parallel gets: `GetTypeCorrect`, `GetErrOnlyAfterAllRetries`,
`AnswerWasThereAlways` and `ReadsTheBallAlways`.  In the invariant they share, `Found` says that a coroutine that
has fetched knows whose metadata it was given, and `Compared` that `get` has
fetched the first chunk, the one whose checksum it compares with: a ball that has
any chunk has chunk 0, because the chunks of a value are an interval from 0
(`FirstChunk`).  For `GetErrOnlyAfterAllRetries`, `RestInv` is what holds while no other call has
begun: the store does not move (`RestIsStill`), a coroutine finds the metadata
and all the bytes of the one value, and so, when none has failed, the checksums
agree (`RestIntact`).  That SHA-256 tells the values apart is in `Intact`.

`AnswerWasThereAlways` has to tell the pieces of two puts apart inside one joined
sequence.  When the values share no bytes and the whole is the value of one put,
no piece has anything of another one, and the pieces are as many as the chunks of
that put, since a shorter join is a proper part (`JoinElements`, `JoinLonger`); so
every piece is a chunk of the one put (`Pieces`).  The rest is an invariant about
a single put (`WasInv`): its value has been whole, or it is `Gone`, or it is `Live`.
Gone means that it writes no more and one of its chunks is neither there nor
read, so the `get` will never have read all of it.  Live is a put that may still
write and whose chunks, as far as the `get` has read them, are still there; so when
the last one is read, all are there.  The step from Live to Gone is the put's own
failure, and only `Alone` rules out that somebody else takes a chunk of a live put
away.

`ReadsTheBallAlways` needs an invariant of the writers first: a put without rivals
has stored what it was given tasks for and what was acknowledged (`SoloInv`), so a
ball at rest is there (`RestStored`), and no writer makes a step while it is
(`RestStill`).  Then a coroutine of the reader comes across no other put, and
`num_chunks` is that of the ball (`ReadsInv`).

`GetToFileProofs`, for any calls, crashes, puts and deletes beside them, chunks and
blocks: `ToFileTypeCorrect`, `WrittenInOrderAlways`, `ExistingFileKeptAlways`,
`OkIsWholeFileAlways`.  `Ordered` says that what is written has been fetched, and
that an open file is the `Join` of the first `written` pieces.  `Join` flattens a
sequence by recursion, and one piece more is one step of it (`JoinNext`), which
takes an induction.  The induction theorems of the library take a predicate;
`NatInSet` takes the set of the numbers that have the property instead, and
follows from the least element of a well-founded order.  For a ball at rest
`RestInv` adds that metadata and bytes are of the one put, so that all pieces
joined are its value.  The lemmas about the writers are those of `GetBallProofs`.

`SegmentationProofs`, for any length, size and number of chunks: `TypeCorrect`,
`TilesAlways`, `SizesAsAskedAlways`, `NearsEndAlways`.  `CutInv` adds to `Tiles` that the loop has
counted as many elements as chunks times elements per chunk; `SizeInv` that
every chunk but a merged one has exactly that many.  The step that takes work is
that the rest fits: `QuotientBounded`, and that there is a chunk to merge into.
`NearsEndAlways` rests on `Advances`: unless the call is one of the `Endless` ones,
there is a whole element per chunk, whichever of size and number was given.

`CacheProofs`, for any keys, sizes and capacity: `HeapReachesAllAlways` is
inductive with the types; `LfuEvictsLeastFrequent` follows from it, because the
entry that is popped comes before the current entry of every other key.
`LruEvictsLeastRecent`: the order of the LRU cache is sorted by the moments of
the last use, each key once, so the head is the key that was used longest ago.
`CacheTypeCorrect` is the types of both.  `LruNeverUndercountsAlways` is about a
sum over the cached keys: a sum taken element by element, in whatever order, is
shown by induction on the number of elements to change by the size of the entry
that comes or goes.  It assumes that there is a size and that none is below the
two bytes that `remove` takes off.

`IpcProofs`, for any files, contents, sizes of memory and chunks, processes and
requests: `SchemaIsStoredAlways` and `CopiesAreStoredAlways`.  `SchemaIsStored`
says nothing of a PUT that is being read.  `IpcInv` adds it: the entries lie
below the cell where the reading began, what has been read lies between there
and the offset, cell for cell, and the key it is for is not taken.  When the
reading ends, what was read equals the content that was hashed, so the cells
before the offset are a new entry, side by side with the others.

The second half of `IpcProofs` builds on it: `ResultIsDataAlways`, `IpcTypeCorrect`,
`ReadsWhatWasPutAlways` and `ImplementsSharedMemory`.  A task id is in many places, the request queue, the queues of clients (also those that
have lost their name), the tables of the processes; wherever it turns up it is
the same task (`Known`).  Every letter in a queue suits what its task asked for
(`Apt`), and what a completed task holds is an entry of the schema (`Suits`),
which never goes away and whose cells never change.  A request leaves the queue
only when none outranks it and none of its rank was there before (`TakenInTurn`):
so no PUT of its key is before a GET that finds nothing.

For `ImplementsSharedMemory`, `Faithful` says that the cells of what is stored and
in view are the contents whose checksums the server recorded.  With that, steps
are compared by checksums: `Store` puts a key that is not taken, `Receive` hands
out what one key names (two pending tasks never have one id), `Stop` lets go of
everything, and all other steps, the writing of chunks and of files among them,
change nothing that can be seen.

`BucketsProofs`, for any calls, names, indices (finitely many) and number of
routers: `BucketsTypeCorrect`, `OkPutStaysApart`, `BucketLeftoversHaveReasons`,
`ListingsHaveWhatWasPutAlways`, `SegmentsShareOut`.  `OkStaysApart` follows from `PostedStays`, which extends it to
chunks of a put that still runs, and from `ErasesItsOwn`: what `delete` and a
cleanup have listed belongs to a ball that has, or is sanitized to, their name.
`LeftoversHaveReasons` follows from `LeftoversPassed`, which says the same while
deletions are still to be made.  `ListingsHaveWhatWasPutAlways` takes from
`OkStaysApart` that the chunks are stored, under the clean name of the bucket, and
from `ListsAll` that an Ok has every key stored there: of `get_bucket_metadata`
because any chunk would be in a segment and make it raise (`SomeSegment`).

What these proofs need of names is `NamesStayApart`, in the same module, for names
of any length.  `Kept` and `Collapsed` are loops over the characters, each a
function defined by recursion.  It is shown first that there is such a function
(`LoopExists`), then what a loop makes of a name with one character more
(`KeptAppend`, `CollapsedAppend`), and from there on by induction over sequences,
which takes a set in place of a predicate (`SeqInSet`).  The clean names are the
ones the loops leave alone (`CleanStays`).  A key `name_0` that turns into
another key ends in one `_` and the index, so the `_` was not collapsed with a
separator at the end of the name, and what stands before it is the clean name
(`KeyBecomes`).  `NamesAssumption` only says what the characters are; the index
of a chunk is taken for one of them.

Only model-checked: the properties that the code violates, and all liveness, that
is `Terminates`, `Returns` and `DiskCatchesUp` (the proof system has no ENABLED and
no fairness).
The assumptions are the named ASSUMEs of the modules, which TLC evaluates in
every run.

## Known limits of the models

* Headers, with their shared default dictionaries, and tags other than
  `num_chunks` and the checksum are left out.  Names are the subject of `Buckets`
  only.  `delete_by_key` with a bucket id that comes out empty refers to an
  attribute that does not exist; in `Buckets` it is a request that is refused.
* A bucket that was given an unclean name is written under the clean one, but
  `delete_bucket` and `get_chunks_by_bucket_id` list the unclean one:
  `delete_bucket` says Ok and deletes nothing.
* `delete_bucket` adds up what each router lists, and the routers list the same
  storage: with two of them `total` is twice the number of chunks, `deleted`
  equals it whatever was refused, and `failed` is always 0.  Nothing says what
  they should count, and `Buckets` leaves the counts out.
* The second class `Ball` of `interfaces/index.py` (line 195) takes the place of
  the first and has other arguments, so `get_metadata` always answers Err and
  `get_bucket_metadata` answers Ok only for an empty bucket.  The test that
  asserts otherwise (`tests/test_get_bucket.py:36`) is skipped.
* The readers are modelled on balls that carry their checksum and number of
  chunks.  `put_single_chunk` stores no `full_checksum`, and the number of
  chunks that `segmentation_count` is about.
* A failed `put` deletes the ball, including what an earlier put had stored
  there, of which it may have overwritten only some chunks; so does `put` of an
  empty value, which fails with a division by zero while cutting.  Both are in
  `PutBall`; no document says otherwise.
* `get_to_file` leaves its writer coroutine behind when a fetch fails; the
  coroutine polls until a write to the closed file ends it, or for ever.
* `from_file` with a chunk size of 0 yields no chunks, and `put_file` then
  answers Ok with nothing stored; `from_bytes` and `iter_to_chunks` do not end
  when asked for more chunks than elements without a chunk size.

* The balancer counts calls, not answers: a router that has failed keeps its
  turn, although README.md:462 speaks of picking "a healthy one".
* `get_to_file` makes one attempt at each chunk; `max_retries` counts only for the
  first metadata, although README.md:462 says that the client "applies retries".
* `get_to_file` compares no checksum after a download, so a file may mix two puts
  when the ball is overwritten meanwhile; `tofile_rest` is about a ball at rest.
* IPC: `ipc/server.py` and `ipc/client.py` import `mictlanx.v4`, which this commit
  does not contain, so they are modelled as they would run with it.  A server
  whose thread has ended by an exception (`"down"`) still has its memory and its
  queue, so a client can start and send; after `shutdown` (`"gone"`) none can.
  Errors of the operating system (those that end the thread in a check of disk or
  cloud included), requests that the client never sends
  (bad parameters, unknown operations) and files that disappear while they are
  read are left out, and so is `get_task_result`, which only polls
  `completed_tasks`; of a check of the disk or the cloud no partial outcome is
  modelled but failed pushes.  `int(max_workers / 2)` is assumed to be positive.
  What the runs contain and no property forbids: an answer that comes before its
  task is registered is dropped; refusals never reach the caller; a GET of an
  unknown key is not answered; answers go to whoever of a shared `client_id`
  takes them; only every `max_workers / 2`-th entry is pushed to the cloud.

## Plan

Done, in this order: the balancer; writers and deletion with their abstract
specification; readers; download; segmentation; caches; IPC server and clients;
names and bucket operations; theorems of the balancer, the writers, the cutting
loops, the caches, the IPC server and the buckets; the refinement of `BallStore`;
theorems of `get`, of downloads, of what deletions leave and listings have, of the answers
of the IPC server and of the bytes the LRU cache counts; `SharedMemory` and its
refinement; theorems of what `get` answers, of `sanitize_str`, of the rounds of
the cutting loops and of what a put or a delete has left to do.

Next: what `WorkShrinks` is for the writers, for the retry loops of `GetBall` and
`raf`.

Not modelled for good: calls of routers and peers beyond the ones above (one
HTTP request each, no state), the parser of URIs and of the contextual language
and compression (functions on strings and bytes), logging, data classes, and the
summoner, whose only state are two lists that one operation appends to.
