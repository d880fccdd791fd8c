------------------------------- MODULE PutBall -------------------------------
(***************************************************************************)
(* The writers of AsyncClient: put, put_file, put_chunks and               *)
(* put_single_chunk (asyncx/__init__.py), with put_chunk                   *)
(* (asyncx/utils.py), all writing one ball, beside calls of delete.        *)
(*                                                                         *)
(* A put runs one coroutine per chunk.  A coroutine takes a place of the   *)
(* call's semaphore, posts the chunk's metadata, uploads the bytes for the *)
(* first task it is handed, leaves the semaphore, and on any failure backs *)
(* off and starts over, MaxTries times at most.  When all coroutines have  *)
(* ended the call returns Ok if every chunk was stored; otherwise put      *)
(* deletes the ball and the other operations just return Err.              *)
(***************************************************************************)
EXTENDS DeleteBall

CONSTANTS Operation,      \* [Puts -> the operation called]
          MaxTries,       \* max_tries
          MaxConcurrency  \* max_concurrency

Operations == {"put", "put_file", "put_chunks", "put_single_chunk"}

ASSUME PutAssumption == /\ Operation \in [Puts -> Operations]
                        /\ MaxTries \in Nat
                        /\ MaxConcurrency \in Nat \ {0}
                        /\ IsFiniteSet(Chunks)

VARIABLES step,     \* put -> chunk -> where its coroutine is
          attempt   \* put -> chunk -> attempt

putVars == <<step, attempt>>
vars == <<deleteVars, putVars>>

CoStates == {"idle", "waiting", "posting", "uploading", "backoff",
             "stored", "failed"}

Init == /\ DeleteInit
        /\ step = [p \in Puts |-> [c \in Chunks |-> "idle"]]
        /\ attempt = [p \in Puts |-> [c \in Chunks |-> 1]]

Goto(p, c, s) == step' = [step EXCEPT ![p][c] = s]

(* (variant) One attempt too few.                                          *)
LoopShort(a) == IF a < MaxTries THEN "waiting" ELSE "failed"

(* The head of "while attempt <= max_tries".                               *)
Loop(a) == IF a <= MaxTries THEN "waiting" ELSE "failed"

-----------------------------------------------------------------------------
(* The call cuts its value into chunks and starts their coroutines.  Of an *)
(* empty value, put cannot make chunks (a division by zero) and cleans up, *)
(* put_file refuses the file, put_chunks has nothing to do.                *)
StartPut(p) ==
  /\ phase[p] = "idle"
  /\ phase' = [phase EXCEPT ![p] =
                 IF ChunksOf[p] = {} /\ Operation[p] = "put" THEN "listing"
                 ELSE IF ChunksOf[p] = {} /\ Operation[p] = "put_file" THEN "err"
                 ELSE "uploading"]
  /\ step' = [step EXCEPT ![p] = [c \in Chunks |->
                IF c \in ChunksOf[p] THEN Loop(1) ELSE "idle"]]
  /\ Started(p)
  /\ UNCHANGED <<meta, data, todo, told, unsure, late, attempt>>

(* (variant) A coroutine that gave up has kept its place.                  *)
HoldersForever(p) ==
  {c \in Chunks : step[p][c] \in {"posting", "uploading", "failed"}}

Holders(p) == {c \in Chunks : step[p][c] \in {"posting", "uploading"}}

(* async with semaphore                                                    *)
Acquire(p, c) ==
  /\ step[p][c] = "waiting"
  /\ Cardinality(Holders(p)) < MaxConcurrency
  /\ Goto(p, c, "posting")
  /\ UNCHANGED <<deleteVars, attempt>>

(* put_metadata: the answer names the upload tasks.  Without a task there  *)
(* is nothing to upload to and put_chunk returns Err.                      *)
PostMetadata(p, c) ==
  /\ step[p][c] = "posting"
  /\ \/ Answered("post", c, p) /\ (Goto(p, c, "uploading") \/ Goto(p, c, "backoff"))
     \/ (Refused \/ TimedOut("post", c, p)) /\ Goto(p, c, "backoff")
  /\ UNCHANGED <<phase, todo, told, unsure, attempt>>

(* (variant) The answer to the upload is not looked at.                    *)
UploadChunkBlindly(p, c) ==
  /\ step[p][c] = "uploading"
  /\ Answered("upload", c, p) \/ Refused \/ TimedOut("upload", c, p)
  /\ Goto(p, c, "stored")
  /\ UNCHANGED <<phase, todo, told, unsure, attempt>>

(* put_chunked for the first task; the other tasks are never used.         *)
UploadChunk(p, c) ==
  /\ step[p][c] = "uploading"
  /\ \/ Answered("upload", c, p) /\ Goto(p, c, "stored")
     \/ (Refused \/ TimedOut("upload", c, p)) /\ Goto(p, c, "backoff")
  /\ UNCHANGED <<phase, todo, told, unsure, attempt>>

(* (variants) The attempts are not counted; their limit is forgotten.      *)
EndBackoffUncounted(p, c) ==
  /\ step[p][c] = "backoff"
  /\ Goto(p, c, "waiting")
  /\ UNCHANGED <<deleteVars, attempt>>

EndBackoffUnlimited(p, c) ==
  /\ step[p][c] = "backoff"
  /\ attempt' = [attempt EXCEPT ![p][c] = @ + 1]
  /\ Goto(p, c, "waiting")
  /\ UNCHANGED deleteVars

(* The sleep is over, the semaphore was left before it.                    *)
EndBackoff(p, c) ==
  /\ step[p][c] = "backoff"
  /\ attempt' = [attempt EXCEPT ![p][c] = @ + 1]
  /\ Goto(p, c, Loop(attempt[p][c] + 1))
  /\ UNCHANGED deleteVars

(* (variant) gather returns as soon as one coroutine has failed.           *)
GatheredEarly(p) == \/ \E c \in ChunksOf[p] : step[p][c] = "failed"
                    \/ \A c \in ChunksOf[p] : step[p][c] = "stored"

(* gather waits for all coroutines, none of which raises.                  *)
Gathered(p) == \A c \in ChunksOf[p] : step[p][c] \in {"stored", "failed"}

FinishPut(p) ==
  /\ phase[p] = "uploading" /\ Gathered(p)
  /\ phase' = [phase EXCEPT ![p] =
                 IF \A c \in ChunksOf[p] : step[p][c] = "stored" THEN "ok"
                 ELSE IF Operation[p] = "put" THEN "listing"
                 ELSE "err"]
  /\ UNCHANGED <<meta, data, todo, told, unsure, late, rivals, putVars>>

ChunkStep(p, c) == \/ Acquire(p, c) \/ PostMetadata(p, c)
                   \/ UploadChunk(p, c) \/ EndBackoff(p, c)

PutStep(p) == FinishPut(p) \/ \E c \in Chunks : ChunkStep(p, c)

CleanStep(k) == EraseStep(k) /\ UNCHANGED putVars

CallStep(k) == (k \in Puts /\ PutStep(k)) \/ CleanStep(k)

Next == \/ \E p \in Puts : StartPut(p)
        \/ \E d \in Deletes : StartDelete(d) /\ UNCHANGED putVars
        \/ \E k \in Calls : CallStep(k)
        \/ (LateArrival \/ LateLoss) /\ UNCHANGED putVars

Spec == Init /\ [][Next]_vars

(* The event loop runs every coroutine that can go on, and every request   *)
(* has a timeout: a call that has begun goes on.  Nobody has to call.      *)
FairSpec == Spec /\ \A k \in Calls : WF_vars(CallStep(k))

-----------------------------------------------------------------------------
TypeOK ==
  /\ meta \in [Chunks -> Puts \cup {None}]
  /\ data \in [Chunks -> Puts \cup {None}]
  /\ phase \in [Calls -> {"idle", "uploading", "listing", "erasing", "ok", "err"}]
  /\ todo \in [Calls -> [Chunks -> 0..Routers]]
  /\ told \subseteq Calls
  /\ unsure \in [Calls -> SUBSET Chunks]
  /\ late \subseteq Requests
  /\ rivals \in [Calls -> SUBSET Calls]
  /\ step \in [Puts -> [Chunks -> CoStates]]
  /\ attempt \in [Puts -> [Chunks -> 1..(MaxTries + 1)]]

(***************************************************************************)
(* A put that answered Ok has stored its value: unless another call was at *)
(* work on the ball since it began, every chunk holds its metadata and its *)
(* bytes, whatever was retried, lost or still arrives of its own requests. *)
(***************************************************************************)
OkIsStored ==
  \A p \in Puts : phase[p] = "ok" /\ rivals[p] \subseteq {p}
                    => \A c \in ChunksOf[p] : meta[c] = p /\ data[c] = p

(* No two calls have been at work on the ball at once.                     *)
Sequential == \A j, k \in Calls : ~ (j \in rivals[k] /\ k \in rivals[j])

(***************************************************************************)
(* What a delete, or a failed put that cleaned up, leaves behind when the  *)
(* calls come one after the other: only chunks that it was told of and     *)
(* that no router confirmed to have deleted.  In particular no bytes are   *)
(* left without metadata, where no later delete would find them.  (A       *)
(* delete that overtakes a put between its two requests does leave some.)  *)
(***************************************************************************)
LeftoversAreUnconfirmed ==
  Sequential =>
    \A k \in told : phase[k] \in {"ok", "err"} /\ rivals[k] = {}
      => \A c \in Chunks : meta[c] # None \/ data[c] # None
                             => c \in unsure[k]

(***************************************************************************)
(* A put gives up only when some chunk has failed MaxTries times: a        *)
(* failure is never final earlier, and never final for another chunk.      *)
(***************************************************************************)
ErrOnlyAfterAllTries ==
  \A p \in Puts : ChunksOf[p] # {} /\ phase[p] \in {"listing", "erasing", "err"}
    => \E c \in ChunksOf[p] : step[p][c] = "failed" /\ attempt[p][c] = MaxTries + 1

(* The steps a coroutine still has ahead of it when all its tries fail.    *)
StepsLeft(p, c) ==
  LET left(n) == 4 * (MaxTries - attempt[p][c]) + n
  IN  CASE step[p][c] = "waiting"   -> left(4)
        [] step[p][c] = "posting"   -> left(3)
        [] step[p][c] = "uploading" -> left(2)
        [] step[p][c] = "backoff"   -> left(1)
        [] OTHER                    -> 0

StagesLeft(k) == CASE phase[k] = "uploading" -> 3
                   [] phase[k] = "listing"   -> 2
                   [] phase[k] = "erasing"   -> 1
                   [] OTHER                  -> 0

(***************************************************************************)
(* The work of a call that has begun only shrinks: each step of its own    *)
(* takes it to a later stage, takes a router off a chunk to erase, or uses *)
(* up one of the four steps of each of a coroutine's tries; and no step of *)
(* another call, no timeout and no late arrival gives any of it back.      *)
(***************************************************************************)
WorkShrinks ==
  [][\A k \in Calls : Running(k) =>
       /\ StagesLeft(k)' <= StagesLeft(k)
       /\ phase'[k] = phase[k] => \A c \in Chunks : todo'[k][c] <= todo[k][c]
       /\ k \in Puts => \A c \in Chunks : StepsLeft(k, c)' <= StepsLeft(k, c)
       /\ CallStep(k) =>
            \/ StagesLeft(k)' < StagesLeft(k)
            \/ \E c \in Chunks :
                  \/ todo'[k][c] < todo[k][c]
                  \/ k \in Puts /\ StepsLeft(k, c)' < StepsLeft(k, c)]_vars

(***************************************************************************)
(* Every call that begins returns: retries, backoff, the semaphore and the *)
(* cleanup come to an end.                                                 *)
(***************************************************************************)
Terminates == \A k \in Calls : Running(k) ~> phase[k] \in {"ok", "err"}

(***************************************************************************)
(* Seen from the storage the writers keep the promise of BallStore, when   *)
(* no timed-out request outlives its call: all their effects fall between  *)
(* call and return, uploads never follow an erasure of the same call, and  *)
(* Ok means that every chunk was acknowledged.                             *)
(***************************************************************************)
Promise == INSTANCE BallStore WITH
  phase <- [k \in Calls |-> IF phase[k] = "listing" THEN "erasing" ELSE phase[k]],
  tasks <- [p \in Puts |-> {c \in Chunks : step[p][c] = "uploading"}],
  acked <- [p \in Puts |-> {c \in Chunks : step[p][c] = "stored"}]

KeepsPromise == Promise!StoreSpec

(***************************************************************************)
(* What the message "Failed to delete a chunk, please try again."          *)
(* (asyncx/__init__.py:1042) says of delete: Ok means that no chunk        *)
(* failed to be deleted.                                                   *)
(***************************************************************************)
DeleteOkMeansGone ==
  \A d \in Deletes : phase[d] = "ok" /\ rivals[d] = {}
                       => \A c \in Chunks : meta[c] = None /\ data[c] = None
=============================================================================
