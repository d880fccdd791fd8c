------------------------------ MODULE BallStore ------------------------------
(***************************************************************************)
(* What the storage sees of the client's writers, whatever their retries,  *)
(* concurrency limits and lost replies: the promise of put and delete.     *)
(*                                                                         *)
(* One ball of a virtual storage space holds, per chunk index, a metadata  *)
(* record and the bytes uploaded for it.  Both are named by the put that   *)
(* produced them.  A put posts metadata, is handed an upload task, uploads *)
(* the bytes; it answers Ok only when every chunk of its value has been    *)
(* acknowledged.  Nothing touches the ball outside a running call, and a   *)
(* call that has begun to erase never uploads again.                       *)
(***************************************************************************)
CONSTANTS Puts,      \* calls of put, put_file, put_chunks, put_single_chunk
          Deletes,   \* calls of delete
          Chunks,    \* chunk indices
          ChunksOf,  \* [Puts -> SUBSET Chunks], the chunks of each value
          None       \* nothing stored

ASSUME StoreAssumption == /\ Puts \cap Deletes = {}
                          /\ None \notin Puts
                          /\ ChunksOf \in [Puts -> SUBSET Chunks]

Calls == Puts \cup Deletes

VARIABLES meta,   \* chunk index -> the put whose metadata is stored
          data,   \* chunk index -> the put whose bytes are stored
          phase,  \* call -> how far it is
          tasks,  \* put  -> chunks it holds an upload task for
          acked   \* put  -> chunks whose upload was acknowledged

storeVars == <<meta, data, phase, tasks, acked>>

StoreInit == /\ meta = [c \in Chunks |-> None]
             /\ data = [c \in Chunks |-> None]
             /\ phase = [k \in Calls |-> "idle"]
             /\ tasks = [p \in Puts |-> {}]
             /\ acked = [p \in Puts |-> {}]

Become(k, from, to) == /\ phase[k] = from
                       /\ phase' = [phase EXCEPT ![k] = to]

Begin(k) == /\ Become(k, "idle", IF k \in Puts THEN "uploading" ELSE "erasing")
            /\ UNCHANGED <<meta, data, tasks, acked>>

(* The metadata arrives; its reply, with the task, may be lost.            *)
Post(p, c) == /\ phase[p] = "uploading" /\ c \in ChunksOf[p] \ acked[p]
              /\ meta' = [meta EXCEPT ![c] = p]
              /\ \/ tasks' = [tasks EXCEPT ![p] = @ \cup {c}]
                 \/ UNCHANGED tasks
              /\ UNCHANGED <<data, phase, acked>>

(* A task is good for one upload, which is acknowledged, arrives           *)
(* unacknowledged, or does not arrive.                                     *)
Upload(p, c) == /\ phase[p] = "uploading" /\ c \in tasks[p]
                /\ tasks' = [tasks EXCEPT ![p] = @ \ {c}]
                /\ \/ /\ data' = [data EXCEPT ![c] = p]
                      /\ \/ acked' = [acked EXCEPT ![p] = @ \cup {c}]
                         \/ UNCHANGED acked
                   \/ UNCHANGED <<data, acked>>
                /\ UNCHANGED <<meta, phase>>

(* A put that has run out of attempts, or was given a value it cannot cut, *)
(* turns to cleaning up.                                                   *)
GiveUp(p) == /\ p \in Puts
             /\ tasks[p] = {}
             /\ \/ Become(p, "uploading", "erasing")
                \/ Become(p, "idle", "erasing")
             /\ UNCHANGED <<meta, data, tasks, acked>>

Erase(k, c) == /\ phase[k] = "erasing"
               /\ meta' = [meta EXCEPT ![c] = None]
               /\ data' = [data EXCEPT ![c] = None]
               /\ UNCHANGED <<phase, tasks, acked>>

ReturnOk(k) == /\ IF k \in Puts
                  THEN /\ acked[k] = ChunksOf[k]
                       /\ Become(k, "uploading", "ok")
                  ELSE Become(k, "erasing", "ok")
               /\ UNCHANGED <<meta, data, tasks, acked>>

ReturnErr(k) == /\ k \in Puts => tasks[k] = {}
                /\ \/ /\ k \in Puts
                      /\ Become(k, "uploading", "err") \/ Become(k, "idle", "err")
                   \/ Become(k, "erasing", "err")
                /\ UNCHANGED <<meta, data, tasks, acked>>

StoreNext ==
  \/ \E p \in Puts, c \in Chunks : Post(p, c) \/ Upload(p, c)
  \/ \E p \in Puts : GiveUp(p)
  \/ \E k \in Calls, c \in Chunks : Erase(k, c)
  \/ \E k \in Calls : Begin(k) \/ ReturnOk(k) \/ ReturnErr(k)

StoreSpec == StoreInit /\ [][StoreNext]_storeVars
=============================================================================
