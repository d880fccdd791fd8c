----------------------------- MODULE DeleteBall -----------------------------
(***************************************************************************)
(* AsyncClient.delete (asyncx/__init__.py): list the chunks of a ball      *)
(* through one router, then delete every listed chunk through every router *)
(* of the client, all chunks concurrently, the routers of a chunk one      *)
(* after the other.  delete is called by the application and, to clean up, *)
(* by a put that failed.                                                   *)
(*                                                                         *)
(* The routers belong to one virtual storage space and share its storage.  *)
(* A request is answered, is refused, or times out.  What a timed-out      *)
(* request still does to the storage happens at once or, when LateRequests *)
(* holds, at any later time, once or repeatedly.                           *)
(***************************************************************************)
EXTENDS Naturals, FiniteSets

CONSTANTS Puts, Deletes,  \* calls of put and of delete, disjoint
          Chunks,         \* chunk indices
          ChunksOf,       \* [Puts -> SUBSET Chunks], the chunks of each value
          None,           \* nothing stored
          Routers,        \* number of routers of the client
          LateRequests    \* do timed-out requests linger?

ASSUME DeleteAssumption == /\ Puts \cap Deletes = {}
                           /\ None \notin Puts
                           /\ ChunksOf \in [Puts -> SUBSET Chunks]
                           /\ Routers \in Nat \ {0}
                           /\ LateRequests \in BOOLEAN

Calls == Puts \cup Deletes

VARIABLES meta,    \* chunk -> the put whose metadata is stored, or None
          data,    \* chunk -> the put whose bytes are stored, or None
          phase,   \* call  -> "idle", "uploading", "listing", "erasing",
                   \*          "ok", "err"
          todo,    \* call  -> chunk -> routers still to be asked to delete
          told,    \* history: the calls that have been given a list of chunks
          unsure,  \* history: call -> the chunks on that list that no router
                   \*          has answered to have deleted
          late,    \* timed-out requests that may still arrive
          rivals   \* history: call -> calls active during or after it, and
                   \*          itself once a request of its lingers

deleteVars == <<meta, data, phase, todo, told, unsure, late, rivals>>

Requests == [by : Calls, op : {"post", "upload", "erase"}, chunk : Chunks]

Request(k, op, c) == [by |-> k, op |-> op, chunk |-> c]

Running(k) == phase[k] \in {"uploading", "listing", "erasing"}

(* A call acts on the storage while it runs and while a request of its     *)
(* lingers.                                                                *)
Active(k) == Running(k) \/ \E r \in late : r.by = k

(* What the storage does with a request.                                   *)
Effect(op, c, k) ==
  CASE op = "post"   -> meta' = [meta EXCEPT ![c] = k] /\ UNCHANGED data
    [] op = "upload" -> data' = [data EXCEPT ![c] = k] /\ UNCHANGED meta
    [] op = "erase"  -> /\ meta' = [meta EXCEPT ![c] = None]
                        /\ data' = [data EXCEPT ![c] = None]

Answered(op, c, k) == Effect(op, c, k) /\ UNCHANGED <<late, rivals>>

Refused == UNCHANGED <<meta, data, late, rivals>>

TimedOut(op, c, k) ==
  IF LateRequests
  THEN /\ late' = late \cup {Request(k, op, c)}
       /\ rivals' = [rivals EXCEPT ![k] = @ \cup {k}]
       /\ UNCHANGED <<meta, data>>
  ELSE Answered(op, c, k)

(* The history of who may interfere with whom, kept when a call starts.    *)
Started(k) ==
  rivals' = [j \in Calls |->
               IF j = k THEN {i \in Calls \ {k} : Active(i)}
               ELSE IF phase[j] = "idle" THEN rivals[j] ELSE rivals[j] \cup {k}]

-----------------------------------------------------------------------------
DeleteInit == /\ meta = [c \in Chunks |-> None]
              /\ data = [c \in Chunks |-> None]
              /\ phase = [k \in Calls |-> "idle"]
              /\ todo = [k \in Calls |-> [c \in Chunks |-> 0]]
              /\ told = {}
              /\ unsure = [k \in Calls |-> {}]
              /\ late = {}
              /\ rivals = [k \in Calls |-> {}]

(* The application calls delete: the list of chunks is asked for.          *)
StartDelete(d) == /\ phase[d] = "idle"
                  /\ phase' = [phase EXCEPT ![d] = "listing"]
                  /\ Started(d)
                  /\ UNCHANGED <<meta, data, todo, told, unsure, late>>

(* router.get_chunks_metadata answers: one delete_by_key per chunk that    *)
(* has metadata, each with all the routers ahead of it.                    *)
ListChunks(k) ==
  LET found == {c \in Chunks : meta[c] # None}
  IN  /\ phase[k] = "listing"
      /\ phase' = [phase EXCEPT ![k] = "erasing"]
      /\ told' = told \cup {k}
      /\ unsure' = [unsure EXCEPT ![k] = found]
      /\ todo' = [todo EXCEPT ![k] = [c \in Chunks |->
                                        IF c \in found THEN Routers ELSE 0]]
      /\ UNCHANGED <<meta, data, late, rivals>>

(* The list cannot be had: delete returns Err, and so does the put it was  *)
(* cleaning up for.                                                        *)
ListFails(k) == /\ phase[k] = "listing"
                /\ phase' = [phase EXCEPT ![k] = "err"]
                /\ UNCHANGED <<meta, data, todo, told, unsure, late, rivals>>

(* (variant) A router that refuses is asked again.                         *)
EraseChunkAgain(k, c) ==
  /\ phase[k] = "erasing" /\ todo[k][c] > 0
  /\ \/ Answered("erase", c, k) /\ unsure' = [unsure EXCEPT ![k] = @ \ {c}]
                                /\ todo' = [todo EXCEPT ![k][c] = @ - 1]
     \/ (Refused \/ TimedOut("erase", c, k)) /\ UNCHANGED <<unsure, todo>>
  /\ UNCHANGED <<phase, told>>

(* delete_by_key asks the next router.  A failure is logged and noted in a *)
(* list nobody reads; the next router is asked all the same.               *)
EraseChunk(k, c) ==
  /\ phase[k] = "erasing" /\ todo[k][c] > 0
  /\ todo' = [todo EXCEPT ![k][c] = @ - 1]
  /\ \/ Answered("erase", c, k) /\ unsure' = [unsure EXCEPT ![k] = @ \ {c}]
     \/ Refused /\ UNCHANGED unsure
     \/ TimedOut("erase", c, k) /\ UNCHANGED unsure
  /\ UNCHANGED <<phase, told>>

(* All delete_by_key calls have returned, each with Ok whatever happened:  *)
(* delete returns Ok.  A put returns the error that made it clean up.      *)
FinishErase(k) ==
  /\ phase[k] = "erasing" /\ \A c \in Chunks : todo[k][c] = 0
  /\ phase' = [phase EXCEPT ![k] = IF k \in Deletes THEN "ok" ELSE "err"]
  /\ UNCHANGED <<meta, data, todo, told, unsure, late, rivals>>

EraseStep(k) == \/ ListChunks(k) \/ ListFails(k) \/ FinishErase(k)
                \/ \E c \in Chunks : EraseChunk(k, c)

(* A request that its sender has given up on arrives, and may have been    *)
(* sent more than once; or it never will.                                  *)
LateArrival == /\ \E r \in late : Effect(r.op, r.chunk, r.by)
               /\ UNCHANGED <<phase, todo, told, unsure, late, rivals>>

LateLoss == /\ \E r \in late : late' = late \ {r}
            /\ UNCHANGED <<meta, data, phase, todo, told, unsure, rivals>>
=============================================================================
