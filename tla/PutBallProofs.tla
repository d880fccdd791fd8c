---------------------------- MODULE PutBallProofs ----------------------------
(***************************************************************************)
(* For any number of calls, chunks, routers, tries and places in the       *)
(* semaphore, with or without lingering requests: types, the retry limit,  *)
(* that a put which answered Ok has stored its value, what a deletion      *)
(* leaves, that what is left to do shrinks and nobody waits in vain; and,  *)
(* when no request outlives its call, that the writers implement           *)
(* BallStore.                                                              *)
(***************************************************************************)
EXTENDS PutBall, FiniteSetTheorems, TLAPS

-----------------------------------------------------------------------------
(* Types.  A lingering post or upload was sent by a put; a coroutine that  *)
(* is at work has a try left, one that failed has used them up.            *)

LateFromPuts == \A r \in late : r.op # "erase" => r.by \in Puts

TriesInv ==
  \A p \in Puts, c \in Chunks :
    /\ step[p][c] \in {"waiting", "posting", "uploading", "backoff"}
         => attempt[p][c] <= MaxTries
    /\ step[p][c] = "failed" => attempt[p][c] = MaxTries + 1
    /\ phase[p] = "idle" => attempt[p][c] = 1 /\ step[p][c] = "idle"

TypeInv == TypeOK /\ LateFromPuts /\ TriesInv

StoreTypes == /\ meta \in [Chunks -> Puts \cup {None}]
              /\ data \in [Chunks -> Puts \cup {None}]
              /\ late \subseteq Requests
              /\ LateFromPuts
              /\ rivals \in [Calls -> SUBSET Calls]

CallTypes ==
  /\ phase \in [Calls -> {"idle", "uploading", "listing", "erasing", "ok", "err"}]
  /\ todo \in [Calls -> [Chunks -> 0..Routers]]
  /\ told \subseteq Calls
  /\ unsure \in [Calls -> SUBSET Chunks]

CoTypes == /\ step \in [Puts -> [Chunks -> CoStates]]
           /\ attempt \in [Puts -> [Chunks -> 1..(MaxTries + 1)]]
           /\ TriesInv

LEMMA TypeParts == TypeInv <=> StoreTypes /\ CallTypes /\ CoTypes
BY DEF TypeInv, TypeOK, StoreTypes, CallTypes, CoTypes

(* Whatever becomes of a request, the storage stays well typed.            *)
LEMMA EffectTypes ==
  ASSUME NEW op \in {"post", "upload", "erase"}, NEW c \in Chunks,
         NEW k \in Calls, op # "erase" => k \in Puts,
         meta \in [Chunks -> Puts \cup {None}],
         data \in [Chunks -> Puts \cup {None}],
         Effect(op, c, k)
  PROVE  /\ meta' \in [Chunks -> Puts \cup {None}]
         /\ data' \in [Chunks -> Puts \cup {None}]
BY DEF Effect

LEMMA RequestTypes ==
  ASSUME StoreTypes, NEW op \in {"post", "upload", "erase"}, NEW c \in Chunks,
         NEW k \in Calls, op # "erase" => k \in Puts,
         Answered(op, c, k) \/ Refused \/ TimedOut(op, c, k)
  PROVE  StoreTypes'
<1> USE DEF StoreTypes, LateFromPuts
<1>1. CASE Answered(op, c, k)
  BY <1>1, EffectTypes DEF Answered
<1>2. CASE Refused
  BY <1>2 DEF Refused
<1>3. CASE TimedOut(op, c, k) /\ ~ Answered(op, c, k)
  <2>1. /\ late' = late \cup {Request(k, op, c)}
        /\ rivals' = [rivals EXCEPT ![k] = @ \cup {k}]
        /\ UNCHANGED <<meta, data>>
    BY <1>3 DEF TimedOut
  <2>2. /\ Request(k, op, c) \in Requests
        /\ Request(k, op, c).op = op /\ Request(k, op, c).by = k
    BY DEF Request, Requests
  <2> QED
    BY <2>1, <2>2
<1> QED
  BY <1>1, <1>2, <1>3

LEMMA StartedTypes ==
  ASSUME NEW k \in Calls, StoreTypes, Started(k), UNCHANGED <<meta, data, late>>
  PROVE  StoreTypes'
BY DEF Started, StoreTypes, LateFromPuts

(* Moving one coroutine to a state its attempts allow.                     *)
LEMMA GotoTypes ==
  ASSUME CoTypes, NEW p \in Puts, NEW c \in Chunks, NEW s \in CoStates,
         Goto(p, c, s), UNCHANGED <<phase, attempt>>,
         attempt[p][c] <= MaxTries, s # "failed", step[p][c] # "idle"
  PROVE  CoTypes'
BY DEF CoTypes, TriesInv, Goto

LEMMA TypeInvariant == Spec => []TypeInv
<1> USE DeleteAssumption, PutAssumption DEF Calls
<1>1. Init => TypeInv
  BY DEF Init, DeleteInit, TypeInv, TypeOK, LateFromPuts, TriesInv, CoStates
<1>2. TypeInv /\ [Next]_vars => TypeInv'
  <2> SUFFICES ASSUME StoreTypes, CallTypes, CoTypes, [Next]_vars
               PROVE  StoreTypes' /\ CallTypes' /\ CoTypes'
    BY TypeParts, PTL
  <2>1. ASSUME NEW p \in Puts, StartPut(p)
        PROVE  StoreTypes' /\ CallTypes' /\ CoTypes'
    <3>1. StoreTypes'
      BY <2>1, StartedTypes DEF StartPut
    <3>2. CallTypes'
      BY <2>1 DEF StartPut, CallTypes
    <3>3. CoTypes'
      BY <2>1 DEF StartPut, CoTypes, CallTypes, TriesInv, Loop, CoStates
    <3> QED
      BY <3>1, <3>2, <3>3
  <2>2. ASSUME NEW d \in Deletes, StartDelete(d), UNCHANGED putVars
        PROVE  StoreTypes' /\ CallTypes' /\ CoTypes'
    <3>1. StoreTypes'
      BY <2>2, StartedTypes DEF StartDelete
    <3>2. CallTypes'
      BY <2>2 DEF StartDelete, CallTypes
    <3>3. CoTypes'
      BY <2>2 DEF StartDelete, CoTypes, CallTypes, TriesInv, putVars
    <3> QED
      BY <3>1, <3>2, <3>3
  <2>3. ASSUME NEW p \in Puts, NEW c \in Chunks, ChunkStep(p, c)
        PROVE  StoreTypes' /\ CallTypes' /\ CoTypes'
    <3>1. CASE Acquire(p, c)
      <4>1. attempt[p][c] <= MaxTries /\ step[p][c] # "idle"
        BY <3>1 DEF Acquire, CoTypes, TriesInv
      <4>2. CoTypes'
        BY <3>1, <4>1, GotoTypes DEF Acquire, CoStates, deleteVars
      <4> QED
        BY <3>1, <4>2 DEF Acquire, deleteVars, StoreTypes, CallTypes, LateFromPuts
    <3>2. CASE PostMetadata(p, c)
      <4>1. attempt[p][c] <= MaxTries /\ step[p][c] # "idle"
        BY <3>2 DEF PostMetadata, CoTypes, TriesInv
      <4>2. CoTypes'
        BY <3>2, <4>1, GotoTypes DEF PostMetadata, CoStates
      <4>3. StoreTypes'
        BY <3>2, RequestTypes DEF PostMetadata
      <4> QED
        BY <3>2, <4>2, <4>3 DEF PostMetadata, CallTypes
    <3>3. CASE UploadChunk(p, c)
      <4>1. attempt[p][c] <= MaxTries /\ step[p][c] # "idle"
        BY <3>3 DEF UploadChunk, CoTypes, TriesInv
      <4>2. CoTypes'
        BY <3>3, <4>1, GotoTypes DEF UploadChunk, CoStates
      <4>3. StoreTypes'
        BY <3>3, RequestTypes DEF UploadChunk
      <4> QED
        BY <3>3, <4>2, <4>3 DEF UploadChunk, CallTypes
    <3>4. CASE EndBackoff(p, c)
      <4>1. attempt[p][c] \in 1..MaxTries /\ phase[p] # "idle"
        BY <3>4 DEF EndBackoff, CoTypes, TriesInv
      <4>2. CoTypes'
        BY <3>4, <4>1
        DEF EndBackoff, Goto, CoTypes, TriesInv, Loop, CoStates, deleteVars
      <4> QED
        BY <3>4, <4>2 DEF EndBackoff, deleteVars, StoreTypes, CallTypes, LateFromPuts
    <3> QED
      BY <2>3, <3>1, <3>2, <3>3, <3>4 DEF ChunkStep
  <2>4. ASSUME NEW p \in Puts, FinishPut(p)
        PROVE  StoreTypes' /\ CallTypes' /\ CoTypes'
    BY <2>4 DEF FinishPut, putVars, StoreTypes, CallTypes, CoTypes, LateFromPuts,
                TriesInv
  <2>5. ASSUME NEW k \in Calls, ListChunks(k), UNCHANGED putVars
        PROVE  StoreTypes' /\ CallTypes' /\ CoTypes'
    <3> DEFINE found == {c \in Chunks : meta[c] # None}
               ahead == [c \in Chunks |-> IF c \in found THEN Routers ELSE 0]
    <3>0. found \in SUBSET Chunks /\ ahead \in [Chunks -> 0..Routers]
      OBVIOUS
    <3>1. CallTypes'
      <4>1. /\ phase' = [phase EXCEPT ![k] = "erasing"]
            /\ told' = told \cup {k}
            /\ unsure' = [unsure EXCEPT ![k] = found]
            /\ todo' = [todo EXCEPT ![k] = ahead]
        BY <2>5 DEF ListChunks
      <4> QED
        BY <3>0, <4>1 DEF CallTypes
    <3> QED
      BY <2>5, <3>1 DEF ListChunks, putVars, StoreTypes, CoTypes, CallTypes,
                        LateFromPuts, TriesInv
  <2>6. ASSUME NEW k \in Calls, ListFails(k) \/ FinishErase(k), UNCHANGED putVars
        PROVE  StoreTypes' /\ CallTypes' /\ CoTypes'
    <3>1. PICK s \in {"ok", "err"} :
            /\ phase' = [phase EXCEPT ![k] = s]
            /\ UNCHANGED <<meta, data, todo, told, unsure, late, rivals>>
      BY <2>6 DEF ListFails, FinishErase
    <3>2. CallTypes' /\ StoreTypes'
      BY <3>1 DEF CallTypes, StoreTypes, LateFromPuts
    <3>3. CoTypes'
      BY <2>6, <3>1 DEF CallTypes, CoTypes, TriesInv, putVars
    <3> QED
      BY <3>2, <3>3
  <2>7. ASSUME NEW k \in Calls, NEW c \in Chunks, EraseChunk(k, c),
               UNCHANGED putVars
        PROVE  StoreTypes' /\ CallTypes' /\ CoTypes'
    <3>1. StoreTypes'
      BY <2>7, RequestTypes DEF EraseChunk
    <3>2. CallTypes'
      <4>1. todo' \in [Calls -> [Chunks -> 0..Routers]]
        BY <2>7 DEF EraseChunk, CallTypes
      <4>2. unsure' \in [Calls -> SUBSET Chunks]
        BY <2>7 DEF EraseChunk, CallTypes
      <4> QED
        BY <2>7, <4>1, <4>2 DEF EraseChunk, CallTypes
    <3>3. CoTypes'
      BY <2>7 DEF EraseChunk, putVars, CoTypes, TriesInv
    <3> QED
      BY <3>1, <3>2, <3>3
  <2>8. CASE (LateArrival \/ LateLoss) /\ UNCHANGED putVars
    <3>1. CASE LateArrival
      <4>1. PICK r \in late : Effect(r.op, r.chunk, r.by)
        BY <3>1 DEF LateArrival
      <4>2. /\ r.op \in {"post", "upload", "erase"} /\ r.chunk \in Chunks
            /\ r.by \in Calls /\ (r.op # "erase" => r.by \in Puts)
        BY DEF StoreTypes, Requests, LateFromPuts
      <4>3. StoreTypes'
        BY <3>1, <4>1, <4>2, EffectTypes DEF LateArrival, StoreTypes, LateFromPuts
      <4> QED
        BY <2>8, <3>1, <4>3 DEF LateArrival, putVars, CallTypes, CoTypes, TriesInv
    <3>2. CASE LateLoss
      BY <2>8, <3>2 DEF LateLoss, putVars, StoreTypes, CallTypes, CoTypes,
                        LateFromPuts, TriesInv
    <3> QED
      BY <2>8, <3>1, <3>2
  <2>9. CASE UNCHANGED vars
    BY <2>9 DEF vars, deleteVars, putVars, StoreTypes, CallTypes, CoTypes,
                LateFromPuts, TriesInv
  <2> QED
    BY <2>1, <2>2, <2>3, <2>4, <2>5, <2>6, <2>7, <2>8, <2>9
    DEF Next, CallStep, PutStep, CleanStep, EraseStep
<1> QED
  BY <1>1, <1>2, PTL DEF Spec

(* Every state of the writers and of the storage is well typed; in         *)
(* particular no coroutine ever makes more than MaxTries attempts.         *)
THEOREM TypeCorrect == Spec => []TypeOK
BY TypeInvariant, PTL DEF TypeInv

-----------------------------------------------------------------------------
(* What was answered Ok is stored.  OkIsStored speaks of the end of a call *)
(* only; what holds all along is that a coroutine past its metadata owns   *)
(* the metadata of its chunk, and one that is done its bytes too (Kept),   *)
(* because everybody who could change that is a recorded rival             *)
(* (RivalsKnown) and a put's own lingering requests never erase while it   *)
(* may still succeed (LateInv).                                            *)

Kept == \A p \in Puts, c \in Chunks :
          rivals[p] \subseteq {p} /\ phase[p] \in {"uploading", "ok"}
            => /\ step[p][c] \in {"uploading", "stored"} => meta[c] = p
               /\ step[p][c] = "stored" => data[c] = p

RivalsKnown == \A p \in Puts, k \in Calls :
                 phase[p] # "idle" /\ k # p /\ Active(k) => k \in rivals[p]

LateInv == \A r \in late :
             /\ phase[r.by] # "idle"
             /\ r.op = "erase" /\ r.by \in Puts
                  => phase[r.by] \notin {"uploading", "ok"}

Working == \A p \in Puts, c \in Chunks :
             /\ step[p][c] # "idle" => c \in ChunksOf[p]
             /\ step[p][c] \in {"waiting", "posting", "uploading", "backoff"}
                  => phase[p] = "uploading"

OkIsAll == \A p \in Puts : phase[p] = "ok"
             => \A c \in ChunksOf[p] : step[p][c] = "stored"

StoredInv == Kept /\ RivalsKnown /\ LateInv /\ Working /\ OkIsAll

(* A request of a running call, whatever becomes of it, adds no rival that *)
(* was not known and takes nothing from a put without rivals.              *)
LEMMA RequestKeeps ==
  ASSUME TypeInv, StoredInv, UNCHANGED phase,
         NEW op \in {"post", "upload", "erase"}, NEW c \in Chunks,
         NEW k \in Calls, Running(k), op # "erase" => k \in Puts,
         op = "erase" => phase[k] = "erasing",
         Answered(op, c, k) \/ Refused \/ TimedOut(op, c, k)
  PROVE  /\ RivalsKnown' /\ LateInv'
         /\ \A p \in Puts, d \in Chunks :
              rivals'[p] \subseteq {p} /\ phase[p] \in {"uploading", "ok"}
                => /\ step[p][d] \in {"uploading", "stored"} => meta'[d] = p
                   /\ step[p][d] = "stored" => data'[d] = p
<1> USE DEF TypeInv, TypeOK
<1>1. /\ late \subseteq Requests /\ rivals \in [Calls -> SUBSET Calls]
      /\ meta \in [Chunks -> Puts \cup {None}]
      /\ data \in [Chunks -> Puts \cup {None}]
  OBVIOUS
<1>2. \/ UNCHANGED <<late, rivals>>
      \/ /\ late' = late \cup {Request(k, op, c)}
         /\ rivals' = [rivals EXCEPT ![k] = @ \cup {k}]
         /\ UNCHANGED <<meta, data>>
  BY DEF Answered, Refused, TimedOut
<1>3. \A q \in Calls : rivals[q] \subseteq rivals'[q]
  <2>1. CASE rivals' = rivals
    BY <2>1
  <2>2. CASE rivals' = [rivals EXCEPT ![k] = @ \cup {k}]
    <3> SUFFICES ASSUME NEW q \in Calls
                 PROVE  rivals'[q] = IF q = k THEN rivals[q] \cup {k} ELSE rivals[q]
      OBVIOUS
    <3> QED
      BY <1>1, <2>2
  <2> QED
    BY <1>2, <2>1, <2>2
<1>4. \A j \in Calls : Active(j)' => Active(j)
  BY <1>1, <1>2 DEF Active, Running, Request
<1>5. RivalsKnown'
  BY <1>3, <1>4 DEF StoredInv, RivalsKnown, Calls
<1>6. LateInv'
  BY <1>2 DEF StoredInv, LateInv, Request, Running
<1>7. ASSUME NEW p \in Puts, NEW d \in Chunks,
             rivals'[p] \subseteq {p}, phase[p] \in {"uploading", "ok"}
      PROVE  /\ step[p][d] \in {"uploading", "stored"} => meta'[d] = p
             /\ step[p][d] = "stored" => data'[d] = p
  <2>1. rivals[p] \subseteq {p}
    BY <1>3, <1>7 DEF Calls
  <2>2. /\ step[p][d] \in {"uploading", "stored"} => meta[d] = p
        /\ step[p][d] = "stored" => data[d] = p
    BY <1>7, <2>1 DEF StoredInv, Kept
  <2>3. k = p
    BY <1>7, <2>1 DEF StoredInv, RivalsKnown, Active
  <2>4. op # "erase"
    BY <1>7, <2>3
  <2>5. \/ UNCHANGED <<meta, data>>
        \/ op = "post" /\ meta' = [meta EXCEPT ![c] = p] /\ UNCHANGED data
        \/ op = "upload" /\ data' = [data EXCEPT ![c] = p] /\ UNCHANGED meta
    BY <2>3, <2>4 DEF Answered, Refused, TimedOut, Effect
  <2> QED
    BY <1>1, <2>2, <2>5
<1> QED
  BY <1>5, <1>6, <1>7

(* A call that starts becomes a rival of every call that has begun.        *)
LEMMA StartKeeps ==
  ASSUME TypeInv, StoredInv, NEW k \in Calls, phase[k] = "idle", Started(k),
         NEW s, s # "idle", phase' = [phase EXCEPT ![k] = s],
         UNCHANGED <<meta, data, late>>
  PROVE  /\ RivalsKnown' /\ LateInv'
         /\ \A p \in Puts : p # k /\ phase[p] # "idle" => k \in rivals'[p]
<1> USE DEF TypeInv, TypeOK
<1>1. phase \in [Calls -> {"idle", "uploading", "listing", "erasing", "ok", "err"}]
  OBVIOUS
<1>2. \A j \in Calls : Active(j)' => Active(j) \/ j = k
  BY <1>1 DEF Active, Running
<1>3. \A p \in Puts : p # k /\ phase[p] # "idle"
        => rivals'[p] = rivals[p] \cup {k}
  BY DEF Started, Calls
<1>4. rivals'[k] = {i \in Calls \ {k} : Active(i)}
  BY DEF Started
<1>5. RivalsKnown'
  <2> SUFFICES ASSUME NEW p \in Puts, NEW j \in Calls,
                      phase'[p] # "idle", j # p, Active(j)'
               PROVE  j \in rivals'[p]
    BY DEF RivalsKnown
  <2>1. CASE p = k
    BY <1>2, <1>4, <2>1
  <2>2. CASE p # k
    BY <1>1, <1>2, <1>3, <2>2 DEF StoredInv, RivalsKnown, Calls
  <2> QED
    BY <2>1, <2>2
<1>6. LateInv'
  <2> SUFFICES ASSUME NEW r \in late
               PROVE  /\ phase'[r.by] # "idle"
                      /\ r.op = "erase" /\ r.by \in Puts
                           => phase'[r.by] \notin {"uploading", "ok"}
    BY DEF LateInv
  <2>1. r.by \in Calls /\ phase[r.by] # "idle"
    BY DEF StoredInv, LateInv, Requests
  <2> QED
    BY <1>1, <2>1 DEF StoredInv, LateInv
<1> QED
  BY <1>3, <1>5, <1>6
LEMMA StoredInvariant == Spec => []StoredInv
<1> USE DeleteAssumption, PutAssumption DEF Calls
<1>1. Init => StoredInv
  BY DEF Init, DeleteInit, StoredInv, Kept, RivalsKnown, LateInv, Working,
         OkIsAll, Active, Running
<1>2. TypeInv /\ StoredInv /\ [Next]_vars => StoredInv'
  <2> SUFFICES ASSUME TypeInv, StoredInv, [Next]_vars
               PROVE  StoredInv'
    OBVIOUS
  <2> USE DEF TypeInv, TypeOK
  <2>0. /\ phase \in [Calls -> {"idle", "uploading", "listing", "erasing", "ok", "err"}]
        /\ step \in [Puts -> [Chunks -> CoStates]]
        /\ \A p \in Puts : ChunksOf[p] \subseteq Chunks
    OBVIOUS
  <2>1. ASSUME NEW p \in Puts, StartPut(p)
        PROVE  StoredInv'
    <3>1. PICK s \in {"uploading", "listing", "err"} :
            phase' = [phase EXCEPT ![p] = s]
      BY <2>1 DEF StartPut
    <3>2. /\ phase[p] = "idle" /\ Started(p) /\ UNCHANGED <<meta, data, late>>
          /\ step' = [step EXCEPT ![p] = [c \in Chunks |->
                        IF c \in ChunksOf[p] THEN Loop(1) ELSE "idle"]]
          /\ s \in {"listing", "err"} => ChunksOf[p] = {}
      BY <2>1, <3>1 DEF StartPut
    <3>3. /\ RivalsKnown' /\ LateInv'
          /\ \A q \in Puts : q # p /\ phase[q] # "idle" => p \in rivals'[q]
      BY <3>1, <3>2, StartKeeps
    <3>4. \A c \in Chunks : step'[p][c] \in {"idle", "waiting", "failed"}
      BY <2>0, <3>2 DEF Loop
    <3>5. /\ phase'[p] = s
          /\ \A q \in Puts : q # p => phase'[q] = phase[q] /\ step'[q] = step[q]
      BY <2>0, <3>1, <3>2
    <3> HIDE DEF TypeInv
    <3>6. Kept'
      <4> SUFFICES ASSUME NEW q \in Puts, NEW d \in Chunks,
                          rivals'[q] \subseteq {q}, phase'[q] \in {"uploading", "ok"}
                   PROVE  step'[q][d] \notin {"uploading", "stored"}
        BY DEF Kept
      <4>1. CASE q = p
        BY <3>4, <4>1
      <4>2. CASE q # p
        BY <3>3, <3>5, <4>2
      <4> QED
        BY <4>1, <4>2
    <3>7. Working'
      <4> SUFFICES ASSUME NEW q \in Puts, NEW d \in Chunks
                   PROVE  /\ step'[q][d] # "idle" => d \in ChunksOf[q]
                          /\ step'[q][d] \in {"waiting", "posting", "uploading", "backoff"}
                               => phase'[q] = "uploading"
        BY DEF Working
      <4>1. CASE q = p
        <5>1. step'[p][d] = IF d \in ChunksOf[p] THEN Loop(1) ELSE "idle"
          BY <2>0, <3>2
        <5> QED
          BY <3>1, <3>2, <3>5, <4>1, <5>1
      <4>2. CASE q # p
        BY <3>5, <4>2 DEF StoredInv, Working
      <4> QED
        BY <4>1, <4>2
    <3>8. OkIsAll'
      BY <3>1, <3>5 DEF StoredInv, OkIsAll
    <3> QED
      BY <3>3, <3>6, <3>7, <3>8 DEF StoredInv
  <2>2. ASSUME NEW d \in Deletes, StartDelete(d), UNCHANGED putVars
        PROVE  StoredInv'
    <3>1. /\ phase[d] = "idle" /\ Started(d) /\ UNCHANGED <<meta, data, late, step>>
          /\ phase' = [phase EXCEPT ![d] = "listing"]
      BY <2>2 DEF StartDelete, putVars
    <3>2. /\ RivalsKnown' /\ LateInv'
          /\ \A q \in Puts : q # d /\ phase[q] # "idle" => d \in rivals'[q]
      BY <3>1, StartKeeps
    <3>3. \A q \in Puts : q # d /\ phase'[q] = phase[q]
      BY <2>0, <2>2, <3>1
    <3> HIDE DEF TypeInv
    <3>4. Kept'
      <4> SUFFICES ASSUME NEW q \in Puts, rivals'[q] \subseteq {q}
                   PROVE  phase'[q] = "idle"
        BY DEF Kept
      <4> QED
        BY <3>2, <3>3
    <3>5. Working' /\ OkIsAll'
      BY <3>1, <3>3 DEF StoredInv, Working, OkIsAll
    <3> QED
      BY <3>2, <3>4, <3>5 DEF StoredInv
  <2>3. ASSUME NEW p \in Puts, NEW c \in Chunks, PostMetadata(p, c) \/ UploadChunk(p, c)
        PROVE  StoredInv'
    <3>1. phase[p] = "uploading" /\ UNCHANGED phase
      BY <2>0, <2>3 DEF PostMetadata, UploadChunk, StoredInv, Working
    <3>2. PICK op \in {"post", "upload"}, s \in {"uploading", "stored", "backoff"} :
            /\ step' = [step EXCEPT ![p][c] = s]
            /\ Answered(op, c, p) \/ Refused \/ TimedOut(op, c, p)
            /\ s = "uploading" => op = "post" /\ Answered(op, c, p)
            /\ s = "stored" => /\ op = "upload" /\ Answered(op, c, p)
                               /\ step[p][c] = "uploading"
      BY <2>3 DEF PostMetadata, UploadChunk, Goto
    <3>3. /\ RivalsKnown' /\ LateInv'
          /\ \A q \in Puts, d \in Chunks :
               rivals'[q] \subseteq {q} /\ phase[q] \in {"uploading", "ok"}
                 => /\ step[q][d] \in {"uploading", "stored"} => meta'[d] = q
                    /\ step[q][d] = "stored" => data'[d] = q
      <4>1. op \in {"post", "upload", "erase"} /\ op # "erase" /\ Running(p)
        BY <3>1, <3>2 DEF Running
      <4> HIDE DEF TypeInv
      <4> QED
        BY <3>1, <3>2, <4>1, RequestKeeps
    <3>4. \A q \in Puts, d \in Chunks :
            step'[q][d] = IF q = p /\ d = c THEN s ELSE step[q][d]
      BY <2>0, <3>2
    <3>5. s = "uploading" => meta'[c] = p
      BY <3>2 DEF Answered, Effect
    <3>6. s = "stored" => data'[c] = p
      BY <3>2 DEF Answered, Effect
    <3>7. Kept'
      <4> SUFFICES ASSUME NEW q \in Puts, NEW d \in Chunks,
                          rivals'[q] \subseteq {q}, phase[q] \in {"uploading", "ok"}
                   PROVE  /\ step'[q][d] \in {"uploading", "stored"} => meta'[d] = q
                          /\ step'[q][d] = "stored" => data'[d] = q
        BY <3>1 DEF Kept
      <4>1. CASE q = p /\ d = c
        <5>1. step'[q][d] = s
          BY <3>4, <4>1
        <5>2. s = "stored" => meta'[d] = q
          BY <3>2, <3>3, <4>1
        <5> QED
          BY <3>2, <3>5, <3>6, <4>1, <5>1, <5>2
      <4>2. CASE ~(q = p /\ d = c)
        <5> HIDE DEF TypeInv
        <5>1. step'[q][d] = step[q][d]
          BY <3>4, <4>2
        <5> QED
          BY <3>3, <5>1
      <4> QED
        BY <4>1, <4>2
    <3>8. Working'
      <4>1. c \in ChunksOf[p]
        BY <2>3 DEF PostMetadata, UploadChunk, StoredInv, Working
      <4> QED
        BY <3>1, <3>4, <4>1 DEF StoredInv, Working
    <3>9. OkIsAll'
      <4> SUFFICES ASSUME NEW q \in Puts, phase[q] = "ok", NEW d \in ChunksOf[q]
                   PROVE  step'[q][d] = "stored"
        BY <3>1 DEF OkIsAll
      <4>1. q # p /\ d \in Chunks
        BY <2>0, <3>1
      <4> QED
        BY <3>4, <4>1 DEF StoredInv, OkIsAll
    <3> QED
      BY <3>3, <3>7, <3>8, <3>9 DEF StoredInv
  <2>4. ASSUME NEW p \in Puts, NEW c \in Chunks, Acquire(p, c) \/ EndBackoff(p, c)
        PROVE  StoredInv'
    <3>1. PICK s \in {"waiting", "posting", "failed"} :
            step' = [step EXCEPT ![p][c] = s]
      BY <2>4 DEF Acquire, EndBackoff, Goto, Loop
    <3>2. UNCHANGED deleteVars /\ step[p][c] \in {"waiting", "backoff"}
      BY <2>4 DEF Acquire, EndBackoff
    <3>3. phase[p] = "uploading"
      BY <3>2 DEF StoredInv, Working
    <3>4. \A q \in Puts, d \in Chunks :
            step'[q][d] = IF q = p /\ d = c THEN s ELSE step[q][d]
      BY <2>0, <3>1
    <3>5. Kept'
      <4>1. \A q \in Puts, d \in Chunks :
              step'[q][d] \in {"uploading", "stored"} => step'[q][d] = step[q][d]
        BY <3>4
      <4> HIDE DEF TypeInv
      <4> QED
        BY <3>2, <4>1 DEF deleteVars, StoredInv, Kept
    <3>8. OkIsAll'
      <4> SUFFICES ASSUME NEW q \in Puts, phase[q] = "ok", NEW d \in ChunksOf[q]
                   PROVE  step'[q][d] = "stored"
        BY <3>2 DEF OkIsAll, deleteVars
      <4>1. q # p /\ d \in Chunks
        BY <2>0, <3>3
      <4> QED
        BY <3>4, <4>1 DEF StoredInv, OkIsAll
    <3>7. Working'
      <4>1. c \in ChunksOf[p]
        BY <3>2 DEF StoredInv, Working
      <4> QED
        BY <3>2, <3>3, <3>4, <4>1 DEF deleteVars, StoredInv, Working
    <3>6. RivalsKnown' /\ LateInv'
      BY <3>2 DEF deleteVars, StoredInv, RivalsKnown, LateInv, Active, Running
    <3> QED
      BY <3>5, <3>6, <3>7, <3>8 DEF StoredInv
  <2>5. ASSUME NEW p \in Puts, FinishPut(p)
        PROVE  StoredInv'
    <3>1. PICK s \in {"ok", "listing", "err"} : phase' = [phase EXCEPT ![p] = s]
      BY <2>5 DEF FinishPut
    <3>2. /\ phase[p] = "uploading"
          /\ \A c \in ChunksOf[p] : step[p][c] \in {"stored", "failed"}
          /\ s = "ok" => \A c \in ChunksOf[p] : step[p][c] = "stored"
          /\ UNCHANGED <<meta, data, late, rivals, step>>
      BY <2>0, <2>5, <3>1 DEF FinishPut, Gathered, putVars
    <3>3. \A c \in Chunks :
            step[p][c] \notin {"waiting", "posting", "uploading", "backoff"}
      BY <3>2 DEF StoredInv, Working
    <3>4. Kept' /\ Working' /\ OkIsAll'
      BY <2>0, <3>1, <3>2, <3>3 DEF StoredInv, Kept, Working, OkIsAll
    <3>5. RivalsKnown' /\ LateInv'
      BY <2>0, <3>1, <3>2 DEF StoredInv, RivalsKnown, LateInv, Active, Running
    <3> QED
      BY <3>4, <3>5 DEF StoredInv
  <2>6. ASSUME NEW k \in Calls, ListChunks(k) \/ ListFails(k) \/ FinishErase(k),
               UNCHANGED putVars
        PROVE  StoredInv'
    <3>1. PICK s \in {"erasing", "ok", "err"} :
            /\ phase' = [phase EXCEPT ![k] = s]
            /\ s = "ok" => k \notin Puts
      BY <2>6 DEF ListChunks, ListFails, FinishErase
    <3>2. /\ phase[k] \in {"listing", "erasing"}
          /\ UNCHANGED <<meta, data, late, rivals, step>>
      BY <2>6 DEF ListChunks, ListFails, FinishErase, putVars
    <3>3. Kept' /\ Working' /\ OkIsAll'
      BY <2>0, <3>1, <3>2 DEF StoredInv, Kept, Working, OkIsAll
    <3>4. RivalsKnown' /\ LateInv'
      BY <2>0, <3>1, <3>2 DEF StoredInv, RivalsKnown, LateInv, Active, Running
    <3> QED
      BY <3>3, <3>4 DEF StoredInv
  <2>7. ASSUME NEW k \in Calls, NEW c \in Chunks, EraseChunk(k, c),
               UNCHANGED putVars
        PROVE  StoredInv'
    <3>1. /\ phase[k] = "erasing" /\ UNCHANGED <<phase, step>>
          /\ Answered("erase", c, k) \/ Refused \/ TimedOut("erase", c, k)
      BY <2>7 DEF EraseChunk, putVars
    <3>2. /\ RivalsKnown' /\ LateInv'
          /\ \A q \in Puts, d \in Chunks :
               rivals'[q] \subseteq {q} /\ phase[q] \in {"uploading", "ok"}
                 => /\ step[q][d] \in {"uploading", "stored"} => meta'[d] = q
                    /\ step[q][d] = "stored" => data'[d] = q
      <4>1. Running(k) /\ "erase" \in {"post", "upload", "erase"}
        BY <3>1 DEF Running
      <4> HIDE DEF TypeInv
      <4> QED
        BY <3>1, <4>1, RequestKeeps
    <3> HIDE DEF TypeInv
    <3>3. Kept'
      BY <3>1, <3>2 DEF Kept
    <3>4. Working' /\ OkIsAll'
      BY <3>1 DEF StoredInv, Working, OkIsAll
    <3> QED
      BY <3>2, <3>3, <3>4 DEF StoredInv
  <2>8. CASE (LateArrival \/ LateLoss) /\ UNCHANGED putVars
    <3>1. CASE LateArrival
      <4>1. PICK r \in late : Effect(r.op, r.chunk, r.by)
        BY <3>1 DEF LateArrival
      <4>2. UNCHANGED <<phase, late, rivals, step>>
        BY <2>8, <3>1 DEF LateArrival, putVars
      <4>3. r.op \in {"post", "upload", "erase"} /\ r.chunk \in Chunks /\ r.by \in Calls
        BY DEF Requests
      <4>4. ASSUME NEW p \in Puts, NEW d \in Chunks,
                   rivals[p] \subseteq {p}, phase[p] \in {"uploading", "ok"}
            PROVE  /\ step[p][d] \in {"uploading", "stored"} => meta'[d] = p
                   /\ step[p][d] = "stored" => data'[d] = p
        <5>1. r.by = p
          BY <4>3, <4>4 DEF StoredInv, RivalsKnown, Active
        <5>2. r.op # "erase"
          BY <4>4, <5>1 DEF StoredInv, LateInv
        <5>3. \/ meta' = [meta EXCEPT ![r.chunk] = p] /\ UNCHANGED data
              \/ data' = [data EXCEPT ![r.chunk] = p] /\ UNCHANGED meta
          BY <4>1, <4>3, <5>1, <5>2 DEF Effect
        <5> QED
          BY <4>4, <5>3 DEF StoredInv, Kept
      <4> QED
        BY <4>2, <4>4 DEF StoredInv, Kept, RivalsKnown, LateInv, Working, OkIsAll,
                          Active, Running
    <3>2. CASE LateLoss
      <4>1. late' \subseteq late /\ UNCHANGED <<meta, data, phase, rivals, step>>
        BY <2>8, <3>2 DEF LateLoss, putVars
      <4> QED
        BY <4>1 DEF StoredInv, Kept, RivalsKnown, LateInv, Working, OkIsAll,
                    Active, Running
    <3> QED
      BY <2>8, <3>1, <3>2
  <2>9. CASE UNCHANGED vars
    BY <2>9 DEF vars, deleteVars, putVars, StoredInv, Kept, RivalsKnown, LateInv,
                Working, OkIsAll, Active, Running
  <2> QED
    BY <2>1, <2>2, <2>3, <2>4, <2>5, <2>6, <2>7, <2>8, <2>9
    DEF Next, CallStep, PutStep, ChunkStep, CleanStep, EraseStep
<1> QED
  BY <1>1, <1>2, TypeInvariant, PTL DEF Spec

(* A put that answered Ok, undisturbed by other calls, has stored every    *)
(* chunk of its value: metadata and bytes, for any number of retries and   *)
(* whatever of its own timed-out requests arrives afterwards.              *)
THEOREM OkIsStoredAlways == Spec => []OkIsStored
<1>1. TypeInv /\ StoredInv => OkIsStored
  BY DeleteAssumption
  DEF TypeInv, TypeOK, StoredInv, Kept, OkIsAll, OkIsStored
<1> QED
  BY <1>1, TypeInvariant, StoredInvariant, PTL

-----------------------------------------------------------------------------
(* A put leaves "uploading" other than with Ok only when some coroutine    *)
(* has failed, and no coroutine moves after that.                          *)

FailedInv == \A p \in Puts :
               ChunksOf[p] # {} /\ phase[p] \in {"listing", "erasing", "err"}
                 => \E c \in ChunksOf[p] : step[p][c] = "failed"

LEMMA FailedInvariant == Spec => []FailedInv
<1> USE DeleteAssumption, PutAssumption DEF Calls
<1>1. Init => FailedInv
  BY DEF Init, DeleteInit, FailedInv
<1>2. TypeInv /\ StoredInv /\ FailedInv /\ [Next]_vars => FailedInv'
  <2> SUFFICES ASSUME TypeInv, StoredInv, FailedInv, [Next]_vars
               PROVE  FailedInv'
    OBVIOUS
  <2>0. /\ phase \in [Calls -> {"idle", "uploading", "listing", "erasing", "ok", "err"}]
        /\ step \in [Puts -> [Chunks -> CoStates]]
        /\ \A p \in Puts : ChunksOf[p] \subseteq Chunks
    BY DEF TypeInv, TypeOK
  <2>1. ASSUME NEW p \in Puts, StartPut(p)
        PROVE  FailedInv'
    <3>1. /\ ChunksOf[p] # {} => phase'[p] = "uploading"
          /\ \A q \in Puts : q # p => phase'[q] = phase[q] /\ step'[q] = step[q]
      BY <2>0, <2>1 DEF StartPut
    <3> QED
      BY <3>1 DEF FailedInv
  <2>2. ASSUME NEW d \in Deletes, StartDelete(d), UNCHANGED putVars
        PROVE  FailedInv'
    <3>1. UNCHANGED step /\ \A q \in Puts : phase'[q] = phase[q]
      BY <2>0, <2>2 DEF StartDelete, putVars
    <3> QED
      BY <3>1 DEF FailedInv
  <2>3. ASSUME NEW p \in Puts, NEW c \in Chunks, ChunkStep(p, c)
        PROVE  FailedInv'
    <3>1. /\ step[p][c] \in {"waiting", "posting", "uploading", "backoff"}
          /\ UNCHANGED phase
          /\ \E s : step' = [step EXCEPT ![p][c] = s]
      BY <2>3 DEF ChunkStep, Acquire, PostMetadata, UploadChunk, EndBackoff,
                  Goto, deleteVars
    <3>2. /\ phase[p] = "uploading"
          /\ \A q \in Puts : q # p => step'[q] = step[q]
      BY <2>0, <3>1 DEF StoredInv, Working
    <3> QED
      BY <3>1, <3>2 DEF FailedInv
  <2>4. ASSUME NEW p \in Puts, FinishPut(p)
        PROVE  FailedInv'
    <3>1. /\ UNCHANGED step /\ \A q \in Puts : q # p => phase'[q] = phase[q]
          /\ phase'[p] = "ok" \/ \E c \in ChunksOf[p] : step[p][c] = "failed"
      BY <2>0, <2>4 DEF FinishPut, Gathered, putVars
    <3> QED
      BY <3>1 DEF FailedInv
  <2>5. ASSUME NEW k \in Calls, EraseStep(k), UNCHANGED putVars
        PROVE  FailedInv'
    <3>1. /\ UNCHANGED step
          /\ \A q \in Puts : q # k => phase'[q] = phase[q]
          /\ phase[k] \in {"listing", "erasing"}
      BY <2>0, <2>5
      DEF EraseStep, ListChunks, ListFails, FinishErase, EraseChunk, putVars
    <3> QED
      BY <3>1 DEF FailedInv
  <2>6. CASE (LateArrival \/ LateLoss) /\ UNCHANGED putVars
    BY <2>6 DEF LateArrival, LateLoss, putVars, FailedInv
  <2>7. CASE UNCHANGED vars
    BY <2>7 DEF vars, deleteVars, putVars, FailedInv
  <2> QED
    BY <2>1, <2>2, <2>3, <2>4, <2>5, <2>6, <2>7
    DEF Next, CallStep, PutStep, CleanStep
<1> QED
  BY <1>1, <1>2, TypeInvariant, StoredInvariant, PTL DEF Spec

(* A put answers Err, or begins to clean up, only after one of its chunks  *)
(* has failed MaxTries times in a row.                                     *)
THEOREM ErrOnlyAfterAllTriesAlways == Spec => []ErrOnlyAfterAllTries
<1>1. TypeInv /\ FailedInv => ErrOnlyAfterAllTries
  <2> SUFFICES ASSUME TypeInv, FailedInv, NEW p \in Puts, ChunksOf[p] # {},
                      phase[p] \in {"listing", "erasing", "err"}
               PROVE  \E c \in ChunksOf[p] :
                        step[p][c] = "failed" /\ attempt[p][c] = MaxTries + 1
    BY DEF ErrOnlyAfterAllTries
  <2>1. PICK c \in ChunksOf[p] : step[p][c] = "failed"
    BY DEF FailedInv
  <2>2. c \in Chunks
    BY DeleteAssumption
  <2>3. attempt[p][c] = MaxTries + 1
    BY <2>1, <2>2 DEF TypeInv, TriesInv
  <2> QED
    BY <2>1, <2>3
<1> QED
  BY <1>1, TypeInvariant, FailedInvariant, PTL

-----------------------------------------------------------------------------
(* What is left behind.  Whoever runs is a rival of every other call that  *)
(* has begun, and a call with a lingering request is its own (Witnessed),  *)
(* so in a sequential history one call runs at a time and nothing lingers. *)
Witnessed ==
  /\ \A j, k \in Calls : phase[j] # "idle" /\ k # j /\ Running(k) => k \in rivals[j]
  /\ \A r \in late : r.by \in rivals[r.by]
  /\ \A k \in Calls : phase[k] = "idle" => rivals[k] = {}
  /\ \A k \in told : phase[k] \in {"erasing", "ok", "err"}

RivalsGrow == \A k \in Calls : rivals[k] \subseteq rivals'[k]

LEMMA WitnessedStart ==
  ASSUME TypeInv, StoredInv, Witnessed, NEW k \in Calls, NEW s, s # "idle",
         phase[k] = "idle", phase' = [phase EXCEPT ![k] = s], Started(k),
         UNCHANGED <<told, late>>
  PROVE  Witnessed' /\ RivalsGrow
<1>1. /\ phase \in [Calls -> {"idle", "uploading", "listing", "erasing", "ok", "err"}]
      /\ told \subseteq Calls /\ late \subseteq Requests
  BY DEF TypeInv, TypeOK
<1>2. /\ phase'[k] = s
      /\ \A j \in Calls \ {k} : phase'[j] = phase[j] /\ (Running(j)' <=> Running(j))
  BY <1>1 DEF Running
<1>3. rivals'[k] = {i \in Calls \ {k} : Active(i)}
  BY DEF Started
<1>9. ASSUME NEW j \in Calls \ {k}
      PROVE  rivals'[j] = IF phase[j] = "idle" THEN rivals[j] ELSE rivals[j] \cup {k}
  BY DEF Started
<1>10. ASSUME NEW j \in Calls \ {k}
      PROVE  /\ phase[j] = "idle" => rivals'[j] = rivals[j]
             /\ phase[j] # "idle" => rivals'[j] = rivals[j] \cup {k}
  BY <1>9
<1>4. RivalsGrow
  <2>1. rivals[k] = {}
    BY DEF Witnessed
  <2> QED
    BY <1>10, <2>1 DEF RivalsGrow
<1>5. ASSUME NEW i \in Calls, NEW j \in Calls, phase'[i] # "idle", j # i, Running(j)'
      PROVE  j \in rivals'[i]
  <2>1. CASE i = k
    <3>1. j \in Calls \ {k} /\ Running(j)
      BY <1>2, <1>5, <2>1
    <3> QED
      BY <1>3, <2>1, <3>1 DEF Active
  <2>2. CASE i # k /\ j = k
    <3>1. i \in Calls \ {k} /\ phase[i] # "idle"
      BY <1>2, <1>5, <2>2
    <3>2. rivals'[i] = rivals[i] \cup {k}
      BY <1>10, <3>1
    <3> QED
      BY <2>2, <3>2
  <2>3. CASE i # k /\ j # k
    <3>1. i \in Calls \ {k} /\ phase[i] # "idle" /\ j \in Calls \ {k} /\ Running(j)
      BY <1>2, <1>5, <2>3
    <3>2. j \in rivals[i]
      BY <1>5, <3>1 DEF Witnessed
    <3> QED
      BY <1>10, <3>1, <3>2
  <2> QED
    BY <2>1, <2>2, <2>3
<1>6. \A r \in late' : r.by \in rivals'[r.by]
  <2> SUFFICES ASSUME NEW r \in late PROVE r.by \in rivals'[r.by]
    OBVIOUS
  <2>1. r \in [by : Calls, op : {"post", "upload", "erase"}, chunk : Chunks]
    BY <1>1 DEF Requests
  <2>2. r.by \in Calls
    BY <2>1
  <2>3. r.by \in rivals[r.by]
    BY DEF Witnessed
  <2> QED
    BY <1>4, <2>2, <2>3 DEF RivalsGrow
<1>7. \A j \in Calls : phase'[j] = "idle" => rivals'[j] = {}
  BY <1>2, <1>10 DEF Witnessed
<1>8. \A j \in told' : phase'[j] \in {"erasing", "ok", "err"}
  <2> SUFFICES ASSUME NEW j \in told PROVE phase'[j] \in {"erasing", "ok", "err"}
    OBVIOUS
  <2>1. j # k /\ j \in Calls
    BY <1>1 DEF Witnessed
  <2> QED
    BY <1>2, <2>1 DEF Witnessed
<1> QED
  BY <1>4, <1>5, <1>6, <1>7, <1>8 DEF Witnessed

(* A request, whatever becomes of it.                                      *)
LEMMA WitnessedRequest ==
  ASSUME TypeInv, Witnessed, NEW k \in Calls, Running(k), UNCHANGED <<phase, told>>,
         NEW op \in {"post", "upload", "erase"}, NEW c \in Chunks,
         Answered(op, c, k) \/ Refused \/ TimedOut(op, c, k)
  PROVE  Witnessed' /\ RivalsGrow
<1>1. rivals \in [Calls -> SUBSET Calls] /\ late \subseteq Requests
  BY DEF TypeInv, TypeOK
<1>2. CASE UNCHANGED <<late, rivals>>
  BY <1>2 DEF Witnessed, RivalsGrow, Running
<1>3. CASE /\ late' = late \cup {Request(k, op, c)}
           /\ rivals' = [rivals EXCEPT ![k] = @ \cup {k}]
  <2>1. /\ rivals'[k] = rivals[k] \cup {k}
        /\ \A j \in Calls \ {k} : rivals'[j] = rivals[j]
    BY <1>1, <1>3
  <2>2. RivalsGrow
    BY <2>1 DEF RivalsGrow
  <2>3. \A r \in late' : r.by \in rivals'[r.by]
    <3>1. Request(k, op, c).by = k
      BY DEF Request
    <3>2. \A r \in late : r.by \in rivals'[r.by]
      BY <1>1, <2>2 DEF Witnessed, RivalsGrow, Requests
    <3> QED
      BY <1>3, <2>1, <3>1, <3>2
  <2>4. \A j \in Calls : Running(j)' <=> Running(j)
    BY DEF Running
  <2>5. phase[k] # "idle"
    BY DEF Running
  <2> QED
    BY <2>1, <2>2, <2>3, <2>4, <2>5 DEF Witnessed, RivalsGrow
<1> QED
  BY <1>2, <1>3 DEF Answered, Refused, TimedOut

(* A call that has begun goes on or returns, told of chunks or not.        *)
LEMMA WitnessedMove ==
  ASSUME TypeInv, Witnessed, NEW k \in Calls, Running(k),
         NEW s \in {"listing", "erasing", "ok", "err"},
         phase' = [phase EXCEPT ![k] = s], UNCHANGED <<rivals, late>>,
         \/ told' = told /\ (k \in told => s \in {"ok", "err"})
         \/ told' = told \cup {k} /\ s = "erasing"
  PROVE  Witnessed' /\ RivalsGrow
<1>1. /\ phase \in [Calls -> {"idle", "uploading", "listing", "erasing", "ok", "err"}]
      /\ told \subseteq Calls
  BY DEF TypeInv, TypeOK
<1>2. phase'[k] = s /\ \A j \in Calls \ {k} : phase'[j] = phase[j]
  BY <1>1
<1>3. /\ \A j \in Calls : Running(j)' => Running(j)
      /\ \A j \in Calls : phase'[j] = "idle" <=> phase[j] = "idle"
  BY <1>2 DEF Running
<1>4. \A j \in told' : phase'[j] \in {"erasing", "ok", "err"}
  BY <1>1, <1>2 DEF Witnessed
<1> QED
  BY <1>3, <1>4 DEF Witnessed, RivalsGrow

LEMMA WitnessedStep ==
  TypeInv /\ StoredInv /\ Witnessed /\ [Next]_vars => Witnessed' /\ RivalsGrow
<1> SUFFICES ASSUME TypeInv, StoredInv, Witnessed, [Next]_vars
             PROVE  Witnessed' /\ RivalsGrow
  OBVIOUS
<1>1. Puts \subseteq Calls /\ Deletes \subseteq Calls
  BY DEF Calls
<1>2. ASSUME UNCHANGED <<phase, told, rivals>>, late' \subseteq late
      PROVE  Witnessed' /\ RivalsGrow
  BY <1>2 DEF Witnessed, RivalsGrow, Running
<1>3. ASSUME NEW p \in Puts, StartPut(p)
      PROVE  Witnessed' /\ RivalsGrow
  <2>1. PICK s : s # "idle" /\ phase' = [phase EXCEPT ![p] = s]
    BY <1>3 DEF StartPut
  <2>2. phase[p] = "idle" /\ Started(p) /\ UNCHANGED <<told, late>> /\ p \in Calls
    BY <1>1, <1>3 DEF StartPut
  <2> QED
    BY <2>1, <2>2, WitnessedStart
<1>4. ASSUME NEW d \in Deletes, StartDelete(d)
      PROVE  Witnessed' /\ RivalsGrow
  <2>1. /\ phase[d] = "idle" /\ Started(d) /\ UNCHANGED <<told, late>> /\ d \in Calls
        /\ phase' = [phase EXCEPT ![d] = "listing"]
    BY <1>1, <1>4 DEF StartDelete
  <2> QED
    BY <2>1, WitnessedStart
<1>5. ASSUME NEW p \in Puts, FinishPut(p)
      PROVE  Witnessed' /\ RivalsGrow
  <2>1. PICK s \in {"listing", "erasing", "ok", "err"} : phase' = [phase EXCEPT ![p] = s]
    BY <1>5 DEF FinishPut
  <2>2. /\ p \in Calls /\ Running(p) /\ UNCHANGED <<rivals, late, told>>
        /\ phase[p] = "uploading"
    BY <1>1, <1>5 DEF FinishPut, Running
  <2>3. p \notin told
    BY <2>2 DEF Witnessed
  <2> QED
    BY <2>1, <2>2, <2>3, WitnessedMove
<1>6. ASSUME NEW p \in Puts, NEW c \in Chunks, ChunkStep(p, c)
      PROVE  Witnessed' /\ RivalsGrow
  <2>1. CASE Acquire(p, c) \/ EndBackoff(p, c)
    BY <1>2, <2>1 DEF Acquire, EndBackoff, deleteVars
  <2>2. CASE PostMetadata(p, c) \/ UploadChunk(p, c)
    <3>1. phase[p] = "uploading"
      BY <2>2 DEF PostMetadata, UploadChunk, StoredInv, Working
    <3>2. p \in Calls /\ Running(p) /\ UNCHANGED <<phase, told>>
      BY <1>1, <2>2, <3>1 DEF PostMetadata, UploadChunk, Running
    <3>3. \E op \in {"post", "upload", "erase"} :
            Answered(op, c, p) \/ Refused \/ TimedOut(op, c, p)
      BY <2>2 DEF PostMetadata, UploadChunk
    <3> QED
      BY <3>2, <3>3, WitnessedRequest
  <2> QED
    BY <1>6, <2>1, <2>2 DEF ChunkStep
<1>7. ASSUME NEW k \in Calls, EraseStep(k)
      PROVE  Witnessed' /\ RivalsGrow
  <2>1. CASE ListChunks(k)
    <3>1. /\ Running(k) /\ phase' = [phase EXCEPT ![k] = "erasing"]
          /\ told' = told \cup {k} /\ UNCHANGED <<rivals, late>>
      BY <2>1 DEF ListChunks, Running
    <3> QED
      BY <3>1, WitnessedMove
  <2>2. CASE ListFails(k) \/ FinishErase(k)
    <3>1. /\ Running(k) /\ UNCHANGED <<told, rivals, late>>
          /\ \E s \in {"ok", "err"} : phase' = [phase EXCEPT ![k] = s]
      BY <2>2 DEF ListFails, FinishErase, Running
    <3> QED
      BY <3>1, WitnessedMove
  <2>3. ASSUME NEW c \in Chunks, EraseChunk(k, c)
        PROVE  Witnessed' /\ RivalsGrow
    <3>1. /\ Running(k) /\ UNCHANGED <<phase, told>>
          /\ Answered("erase", c, k) \/ Refused \/ TimedOut("erase", c, k)
      BY <2>3 DEF EraseChunk, Running
    <3> QED
      BY <3>1, WitnessedRequest
  <2> QED
    BY <1>7, <2>1, <2>2, <2>3 DEF EraseStep
<1>8. CASE LateArrival \/ LateLoss
  BY <1>2, <1>8 DEF LateArrival, LateLoss
<1>9. CASE UNCHANGED vars
  BY <1>2, <1>9 DEF vars, deleteVars
<1> QED
  BY <1>3, <1>4, <1>5, <1>6, <1>7, <1>8, <1>9 DEF Next, CallStep, PutStep, CleanStep

LEMMA WitnessedInvariant == Spec => []Witnessed
<1>1. Init => Witnessed
  BY DEF Init, DeleteInit, Witnessed, Running
<1> QED
  BY <1>1, WitnessedStep, TypeInvariant, StoredInvariant, PTL DEF Spec

(* As long as the history is sequential: bytes have metadata; so has a     *)
(* chunk whose upload is on its way; and the calls that erase have still   *)
(* on their lists what is there.                                           *)
Tidy ==
  Sequential =>
    /\ late = {}
    /\ \A c \in Chunks : data[c] # None => meta[c] # None
    /\ \A p \in Puts, c \in Chunks : step[p][c] = "uploading" => meta[c] # None
    /\ \A k \in told, c \in Chunks : rivals[k] = {} /\ meta[c] # None => c \in unsure[k]

(* One call runs at a time; a call without rivals is the last that ran.    *)
LEMMA OneRuns ==
  ASSUME Witnessed, Sequential, NEW k \in Calls, Running(k)
  PROVE  /\ \A j \in Calls : Running(j) => j = k
         /\ \A j \in Calls : phase[j] # "idle" /\ rivals[j] = {} => j = k
<1>1. phase[k] # "idle"
  BY DEF Running
<1>2. ASSUME NEW j \in Calls, phase[j] # "idle", rivals[j] = {}
      PROVE  j = k
  BY <1>2 DEF Witnessed
<1>3. ASSUME NEW j \in Calls, Running(j), j # k
      PROVE  FALSE
  <2>1. phase[j] # "idle"
    BY <1>3 DEF Running
  <2>2. j \in rivals[k] /\ k \in rivals[j]
    BY <1>1, <1>3, <2>1 DEF Witnessed
  <2> QED
    BY <2>2 DEF Sequential
<1> QED
  BY <1>2, <1>3

(* Steps that neither erase nor list.                                      *)
LEMMA TidyMoves ==
  ASSUME TypeInv, Tidy, RivalsGrow, Sequential => late' = {},
         UNCHANGED <<told, unsure>>,
         \A c \in Chunks : meta[c] # None => meta'[c] # None,
         \A c \in Chunks : data'[c] # None => data[c] # None \/ meta'[c] # None,
         \A p \in Puts, c \in Chunks :
           step'[p][c] = "uploading" => step[p][c] = "uploading" \/ meta'[c] # None,
         \/ UNCHANGED meta
         \/ Sequential => \A k \in told : rivals'[k] # {}
  PROVE  Tidy'
<1> SUFFICES ASSUME Sequential'
             PROVE  /\ late' = {}
                    /\ \A c \in Chunks : data'[c] # None => meta'[c] # None
                    /\ \A p \in Puts, c \in Chunks :
                         step'[p][c] = "uploading" => meta'[c] # None
                    /\ \A k \in told, c \in Chunks :
                         rivals'[k] = {} /\ meta'[c] # None => c \in unsure[k]
  BY DEF Tidy
<1>1. Sequential /\ told \subseteq Calls
  BY DEF Sequential, RivalsGrow, TypeInv, TypeOK
<1>2. \A k \in told : rivals'[k] = {} => rivals[k] = {}
  BY <1>1 DEF RivalsGrow
<1> QED
  BY <1>1, <1>2 DEF Tidy

LEMMA TidyStep ==
  TypeInv /\ TypeInv' /\ StoredInv /\ Witnessed /\ Tidy /\ [Next]_vars => Tidy'
<1> SUFFICES ASSUME TypeInv, TypeInv', StoredInv, Witnessed, Tidy, [Next]_vars, Sequential'
             PROVE  Tidy'
  BY DEF Tidy
<1>1. Witnessed' /\ RivalsGrow
  BY WitnessedStep
<1>2. Sequential
  BY <1>1 DEF Sequential, RivalsGrow
<1>3. late' = {}
  <2> SUFFICES ASSUME NEW r \in late' PROVE FALSE
    OBVIOUS
  <2>1. r \in [by : Calls, op : {"post", "upload", "erase"}, chunk : Chunks]
    BY DEF TypeInv, TypeOK, Requests
  <2>2. r.by \in Calls
    BY <2>1
  <2>3. r.by \in rivals'[r.by]
    BY <1>1 DEF Witnessed
  <2> QED
    BY <2>2, <2>3 DEF Sequential
<1>4. /\ late = {}
      /\ \A c \in Chunks : data[c] # None => meta[c] # None
      /\ \A p \in Puts, c \in Chunks : step[p][c] = "uploading" => meta[c] # None
      /\ \A k \in told, c \in Chunks : rivals[k] = {} /\ meta[c] # None => c \in unsure[k]
  BY <1>2 DEF Tidy
<1>5. /\ meta \in [Chunks -> Puts \cup {None}] /\ data \in [Chunks -> Puts \cup {None}]
      /\ told \subseteq Calls /\ step \in [Puts -> [Chunks -> CoStates]]
      /\ unsure \in [Calls -> SUBSET Chunks] /\ None \notin Puts
  BY DeleteAssumption DEF TypeInv, TypeOK
<1>6. ASSUME UNCHANGED <<meta, data, told, unsure>>,
             \A p \in Puts, c \in Chunks :
               step'[p][c] = "uploading" => step[p][c] = "uploading"
      PROVE  Tidy'
  BY <1>1, <1>3, <1>6, TidyMoves
<1>7. ASSUME NEW p \in Puts, StartPut(p)
      PROVE  Tidy'
  <2>1. step' = [step EXCEPT ![p] = [c \in Chunks |->
                   IF c \in ChunksOf[p] THEN Loop(1) ELSE "idle"]]
    BY <1>7 DEF StartPut
  <2>2. \A q \in Puts, c \in Chunks :
          step'[q][c] = "uploading" => step[q][c] = "uploading"
    BY <1>5, <2>1 DEF Loop
  <2> QED
    BY <1>6, <1>7, <2>2 DEF StartPut
<1>8. ASSUME NEW p \in Puts, NEW c \in Chunks, Acquire(p, c) \/ EndBackoff(p, c)
      PROVE  Tidy'
  <2>1. PICK s \in {"posting", "waiting", "failed"} : step' = [step EXCEPT ![p][c] = s]
    BY <1>8 DEF Acquire, EndBackoff, Goto, Loop
  <2>2. \A q \in Puts, d \in Chunks :
          step'[q][d] = "uploading" => step[q][d] = "uploading"
    BY <1>5, <2>1
  <2> QED
    BY <1>6, <1>8, <2>2 DEF Acquire, EndBackoff, deleteVars
<1>9. ASSUME NEW p \in Puts, NEW c \in Chunks, PostMetadata(p, c) \/ UploadChunk(p, c)
      PROVE  Tidy'
  <2>1. phase[p] = "uploading" /\ p \in Calls
    BY <1>9 DEF PostMetadata, UploadChunk, StoredInv, Working, Calls
  <2>2. \A k \in told : rivals'[k] # {}
    <3>1. \A k \in told : k # p /\ k \in Calls /\ phase[k] # "idle"
      BY <1>5, <2>1 DEF Witnessed
    <3>2. Running(p)
      BY <2>1 DEF Running
    <3>3. \A k \in told : p \in rivals[k]
      BY <2>1, <3>1, <3>2 DEF Witnessed
    <3> QED
      BY <1>1, <3>1, <3>3 DEF RivalsGrow
  <2>3. PICK op \in {"post", "upload"}, s \in {"uploading", "stored", "backoff"} :
          /\ step' = [step EXCEPT ![p][c] = s]
          /\ Answered(op, c, p) \/ Refused \/ TimedOut(op, c, p)
          /\ s = "uploading" => op = "post" /\ Answered(op, c, p)
          /\ op = "upload" => step[p][c] = "uploading"
    BY <1>9 DEF PostMetadata, UploadChunk, Goto
  <2>4. \/ meta' = [meta EXCEPT ![c] = p] /\ UNCHANGED data
        \/ /\ data' = [data EXCEPT ![c] = p] /\ UNCHANGED meta
           /\ step[p][c] = "uploading" /\ s # "uploading"
        \/ UNCHANGED <<meta, data>> /\ s # "uploading"
    BY <2>3 DEF Answered, Refused, TimedOut, Effect
  <2>5. \A d \in Chunks : meta[d] # None => meta'[d] # None
    BY <1>5, <2>4
  <2>6. \A d \in Chunks : data'[d] # None => data[d] # None \/ meta'[d] # None
    BY <1>4, <1>5, <2>4
  <2>7. s = "uploading" => meta'[c] # None
    BY <1>5, <2>4
  <2>8. \A q \in Puts, d \in Chunks :
          step'[q][d] = "uploading" => step[q][d] = "uploading" \/ meta'[d] # None
    BY <1>5, <2>3, <2>7
  <2>9. UNCHANGED <<told, unsure>>
    BY <1>9 DEF PostMetadata, UploadChunk
  <2> QED
    BY <1>1, <1>3, <2>2, <2>5, <2>6, <2>8, <2>9, TidyMoves
<1>10. ASSUME NEW k \in Calls, ListChunks(k), UNCHANGED putVars
       PROVE  Tidy'
  <2>1. /\ UNCHANGED <<meta, data, rivals, step>> /\ told' = told \cup {k}
        /\ unsure' = [unsure EXCEPT ![k] = {c \in Chunks : meta[c] # None}]
    BY <1>10 DEF ListChunks, putVars
  <2>2. /\ unsure'[k] = {c \in Chunks : meta[c] # None}
        /\ \A j \in told \ {k} : unsure'[j] = unsure[j]
    BY <1>5, <2>1
  <2>3. \A j \in told', c \in Chunks : rivals'[j] = {} /\ meta'[c] # None => c \in unsure'[j]
    BY <1>4, <2>1, <2>2
  <2> QED
    BY <1>3, <1>4, <2>1, <2>3 DEF Tidy
<1>11. ASSUME NEW k \in Calls, NEW c \in Chunks, EraseChunk(k, c), UNCHANGED putVars
       PROVE  Tidy'
  <2>1. /\ phase[k] = "erasing" /\ Running(k) /\ UNCHANGED <<told, step>>
        /\ \/ Answered("erase", c, k) /\ unsure' = [unsure EXCEPT ![k] = @ \ {c}]
           \/ (Refused \/ TimedOut("erase", c, k)) /\ UNCHANGED unsure
    BY <1>11 DEF EraseChunk, Running, putVars
  <2>2. \/ /\ meta' = [meta EXCEPT ![c] = None] /\ data' = [data EXCEPT ![c] = None]
           /\ UNCHANGED unsure \/ unsure' = [unsure EXCEPT ![k] = @ \ {c}]
        \/ UNCHANGED <<meta, data, unsure>>
    BY <2>1 DEF Answered, Refused, TimedOut, Effect
  <2>3. \A d \in Chunks : /\ data'[d] # None => meta'[d] # None
                          /\ meta'[d] # None => meta[d] # None
    BY <1>4, <1>5, <2>2
  <2>4. ASSUME NEW p \in Puts, NEW d \in Chunks, step[p][d] = "uploading"
        PROVE  FALSE
    <3>1. phase[p] = "uploading" /\ p \in Calls
      BY <2>4 DEF StoredInv, Working, Calls
    <3>2. Running(p)
      BY <3>1 DEF Running
    <3>3. p = k
      BY <1>2, <2>1, <3>1, <3>2, OneRuns
    <3> QED
      BY <2>1, <3>1, <3>3
  <2>5. ASSUME NEW j \in told, NEW d \in Chunks, rivals'[j] = {}, meta'[d] # None
        PROVE  d \in unsure'[j]
    <3>1. j \in Calls /\ phase[j] # "idle" /\ rivals[j] = {}
      BY <1>1, <1>5, <2>5 DEF Witnessed, RivalsGrow
    <3>2. j = k
      BY <1>2, <2>1, <3>1, OneRuns
    <3>3. d \in unsure[j]
      BY <1>4, <2>3, <2>5, <3>1
    <3>4. CASE UNCHANGED unsure
      BY <3>3, <3>4
    <3>5. CASE ~ UNCHANGED unsure
      <4>1. meta' = [meta EXCEPT ![c] = None] /\ unsure' = [unsure EXCEPT ![k] = @ \ {c}]
        BY <2>2, <3>5
      <4>2. d # c
        BY <1>5, <2>5, <4>1
      <4> QED
        BY <1>5, <3>2, <3>3, <4>1, <4>2
    <3> QED
      BY <3>4, <3>5
  <2> QED
    BY <1>3, <2>1, <2>3, <2>4, <2>5 DEF Tidy
<1>12. CASE (LateArrival \/ LateLoss) /\ UNCHANGED putVars
  BY <1>4, <1>6, <1>12 DEF LateArrival, LateLoss, putVars
<1>13. CASE UNCHANGED vars
  BY <1>6, <1>13 DEF vars, deleteVars, putVars
<1>14. ASSUME NEW k \in Calls, ListFails(k) \/ FinishErase(k), UNCHANGED putVars
       PROVE  Tidy'
  BY <1>6, <1>14 DEF ListFails, FinishErase, putVars
<1>15. ASSUME NEW p \in Puts, FinishPut(p)
       PROVE  Tidy'
  BY <1>6, <1>15 DEF FinishPut, putVars
<1>16. ASSUME NEW d \in Deletes, StartDelete(d), UNCHANGED putVars
       PROVE  Tidy'
  BY <1>6, <1>16 DEF StartDelete, putVars
<1> QED
  BY <1>7, <1>8, <1>9, <1>10, <1>11, <1>12, <1>13, <1>14, <1>15, <1>16
  DEF Next, CallStep, PutStep, ChunkStep, CleanStep, EraseStep

(* When calls come one after the other, a delete, or the cleanup of a put  *)
(* that failed, leaves nothing of the ball but chunks that it knew of and  *)
(* that no router confirmed to have deleted: never bytes whose metadata is *)
(* gone, which no later delete could find.                                 *)
THEOREM OnlyUnconfirmedLeft == Spec => []LeftoversAreUnconfirmed
<1>1. Init => Tidy
  BY DEF Init, DeleteInit, Tidy
<1>2. Spec => []Tidy
  BY <1>1, TidyStep, TypeInvariant, StoredInvariant, WitnessedInvariant, PTL DEF Spec
<1>3. Tidy => LeftoversAreUnconfirmed
  BY DEF Tidy, LeftoversAreUnconfirmed
<1> QED
  BY <1>2, <1>3, PTL

-----------------------------------------------------------------------------
(* What BallStore sees of the writers: the substitution of Promise.        *)
Phases == [k \in Calls |-> IF phase[k] = "listing" THEN "erasing" ELSE phase[k]]
Tasks == [p \in Puts |-> {c \in Chunks : step[p][c] = "uploading"}]
Acked == [p \in Puts |-> {c \in Chunks : step[p][c] = "stored"}]

-----------------------------------------------------------------------------
NoLate == ~ LateRequests /\ late = {}

LEMMA NothingLate == ~ LateRequests /\ Spec => []NoLate
<1> USE DEF NoLate
<1>1. ~ LateRequests /\ Init => NoLate
  BY DEF Init, DeleteInit
<1>2. NoLate /\ [Next]_vars => NoLate'
  <2> SUFFICES ASSUME NoLate, [Next]_vars
               PROVE  late' = {}
    OBVIOUS
  <2> USE DEF Answered, Refused, TimedOut, deleteVars
  <2>1. ASSUME NEW p \in Puts, StartPut(p) \/ PutStep(p)
        PROVE  late' = {}
    BY <2>1 DEF StartPut, PutStep, FinishPut, ChunkStep, Acquire, PostMetadata,
                UploadChunk, EndBackoff
  <2>2. ASSUME NEW k \in Calls, StartDelete(k) \/ EraseStep(k)
        PROVE  late' = {}
    BY <2>2 DEF StartDelete, EraseStep, ListChunks, ListFails, FinishErase, EraseChunk
  <2>3. CASE UNCHANGED vars
    BY <2>3 DEF vars
  <2>4. CASE LateArrival \/ LateLoss
    BY <2>4 DEF LateArrival, LateLoss
  <2> QED
    BY <2>1, <2>2, <2>3, <2>4 DEF Next, CallStep, CleanStep, Calls
<1> QED
  BY <1>1, <1>2, PTL DEF Spec

-----------------------------------------------------------------------------
(* How a step of the writers looks from the storage.                       *)
LEMMA PhaseMoves ==
  ASSUME TypeInv, NEW k \in Calls, NEW s, phase' = [phase EXCEPT ![k] = s]
  PROVE  Phases' = [Phases EXCEPT ![k] = IF s = "listing" THEN "erasing" ELSE s]
BY DEF TypeInv, TypeOK, Phases

LEMMA CoroutineMoves ==
  ASSUME TypeInv, NEW p \in Puts, NEW c \in Chunks, NEW s, Goto(p, c, s)
  PROVE  /\ Tasks' = [Tasks EXCEPT ![p] = IF s = "uploading" THEN @ \cup {c}
                                          ELSE @ \ {c}]
         /\ Acked' = [Acked EXCEPT ![p] = IF s = "stored" THEN @ \cup {c}
                                          ELSE @ \ {c}]
<1>1. \A q \in Puts, d \in Chunks :
        step'[q][d] = IF q = p /\ d = c THEN s ELSE step[q][d]
  BY DEF TypeInv, TypeOK, Goto
<1> DEFINE moved(f, on) == [f EXCEPT ![p] = IF on THEN @ \cup {c} ELSE @ \ {c}]
<1>2. \A q \in Puts : Tasks'[q] = moved(Tasks, s = "uploading")[q]
  BY <1>1 DEF Tasks
<1>3. \A q \in Puts : Acked'[q] = moved(Acked, s = "stored")[q]
  BY <1>1 DEF Acked
<1>4. /\ Tasks' = [q \in Puts |-> Tasks'[q]]
      /\ Acked' = [q \in Puts |-> Acked'[q]]
      /\ moved(Tasks, s = "uploading") = [q \in Puts |-> moved(Tasks, s = "uploading")[q]]
      /\ moved(Acked, s = "stored") = [q \in Puts |-> moved(Acked, s = "stored")[q]]
  BY DEF Tasks, Acked
<1> QED
  BY <1>2, <1>3, <1>4

LEMMA NothingToTake ==
  ASSUME NEW p \in Puts, NEW c
  PROVE  /\ c \notin Tasks[p] => [Tasks EXCEPT ![p] = @ \ {c}] = Tasks
         /\ c \notin Acked[p] => [Acked EXCEPT ![p] = @ \ {c}] = Acked
<1>1. ASSUME NEW f, f = [q \in Puts |-> f[q]], c \notin f[p]
      PROVE  [f EXCEPT ![p] = @ \ {c}] = f
  <2>1. f[p] \ {c} = f[p]
    BY <1>1
  <2> QED
    BY <1>1, <2>1
<1>2. Tasks = [q \in Puts |-> Tasks[q]] /\ Acked = [q \in Puts |-> Acked[q]]
  BY DEF Tasks, Acked
<1> QED
  BY <1>1, <1>2

LEMMA Unmoved ==
  /\ UNCHANGED phase => Phases' = Phases
  /\ UNCHANGED step => Tasks' = Tasks /\ Acked' = Acked
BY DEF Phases, Tasks, Acked

(* A call holds no task unless it is uploading.                            *)
LEMMA NoTasks ==
  ASSUME TypeInv, Working, NEW p \in Puts, phase[p] # "uploading"
  PROVE  Tasks[p] = {}
BY DEF Working, Tasks

-----------------------------------------------------------------------------
PromiseKept == [Promise!StoreNext]_(Promise!storeVars)

LEMMA StartPutKept ==
  ASSUME TypeInv, Working, NEW p \in Puts, StartPut(p)
  PROVE  PromiseKept
<1> USE DEF Calls
<1>1. /\ phase[p] = "idle" /\ p \in Calls
      /\ \A c \in Chunks : step[p][c] = "idle"
      /\ UNCHANGED <<meta, data>>
  BY DEF StartPut, TypeInv, TriesInv
<1>2. Tasks' = Tasks /\ Acked' = Acked
  <2>1. \A q \in Puts, c \in Chunks :
          \/ step'[q][c] = step[q][c]
          \/ {step[q][c], step'[q][c]} \cap {"uploading", "stored"} = {}
    BY <1>1 DEF StartPut, TypeInv, TypeOK, Loop
  <2>2. \A q \in Puts : Tasks'[q] = Tasks[q] /\ Acked'[q] = Acked[q]
    BY <2>1 DEF Tasks, Acked
  <2> QED
    BY <2>2 DEF Tasks, Acked
<1>3. Tasks[p] = {}
  BY <1>1, NoTasks
<1>4. PICK s \in {"uploading", "listing", "err"} : phase' = [phase EXCEPT ![p] = s]
  BY DEF StartPut
<1>5. /\ Phases' = [Phases EXCEPT ![p] = IF s = "listing" THEN "erasing" ELSE s]
      /\ Phases[p] = "idle"
  BY <1>1, <1>4, PhaseMoves DEF Phases
<1>6. CASE s = "uploading"
  <2>1. Promise!Begin(p)
    BY <1>1, <1>2, <1>5, <1>6 DEF Promise!Begin, Promise!Become, Phases, Tasks, Acked
  <2> QED
    BY <1>1, <2>1 DEF PromiseKept, Promise!StoreNext, Promise!Calls
<1>7. CASE s = "listing"
  <2>1. Promise!GiveUp(p)
    BY <1>1, <1>2, <1>3, <1>5, <1>7
    DEF Promise!GiveUp, Promise!Become, Phases, Tasks, Acked
  <2> QED
    BY <2>1 DEF PromiseKept, Promise!StoreNext
<1>8. CASE s = "err"
  <2>1. Promise!ReturnErr(p)
    BY <1>1, <1>2, <1>3, <1>5, <1>8
    DEF Promise!ReturnErr, Promise!Become, Phases, Tasks, Acked
  <2> QED
    BY <1>1, <2>1 DEF PromiseKept, Promise!StoreNext, Promise!Calls
<1> QED
  BY <1>4, <1>6, <1>7, <1>8

LEMMA StartDeleteKept ==
  ASSUME TypeInv, NEW d \in Deletes, StartDelete(d), UNCHANGED putVars
  PROVE  PromiseKept
<1>1. /\ d \in Calls /\ d \notin Puts /\ phase[d] = "idle"
      /\ phase' = [phase EXCEPT ![d] = "listing"]
      /\ UNCHANGED <<meta, data, step>>
  BY DeleteAssumption DEF StartDelete, putVars, Calls
<1>2. Phases' = [Phases EXCEPT ![d] = "erasing"] /\ Phases[d] = "idle"
  BY <1>1, PhaseMoves DEF Phases
<1>3. Promise!Begin(d)
  BY <1>1, <1>2, Unmoved DEF Promise!Begin, Promise!Become, Phases, Tasks, Acked
<1> QED
  BY <1>1, <1>3 DEF PromiseKept, Promise!StoreNext, Promise!Calls, Calls

-----------------------------------------------------------------------------
(* The steps of a running put.                                             *)
LEMMA ChunkStepKept ==
  ASSUME TypeInv, Working, NoLate, NEW p \in Puts, NEW c \in Chunks, ChunkStep(p, c)
  PROVE  PromiseKept
<1>1. /\ UNCHANGED phase /\ phase[p] = "uploading" /\ c \in ChunksOf[p]
      /\ step[p][c] \in {"waiting", "posting", "uploading", "backoff"}
  BY DEF ChunkStep, Acquire, PostMetadata, UploadChunk, EndBackoff, deleteVars, Working
<1>2. Phases' = Phases /\ Phases[p] = "uploading"
  BY <1>1, Unmoved DEF Phases, Calls
<1>3. c \notin Acked[p]
  BY <1>1 DEF Acked
<1>4. CASE Acquire(p, c) \/ EndBackoff(p, c)
  <2>1. PICK s \in {"posting", "waiting", "failed"} : Goto(p, c, s)
    BY <1>4 DEF Acquire, EndBackoff, Loop
  <2>2. UNCHANGED <<meta, data>> /\ step[p][c] # "uploading"
    BY <1>4 DEF Acquire, EndBackoff, deleteVars
  <2>3. Tasks' = Tasks /\ Acked' = Acked
    <3>1. c \notin Tasks[p]
      BY <2>2 DEF Tasks
    <3>2. /\ Tasks' = [Tasks EXCEPT ![p] = @ \ {c}]
          /\ Acked' = [Acked EXCEPT ![p] = @ \ {c}]
      BY <2>1, CoroutineMoves
    <3> QED
      BY <1>3, <3>1, <3>2, NothingToTake
  <2> QED
    BY <1>2, <2>2, <2>3 DEF PromiseKept, Promise!storeVars, Phases, Tasks, Acked
<1>5. CASE PostMetadata(p, c)
  <2>1. step[p][c] = "posting" /\ c \notin Tasks[p]
    BY <1>5 DEF PostMetadata, Tasks
  <2>2. PICK s \in {"uploading", "backoff"} : Goto(p, c, s)
    BY <1>5 DEF PostMetadata
  <2>3. /\ Acked' = Acked
        /\ \/ Tasks' = [Tasks EXCEPT ![p] = @ \cup {c}]
           \/ Tasks' = Tasks
    <3>1. CASE s = "uploading"
      <4>1. /\ Tasks' = [Tasks EXCEPT ![p] = @ \cup {c}]
            /\ Acked' = [Acked EXCEPT ![p] = @ \ {c}]
        BY <2>2, <3>1, CoroutineMoves
      <4> QED
        BY <1>3, <4>1, NothingToTake
    <3>2. CASE s = "backoff"
      <4>1. /\ Tasks' = [Tasks EXCEPT ![p] = @ \ {c}]
            /\ Acked' = [Acked EXCEPT ![p] = @ \ {c}]
        BY <2>2, <3>2, CoroutineMoves
      <4> QED
        BY <1>3, <2>1, <4>1, NothingToTake
    <3> QED
      BY <3>1, <3>2
  <2>4. CASE Answered("post", c, p) \/ TimedOut("post", c, p)
    <3>1. meta' = [meta EXCEPT ![c] = p] /\ UNCHANGED data
      BY <2>4 DEF Answered, TimedOut, Effect, NoLate
    <3>2. Promise!Post(p, c)
      BY <1>1, <1>2, <1>3, <2>3, <3>1 DEF Promise!Post, Phases, Tasks, Acked
    <3> QED
      BY <3>2 DEF PromiseKept, Promise!StoreNext
  <2>5. CASE Refused /\ Goto(p, c, "backoff")
    <3>1. Tasks' = [Tasks EXCEPT ![p] = @ \ {c}]
      BY <2>5, CoroutineMoves
    <3>2. Tasks' = Tasks
      BY <2>1, <3>1, NothingToTake
    <3> QED
      BY <1>2, <2>3, <2>5, <3>2
      DEF PromiseKept, Promise!storeVars, Phases, Tasks, Acked, Refused
  <2> QED
    BY <1>5, <2>4, <2>5 DEF PostMetadata
<1>6. CASE UploadChunk(p, c)
  <2>1. step[p][c] = "uploading" /\ c \in Tasks[p]
    BY <1>6 DEF UploadChunk, Tasks
  <2>2. CASE Answered("upload", c, p) /\ Goto(p, c, "stored")
    <3>1. /\ Tasks' = [Tasks EXCEPT ![p] = @ \ {c}]
          /\ Acked' = [Acked EXCEPT ![p] = @ \cup {c}]
      BY <2>2, CoroutineMoves
    <3>2. data' = [data EXCEPT ![c] = p] /\ UNCHANGED meta
      BY <2>2 DEF Answered, Effect
    <3>3. Promise!Upload(p, c)
      BY <1>2, <2>1, <3>1, <3>2 DEF Promise!Upload, Phases, Tasks, Acked
    <3> QED
      BY <3>3 DEF PromiseKept, Promise!StoreNext
  <2>3. CASE (Refused \/ TimedOut("upload", c, p)) /\ Goto(p, c, "backoff")
    <3>1. Tasks' = [Tasks EXCEPT ![p] = @ \ {c}] /\ Acked' = Acked
      <4>1. /\ Tasks' = [Tasks EXCEPT ![p] = @ \ {c}]
            /\ Acked' = [Acked EXCEPT ![p] = @ \ {c}]
        BY <2>3, CoroutineMoves
      <4> QED
        BY <1>3, <4>1, NothingToTake
    <3>2. UNCHANGED meta /\ (data' = [data EXCEPT ![c] = p] \/ UNCHANGED data)
      BY <2>3 DEF Refused, TimedOut, Answered, Effect, NoLate
    <3>3. Promise!Upload(p, c)
      BY <1>2, <2>1, <3>1, <3>2 DEF Promise!Upload, Phases, Tasks, Acked
    <3> QED
      BY <3>3 DEF PromiseKept, Promise!StoreNext
  <2> QED
    BY <1>6, <2>2, <2>3 DEF UploadChunk
<1> QED
  BY <1>4, <1>5, <1>6 DEF ChunkStep

LEMMA FinishPutKept ==
  ASSUME TypeInv, Working, NEW p \in Puts, FinishPut(p)
  PROVE  PromiseKept
<1>1. /\ p \in Calls /\ phase[p] = "uploading" /\ Gathered(p)
      /\ UNCHANGED <<meta, data, step>>
  BY DEF FinishPut, putVars, Calls
<1>2. Tasks[p] = {}
  BY <1>1 DEF Gathered, Working, Tasks
<1>3. PICK s \in {"ok", "listing", "err"} :
        /\ phase' = [phase EXCEPT ![p] = s]
        /\ s = "ok" => \A c \in ChunksOf[p] : step[p][c] = "stored"
  BY DEF FinishPut
<1>4. /\ Phases' = [Phases EXCEPT ![p] = IF s = "listing" THEN "erasing" ELSE s]
      /\ Phases[p] = "uploading"
  BY <1>1, <1>3, PhaseMoves DEF Phases
<1>5. Tasks' = Tasks /\ Acked' = Acked
  BY <1>1, Unmoved
<1>6. CASE s = "ok"
  <2>1. Acked[p] = ChunksOf[p]
    <3>1. ChunksOf[p] \subseteq Chunks
      BY DeleteAssumption
    <3> QED
      BY <1>3, <1>6, <3>1 DEF Working, Acked
  <2>2. Promise!ReturnOk(p)
    BY <1>1, <1>4, <1>5, <1>6, <2>1
    DEF Promise!ReturnOk, Promise!Become, Phases, Tasks, Acked
  <2> QED
    BY <1>1, <2>2 DEF PromiseKept, Promise!StoreNext, Promise!Calls, Calls
<1>7. CASE s = "listing"
  <2>1. Promise!GiveUp(p)
    BY <1>1, <1>2, <1>4, <1>5, <1>7
    DEF Promise!GiveUp, Promise!Become, Phases, Tasks, Acked
  <2> QED
    BY <2>1 DEF PromiseKept, Promise!StoreNext
<1>8. CASE s = "err"
  <2>1. Promise!ReturnErr(p)
    BY <1>1, <1>2, <1>4, <1>5, <1>8
    DEF Promise!ReturnErr, Promise!Become, Phases, Tasks, Acked
  <2> QED
    BY <1>1, <2>1 DEF PromiseKept, Promise!StoreNext, Promise!Calls, Calls
<1> QED
  BY <1>3, <1>6, <1>7, <1>8

-----------------------------------------------------------------------------
(* The steps of a delete, and of the cleanup of a put.                     *)
LEMMA EraseStepKept ==
  ASSUME TypeInv, Working, NoLate, NEW k \in Calls, EraseStep(k), UNCHANGED putVars
  PROVE  PromiseKept
<1>1. UNCHANGED step /\ Tasks' = Tasks /\ Acked' = Acked
  BY Unmoved DEF putVars
<1>2. phase[k] \in {"listing", "erasing"} /\ Phases[k] = "erasing"
  BY DEF EraseStep, ListChunks, ListFails, FinishErase, EraseChunk, Phases
<1>3. k \in Puts => Tasks[k] = {}
  BY <1>2, NoTasks
<1>4. CASE ListChunks(k)
  <2>1. phase' = [phase EXCEPT ![k] = "erasing"] /\ UNCHANGED <<meta, data>>
    BY <1>4 DEF ListChunks
  <2>2. Phases' = [Phases EXCEPT ![k] = "erasing"]
    BY <2>1, PhaseMoves
  <2>3. Phases' = Phases
    BY <1>2, <2>2 DEF Phases
  <2> QED
    BY <1>1, <2>1, <2>3 DEF PromiseKept, Promise!storeVars, Phases, Tasks, Acked
<1>5. CASE ListFails(k) \/ FinishErase(k)
  <2>1. PICK s \in {"ok", "err"} : /\ phase' = [phase EXCEPT ![k] = s]
                                   /\ s = "ok" => k \in Deletes
    BY <1>5 DEF ListFails, FinishErase
  <2>2. UNCHANGED <<meta, data>>
    BY <1>5 DEF ListFails, FinishErase
  <2>3. Phases' = [Phases EXCEPT ![k] = s]
    BY <2>1, PhaseMoves
  <2>4. CASE s = "ok"
    <3>1. k \notin Puts
      BY <2>1, <2>4, DeleteAssumption
    <3>2. Promise!ReturnOk(k)
      BY <1>1, <1>2, <2>2, <2>3, <2>4, <3>1
      DEF Promise!ReturnOk, Promise!Become, Phases, Tasks, Acked
    <3> QED
      BY <3>2 DEF PromiseKept, Promise!StoreNext, Promise!Calls, Calls
  <2>5. CASE s = "err"
    <3>1. Promise!ReturnErr(k)
      BY <1>1, <1>2, <1>3, <2>2, <2>3, <2>5
      DEF Promise!ReturnErr, Promise!Become, Phases, Tasks, Acked
    <3> QED
      BY <3>1 DEF PromiseKept, Promise!StoreNext, Promise!Calls, Calls
  <2> QED
    BY <2>1, <2>4, <2>5
<1>6. ASSUME NEW c \in Chunks, EraseChunk(k, c)
      PROVE  PromiseKept
  <2>1. /\ UNCHANGED phase
        /\ Answered("erase", c, k) \/ Refused \/ TimedOut("erase", c, k)
    BY <1>6 DEF EraseChunk
  <2>2. Phases' = Phases
    BY <2>1, Unmoved
  <2>3. CASE Refused
    BY <1>1, <2>2, <2>3
    DEF Refused, PromiseKept, Promise!storeVars, Phases, Tasks, Acked
  <2>4. CASE Answered("erase", c, k) \/ TimedOut("erase", c, k)
    <3>1. meta' = [meta EXCEPT ![c] = None] /\ data' = [data EXCEPT ![c] = None]
      BY <2>4 DEF Answered, TimedOut, Effect, NoLate
    <3>2. Promise!Erase(k, c)
      BY <1>1, <1>2, <2>2, <3>1 DEF Promise!Erase, Phases, Tasks, Acked
    <3> QED
      BY <3>2 DEF PromiseKept, Promise!StoreNext, Promise!Calls, Calls
  <2> QED
    BY <2>1, <2>3, <2>4
<1> QED
  BY <1>4, <1>5, <1>6 DEF EraseStep

-----------------------------------------------------------------------------
LEMMA StepKept == TypeInv /\ StoredInv /\ NoLate /\ [Next]_vars => PromiseKept
<1> SUFFICES ASSUME TypeInv, Working, NoLate, [Next]_vars
             PROVE  PromiseKept
  BY DEF StoredInv
<1>1. CASE UNCHANGED vars
  BY <1>1, Unmoved DEF vars, deleteVars, putVars, PromiseKept, Promise!storeVars,
                       Phases, Tasks, Acked
<1>2. CASE LateArrival \/ LateLoss
  BY <1>2 DEF LateArrival, LateLoss, NoLate
<1> QED
  BY <1>1, <1>2, StartPutKept, StartDeleteKept, ChunkStepKept, FinishPutKept,
     EraseStepKept
  DEF Next, CallStep, PutStep, CleanStep

LEMMA InitKept == Init => Promise!StoreInit
BY DEF Init, DeleteInit, Promise!StoreInit, Promise!Calls, Calls

(* The four writers and delete implement BallStore, which the readers rely *)
(* on, whatever is refused, times out, is retried or cleaned up: metadata, *)
(* task, upload, acknowledgement, in this order for every chunk; Ok only   *)
(* when every chunk is acknowledged; no upload after a cleanup has begun.  *)
THEOREM ImplementsBallStore == ~ LateRequests /\ Spec => KeepsPromise
BY TypeInvariant, StoredInvariant, NothingLate, StepKept, InitKept, PTL
DEF Spec, KeepsPromise, Promise!StoreSpec, PromiseKept

-----------------------------------------------------------------------------
(* What is left to do shrinks with every step.  The steps that are left to *)
(* a coroutine fall into four per try, of which a coroutine at work has    *)
(* some (TriesInv); what one call does touches no other call.              *)

LEMMA StepsLeftType ==
  ASSUME TypeInv, NEW p \in Puts, NEW c \in Chunks
  PROVE  StepsLeft(p, c) \in Nat
BY PutAssumption DEF TypeInv, TypeOK, TriesInv, StepsLeft

LEMMA StagesLeftType ==
  ASSUME NEW k
  PROVE  StagesLeft(k) \in Nat
BY DEF StagesLeft

LEMMA CoroutineShrinks ==
  ASSUME TypeInv, NEW p \in Puts, NEW c \in Chunks, ChunkStep(p, c)
  PROVE  /\ StepsLeft(p, c)' \in Nat /\ StepsLeft(p, c)' < StepsLeft(p, c)
         /\ \A q \in Puts, d \in Chunks :
              ~ (q = p /\ d = c) => StepsLeft(q, d)' = StepsLeft(q, d)
<1> USE PutAssumption
<1>0. /\ step \in [Puts -> [Chunks -> CoStates]]
      /\ attempt \in [Puts -> [Chunks -> 1..(MaxTries + 1)]]
      /\ step[p][c] \in {"waiting", "posting", "uploading", "backoff"}
           => attempt[p][c] \in 1..MaxTries
  BY DEF TypeInv, TypeOK, TriesInv
<1>1. ASSUME NEW s, NEW t \in CoStates, step[p][c] = s, Goto(p, c, t),
             UNCHANGED attempt,
             \/ s = "waiting" /\ t = "posting"
             \/ s = "posting" /\ t \in {"uploading", "backoff"}
             \/ s = "uploading" /\ t \in {"stored", "backoff"}
      PROVE  /\ StepsLeft(p, c)' \in Nat /\ StepsLeft(p, c)' < StepsLeft(p, c)
             /\ \A q \in Puts, d \in Chunks :
                  ~ (q = p /\ d = c) => StepsLeft(q, d)' = StepsLeft(q, d)
  <2>1. /\ step'[p][c] = t /\ attempt'[p][c] = attempt[p][c]
        /\ \A q \in Puts, d \in Chunks :
             ~ (q = p /\ d = c) => /\ step'[q][d] = step[q][d]
                                   /\ attempt'[q][d] = attempt[q][d]
    BY <1>0, <1>1 DEF Goto
  <2>2. attempt[p][c] \in 1..MaxTries
    BY <1>0, <1>1
  <2>3. StepsLeft(p, c)' \in Nat /\ StepsLeft(p, c)' < StepsLeft(p, c)
    BY <1>1, <2>1, <2>2 DEF StepsLeft
  <2> QED
    BY <2>1, <2>3 DEF StepsLeft
<1>2. CASE EndBackoff(p, c)
  <2>1. /\ step[p][c] = "backoff" /\ attempt[p][c] \in 1..MaxTries
        /\ step'[p][c] = Loop(attempt[p][c] + 1)
        /\ attempt'[p][c] = attempt[p][c] + 1
        /\ \A q \in Puts, d \in Chunks :
             ~ (q = p /\ d = c) => /\ step'[q][d] = step[q][d]
                                   /\ attempt'[q][d] = attempt[q][d]
    BY <1>0, <1>2 DEF EndBackoff, Goto
  <2>2. StepsLeft(p, c)' \in Nat /\ StepsLeft(p, c)' < StepsLeft(p, c)
    BY <2>1 DEF StepsLeft, Loop
  <2> QED
    BY <2>1, <2>2 DEF StepsLeft
<1>3. CASE Acquire(p, c)
  BY <1>1, <1>3 DEF Acquire, CoStates
<1>4. CASE PostMetadata(p, c)
  BY <1>1, <1>4 DEF PostMetadata, CoStates
<1>5. CASE UploadChunk(p, c)
  BY <1>1, <1>5 DEF UploadChunk, CoStates
<1> QED
  BY <1>2, <1>3, <1>4, <1>5 DEF ChunkStep

(* The two halves of WorkShrinks for call k.                               *)
NothingAdded(k) ==
  /\ StagesLeft(k)' <= StagesLeft(k)
  /\ phase'[k] = phase[k] => \A c \in Chunks : todo'[k][c] <= todo[k][c]
  /\ k \in Puts => \A c \in Chunks : StepsLeft(k, c)' <= StepsLeft(k, c)

SomethingDone(k) ==
  \/ StagesLeft(k)' < StagesLeft(k)
  \/ \E c \in Chunks : \/ todo'[k][c] < todo[k][c]
                       \/ k \in Puts /\ StepsLeft(k, c)' < StepsLeft(k, c)

LEMMA SameStages ==
  ASSUME NEW k, phase'[k] = phase[k]
  PROVE  StagesLeft(k)' <= StagesLeft(k)
<1>1. StagesLeft(k)' = StagesLeft(k)
  BY DEF StagesLeft
<1> QED
  BY <1>1, StagesLeftType

LEMMA SameSteps ==
  ASSUME TypeInv, NEW q \in Puts, NEW d \in Chunks,
         step'[q][d] = step[q][d], attempt'[q][d] = attempt[q][d]
  PROVE  StepsLeft(q, d)' <= StepsLeft(q, d)
<1>1. StepsLeft(q, d)' = StepsLeft(q, d)
  BY DEF StepsLeft
<1> QED
  BY <1>1, StepsLeftType

LEMMA SameTodo ==
  ASSUME TypeInv, NEW k \in Calls, NEW c \in Chunks, todo'[k][c] = todo[k][c]
  PROVE  todo'[k][c] <= todo[k][c]
BY DeleteAssumption DEF TypeInv, TypeOK

(* A step that leaves call k alone.                                        *)
LEMMA AloneKept ==
  ASSUME TypeInv, NEW k \in Calls, phase'[k] = phase[k], todo'[k] = todo[k],
         k \in Puts => step'[k] = step[k] /\ attempt'[k] = attempt[k]
  PROVE  NothingAdded(k)
BY SameStages, SameSteps, SameTodo DEF NothingAdded

(* A step of call k's own coroutines.                                      *)
LEMMA ChunkStepShrinks ==
  ASSUME TypeInv, NEW p \in Puts, NEW c \in Chunks, ChunkStep(p, c)
  PROVE  SomethingDone(p) /\ \A k \in Calls : NothingAdded(k)
<1>1. UNCHANGED <<phase, todo>>
  BY DEF ChunkStep, Acquire, PostMetadata, UploadChunk, EndBackoff, deleteVars
<1>2. \A q \in Puts, d \in Chunks : StepsLeft(q, d)' <= StepsLeft(q, d)
  <2> SUFFICES ASSUME NEW q \in Puts, NEW d \in Chunks
               PROVE  StepsLeft(q, d)' <= StepsLeft(q, d)
    OBVIOUS
  <2>1. StepsLeft(q, d) \in Nat /\ StepsLeft(p, c) \in Nat
    BY StepsLeftType
  <2>2. CASE q = p /\ d = c
    <3>1. StepsLeft(p, c)' \in Nat /\ StepsLeft(p, c)' < StepsLeft(p, c)
      BY CoroutineShrinks
    <3> QED
      BY <2>1, <2>2, <3>1
  <2>3. CASE ~ (q = p /\ d = c)
    <3>1. StepsLeft(q, d)' = StepsLeft(q, d)
      BY <2>3, CoroutineShrinks
    <3> QED
      BY <2>1, <3>1
  <2> QED
    BY <2>2, <2>3
<1>3. SomethingDone(p)
  BY CoroutineShrinks DEF SomethingDone
<1>4. ASSUME NEW k \in Calls
      PROVE  NothingAdded(k)
  BY <1>1, <1>2, SameStages, SameTodo DEF NothingAdded
<1> QED
  BY <1>3, <1>4

(* A step of the erasing half of a call.                                   *)
LEMMA EraseStepShrinks ==
  ASSUME TypeInv, NEW j \in Calls, EraseStep(j), UNCHANGED putVars
  PROVE  SomethingDone(j) /\ \A k \in Calls : NothingAdded(k)
<1>0. /\ phase \in [Calls -> {"idle", "uploading", "listing", "erasing", "ok", "err"}]
      /\ todo \in [Calls -> [Chunks -> 0..Routers]]
      /\ UNCHANGED <<step, attempt>>
  BY DEF TypeInv, TypeOK, putVars
<1>1. ASSUME NEW k \in Calls, k # j
      PROVE  NothingAdded(k)
  <2>1. phase'[k] = phase[k] /\ todo'[k] = todo[k]
    BY <1>0, <1>1 DEF EraseStep, ListChunks, ListFails, FinishErase, EraseChunk
  <2> QED
    BY <1>0, <2>1, AloneKept
<1>2. CASE ListChunks(j) \/ ListFails(j) \/ FinishErase(j)
  <2>1. \/ phase[j] = "listing" /\ phase'[j] \in {"erasing", "err"}
        \/ phase[j] = "erasing" /\ phase'[j] \in {"ok", "err"}
    BY <1>0, <1>2 DEF ListChunks, ListFails, FinishErase
  <2>2. StagesLeft(j)' < StagesLeft(j) /\ phase'[j] # phase[j]
    BY <2>1 DEF StagesLeft
  <2>3. StagesLeft(j)' <= StagesLeft(j)
    BY <2>1 DEF StagesLeft
  <2>4. j \in Puts => \A c \in Chunks : StepsLeft(j, c)' <= StepsLeft(j, c)
    BY <1>0, SameSteps
  <2> QED
    BY <1>1, <2>2, <2>3, <2>4 DEF SomethingDone, NothingAdded
<1>3. ASSUME NEW c \in Chunks, EraseChunk(j, c)
      PROVE  SomethingDone(j) /\ NothingAdded(j)
  <2>1. /\ phase'[j] = phase[j] /\ todo[j][c] \in 1..Routers
        /\ todo'[j][c] = todo[j][c] - 1
        /\ \A d \in Chunks : d # c => todo'[j][d] = todo[j][d]
    BY <1>0, <1>3, DeleteAssumption DEF EraseChunk
  <2>2. todo'[j][c] < todo[j][c] /\ \A d \in Chunks : todo'[j][d] <= todo[j][d]
    BY <2>1, SameTodo, DeleteAssumption
  <2>3. j \in Puts => \A d \in Chunks : StepsLeft(j, d)' <= StepsLeft(j, d)
    BY <1>0, SameSteps
  <2> QED
    BY <2>1, <2>2, <2>3, SameStages DEF SomethingDone, NothingAdded
<1> QED
  BY <1>1, <1>2, <1>3 DEF EraseStep

LEMMA FinishPutShrinks ==
  ASSUME TypeInv, NEW p \in Puts, FinishPut(p)
  PROVE  SomethingDone(p) /\ \A k \in Calls : NothingAdded(k)
<1>0. /\ phase \in [Calls -> {"idle", "uploading", "listing", "erasing", "ok", "err"}]
      /\ p \in Calls /\ UNCHANGED <<step, attempt, todo>>
  BY DEF TypeInv, TypeOK, FinishPut, putVars, Calls
<1>1. /\ phase[p] = "uploading" /\ phase'[p] \in {"ok", "listing", "err"}
      /\ \A k \in Calls : k # p => phase'[k] = phase[k]
  BY <1>0 DEF FinishPut
<1>2. StagesLeft(p)' < StagesLeft(p) /\ StagesLeft(p)' <= StagesLeft(p)
  BY <1>1 DEF StagesLeft
<1>3. \A c \in Chunks : StepsLeft(p, c)' <= StepsLeft(p, c)
  BY <1>0, SameSteps
<1>4. \A k \in Calls : k # p => NothingAdded(k)
  BY <1>0, <1>1, AloneKept
<1> QED
  BY <1>1, <1>2, <1>3, <1>4 DEF SomethingDone, NothingAdded

(* The start of one call, and what lingers of others.                      *)
LEMMA OtherStepsAddNothing ==
  ASSUME TypeInv, NEW k \in Calls, Running(k),
         \/ \E p \in Puts : StartPut(p)
         \/ \E d \in Deletes : StartDelete(d) /\ UNCHANGED putVars
         \/ (LateArrival \/ LateLoss) /\ UNCHANGED putVars
         \/ UNCHANGED vars
  PROVE  NothingAdded(k)
<1>0. /\ phase \in [Calls -> {"idle", "uploading", "listing", "erasing", "ok", "err"}]
      /\ step \in [Puts -> [Chunks -> CoStates]]
      /\ phase[k] # "idle"
  BY DEF TypeInv, TypeOK, Running
<1>1. phase'[k] = phase[k] /\ UNCHANGED <<todo, attempt>>
  BY <1>0 DEF StartPut, StartDelete, LateArrival, LateLoss, putVars, vars,
              deleteVars, Calls
<1>2. k \in Puts => step'[k] = step[k]
  BY <1>0 DEF StartPut, StartDelete, LateArrival, LateLoss, putVars, vars
<1> QED
  BY <1>1, <1>2, AloneKept

(* A put that retries, a cleanup and a delete come ever closer to their    *)
(* end: no step of any call, and nothing that a timed-out request still    *)
(* does, adds to what a call that has begun has left to do, and each of    *)
(* its own steps does some of it.                                          *)
THEOREM WorkShrinksAlways == Spec => WorkShrinks
<1>1. TypeInv /\ [Next]_vars =>
        \A k \in Calls : Running(k) =>
          NothingAdded(k) /\ (CallStep(k) => SomethingDone(k))
  <2> SUFFICES ASSUME TypeInv, [Next]_vars, NEW k \in Calls, Running(k)
               PROVE  NothingAdded(k) /\ (CallStep(k) => SomethingDone(k))
    OBVIOUS
  <2>1. ASSUME NEW j \in Calls, CallStep(j)
        PROVE  SomethingDone(j) /\ NothingAdded(k)
    BY <2>1, ChunkStepShrinks, FinishPutShrinks, EraseStepShrinks
    DEF CallStep, PutStep, CleanStep
  <2> QED
    BY <2>1, OtherStepsAddNothing DEF Next
<1>2. TypeInv /\ [Next]_vars =>
        [\A k \in Calls : Running(k) =>
           /\ StagesLeft(k)' <= StagesLeft(k)
           /\ phase'[k] = phase[k] => \A c \in Chunks : todo'[k][c] <= todo[k][c]
           /\ k \in Puts => \A c \in Chunks : StepsLeft(k, c)' <= StepsLeft(k, c)
           /\ CallStep(k) =>
                \/ StagesLeft(k)' < StagesLeft(k)
                \/ \E c \in Chunks :
                      \/ todo'[k][c] < todo[k][c]
                      \/ k \in Puts /\ StepsLeft(k, c)' < StepsLeft(k, c)]_vars
  BY <1>1 DEF NothingAdded, SomethingDone
<1> QED
  BY <1>2, TypeInvariant, PTL DEF Spec, WorkShrinks

-----------------------------------------------------------------------------
(* No put waits for a place that nobody gives back.  Everybody who holds a *)
(* place, and everybody in his backoff, can go on by himself, and when     *)
(* nobody holds one the semaphore is open; what has to be kept is that all *)
(* coroutines of an uploading put have been started (Begun).               *)

Begun == \A p \in Puts : phase[p] = "uploading"
           => \A c \in ChunksOf[p] : step[p][c] # "idle"

LEMMA BegunInvariant == Spec => []Begun
<1> USE DeleteAssumption, PutAssumption DEF Calls
<1>1. Init => Begun
  BY DEF Init, DeleteInit, Begun
<1>2. TypeInv /\ Begun /\ [Next]_vars => Begun'
  <2> SUFFICES ASSUME TypeInv, Begun, [Next]_vars,
                      NEW p \in Puts, phase'[p] = "uploading",
                      NEW c \in ChunksOf[p]
               PROVE  step'[p][c] # "idle"
    BY DEF Begun
  <2>0. /\ phase \in [Calls -> {"idle", "uploading", "listing", "erasing", "ok", "err"}]
        /\ step \in [Puts -> [Chunks -> CoStates]]
        /\ c \in Chunks
        /\ phase[p] = "uploading" => step[p][c] # "idle"
    BY DEF TypeInv, TypeOK, Begun
  <2>1. CASE StartPut(p)
    BY <2>0, <2>1 DEF StartPut, Loop
  <2>2. CASE \E q \in Puts : q # p /\ StartPut(q)
    BY <2>0, <2>2 DEF StartPut
  <2>3. CASE \E d \in Deletes : StartDelete(d) /\ UNCHANGED putVars
    BY <2>0, <2>3 DEF StartDelete, putVars
  <2>4. ASSUME NEW q \in Puts, NEW d \in Chunks, ChunkStep(q, d)
        PROVE  step'[p][c] # "idle"
    <3>1. /\ UNCHANGED phase
          /\ \E s : s # "idle" /\ step' = [step EXCEPT ![q][d] = s]
      BY <2>4 DEF ChunkStep, Acquire, PostMetadata, UploadChunk, EndBackoff,
                  Goto, Loop, deleteVars
    <3> QED
      BY <2>0, <3>1
  <2>5. CASE \E q \in Puts : FinishPut(q)
    BY <2>0, <2>5 DEF FinishPut, putVars
  <2>6. ASSUME NEW k \in Calls, EraseStep(k), UNCHANGED putVars
        PROVE  step'[p][c] # "idle"
    BY <2>0, <2>6
    DEF EraseStep, ListChunks, ListFails, FinishErase, EraseChunk, putVars
  <2>7. CASE (LateArrival \/ LateLoss) /\ UNCHANGED putVars
    BY <2>0, <2>7 DEF LateArrival, LateLoss, putVars
  <2>8. CASE UNCHANGED vars
    BY <2>0, <2>8 DEF vars, deleteVars, putVars
  <2> QED
    BY <2>1, <2>2, <2>3, <2>4, <2>5, <2>6, <2>7, <2>8
    DEF Next, CallStep, PutStep, CleanStep
<1> QED
  BY <1>1, <1>2, TypeInvariant, PTL DEF Spec

(* Whenever a put is uploading, gather can return, or some coroutine is in *)
(* a request or in its backoff, or one waits and the semaphore is open.    *)
SomebodyMoves ==
  \A p \in Puts : phase[p] = "uploading" =>
    \/ Gathered(p)
    \/ \E c \in ChunksOf[p] :
         \/ step[p][c] \in {"posting", "uploading", "backoff"}
         \/ step[p][c] = "waiting" /\ Cardinality(Holders(p)) < MaxConcurrency

(* The coroutines of a put never all wait for one another.                 *)
THEOREM SomebodyMovesAlways == Spec => []SomebodyMoves
<1>1. TypeInv /\ StoredInv /\ Begun => SomebodyMoves
  <2> SUFFICES ASSUME TypeInv, Working, Begun, NEW p \in Puts,
                      phase[p] = "uploading", ~ Gathered(p),
                      \A c \in ChunksOf[p] :
                        step[p][c] \notin {"posting", "uploading", "backoff"}
               PROVE  \E c \in ChunksOf[p] :
                        step[p][c] = "waiting"
                          /\ Cardinality(Holders(p)) < MaxConcurrency
    BY DEF StoredInv, SomebodyMoves
  <2>1. PICK c \in ChunksOf[p] : step[p][c] \notin {"stored", "failed"}
    BY DEF Gathered
  <2>2. step[p][c] = "waiting"
    <3>1. c \in Chunks /\ step[p][c] \in CoStates /\ step[p][c] # "idle"
      BY DeleteAssumption DEF TypeInv, TypeOK, Begun
    <3> QED
      BY <2>1, <3>1 DEF CoStates
  <2>3. Holders(p) = {}
    <3> SUFFICES ASSUME NEW d \in Chunks, step[p][d] \in {"posting", "uploading"}
                 PROVE  FALSE
      BY DEF Holders
    <3>1. d \in ChunksOf[p]
      BY DEF Working
    <3> QED
      BY <3>1
  <2>4. Cardinality(Holders(p)) = 0
    BY <2>3, FS_EmptySet
  <2>5. Cardinality(Holders(p)) < MaxConcurrency
    BY <2>4, PutAssumption
  <2> QED
    BY <2>1, <2>2, <2>5
<1> QED
  BY <1>1, TypeInvariant, StoredInvariant, BegunInvariant, PTL
=============================================================================
