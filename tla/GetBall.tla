------------------------------ MODULE GetBall ------------------------------
(***************************************************************************)
(* AsyncClient.get, get_chunks and get_chunk (asyncx/__init__.py): every   *)
(* chunk is tried MaxRetries times; get then compares the SHA-256 of what  *)
(* it has put together with the one in the metadata of the first chunk,    *)
(* get_chunks and get_chunk hand out what they have.                       *)
(***************************************************************************)
EXTENDS ReadBall

ASSUME GetAssumption == \A s \in Situations : s.operation # "get_to_file"

VARIABLES tries,  \* chunk -> attempt
          whole,  \* history: the values the ball held whole meanwhile
          rested  \* history: the put whose ball was at rest when the call began

vars == <<storeVars, readVars, tries, whole, rested>>

Init == /\ ReadInit
        /\ tries = [c \in Chunks |-> 0]
        /\ whole = {}
        /\ rested = {}

(* (variant) Every chunk that a listing finds, instead of num_chunks.      *)
WantedListed == IF operation = "get_chunk" THEN {ProbeIndex}
                ELSE {c \in Chunks : meta[c] # None}

(* get and get_chunks fetch all chunks, get_chunk the one it asked about.  *)
Wanted == IF operation = "get_chunk" THEN {ProbeIndex}
          ELSE {c \in Chunks : c < Cardinality(ChunksOf[meta[ProbeIndex]])}

(* (variants) One attempt too few; attempts that are not counted; no limit *)
(* to them.                                                                *)
MissEarly(c) ==
  /\ Misses(c)
  /\ tries' = [tries EXCEPT ![c] = @ + 1]
  /\ fetch' = [fetch EXCEPT ![c] =
                 IF tries[c] + 2 < MaxRetries THEN "waiting" ELSE "failed"]
  /\ UNCHANGED <<storeVars, situation, call, probes, total, seen, pieces>>

MissUncounted(c) ==
  /\ Misses(c)
  /\ fetch' = [fetch EXCEPT ![c] = "waiting"]
  /\ UNCHANGED <<storeVars, situation, call, probes, total, seen, pieces, tries>>

MissUnlimited(c) ==
  /\ Misses(c)
  /\ tries' = [tries EXCEPT ![c] = @ + 1]
  /\ fetch' = [fetch EXCEPT ![c] = "waiting"]
  /\ UNCHANGED <<storeVars, situation, call, probes, total, seen, pieces>>

(* An attempt that failed is counted; after the last one the coroutine     *)
(* returns Err.                                                            *)
Miss(c) ==
  /\ Misses(c)
  /\ tries' = [tries EXCEPT ![c] = @ + 1]
  /\ fetch' = [fetch EXCEPT ![c] =
                 IF tries[c] + 1 < MaxRetries THEN "waiting" ELSE "failed"]
  /\ UNCHANGED <<storeVars, situation, call, probes, total, seen, pieces>>

(* (variant) No checksum is compared.                                      *)
IntactUnchecked == TRUE

(* remote_checksum == checksum, SHA-256 taken to tell all values apart.    *)
Intact == operation = "get" => Fetched = Value(pieces[0][1])

Finish ==
  LET coroutines == {c \in Chunks : fetch[c] # "idle"}
  IN  /\ call = "fetching"
      /\ \A c \in coroutines : fetch[c] \in {"fetched", "failed"}
      /\ call' = IF (\A c \in coroutines : fetch[c] = "fetched") /\ Intact
                 THEN "ok" ELSE "err"
      /\ UNCHANGED <<storeVars, situation, probes, total, fetch, seen, pieces, tries>>

FetchStep(c) == \/ (Acquire(c) \/ AskMetadata(c) \/ ReadData(c)) /\ UNCHANGED tries
                \/ Miss(c)

ReaderStep == \/ (ProbeAnswered(Wanted) \/ ProbeFails) /\ UNCHANGED tries
              \/ \E c \in Chunks : FetchStep(c)
              \/ Finish

Step == \/ StartCall /\ UNCHANGED tries
        \/ ReaderStep
        \/ WriterStep /\ UNCHANGED tries

(* The put has answered Ok, and no other call but the one whose ball was   *)
(* there before has begun.                                                 *)
AtRest(p) == phase[p] = "ok" /\ \A k \in Calls \ {Old, p} : phase[k] = "idle"

Remember == /\ whole' = IF Calling' THEN whole \cup Held' ELSE whole
            /\ rested' = IF call = "idle" /\ call' # "idle"
                         THEN {p \in Puts : AtRest(p)} ELSE rested

Next == Step /\ Remember

Spec == Init /\ [][Next]_vars

(* The event loop runs the call and every request has a timeout.           *)
FairSpec == Spec /\ WF_vars(ReaderStep /\ Remember)

-----------------------------------------------------------------------------
TypeOK ==
  /\ meta \in [Chunks -> Puts \cup {None}]
  /\ data \in [Chunks -> Puts \cup {None}]
  /\ phase \in [Calls -> {"idle", "uploading", "erasing", "ok", "err"}]
  /\ tasks \in [Puts -> SUBSET Chunks]
  /\ acked \in [Puts -> SUBSET Chunks]
  /\ call \in {"idle", "probing", "fetching", "ok", "err"}
  /\ probes \in 0..MaxRetries
  /\ total \in 0..Cardinality(Chunks)
  /\ fetch \in [Chunks -> FetchStates]
  /\ seen \in [Chunks -> Puts \cup {None}]
  /\ \A c \in Chunks : pieces[c][1] \in Puts \cup {None}
  /\ situation \in Situations
  /\ tries \in [Chunks -> 0..MaxRetries]

(***************************************************************************)
(* A read that begins when a put has answered Ok reads its ball, whatever  *)
(* a longer or a shorter ball has left behind under the same name: get,    *)
(* get_chunks and get_chunk hand out all the chunks of this put and no     *)
(* others, unless another call begins meanwhile.  get_chunks and get_chunk *)
(* have no checksum to tell them.                                          *)
(***************************************************************************)
Asked(p) == IF operation = "get_chunk" THEN {ProbeIndex} ELSE ChunksOf[p]

ReadsTheBall ==
  call = "ok" =>
    \A p \in rested : AtRest(p) /\ ProbeIndex \in ChunksOf[p] =>
      /\ total = Cardinality(ChunksOf[p])
      /\ {c \in Chunks : fetch[c] = "fetched"} = Asked(p)
      /\ \A c \in Asked(p) : pieces[c] = <<p, Content[p][c]>>

(***************************************************************************)
(* When the values share no bytes, an Ok answer of get is a value the ball *)
(* held whole at some moment during the call: chunks read at different     *)
(* moments never add up to a value that was not there.  For the value that *)
(* was there before, this is so whatever puts and deletes run meanwhile;   *)
(* for a newer value as long as no third call is at work, which could      *)
(* overwrite or erase one of its chunks before another one is written.     *)
(***************************************************************************)
ShareNothing ==
  \A p \in Puts :
    /\ \A c \in ChunksOf[p] : Content[p][c] # <<>>
    /\ \A q \in Puts \ {p} : \A c \in ChunksOf[p], d \in ChunksOf[q] :
         Range(Content[p][c]) \cap Range(Content[q][d]) = {}

Alone(p) == p = Old \/ \A k \in Calls \ {Old, p} : phase[k] = "idle"

AnswerWasThere ==
  operation = "get" /\ call = "ok" /\ ShareNothing /\ Alone(pieces[0][1])
    => Fetched \in whole

(***************************************************************************)
(* The get of a ball at rest fails only when some request failed           *)
(* MaxRetries times: fewer failures, of whichever chunks, are survived.    *)
(***************************************************************************)
ErrOnlyAfterAllRetries ==
  call = "err" /\ Old # None /\ (\A k \in Calls \ {Old} : phase[k] = "idle")
    => \/ probes = MaxRetries
       \/ \E c \in ChunksOf[Old] : tries[c] = MaxRetries

(***************************************************************************)
(* A call that begins returns.                                             *)
(***************************************************************************)
Returns == Calling ~> call \in {"ok", "err"}
=============================================================================
