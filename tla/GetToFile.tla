----------------------------- MODULE GetToFile -----------------------------
(***************************************************************************)
(* AsyncClient.get_to_file (asyncx/__init__.py), called again and again    *)
(* with one path.  A file that is already there is compared with the       *)
(* checksum in the metadata and never touched.  Otherwise the file is      *)
(* opened, the chunks are fetched concurrently, once each, and a writer    *)
(* beside them appends whatever chunk is next.  The first chunk that       *)
(* cannot be fetched ends the call; what has been written stays.  The      *)
(* process may die at any time.                                            *)
(***************************************************************************)
EXTENDS ReadBall

CONSTANTS Absent,   \* no file at the path
          MaxCalls  \* bound on the calls, the ones cut short by a crash included

ASSUME FileAssumption == /\ MaxCalls \in Nat \ {0}
                         /\ \A s \in Situations : s.operation = "get_to_file"

VARIABLES file,     \* Absent or the blocks in the file
          written,  \* next_to_write
          opened,   \* has the call opened the file?
          calls     \* calls begun after the first

fileVars == <<file, written, opened, calls>>
vars == <<storeVars, readVars, fileVars>>

Init == /\ ReadInit
        /\ file = Absent /\ written = 0 /\ opened = FALSE /\ calls = 0

AllChunks == {c \in Chunks : c < Cardinality(ChunksOf[meta[ProbeIndex]])}

(* (variant) The file counts as downloaded when it is there.               *)
ProbeHitUnchecked ==
  /\ call = "probing" /\ meta[ProbeIndex] # None /\ file # Absent
  /\ call' = "ok"
  /\ UNCHANGED <<storeVars, situation, probes, total, fetch, seen, pieces, fileVars>>

(* os.path.exists: a hit, or FileAlreadyExists.                            *)
ProbeHit ==
  /\ call = "probing" /\ meta[ProbeIndex] # None /\ file # Absent
  /\ call' = IF file = Value(meta[ProbeIndex]) THEN "ok" ELSE "err"
  /\ UNCHANGED <<storeVars, situation, probes, total, fetch, seen, pieces, fileVars>>

(* (variant) The file is opened for writing whether it is there or not.    *)
OpenAnyway == /\ ProbeAnswered(AllChunks)
              /\ file' = <<>> /\ opened' = TRUE
              /\ UNCHANGED <<written, calls>>

(* open(_path, "wb")                                                       *)
Open == /\ file = Absent
        /\ ProbeAnswered(AllChunks)
        /\ file' = <<>> /\ opened' = TRUE
        /\ UNCHANGED <<written, calls>>

(* (variant) Any chunk that has arrived is written, and kept.              *)
WriteAny == /\ call = "fetching"
            /\ \E c \in Chunks : /\ fetch[c] = "fetched"
                                 /\ file' = file \o pieces[c][2]
            /\ written' = written + 1
            /\ UNCHANGED <<storeVars, readVars, opened, calls>>

(* writer_loop, one chunk at a time; the code writes all that are ready    *)
(* without letting go of the event loop.                                   *)
WriteNext == /\ call = "fetching" /\ written < total
             /\ fetch[written] = "fetched"
             /\ file' = file \o pieces[written][2]
             /\ written' = written + 1
             /\ UNCHANGED <<storeVars, readVars, opened, calls>>

(* (variant) A fetch that failed is not reported.                          *)
MissSilently(c) == /\ Misses(c)
                   /\ fetch' = [fetch EXCEPT ![c] = "failed"]
                   /\ UNCHANGED <<storeVars, situation, call, probes, total, seen, pieces,
                                  fileVars>>

(* raise GetChunkError: gather raises, the file is closed.                 *)
Miss(c) == /\ Misses(c)
           /\ call' = "err"
           /\ UNCHANGED <<storeVars, situation, probes, total, fetch, seen, pieces, fileVars>>

(* gather: the writer has written all chunks, so all have been fetched.    *)
Finish == /\ call = "fetching" /\ written = total
          /\ call' = "ok"
          /\ UNCHANGED <<storeVars, situation, probes, total, fetch, seen, pieces, fileVars>>

FetchStep(c) == Acquire(c) \/ AskMetadata(c) \/ ReadData(c)

ReaderStep == \/ (ProbeFails \/ \E c \in Chunks : FetchStep(c)) /\ UNCHANGED fileVars
              \/ ProbeHit \/ Open \/ WriteNext \/ Finish
              \/ \E c \in Chunks : Miss(c)

(* What a call keeps in memory is gone with it.                            *)
Forget == /\ calls < MaxCalls
          /\ calls' = calls + 1
          /\ call' = "idle" /\ probes' = 0 /\ total' = 0
          /\ fetch' = [c \in Chunks |-> "idle"]
          /\ seen' = [c \in Chunks |-> None]
          /\ pieces' = [c \in Chunks |-> <<None, <<>>>>]
          /\ written' = 0 /\ opened' = FALSE
          /\ UNCHANGED <<storeVars, situation>>

CallAgain == /\ call \in {"ok", "err"}
             /\ Forget
             /\ UNCHANGED file

(* Of what was written to the open file some prefix is on the disk.        *)
Crash == /\ Calling
         /\ Forget
         /\ IF opened THEN \E n \in 0..Len(file) : file' = SubSeq(file, 1, n)
            ELSE UNCHANGED file

Next == \/ (StartCall \/ WriterStep) /\ UNCHANGED fileVars
        \/ ReaderStep \/ CallAgain \/ Crash

Spec == Init /\ [][Next]_vars

(* The event loop runs the call and every request has a timeout.           *)
FairSpec == Spec /\ WF_vars(ReaderStep)

-----------------------------------------------------------------------------
TypeOK == /\ situation \in Situations
          /\ call \in {"idle", "probing", "fetching", "ok", "err"}
          /\ fetch \in [Chunks -> FetchStates]
          /\ file = Absent \/ Len(file) \in Nat
          /\ written \in 0..total
          /\ opened \in BOOLEAN
          /\ calls \in 0..MaxCalls

(***************************************************************************)
(* In whatever order the chunks arrive, the open file holds the first of   *)
(* them, in their order and without a gap, and when the call answers Ok    *)
(* all of them.                                                            *)
(***************************************************************************)
WrittenInOrder == opened => /\ file = Join([c \in Chunks |-> pieces[c][2]], written)
                            /\ call = "ok" => file = Fetched

(***************************************************************************)
(* Ok means that the file is the whole ball: what an earlier call left     *)
(* that failed or died half way is never taken for it.  (The ball being at *)
(* rest: no checksum is compared after a download.)                        *)
(***************************************************************************)
OkIsWholeFile ==
  call = "ok" /\ Old # None /\ (\A k \in Calls \ {Old} : phase[k] = "idle")
    => file = Value(Old)

(***************************************************************************)
(* A file that a call finds is not changed by that call, nor by a crash.   *)
(***************************************************************************)
ExistingFileKept == [][file # Absent /\ ~ opened => file' = file]_vars

(***************************************************************************)
(* A call that begins returns, unless the process dies.                    *)
(***************************************************************************)
Returns == Calling ~> ~ Calling
=============================================================================
