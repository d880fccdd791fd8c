------------------------------ MODULE IpcServer ------------------------------
(***************************************************************************)
(* ipc/server.py: the thread of the IPC server.  Once per heartbeat it may *)
(* copy what it holds to disk and to the cloud, and takes one request from *)
(* the queue /mictlanx: a PUT reads a file of the host chunk by chunk into *)
(* the shared memory, a GET tells where there the data of a key is.        *)
(*                                                                         *)
(* The memory is made of cells, a content is a sequence of cells, and the  *)
(* checksum of a content is the content.  All clients here have one        *)
(* client_id; those with another one have a queue of their own.            *)
(***************************************************************************)
EXTENDS Integers, SequencesExt

CONSTANTS Paths,         \* files of the host that are PUT
          Contents,
          Cell,
          Cells,         \* Contents -> the sequence of its cells
          Keys,
          NoKey,         \* the empty key of a PUT: the checksum is the key
          None,
          Memory,        \* max_memory, in cells
          ChunkSize,     \* chunk_size, in cells
          QueueSize,     \* messages the queue /mictlanx holds: 10
          MailSize,      \* messages the queue of a client holds: 10, the default
          ToDisk,        \* to_disk_interval, in heartbeats
          ToCloud,       \* to_cloud_interval, in heartbeats
          Workers,       \* int(max_workers / 2)
          OnDisk         \* Names -> what an earlier server left on disk, or None

ASSUME ServerAssumption ==
  /\ Cells \in [Contents -> Seq(Cell)]
  /\ \A c, d \in Contents : c # d => Cells[c] # Cells[d]
  /\ Memory \in Nat \ {0} /\ ChunkSize \in Nat \ {0} /\ QueueSize \in Nat \ {0}
  /\ MailSize \in Nat \ {0}
  /\ ToDisk \in Nat \ {0} /\ ToCloud \in Nat \ {0} /\ Workers \in Nat \ {0}
  /\ NoKey \notin Keys \cup Contents /\ Keys \cap Contents = {}

Names == Keys \cup Contents

VARIABLES files,     \* Paths -> content, or None: no such file
          requests,  \* the queue /mictlanx, in the order of arrival
          server,    \* "waiting", "reading", "down" once the thread has ended by an
                     \*   exception, "gone" once memory and queue are removed
          work,      \* the PUT being read: [request, checksum, got], or None
          bound,     \* has _key been assigned?
          memory,    \* the shared memory
          offset,
          schema,    \* distribution_schema, in the order of insertion
          beats,     \* heartbeats, modulo the intervals
          disk,      \* Names -> the cells of the file, or None
          cloud,     \* Names -> the cells of the ball, or None
          queues,    \* every queue there was of client_id: what is in it
          name,      \* which of them has the name now, or 0
          handle     \* which of them the server has opened, or 0

copies == <<disk, cloud>>
held   == <<memory, offset, schema>>
mail   == <<queues, name, handle>>
serverVars == <<requests, server, work, bound, held, beats, copies, mail>>

ServerInit == /\ requests = <<>> /\ server = "waiting" /\ work = None
              /\ bound = FALSE
              /\ memory = [i \in 1..Memory |-> None] /\ offset = 0
              /\ schema = <<>> /\ beats = 0
              /\ disk = OnDisk /\ cloud = [k \in Names |-> None]
              /\ queues = <<>> /\ name = 0 /\ handle = 0

-----------------------------------------------------------------------------
Stored == {schema[i].key : i \in DOMAIN schema}

Entry(k) == CHOOSE e \in Range(schema) : e.key = k

(* buf[offset : offset + size]                                             *)
Data(e) == SubSeq(memory, e.offset + 1, e.offset + e.size)

(* (variant) A file that is there is not compared.                         *)
FlushedIfMissing == [k \in Names |-> IF k \in Stored /\ disk[k] = None
                                     THEN Data(Entry(k)) ELSE disk[k]]

(* check_to_disk: a file with other bytes is written anew.                 *)
Flushed == [k \in Names |-> IF k \in Stored THEN Data(Entry(k)) ELSE disk[k]]

(* The entries at which check_to_cloud looks at the metadata it has asked  *)
(* for: every Workers-th one, and the last of no more than Workers.        *)
Looked == {i \in DOMAIN schema : \/ (i - 1) % Workers = 0
                                 \/ i = Len(schema) /\ Len(schema) <= Workers}

(* (variant) The data is that of the last entry.                           *)
PushedLast(S) == [k \in Names |-> IF \E i \in S : schema[i].key = k
                                  THEN Data(Last(schema)) ELSE cloud[k]]

(* What a push of these entries leaves in the cloud.  All the metadata     *)
(* that has been gathered is compared with the entry looked at, its own    *)
(* among it; when all agree the cloud has it already.                      *)
Pushed(S) == [k \in Names |-> IF \E i \in S : schema[i].key = k
                              THEN Data(Entry(k)) ELSE cloud[k]]

(* The checks of a heartbeat.  Lookups and pushes may fail.                *)
Checks == /\ disk' = IF beats % ToDisk = 0 THEN Flushed ELSE disk
          /\ IF beats % ToCloud = 0
             THEN \E S \in SUBSET Looked : cloud' = Pushed(S)
             ELSE cloud' = cloud

Beat == beats' = (beats + 1) % (ToDisk * ToCloud)

Idle == /\ server = "waiting" /\ requests = <<>>
        /\ Checks /\ Beat
        /\ UNCHANGED <<files, requests, server, work, bound, held, mail>>

-----------------------------------------------------------------------------
(* (variant) The priorities are exchanged.                                 *)
OutranksReversed(m, n) == m.op = "GET" /\ n.op = "PUT"

(* PUTs have priority 100, GETs 1.                                         *)
Outranks(m, n) == m.op = "PUT" /\ n.op = "GET"

(* The request at i comes out of the queue next: the first of the highest  *)
(* priority.                                                               *)
IsNext(i) == /\ \A j \in DOMAIN requests : ~ Outranks(requests[j], requests[i])
             /\ \A j \in 1..(i - 1) : Outranks(requests[i], requests[j])

(* The server opens the queue of the client once, and keeps it.            *)
Reopened == IF handle # 0 THEN [q |-> queues, name |-> name, h |-> handle]
            ELSE IF name # 0 THEN [q |-> queues, name |-> name, h |-> name]
            ELSE [q |-> Append(queues, <<>>), name |-> Len(queues) + 1,
                  h |-> Len(queues) + 1]

(* (variant) The answer is put whether there is room or not.               *)
AnswerAnyway(reply) ==
  /\ handle' = Reopened.h /\ name' = Reopened.name
  /\ queues' = [Reopened.q EXCEPT ![Reopened.h] = Append(@, reply)]
  /\ server' = "waiting"
  /\ Beat

(* put_nowait: a full queue raises, and that ends the thread.              *)
Answer(reply) ==
  LET full == Len(Reopened.q[Reopened.h]) = MailSize
  IN  /\ handle' = Reopened.h /\ name' = Reopened.name
      /\ queues' = IF full THEN Reopened.q
                   ELSE [Reopened.q EXCEPT ![Reopened.h] = Append(@, reply)]
      /\ server' = IF full THEN "down" ELSE "waiting"
      /\ Beat

Refusal(m) == [id |-> m.id, status |-> -1]

Take(i) == /\ server = "waiting" /\ IsNext(i)
           /\ requests' = RemoveAt(requests, i)
           /\ Checks
           /\ UNCHANGED files

(* The key under which a PUT is stored: _key.                              *)
KeyOf(m, checksum) == IF m.key = NoKey THEN checksum ELSE m.key

(* No such file, or the key or the checksum is there already.              *)
RefusePut(i) ==
  LET m == requests[i]
  IN  /\ Take(i) /\ m.op = "PUT"
      /\ files[m.path] = None \/ {m.key, files[m.path]} \cap Stored # {}
      /\ Answer(Refusal(m))
      /\ UNCHANGED <<work, bound, held>>

RefuseLargePut(i) ==
  LET m == requests[i]
  IN  /\ Take(i) /\ m.op = "PUT"
      /\ files[m.path] # None /\ {m.key, files[m.path]} \cap Stored = {}
      /\ offset + Len(Cells[files[m.path]]) > Memory
      /\ bound' = TRUE
      /\ Answer(Refusal(m))
      /\ UNCHANGED <<work, held>>

BeginPut(i) ==
  LET m == requests[i]
  IN  /\ Take(i) /\ m.op = "PUT"
      /\ files[m.path] # None /\ {m.key, files[m.path]} \cap Stored = {}
      /\ offset + Len(Cells[files[m.path]]) <= Memory
      /\ bound' = TRUE
      /\ work' = [request |-> m, checksum |-> files[m.path], got |-> <<>>]
      /\ server' = "reading"
      /\ handle' = Reopened.h /\ name' = Reopened.name /\ queues' = Reopened.q
      /\ UNCHANGED <<held, beats>>

Size == Len(Cells[work.checksum])

(* f.read: the file as it is now, from where the reading has come to.  A   *)
(* file smaller than a chunk is read to its end.                           *)
Chunk == LET file == Cells[files[work.request.path]]
             from == Len(work.got)
             to   == IF Size < ChunkSize \/ from + ChunkSize > Len(file)
                     THEN Len(file) ELSE from + ChunkSize
         IN  SubSeq(file, from + 1, to)

(* (variant) Every file is written from the beginning of the memory.       *)
OverwriteFromStart(chunk) ==
  [i \in DOMAIN memory |-> IF i \in Len(work.got) + 1 .. Len(work.got) + Len(chunk)
                           THEN chunk[i - Len(work.got)] ELSE memory[i]]

(* A chunk is written where the last one ended.                            *)
Overwrite(chunk) ==
  [i \in DOMAIN memory |-> IF i \in offset + 1 .. offset + Len(chunk)
                           THEN chunk[i - offset] ELSE memory[i]]

(* A chunk that does not fit into what is left of the memory raises.  A    *)
(* file that ended early is read for ever.                                 *)
ReadChunk ==
  /\ server = "reading" /\ Len(work.got) < Size
  /\ IF offset + Len(Chunk) <= Memory
     THEN /\ memory' = Overwrite(Chunk)
          /\ offset' = offset + Len(Chunk)
          /\ work' = [work EXCEPT !.got = @ \o Chunk]
          /\ UNCHANGED server
     ELSE server' = "down" /\ UNCHANGED <<memory, offset, work>>
  /\ UNCHANGED <<files, requests, bound, schema, beats, copies, mail>>

Read == server = "reading" /\ Len(work.got) >= Size

NewEntry == [key |-> KeyOf(work.request, work.checksum), sum |-> work.checksum,
             offset |-> offset - Size, size |-> Size]

StoreAs(entry) ==
  /\ schema' = Append(schema, entry)
  /\ Answer([id |-> work.request.id, status |-> 0, entry |-> entry])
  /\ work' = None
  /\ UNCHANGED <<files, requests, bound, memory, offset, copies>>

(* (variant) What was read is not compared with the checksum.              *)
StoreUnchecked == Read /\ StoreAs(NewEntry)

(* (variant) The size recorded is that of a chunk.                         *)
StoreChunkSize == /\ Read /\ work.got = Cells[work.checksum]
                  /\ StoreAs([NewEntry EXCEPT !.size = ChunkSize])

Store == /\ Read /\ work.got = Cells[work.checksum]
         /\ StoreAs(NewEntry)

(* The file has changed since it was hashed: its cells are lost.           *)
Mismatch == /\ Read /\ work.got # Cells[work.checksum]
            /\ Answer(Refusal(work.request))
            /\ work' = None
            /\ UNCHANGED <<files, requests, bound, held, copies>>

Locate(i) ==
  LET m == requests[i]
  IN  /\ Take(i) /\ m.op = "GET" /\ m.key \in Stored
      /\ Answer([id |-> m.id, status |-> 0, entry |-> Entry(m.key)])
      /\ UNCHANGED <<work, bound, held>>

(* An unknown key is not answered.  The event names _key, which is unbound *)
(* until some PUT has come so far: that ends the thread.                   *)
NotFound(i) ==
  LET m == requests[i]
  IN  /\ Take(i) /\ m.op = "GET" /\ m.key \notin Stored
      /\ handle' = Reopened.h /\ name' = Reopened.name /\ queues' = Reopened.q
      /\ IF bound THEN Beat /\ UNCHANGED server
         ELSE server' = "down" /\ UNCHANGED beats
      /\ UNCHANGED <<work, bound, held>>

(* shutdown: the thread ends before its next heartbeat, if it has not yet. *)
Shutdown == /\ server \in {"waiting", "down"}
            /\ server' = "gone"
            /\ UNCHANGED <<files, requests, work, bound, held, beats, copies, mail>>

Serve == \/ \E i \in DOMAIN requests : \/ RefusePut(i) \/ RefuseLargePut(i)
                                         \/ BeginPut(i) \/ Locate(i) \/ NotFound(i)
         \/ Idle \/ ReadChunk \/ Store \/ Mismatch
=============================================================================
