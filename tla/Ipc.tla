--------------------------------- MODULE Ipc ---------------------------------
(***************************************************************************)
(* The IPC server with its clients (ipc/client.py): processes that send    *)
(* requests from their own thread and take answers in a daemon thread.     *)
(* All have the same client_id, as app and consumer of the shared memory   *)
(* example do, and so share the queue that has its name.  Files may be     *)
(* rewritten by the host meanwhile.                                        *)
(***************************************************************************)
EXTENDS IpcServer

CONSTANTS Processes,
          MaxTasks,      \* bound on the requests that are sent
          MaxRewrites    \* bound on the files that are rewritten

ASSUME IpcAssumption == MaxTasks \in Nat /\ MaxRewrites \in Nat

VARIABLES stage,     \* of each process: "new", "running" or "gone"
          inbox,     \* the queue it has open, or 0
          daemon,    \* its thread: "asleep", "taking" or "ended"
          sending,   \* a request that is sent but not yet registered, or None
          pending,   \* pending_tasks
          completed, \* completed_tasks: [task, entry]
          tasks,     \* task ids so far
          rewrites

clientVars == <<stage, inbox, daemon, sending, pending, completed, tasks>>
vars == <<files, serverVars, clientVars, rewrites>>

Init == /\ files \in [Paths -> Contents \cup {None}]
        /\ ServerInit
        /\ stage = [p \in Processes |-> "new"]
        /\ inbox = [p \in Processes |-> 0]
        /\ daemon = [p \in Processes |-> "asleep"]
        /\ sending = [p \in Processes |-> None]
        /\ pending = [p \in Processes |-> {}]
        /\ completed = [p \in Processes |-> {}]
        /\ tasks = 0 /\ rewrites = 0

(* Client(client_id): needs the shared memory, opens or creates the queue. *)
Start(p) ==
  /\ stage[p] = "new" /\ server # "gone"
  /\ stage' = [stage EXCEPT ![p] = "running"]
  /\ queues' = IF name = 0 THEN Append(queues, <<>>) ELSE queues
  /\ name' = IF name = 0 THEN Len(queues) + 1 ELSE name
  /\ inbox' = [inbox EXCEPT ![p] = name']
  /\ UNCHANGED <<files, requests, server, work, bound, held, beats, copies,
                 handle, daemon, sending, pending, completed, tasks, rewrites>>

(* put and get: put_nowait; a full queue raises, and nothing is sent.      *)
Send(p, op, key, path) ==
  LET task == [id |-> tasks + 1, op |-> op, key |-> key, path |-> path]
  IN  /\ stage[p] = "running" /\ sending[p] = None
      /\ tasks < MaxTasks /\ Len(requests) < QueueSize
      /\ requests' = Append(requests, task)
      /\ sending' = [sending EXCEPT ![p] = task]
      /\ tasks' = tasks + 1
      /\ UNCHANGED <<files, server, work, bound, held, beats, copies, mail,
                     stage, inbox, daemon, pending, completed, rewrites>>

Put(p) == \E key \in Keys \cup {NoKey}, path \in Paths : Send(p, "PUT", key, path)

(* A key of one's own, or a checksum that an answer has given as the key.  *)
Told(p) == {c \in Contents : \E r \in completed[p] : r.entry.key = c}

Get(p) == \E key \in Keys \cup Told(p) : Send(p, "GET", key, None)

(* The task is registered after the request was sent.                      *)
Register(p) ==
  /\ sending[p] # None
  /\ pending' = [pending EXCEPT ![p] = @ \cup {sending[p]}]
  /\ sending' = [sending EXCEPT ![p] = None]
  /\ UNCHANGED <<files, serverVars, stage, inbox, daemon, completed, tasks, rewrites>>

(* run: the thread has found an answer in the queue.                       *)
Look(p) ==
  /\ stage[p] = "running" /\ daemon[p] = "asleep" /\ queues[inbox[p]] # <<>>
  /\ daemon' = [daemon EXCEPT ![p] = "taking"]
  /\ UNCHANGED <<files, serverVars, stage, inbox, sending, pending, completed,
                 tasks, rewrites>>

(* An answer to a task that is pending completes it; a refusal, or an      *)
(* answer to some other task, is dropped.                                  *)
Receive(p) ==
  /\ daemon[p] = "taking" /\ queues[inbox[p]] # <<>>
  /\ LET reply == Head(queues[inbox[p]])
         mine  == {t \in pending[p] : reply.status = 0 /\ t.id = reply.id}
     IN  /\ queues' = [queues EXCEPT ![inbox[p]] = Tail(@)]
         /\ pending' = [pending EXCEPT ![p] = @ \ mine]
         /\ completed' = [completed EXCEPT ![p] =
                            @ \cup {[task |-> t, entry |-> reply.entry] : t \in mine}]
  /\ daemon' = [daemon EXCEPT ![p] = "asleep"]
  /\ UNCHANGED <<files, requests, server, work, bound, held, beats, copies,
                 name, handle, stage, inbox, sending, tasks, rewrites>>

(* Another process was faster: get_nowait raises, and the thread ends.     *)
TooLate(p) ==
  /\ daemon[p] = "taking" /\ queues[inbox[p]] = <<>>
  /\ daemon' = [daemon EXCEPT ![p] = "ended"]
  /\ UNCHANGED <<files, serverVars, stage, inbox, sending, pending, completed,
                 tasks, rewrites>>

(* shutdown: the thread ends first, then whatever queue has the name now   *)
(* loses it.  (With none, unlink raises and the tables stay as they are.)  *)
Stop(p) ==
  /\ stage[p] = "running" /\ sending[p] = None /\ daemon[p] # "taking"
  /\ stage' = [stage EXCEPT ![p] = "gone"]
  /\ daemon' = [daemon EXCEPT ![p] = "ended"]
  /\ inbox' = [inbox EXCEPT ![p] = 0]
  /\ name' = 0
  /\ pending' = IF name = 0 THEN pending ELSE [pending EXCEPT ![p] = {}]
  /\ completed' = IF name = 0 THEN completed ELSE [completed EXCEPT ![p] = {}]
  /\ UNCHANGED <<files, requests, server, work, bound, held, beats, copies,
                 queues, handle, sending, tasks, rewrites>>

Rewrite(path, content) ==
  /\ rewrites < MaxRewrites /\ files[path] # content
  /\ files' = [files EXCEPT ![path] = content]
  /\ rewrites' = rewrites + 1
  /\ UNCHANGED <<serverVars, clientVars>>

ServerNext == (Serve \/ Shutdown) /\ UNCHANGED <<clientVars, rewrites>>

Next == \/ ServerNext
        \/ \E p \in Processes : Start(p) \/ Put(p) \/ Get(p) \/ Register(p)
                                \/ Look(p) \/ Receive(p) \/ TooLate(p) \/ Stop(p)
        \/ \E path \in Paths, content \in Contents : Rewrite(path, content)

Spec == Init /\ [][Next]_vars

(* The threads of the server and of the clients run on, if they have not   *)
(* ended.                                                                  *)
FairSpec == /\ Spec
            /\ WF_vars(Serve /\ UNCHANGED <<clientVars, rewrites>>)
            /\ \A p \in Processes : /\ WF_vars(Register(p))
                                    /\ WF_vars(Look(p) \/ Receive(p) \/ TooLate(p))

-----------------------------------------------------------------------------
Entries == [key : Names, offset : Nat, size : Nat, sum : Contents]

TypeOK ==
  /\ files \in [Paths -> Contents \cup {None}]
  /\ Len(requests) <= QueueSize
  /\ server \in {"waiting", "reading", "down", "gone"}
  /\ server = "reading" => work.checksum \in Contents /\ work.got \in Seq(Cell)
  /\ bound \in BOOLEAN
  /\ memory \in [1..Memory -> Cell \cup {None}]
  /\ offset \in 0..Memory
  /\ schema \in Seq(Entries)
  /\ beats \in 0 .. ToDisk * ToCloud - 1
  /\ \A q \in DOMAIN queues : Len(queues[q]) <= MailSize
  /\ name \in 0..Len(queues) /\ handle \in 0..Len(queues)
  /\ stage \in [Processes -> {"new", "running", "gone"}]
  /\ inbox \in [Processes -> 0..Len(queues)]
  /\ daemon \in [Processes -> {"asleep", "taking", "ended"}]

(***************************************************************************)
(* Every key is there once; no two entries overlap; the cells of an entry  *)
(* are the content whose checksum it names.  What was read of files that   *)
(* changed or grew lies between the entries, never in them.                *)
(***************************************************************************)
SchemaIsStored ==
  \A i, j \in DOMAIN schema :
    LET e == schema[i]
        f == schema[j]
    IN  /\ Data(e) = Cells[e.sum] /\ e.offset + e.size <= offset
        /\ i < j => e.key # f.key /\ e.offset + e.size <= f.offset

(***************************************************************************)
(* The part of the shared memory that the answer to a task names, and that *)
(* get hands out a view of, holds the content of the key that was asked    *)
(* for, as long as the task is kept.                                       *)
(***************************************************************************)
ResultIsData ==
  \A p \in Processes : \A r \in completed[p] :
    /\ r.entry.key = IF r.task.key = NoKey THEN r.entry.sum ELSE r.task.key
    /\ Data(r.entry) = Cells[r.entry.sum]

(***************************************************************************)
(* Seen from the processes the server keeps the promise of SharedMemory.   *)
(* What a key names, and what a process holds, is what the cells are now:  *)
(* no PUT, of whatever file that grows, shrinks or changes while it is     *)
(* read, writes where something is stored or in view.                      *)
(***************************************************************************)
Asked(r) == IF r.task.key = NoKey THEN r.entry.sum ELSE r.task.key

Promise == INSTANCE SharedMemory WITH
  Values <- {Cells[c] : c \in Contents},
  stored <- [k \in Stored |-> Data(Entry(k))],
  views  <- [p \in Processes |-> {[key |-> Asked(r), value |-> Data(r.entry)] :
                                    r \in completed[p]}]

KeepsMemoryPromise == Promise!MemorySpec

(***************************************************************************)
(* A get sent after a put of the same key, by whichever process, does not  *)
(* fail to find the key because the put has not been looked at: the        *)
(* example app puts its files and asks for one at once.                    *)
(***************************************************************************)
ReadsWhatWasPut ==
  [][\A i \in DOMAIN requests :
       requests[i].op = "GET" /\ requests[i].key \notin Stored
       /\ requests[i] \notin Range(requests') =>
         \A j \in 1..(i - 1) : ~ (requests[j].op = "PUT" /\ requests[j].key = requests[i].key)
    ]_<<requests, schema>>

(***************************************************************************)
(* What the server writes to disk and cloud under a name is the content it *)
(* has stored under this name.                                             *)
(***************************************************************************)
CopiesAreStored ==
  [][\A k \in Names :
       /\ disk'[k] # disk[k] => k \in Stored /\ disk'[k] = Cells[Entry(k).sum]
       /\ cloud'[k] # cloud[k] => k \in Stored /\ cloud'[k] = Cells[Entry(k).sum]]_copies

(***************************************************************************)
(* Again and again all that is stored is on disk, in place of what an      *)
(* earlier server left there, unless the server ends or a file that got    *)
(* shorter keeps it reading.                                               *)
(***************************************************************************)
ReadsForEver == server = "reading" /\ Len(work.got) < Size /\ Chunk = <<>>

DiskCatchesUp ==
  []<>(\/ \A k \in Stored : disk[k] = Cells[Entry(k).sum]
       \/ server \in {"down", "gone"} \/ ReadsForEver)
=============================================================================
