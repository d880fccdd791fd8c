----------------------------- MODULE SharedMemory -----------------------------
(***************************************************************************)
(* What processes that share the memory of the IPC server rely on, however *)
(* requests and answers travel: a map that is written once.  A key is      *)
(* taken at most once, and what it names then is a whole content, for      *)
(* ever.  A process is handed what a key names, and what it holds does not *)
(* change under its hands; it lets go of all at once.                      *)
(***************************************************************************)
CONSTANTS Names,      \* keys
          Values,     \* the contents that can be stored
          Processes

VARIABLES stored,  \* key -> content, for the keys that are taken
          views    \* process -> what it holds: [key, value]

memoryVars == <<stored, views>>

MemoryInit == /\ stored = [k \in {} |-> {}]
              /\ views = [p \in Processes |-> {}]

Put(k, v) == /\ k \notin DOMAIN stored
             /\ stored' = [j \in DOMAIN stored \cup {k} |->
                             IF j = k THEN v ELSE stored[j]]
             /\ UNCHANGED views

Get(p, k) == /\ k \in DOMAIN stored
             /\ views' = [views EXCEPT ![p] = @ \cup {[key |-> k, value |-> stored[k]]}]
             /\ UNCHANGED stored

Close(p) == /\ views' = [views EXCEPT ![p] = {}]
            /\ UNCHANGED stored

MemoryNext == \/ \E k \in Names, v \in Values : Put(k, v)
              \/ \E p \in Processes : Close(p) \/ \E k \in Names : Get(p, k)

MemorySpec == MemoryInit /\ [][MemoryNext]_memoryVars
=============================================================================
