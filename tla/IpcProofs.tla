------------------------------ MODULE IpcProofs ------------------------------
(***************************************************************************)
(* What is stored in the shared memory stays what it is, for any files,    *)
(* contents, sizes, clients and number of requests, while files change     *)
(* under the server's hands.  Then the mail: what get hands out is the     *)
(* data of the key that was asked for, for any number of processes that    *)
(* share one queue, start and stop while answers are under way, and read   *)
(* each other's mail.                                                      *)
(***************************************************************************)
EXTENDS Ipc, TLAPS, SequenceTheorems

PutRequests == [id : Nat, op : {"PUT"}, key : Keys \cup {NoKey}, path : Paths]
GetRequests == [id : Nat, op : {"GET"}, key : Names, path : {None}]
Requests    == PutRequests \cup GetRequests

Types == /\ files \in [Paths -> Contents \cup {None}]
         /\ requests \in Seq(Requests) /\ tasks \in Nat
         /\ memory \in [1..Memory -> Cell \cup {None}]
         /\ offset \in 0..Memory
         /\ schema \in Seq(Entries)

(* Entry e, in a memory mem, is the content whose checksum it names.       *)
Filled(mem, e) == /\ e.size = Len(Cells[e.sum])
                  /\ \A x \in 1..e.size : mem[e.offset + x] = Cells[e.sum][x]

(* The entries of a schema lie side by side below cell t.                  *)
Laid(s, mem, t) ==
  /\ \A i \in DOMAIN s : Filled(mem, s[i]) /\ s[i].offset + s[i].size <= t
  /\ \A i, j \in DOMAIN s :
       i < j => s[i].key # s[j].key /\ s[i].offset + s[i].size <= s[j].offset

(* What has been read of a PUT lies between the entries and the offset,    *)
(* and the key that it is for is not taken.                                *)
Reading == /\ work.request \in PutRequests /\ work.checksum \in Contents
           /\ work.got \in Seq(Cell)
           /\ work = [request |-> work.request, checksum |-> work.checksum,
                      got |-> work.got]
           /\ files[work.request.path] \in Contents
           /\ Len(work.got) <= offset
           /\ \A x \in 1..Len(work.got) :
                memory[offset - Len(work.got) + x] = work.got[x]
           /\ Laid(schema, memory, offset - Len(work.got))
           /\ \A i \in DOMAIN schema :
                schema[i].key # KeyOf(work.request, work.checksum)

IpcInv == /\ Types
          /\ Laid(schema, memory, offset)
          /\ server = "reading" => Reading

-----------------------------------------------------------------------------
LEMMA CellsType == Cells \in [Contents -> Seq(Cell)] /\ Memory \in Nat
                   /\ ChunkSize \in Nat
BY ServerAssumption

(* A part of a sequence, even one that begins after its end.               *)
LEMMA PartType ==
  ASSUME NEW S, NEW s \in Seq(S), NEW m \in Nat, NEW n \in 0..Len(s)
  PROVE  /\ SubSeq(s, m + 1, n) \in Seq(S)
         /\ Len(SubSeq(s, m + 1, n)) = IF m + 1 <= n THEN n - m ELSE 0
         /\ \A i \in 1..(n - m) : SubSeq(s, m + 1, n)[i] = s[m + i]
<1>1. Len(s) \in Nat /\ m + 1 \in Int /\ n \in Int
  BY LenProperties
<1>2. ASSUME NEW i \in (m + 1)..n
      PROVE  s[i] \in S
  <2>1. i \in 1..Len(s)
    BY <1>1
  <2> QED
    BY <2>1, ElementOfSeq
<1>3. /\ SubSeq(s, m + 1, n) \in Seq(S)
      /\ Len(SubSeq(s, m + 1, n)) = IF m + 1 <= n THEN n - (m + 1) + 1 ELSE 0
      /\ \A i \in 1..(n - (m + 1) + 1) : SubSeq(s, m + 1, n)[i] = s[(m + 1) + i - 1]
  BY <1>1, <1>2, SubSeqProperties
<1>4. n - (m + 1) + 1 = n - m
  BY <1>1
<1>5. \A i \in 1..(n - m) : (m + 1) + i - 1 = m + i
  BY <1>1
<1> QED
  BY <1>3, <1>4, <1>5

LEMMA RemoveAtType ==
  ASSUME NEW S, NEW s \in Seq(S), NEW i \in DOMAIN s
  PROVE  RemoveAt(s, i) \in Seq(S)
<1>1. i \in 1..Len(s) /\ Len(s) \in Nat
  BY LenProperties
<1>2. SubSeq(s, 0 + 1, i - 1) \in Seq(S)
  BY <1>1, PartType
<1>3. SubSeq(s, i + 1, Len(s)) \in Seq(S)
  BY <1>1, PartType
<1> QED
  BY <1>2, <1>3, ConcatProperties DEF RemoveAt

LEMMA EntryType ==
  ASSUME NEW s \in Seq(Entries), NEW i \in DOMAIN s
  PROVE  /\ s[i].key \in Names /\ s[i].sum \in Contents
         /\ s[i].offset \in Nat /\ s[i].size \in Nat
<1>1. s[i] \in Entries
  BY LenProperties, ElementOfSeq
<1> QED
  BY <1>1 DEF Entries

LEMMA LaidLower ==
  ASSUME NEW s \in Seq(Entries), NEW mem, NEW t \in Nat, NEW u \in Nat,
         Laid(s, mem, t), t <= u
  PROVE  Laid(s, mem, u)
<1>1. ASSUME NEW i \in DOMAIN s
      PROVE  s[i].offset + s[i].size <= u
  <2>1. s[i].offset \in Nat /\ s[i].size \in Nat
    BY EntryType
  <2>2. s[i].offset + s[i].size <= t
    BY DEF Laid
  <2> QED
    BY <2>1, <2>2
<1> QED
  BY <1>1 DEF Laid

(* Cells above the entries may change.                                     *)
LEMMA LaidAbove ==
  ASSUME NEW s \in Seq(Entries), NEW mem, NEW new, NEW t \in Nat,
         Laid(s, mem, t), \A x \in 1..t : new[x] = mem[x]
  PROVE  Laid(s, new, t)
<1>1. ASSUME NEW i \in DOMAIN s
      PROVE  Filled(new, s[i])
  <2>1. /\ Filled(mem, s[i]) /\ s[i].offset + s[i].size <= t
        /\ s[i].offset \in Nat /\ s[i].size \in Nat
    BY EntryType DEF Laid
  <2>2. ASSUME NEW x \in 1..s[i].size
        PROVE  new[s[i].offset + x] = mem[s[i].offset + x]
    <3>1. s[i].offset + x \in 1..t
      BY <2>1
    <3> QED
      BY <3>1
  <2> QED
    BY <2>1, <2>2 DEF Filled
<1> QED
  BY <1>1 DEF Laid

(* An entry more, from cell t on, under a new key.                         *)
LEMMA LaidAppend ==
  ASSUME NEW s \in Seq(Entries), NEW mem, NEW t \in Nat, NEW e \in Entries,
         Laid(s, mem, t), Filled(mem, e), e.offset = t,
         \A i \in DOMAIN s : s[i].key # e.key
  PROVE  Laid(Append(s, e), mem, t + e.size)
<1> DEFINE new == Append(s, e)
<1>1. /\ Len(s) \in Nat /\ DOMAIN s = 1..Len(s)
      /\ new \in Seq(Entries) /\ DOMAIN new = 1..(Len(s) + 1)
      /\ \A i \in 1..Len(s) : new[i] = s[i]
      /\ new[Len(s) + 1] = e
  BY AppendProperties, LenProperties
<1>2. e.size \in Nat /\ e.offset \in Nat
  BY DEF Entries
<1> HIDE DEF new
<1>3. ASSUME NEW i \in DOMAIN new
      PROVE  Filled(mem, new[i]) /\ new[i].offset + new[i].size <= t + e.size
  <2>1. CASE i = Len(s) + 1
    BY <1>1, <1>2, <2>1
  <2>2. CASE i # Len(s) + 1
    <3>1. i \in 1..Len(s)
      BY <1>1, <2>2
    <3>2. s[i].offset \in Nat /\ s[i].size \in Nat
      BY <1>1, <3>1, EntryType
    <3>3. Filled(mem, s[i]) /\ s[i].offset + s[i].size <= t
      BY <1>1, <3>1 DEF Laid
    <3>4. s[i].offset + s[i].size <= t + e.size
      BY <1>2, <3>2, <3>3
    <3> QED
      BY <1>1, <3>1, <3>3, <3>4
  <2> QED
    BY <2>1, <2>2
<1>4. ASSUME NEW i \in DOMAIN new, NEW j \in DOMAIN new, i < j
      PROVE  new[i].key # new[j].key /\ new[i].offset + new[i].size <= new[j].offset
  <2>1. i \in 1..Len(s) /\ new[i] = s[i]
    BY <1>1, <1>4
  <2>2. CASE j = Len(s) + 1
    <3>1. new[j] = e
      BY <1>1, <2>2
    <3>2. s[i].key # e.key /\ s[i].offset + s[i].size <= t
      BY <1>1, <2>1 DEF Laid
    <3> QED
      BY <2>1, <3>1, <3>2
  <2>3. CASE j # Len(s) + 1
    <3>1. j \in 1..Len(s) /\ new[j] = s[j]
      BY <1>1, <2>3
    <3> QED
      BY <1>1, <1>4, <2>1, <3>1 DEF Laid
  <2> QED
    BY <2>2, <2>3
<1>5. Laid(new, mem, t + e.size)
  BY <1>3, <1>4 DEF Laid
<1> QED
  BY <1>5 DEF new

-----------------------------------------------------------------------------
LEMMA InitInv == Init => IpcInv
<1> SUFFICES ASSUME Init PROVE IpcInv
  OBVIOUS
<1>1. Memory \in Nat
  BY CellsType
<1>2. Types
  BY <1>1, EmptySeq DEF Init, ServerInit, Types
<1>3. schema = <<>> /\ server # "reading"
  BY DEF Init, ServerInit
<1>4. Laid(schema, memory, offset)
  BY <1>3 DEF Laid
<1> QED
  BY <1>2, <1>3, <1>4 DEF IpcInv

(* Steps that leave the memory and the schema as they are.                 *)
LEMMA HeldStep ==
  ASSUME IpcInv,
         files' \in [Paths -> Contents \cup {None}],
         \A path \in Paths : files[path] \in Contents => files'[path] \in Contents,
         requests' \in Seq(Requests), tasks' \in Nat,
         held' = held,
         server' = "reading" => server = "reading" /\ work' = work
  PROVE  IpcInv'
<1>1. memory' = memory /\ offset' = offset /\ schema' = schema
  BY DEF held
<1>2. Types'
  BY <1>1 DEF IpcInv, Types
<1>3. Laid(schema', memory', offset')
  BY <1>1 DEF IpcInv
<1>4. ASSUME server' = "reading"
      PROVE  Reading'
  <2>1. Reading /\ work' = work
    BY <1>4 DEF IpcInv
  <2>2. work.request.path \in Paths
    BY <2>1 DEF Reading, PutRequests
  <2>3. files'[work.request.path] \in Contents
    BY <2>1, <2>2 DEF Reading
  <2> QED
    BY <1>1, <2>1, <2>3 DEF Reading
<1> QED
  BY <1>2, <1>3, <1>4 DEF IpcInv

LEMMA AnswerEnds ==
  ASSUME NEW reply, Answer(reply)
  PROVE  server' # "reading"
BY DEF Answer

LEMMA TakeType ==
  ASSUME IpcInv, NEW i \in DOMAIN requests, Take(i)
  PROVE  /\ requests' \in Seq(Requests) /\ files' = files
         /\ requests[i] \in Requests /\ server = "waiting"
<1>1. requests \in Seq(Requests)
  BY DEF IpcInv, Types
<1>2. requests' = RemoveAt(requests, i) /\ files' = files /\ server = "waiting"
  BY DEF Take
<1>3. requests[i] \in Requests
  BY <1>1, LenProperties, ElementOfSeq
<1>4. RemoveAt(requests, i) \in Seq(Requests)
  BY <1>1, RemoveAtType
<1> QED
  BY <1>2, <1>3, <1>4

LEMMA BeginPutInv ==
  ASSUME IpcInv, NEW i \in DOMAIN requests, BeginPut(i), tasks' = tasks
  PROVE  IpcInv'
<1> DEFINE m == requests[i]
           checksum == files[m.path]
<1>1. /\ Take(i) /\ m.op = "PUT" /\ checksum # None
      /\ {m.key, checksum} \cap Stored = {}
      /\ work' = [request |-> m, checksum |-> checksum, got |-> <<>>]
      /\ memory' = memory /\ offset' = offset /\ schema' = schema
  BY DEF BeginPut, held
<1>2. requests' \in Seq(Requests) /\ files' = files /\ m \in Requests
  BY <1>1, TakeType
<1>3. m \in PutRequests
  BY <1>1, <1>2 DEF Requests, GetRequests
<1>4. m.path \in Paths
  BY <1>3 DEF PutRequests
<1>5. files \in [Paths -> Contents \cup {None}]
  BY DEF IpcInv, Types
<1>6. checksum \in Contents
  BY <1>1, <1>4, <1>5
<1> HIDE DEF m
<1>7. /\ work'.request = m /\ work'.checksum = checksum /\ work'.got = <<>>
  BY <1>1
<1> HIDE DEF checksum
<1>8. Types'
  BY <1>1, <1>2 DEF IpcInv, Types
<1>9. offset \in Nat /\ Len(<<>>) = 0 /\ <<>> \in Seq(Cell)
  BY CellsType, EmptySeq DEF IpcInv, Types
<1>10. Laid(schema', memory', offset')
  BY <1>1 DEF IpcInv
<1>11. KeyOf(m, checksum) \notin Stored
  BY <1>1 DEF KeyOf
<1>12. \A j \in DOMAIN schema' : schema'[j].key # KeyOf(m, checksum)
  BY <1>1, <1>11 DEF Stored
<1>13. offset - 0 = offset
  BY <1>9
<1>14. Reading'
  <2>1. work' = [request |-> work'.request, checksum |-> work'.checksum, got |-> work'.got]
    BY <1>1, <1>7
  <2>2. files'[work'.request.path] \in Contents
    BY <1>2, <1>6, <1>7 DEF checksum
  <2>3. Len(work'.got) = 0 /\ Len(work'.got) <= offset'
    BY <1>1, <1>7, <1>9
  <2>4. Laid(schema', memory', offset' - Len(work'.got))
    BY <1>1, <1>10, <1>13, <2>3
  <2>5. \A x \in 1..Len(work'.got) :
          memory'[offset' - Len(work'.got) + x] = work'.got[x]
    BY <2>3
  <2>6. \A j \in DOMAIN schema' :
          schema'[j].key # KeyOf(work'.request, work'.checksum)
    BY <1>7, <1>12
  <2> QED
    BY <1>3, <1>6, <1>7, <1>9, <2>1, <2>2, <2>3, <2>4, <2>5, <2>6 DEF Reading
<1> QED
  BY <1>8, <1>10, <1>14 DEF IpcInv

LEMMA Beyond ==
  ASSUME NEW g \in Nat, NEW c \in Nat, NEW l \in Nat, NEW o \in Nat, l + g = o,
         NEW x \in 1..(g + c), ~ (x <= g)
  PROVE  x - g \in 1..c /\ l + x = o + (x - g)
OBVIOUS

(* A chunk is written above all that is stored.                            *)
LEMMA ReadChunkInv ==
  ASSUME IpcInv, ReadChunk, tasks' = tasks
  PROVE  IpcInv'
<1>1. /\ server = "reading" /\ files' = files /\ requests' = requests
      /\ schema' = schema
  BY DEF ReadChunk
<1>2. Types /\ Reading /\ Laid(schema, memory, offset)
  BY <1>1 DEF IpcInv
<1>3. CASE ~ (offset + Len(Chunk) <= Memory)
  <2>1. server' = "down" /\ held' = held
    BY <1>1, <1>3 DEF ReadChunk, held
  <2> QED
    BY <1>1, <1>2, <2>1, HeldStep DEF Types
<1>4. CASE offset + Len(Chunk) <= Memory
  <2> DEFINE chunk == Chunk
             got   == work.got
             low   == offset - Len(got)
  <2>1. /\ memory' = Overwrite(chunk) /\ offset' = offset + Len(chunk)
        /\ work' = [work EXCEPT !.got = got \o chunk]
        /\ server' = "reading"
    BY <1>1, <1>4 DEF ReadChunk
  <2>2. chunk \in Seq(Cell)
    <3> DEFINE file == Cells[files[work.request.path]]
               to   == IF Size < ChunkSize \/ Len(got) + ChunkSize > Len(file)
                       THEN Len(file) ELSE Len(got) + ChunkSize
    <3>1. file \in Seq(Cell) /\ Len(file) \in Nat
      BY <1>2, CellsType, LenProperties DEF Reading
    <3>2. Len(got) \in Nat
      BY <1>2, LenProperties DEF Reading
    <3>3. chunk = SubSeq(file, Len(got) + 1, to)
      BY DEF Chunk
    <3> HIDE DEF file, got
    <3>4. to \in 0..Len(file)
      BY <3>1, <3>2, CellsType
    <3> HIDE DEF to
    <3> QED
      BY <3>1, <3>2, <3>3, <3>4, PartType
  <2>3. /\ got \in Seq(Cell) /\ Len(got) \in Nat /\ Len(got) <= offset
        /\ \A x \in 1..Len(got) : memory[low + x] = got[x]
        /\ Laid(schema, memory, low)
    BY <1>2, LenProperties DEF Reading
  <2>4. /\ Len(chunk) \in Nat
        /\ \A x \in 1..Len(chunk) : chunk[x] \in Cell
    <3> HIDE DEF chunk
    <3> QED
      BY <2>2, LenProperties, ElementOfSeq
  <2>5. /\ offset \in Nat /\ offset <= Memory /\ Memory \in Nat
        /\ offset + Len(chunk) <= Memory
    BY <1>2, <1>4, CellsType DEF Types
  <2>6. memory \in [1..Memory -> Cell \cup {None}] /\ schema \in Seq(Entries)
    BY <1>2 DEF Types
  <2>7. work' = [request |-> work.request, checksum |-> work.checksum,
                 got |-> got \o chunk]
    <3>1. work = [request |-> work.request, checksum |-> work.checksum, got |-> got]
      BY <1>2 DEF Reading
    <3> HIDE DEF chunk
    <3> QED
      BY <2>1, <3>1
  <2>8. memory' = [y \in 1..Memory |-> IF y \in offset + 1 .. offset + Len(chunk)
                                       THEN chunk[y - offset] ELSE memory[y]]
    BY <2>1, <2>6 DEF Overwrite
  <2> HIDE DEF chunk, got
  <2>9. \A y \in 1..offset : memory'[y] = memory[y]
    BY <2>5, <2>8
  <2>10. \A x \in 1..Len(chunk) : memory'[offset + x] = chunk[x]
    <3> SUFFICES ASSUME NEW x \in 1..Len(chunk) PROVE memory'[offset + x] = chunk[x]
      OBVIOUS
    <3>1. /\ offset + x \in 1..Memory /\ offset + x \in offset + 1 .. offset + Len(chunk)
          /\ (offset + x) - offset = x
      BY <2>4, <2>5
    <3> QED
      BY <2>8, <3>1
  <2>11. memory' \in [1..Memory -> Cell \cup {None}]
    <3>1. \A y \in offset + 1 .. offset + Len(chunk) : chunk[y - offset] \in Cell
      BY <2>4, <2>5
    <3> QED
      BY <2>6, <2>8, <3>1
  <2>12. /\ got \o chunk \in Seq(Cell)
         /\ Len(got \o chunk) = Len(got) + Len(chunk)
         /\ \A x \in 1..(Len(got) + Len(chunk)) :
              (got \o chunk)[x] = IF x <= Len(got) THEN got[x] ELSE chunk[x - Len(got)]
    BY <2>2, <2>3, ConcatProperties
  <2>13. /\ work'.request = work.request /\ work'.checksum = work.checksum
         /\ work'.got = got \o chunk
    BY <2>7
  <2>14. low \in Nat /\ low + Len(got) = offset
         /\ offset' - Len(got \o chunk) = low
    BY <2>1, <2>3, <2>4, <2>5, <2>12
  <2> HIDE DEF low
  <2>15. Laid(schema, memory', low)
    <3>1. \A y \in 1..low : memory'[y] = memory[y]
      BY <2>3, <2>5, <2>9, <2>14
    <3> QED
      BY <2>3, <2>6, <2>14, <3>1, LaidAbove
  <2>16. Laid(schema', memory', offset')
    <3>1. offset' \in Nat /\ low <= offset'
      BY <2>1, <2>3, <2>4, <2>5, <2>14
    <3> QED
      BY <1>1, <2>6, <2>14, <2>15, <3>1, LaidLower
  <2>17. \A x \in 1..Len(got \o chunk) : memory'[low + x] = (got \o chunk)[x]
    <3> SUFFICES ASSUME NEW x \in 1..Len(got \o chunk)
                 PROVE  memory'[low + x] = (got \o chunk)[x]
      OBVIOUS
    <3>1. x \in 1..(Len(got) + Len(chunk))
      BY <2>12
    <3>2. CASE x <= Len(got)
      <4>1. x \in 1..Len(got) /\ low + x \in 1..offset
        BY <2>3, <2>4, <2>5, <2>14, <3>1, <3>2
      <4>2. memory'[low + x] = got[x]
        BY <2>3, <2>9, <4>1
      <4>3. (got \o chunk)[x] = got[x]
        BY <2>12, <3>1, <3>2
      <4> QED
        BY <4>2, <4>3
    <3>3. CASE ~ (x <= Len(got))
      <4>1. x - Len(got) \in 1..Len(chunk) /\ low + x = offset + (x - Len(got))
        <5>1. Len(got) \in Nat /\ Len(chunk) \in Nat /\ offset \in Nat
          BY <2>3, <2>4, <2>5
        <5>2. low \in Nat /\ low + Len(got) = offset
          BY <2>14
        <5> QED
          BY <3>1, <3>3, <5>1, <5>2, Beyond
      <4>2. memory'[offset + (x - Len(got))] = chunk[x - Len(got)]
        BY <2>10, <4>1
      <4>3. (got \o chunk)[x] = chunk[x - Len(got)]
        BY <2>12, <3>1, <3>3
      <4> QED
        BY <4>1, <4>2, <4>3
    <3> QED
      BY <3>2, <3>3
  <2>18. Types'
    <3>1. offset' \in 0..Memory
      BY <2>1, <2>4, <2>5
    <3> QED
      BY <1>1, <1>2, <2>11, <3>1 DEF Types
  <2>19. Reading'
    <3>1. Len(got \o chunk) <= offset'
      BY <2>1, <2>3, <2>4, <2>5, <2>12
    <3>2. /\ work.request \in PutRequests /\ work.checksum \in Contents
          /\ files[work.request.path] \in Contents
          /\ \A i \in DOMAIN schema : schema[i].key # KeyOf(work.request, work.checksum)
      BY <1>2 DEF Reading
    <3>3. work' = [request |-> work'.request, checksum |-> work'.checksum,
                   got |-> work'.got]
      BY <2>7, <2>13
    <3> QED
      BY <1>1, <2>12, <2>13, <2>14, <2>15, <2>17, <3>1, <3>2, <3>3 DEF Reading
  <2> QED
    BY <2>16, <2>18, <2>19 DEF IpcInv
<1> QED
  BY <1>3, <1>4

(* The entry of a PUT whose cells are the ones that were hashed.           *)
LEMMA NewEntryType ==
  ASSUME IpcInv, Read, work.got = Cells[work.checksum]
  PROVE  /\ NewEntry \in Entries
         /\ work.checksum \in Contents /\ Size = Len(work.got)
         /\ Size \in Nat /\ Size <= offset /\ offset \in Nat
<1>1. Types /\ Reading
  BY DEF IpcInv, Read
<1>2. work.checksum \in Contents /\ Cells[work.checksum] \in Seq(Cell)
  BY <1>1, CellsType DEF Reading
<1>3. /\ Size = Len(work.got) /\ Size \in Nat /\ Size <= offset /\ offset \in Nat
  BY <1>1, <1>2, LenProperties, CellsType DEF Reading, Types, Size
<1>4. KeyOf(work.request, work.checksum) \in Names
  BY <1>1 DEF Reading, PutRequests, KeyOf, Names
<1>5. offset - Size \in Nat
  BY <1>3
<1> QED
  BY <1>2, <1>3, <1>4, <1>5 DEF NewEntry, Entries

LEMMA StoreInv ==
  ASSUME IpcInv, Store, tasks' = tasks
  PROVE  IpcInv'
<1> DEFINE e   == NewEntry
           sum == work.checksum
<1>1. /\ server = "reading" /\ work.got = Cells[sum]
      /\ schema' = Append(schema, e) /\ server' # "reading"
      /\ files' = files /\ requests' = requests
      /\ memory' = memory /\ offset' = offset
  BY AnswerEnds DEF Store, StoreAs, Read
<1>2. Types /\ Reading
  BY <1>1 DEF IpcInv
<1>3. /\ e \in Entries /\ sum \in Contents /\ Size = Len(Cells[sum])
      /\ Size \in Nat /\ Size <= offset /\ offset \in Nat
  BY <1>1, NewEntryType DEF Store
<1>4. /\ \A x \in 1..Size : memory[offset - Size + x] = Cells[sum][x]
      /\ Laid(schema, memory, offset - Size)
  BY <1>1, <1>2, <1>3 DEF Reading
<1>5. /\ e.key = KeyOf(work.request, sum) /\ e.sum = sum
      /\ e.offset = offset - Size /\ e.size = Size
  BY DEF NewEntry
<1>6. offset - Size \in Nat
  BY <1>3
<1>7. \A i \in DOMAIN schema : schema[i].key # e.key
  BY <1>2, <1>5 DEF Reading
<1> HIDE DEF e
<1>8. Filled(memory, e)
  BY <1>3, <1>4, <1>5 DEF Filled
<1>9. Laid(Append(schema, e), memory, e.offset + e.size)
  BY <1>2, <1>3, <1>4, <1>5, <1>6, <1>7, <1>8, LaidAppend DEF Types
<1>10. e.offset + e.size = offset
  BY <1>3, <1>5
<1>11. Append(schema, e) \in Seq(Entries)
  BY <1>2, <1>3, AppendProperties DEF Types
<1>12. Types'
  BY <1>1, <1>2, <1>11 DEF Types
<1>13. Laid(schema', memory', offset')
  BY <1>1, <1>9, <1>10
<1> QED
  BY <1>1, <1>12, <1>13 DEF IpcInv

LEMMA SendInv ==
  ASSUME IpcInv, NEW p, NEW op, NEW key, NEW path, Send(p, op, key, path),
         [id |-> tasks + 1, op |-> op, key |-> key, path |-> path] \in Requests
  PROVE  IpcInv'
<1>1. requests \in Seq(Requests) /\ tasks \in Nat
      /\ files \in [Paths -> Contents \cup {None}]
  BY DEF IpcInv, Types
<1>2. /\ requests' = Append(requests, [id |-> tasks + 1, op |-> op, key |-> key,
                                       path |-> path])
      /\ tasks' = tasks + 1 /\ files' = files /\ held' = held
      /\ server' = server /\ work' = work
  BY DEF Send, held
<1>3. requests' \in Seq(Requests)
  BY <1>1, <1>2, AppendProperties
<1>4. tasks' \in Nat
  BY <1>1, <1>2
<1> QED
  BY <1>1, <1>2, <1>3, <1>4, HeldStep

LEMMA StepInv == IpcInv /\ [Next]_vars => IpcInv'
<1> SUFFICES ASSUME IpcInv, [Next]_vars PROVE IpcInv'
  OBVIOUS
<1>1. /\ files \in [Paths -> Contents \cup {None}]
      /\ requests \in Seq(Requests) /\ tasks \in Nat
  BY DEF IpcInv, Types
<1>2. CASE ServerNext
  <2>1. tasks' = tasks
    BY <1>2 DEF ServerNext, clientVars
  <2>2. ASSUME NEW i \in DOMAIN requests, Take(i), server' # "reading", held' = held
        PROVE  IpcInv'
    BY <1>1, <2>1, <2>2, TakeType, HeldStep
  <2>3. ASSUME NEW i \in DOMAIN requests, RefusePut(i)
        PROVE  IpcInv'
    BY <2>2, <2>3, AnswerEnds DEF RefusePut
  <2>4. ASSUME NEW i \in DOMAIN requests, RefuseLargePut(i)
        PROVE  IpcInv'
    BY <2>2, <2>4, AnswerEnds DEF RefuseLargePut
  <2>5. ASSUME NEW i \in DOMAIN requests, BeginPut(i)
        PROVE  IpcInv'
    BY <2>1, <2>5, BeginPutInv
  <2>6. ASSUME NEW i \in DOMAIN requests, Locate(i)
        PROVE  IpcInv'
    BY <2>2, <2>6, AnswerEnds DEF Locate
  <2>7. ASSUME NEW i \in DOMAIN requests, NotFound(i)
        PROVE  IpcInv'
    <3>1. server = "waiting" /\ server' # "reading" /\ held' = held /\ Take(i)
      BY <2>7 DEF NotFound, Take
    <3> QED
      BY <2>2, <3>1
  <2>8. CASE Idle
    BY <1>1, <2>1, <2>8, HeldStep DEF Idle
  <2>9. CASE ReadChunk
    BY <2>1, <2>9, ReadChunkInv
  <2>10. CASE Store
    BY <2>1, <2>10, StoreInv
  <2>11. CASE Mismatch
    <3>1. server' # "reading"
      BY <2>11, AnswerEnds DEF Mismatch
    <3> QED
      BY <1>1, <2>1, <2>11, <3>1, HeldStep DEF Mismatch
  <2>12. CASE Shutdown
    BY <1>1, <2>1, <2>12, HeldStep DEF Shutdown
  <2> QED
    BY <1>2, <2>3, <2>4, <2>5, <2>6, <2>7, <2>8, <2>9, <2>10, <2>11, <2>12
    DEF ServerNext, Serve
<1>3. ASSUME NEW p \in Processes, Start(p)
      PROVE  IpcInv'
  BY <1>1, <1>3, HeldStep DEF Start
<1>4. ASSUME NEW p \in Processes, Put(p)
      PROVE  IpcInv'
  <2>1. PICK key \in Keys \cup {NoKey}, path \in Paths : Send(p, "PUT", key, path)
    BY <1>4 DEF Put
  <2>2. [id |-> tasks + 1, op |-> "PUT", key |-> key, path |-> path] \in Requests
    BY <1>1 DEF Requests, PutRequests
  <2> QED
    BY <2>1, <2>2, SendInv
<1>5. ASSUME NEW p \in Processes, Get(p)
      PROVE  IpcInv'
  <2>1. PICK key \in Keys \cup Told(p) : Send(p, "GET", key, None)
    BY <1>5 DEF Get
  <2>2. key \in Names
    BY DEF Told, Names
  <2>3. [id |-> tasks + 1, op |-> "GET", key |-> key, path |-> None] \in Requests
    BY <1>1, <2>2 DEF Requests, GetRequests
  <2> QED
    BY <2>1, <2>3, SendInv
<1>6. ASSUME NEW p \in Processes, Register(p)
      PROVE  IpcInv'
  BY <1>1, <1>6, HeldStep DEF Register, serverVars
<1>7. ASSUME NEW p \in Processes, Receive(p)
      PROVE  IpcInv'
  BY <1>1, <1>7, HeldStep DEF Receive
<1>11. ASSUME NEW p \in Processes, Look(p) \/ TooLate(p)
      PROVE  IpcInv'
  BY <1>1, <1>11, HeldStep DEF Look, TooLate, serverVars
<1>8. ASSUME NEW p \in Processes, Stop(p)
      PROVE  IpcInv'
  BY <1>1, <1>8, HeldStep DEF Stop
<1>9. ASSUME NEW path \in Paths, NEW content \in Contents, Rewrite(path, content)
      PROVE  IpcInv'
  <2>1. files' = [files EXCEPT ![path] = content]
    BY <1>9 DEF Rewrite
  <2>2. /\ files' \in [Paths -> Contents \cup {None}]
        /\ \A f \in Paths : files[f] \in Contents => files'[f] \in Contents
    BY <1>1, <2>1
  <2>3. UNCHANGED <<serverVars, clientVars>>
    BY <1>9 DEF Rewrite
  <2>4. /\ requests' = requests /\ tasks' = tasks /\ held' = held
        /\ server' = server /\ work' = work
    BY <2>3 DEF serverVars, clientVars
  <2> QED
    BY <1>1, <2>2, <2>4, HeldStep
<1>10. CASE UNCHANGED vars
  BY <1>1, <1>10, HeldStep DEF vars, serverVars, clientVars
<1> QED
  BY <1>2, <1>3, <1>4, <1>5, <1>6, <1>7, <1>8, <1>9, <1>10, <1>11
  DEF Next

LEMMA InvSchemaIsStored == IpcInv => SchemaIsStored
<1> SUFFICES ASSUME IpcInv, NEW i \in DOMAIN schema, NEW j \in DOMAIN schema
             PROVE  LET e == schema[i]
                        f == schema[j]
                    IN  /\ Data(e) = Cells[e.sum] /\ e.offset + e.size <= offset
                        /\ i < j => e.key # f.key /\ e.offset + e.size <= f.offset
  BY DEF SchemaIsStored
<1> DEFINE e == schema[i]
           c == Cells[e.sum]
           d == SubSeq(memory, e.offset + 1, e.offset + e.size)
<1>1. /\ Laid(schema, memory, offset) /\ schema \in Seq(Entries)
      /\ memory \in [1..Memory -> Cell \cup {None}] /\ offset \in 0..Memory
  BY DEF IpcInv, Types
<1>2. /\ Filled(memory, e) /\ e.offset + e.size <= offset
      /\ i < j => e.key # schema[j].key /\ e.offset + e.size <= schema[j].offset
  BY <1>1 DEF Laid
<1>3. e.sum \in Contents /\ e.offset \in Nat /\ e.size \in Nat
  BY <1>1, EntryType
<1> HIDE DEF e
<1>4. c \in Seq(Cell) /\ Len(c) = e.size
      /\ \A x \in 1..e.size : memory[e.offset + x] = c[x]
  BY <1>2, <1>3, CellsType DEF Filled
<1>5. \A x \in e.offset + 1 .. e.offset + e.size : memory[x] \in Cell \cup {None}
  <2>1. Memory \in Nat
    BY CellsType
  <2>2. \A x \in e.offset + 1 .. e.offset + e.size : x \in 1..Memory
    BY <1>1, <1>2, <1>3, <2>1
  <2> QED
    BY <1>1, <2>2
<1>6. e.offset + 1 \in Int /\ e.offset + e.size \in Int
  BY <1>3
<1>7. /\ d \in Seq(Cell \cup {None})
      /\ Len(d) = IF e.offset + 1 <= e.offset + e.size
                  THEN (e.offset + e.size) - (e.offset + 1) + 1 ELSE 0
      /\ \A x \in 1..((e.offset + e.size) - (e.offset + 1) + 1) :
           d[x] = memory[(e.offset + 1) + x - 1]
  BY <1>5, <1>6, SubSeqProperties
<1> HIDE DEF c, d
<1>8. Len(d) = e.size
  BY <1>3, <1>7
<1>9. \A x \in 1..e.size : d[x] = c[x]
  <2> SUFFICES ASSUME NEW x \in 1..e.size PROVE d[x] = c[x]
    OBVIOUS
  <2>1. /\ x \in 1..((e.offset + e.size) - (e.offset + 1) + 1)
        /\ (e.offset + 1) + x - 1 = e.offset + x
    BY <1>3
  <2> QED
    BY <1>4, <1>7, <2>1
<1>10. d = c
  BY <1>4, <1>7, <1>8, <1>9, SeqEqual
<1> QED
  BY <1>2, <1>10 DEF Data, c, d, e

(* However clients and files change: what is stored under a key is, cell   *)
(* for cell, the content whose checksum the server recorded, and no two    *)
(* entries share a key or a cell of the memory.                            *)
THEOREM SchemaIsStoredAlways == Spec => []SchemaIsStored
<1>1. Spec => []IpcInv
  BY InitInv, StepInv, PTL DEF Spec
<1> QED
  BY <1>1, InvSchemaIsStored, PTL

-----------------------------------------------------------------------------
StoredCopies ==
  \A k \in Names :
    /\ disk'[k] # disk[k] => k \in Stored /\ disk'[k] = Cells[Entry(k).sum]
    /\ cloud'[k] # cloud[k] => k \in Stored /\ cloud'[k] = Cells[Entry(k).sum]

LEMMA EntryIsData ==
  ASSUME SchemaIsStored, NEW k \in Stored
  PROVE  Data(Entry(k)) = Cells[Entry(k).sum]
<1>1. PICK i \in DOMAIN schema : schema[i].key = k
  BY DEF Stored
<1>2. \E e \in Range(schema) : e.key = k
  BY <1>1 DEF Range
<1>3. Entry(k) \in Range(schema)
  BY <1>2 DEF Entry
<1>4. PICK j \in DOMAIN schema : Entry(k) = schema[j]
  BY <1>3 DEF Range
<1> QED
  BY <1>4 DEF SchemaIsStored

LEMMA ChecksCopy ==
  ASSUME SchemaIsStored, Checks
  PROVE  StoredCopies
<1>1. \A k \in Names : Flushed[k] # disk[k] =>
                          k \in Stored /\ Flushed[k] = Cells[Entry(k).sum]
  BY EntryIsData DEF Flushed
<1>2. ASSUME NEW S \in SUBSET Looked, NEW k \in Names, Pushed(S)[k] # cloud[k]
      PROVE  k \in Stored /\ Pushed(S)[k] = Cells[Entry(k).sum]
  <2>1. /\ \E i \in S : schema[i].key = k
        /\ Pushed(S)[k] = Data(Entry(k))
    BY <1>2 DEF Pushed
  <2>2. k \in Stored
    BY <2>1 DEF Stored, Looked
  <2> QED
    BY <2>1, <2>2, EntryIsData
<1>3. disk' = Flushed \/ disk' = disk
  BY DEF Checks
<1>4. cloud' = cloud \/ \E S \in SUBSET Looked : cloud' = Pushed(S)
  BY DEF Checks
<1> QED
  BY <1>1, <1>2, <1>3, <1>4 DEF StoredCopies

LEMMA StepCopies == SchemaIsStored /\ [Next]_vars => [StoredCopies]_copies
<1> SUFFICES ASSUME SchemaIsStored, [Next]_vars, copies' # copies
             PROVE  StoredCopies
  OBVIOUS
<1>1. ServerNext
  BY DEF Next, vars, serverVars, copies, Start, Put, Get, Send, Register, Look,
         Receive, TooLate, Stop, Rewrite
<1>2. Checks
  BY <1>1 DEF ServerNext, Serve, RefusePut, RefuseLargePut, BeginPut, Locate,
              NotFound, Take, Idle, ReadChunk, Store, StoreAs, Mismatch, Shutdown
<1> QED
  BY <1>2, ChecksCopy

(* What the server writes to disk or pushes to the cloud under a name is,  *)
(* whole, the content it stored under this name: no heartbeat copies cells *)
(* of a file that changed while it was read, or of another entry.          *)
THEOREM CopiesAreStoredAlways == Spec => CopiesAreStored
<1>1. Spec => []SchemaIsStored
  BY SchemaIsStoredAlways
<1>2. SchemaIsStored /\ [Next]_vars => [StoredCopies]_copies
  BY StepCopies
<1>3. Spec => [][StoredCopies]_copies
  BY <1>1, <1>2, PTL DEF Spec
<1> QED
  BY <1>3 DEF StoredCopies, CopiesAreStored

-----------------------------------------------------------------------------
(* Answers.                                                                *)
Replies == [id : Nat, status : {-1}] \cup [id : Nat, status : {0}, entry : Entries]

Letters == UNION {Range(queues[q]) : q \in DOMAIN queues}

MailTypes == /\ queues \in Seq(Seq(Replies))
             /\ name \in 0..Len(queues) /\ handle \in 0..Len(queues)
             /\ \A q \in DOMAIN queues : Len(queues[q]) <= MailSize

-----------------------------------------------------------------------------
(* Sequences and the sets of their elements.                               *)
LEMMA RangeIs ==
  ASSUME NEW S, NEW s \in Seq(S)
  PROVE  /\ Range(s) = {s[i] : i \in 1..Len(s)} /\ Range(s) \subseteq S
         /\ DOMAIN s = 1..Len(s) /\ Len(s) \in Nat
<1>1. DOMAIN s = 1..Len(s) /\ Len(s) \in Nat
  BY LenProperties
<1>2. \A i \in 1..Len(s) : s[i] \in S
  BY ElementOfSeq
<1> QED
  BY <1>1, <1>2 DEF Range

LEMMA RangeAppend ==
  ASSUME NEW S, NEW s \in Seq(S), NEW e \in S
  PROVE  Range(Append(s, e)) = Range(s) \cup {e}
<1> DEFINE t == Append(s, e)
<1>1. /\ t \in Seq(S) /\ Len(t) = Len(s) + 1
      /\ \A i \in 1..Len(s) : t[i] = s[i]
      /\ t[Len(s) + 1] = e
  BY AppendProperties
<1> HIDE DEF t
<1>2. Range(s) = {s[i] : i \in 1..Len(s)} /\ Len(s) \in Nat
  BY RangeIs
<1>3. Range(t) = {t[i] : i \in 1..Len(t)}
  BY <1>1, RangeIs
<1>4. 1..Len(t) = 1..Len(s) \cup {Len(s) + 1}
  BY <1>1, <1>2
<1>5. Range(t) = Range(s) \cup {e}
  BY <1>1, <1>2, <1>3, <1>4
<1> QED
  BY <1>5 DEF t

LEMMA RangeTail ==
  ASSUME NEW S, NEW s \in Seq(S), s # <<>>
  PROVE  Head(s) \in Range(s) /\ Range(Tail(s)) \subseteq Range(s)
<1>1. /\ Tail(s) \in Seq(S) /\ Len(Tail(s)) = Len(s) - 1
      /\ \A i \in 1..Len(Tail(s)) : Tail(s)[i] = s[i + 1]
  BY HeadTailProperties
<1>2. Len(s) \in Nat \ {0} /\ Head(s) = s[1]
  BY EmptySeq
<1>3. Range(s) = {s[i] : i \in 1..Len(s)}
  BY RangeIs
<1>4. Range(Tail(s)) = {Tail(s)[i] : i \in 1..Len(Tail(s))}
  BY <1>1, RangeIs
<1>5. \A i \in 1..Len(Tail(s)) : i + 1 \in 1..Len(s)
  BY <1>1, <1>2
<1>6. 1 \in 1..Len(s)
  BY <1>2
<1> QED
  BY <1>1, <1>2, <1>3, <1>4, <1>5, <1>6

LEMMA RangeRemoveAt ==
  ASSUME NEW S, NEW s \in Seq(S), NEW i \in DOMAIN s
  PROVE  /\ Range(RemoveAt(s, i)) \subseteq Range(s)
         /\ Len(RemoveAt(s, i)) = Len(s) - 1
         /\ \A j \in DOMAIN s \ {i} : s[j] \in Range(RemoveAt(s, i))
<1>1. i \in 1..Len(s) /\ Len(s) \in Nat
  BY LenProperties
<1> DEFINE a == SubSeq(s, 0 + 1, i - 1)
           b == SubSeq(s, i + 1, Len(s))
           t == a \o b
<1>2. /\ a \in Seq(S) /\ Len(a) = i - 1
      /\ \A j \in 1..(i - 1) : a[j] = s[j]
  <2>1. i - 1 \in 0..Len(s) /\ 0 \in Nat
    BY <1>1
  <2>2. /\ a \in Seq(S)
        /\ Len(a) = IF 0 + 1 <= i - 1 THEN (i - 1) - 0 ELSE 0
        /\ \A j \in 1..((i - 1) - 0) : a[j] = s[0 + j]
    BY <2>1, PartType
  <2> HIDE DEF a
  <2> QED
    BY <1>1, <2>2
<1>3. /\ b \in Seq(S) /\ Len(b) = Len(s) - i
      /\ \A j \in 1..(Len(s) - i) : b[j] = s[i + j]
  <2>1. i \in Nat /\ Len(s) \in 0..Len(s)
    BY <1>1
  <2>2. /\ b \in Seq(S)
        /\ Len(b) = IF i + 1 <= Len(s) THEN Len(s) - i ELSE 0
        /\ \A j \in 1..(Len(s) - i) : b[j] = s[i + j]
    BY <2>1, PartType
  <2> HIDE DEF b
  <2> QED
    BY <1>1, <2>2
<1> HIDE DEF a, b
<1>4. /\ t \in Seq(S) /\ Len(t) = Len(a) + Len(b)
      /\ \A j \in 1..(Len(a) + Len(b)) : t[j] = IF j <= Len(a) THEN a[j] ELSE b[j - Len(a)]
  BY <1>2, <1>3, ConcatProperties
<1> HIDE DEF t
<1>5. Len(t) = Len(s) - 1
  BY <1>1, <1>2, <1>3, <1>4
<1>6. ASSUME NEW j \in 1..Len(t)
      PROVE  \E k \in 1..Len(s) : t[j] = s[k]
  <2>1. CASE j <= i - 1
    <3>1. j \in 1..(i - 1) /\ j \in 1..Len(s) /\ j <= Len(a)
      BY <1>1, <1>2, <1>5, <2>1
    <3> QED
      BY <1>2, <1>4, <3>1
  <2>2. CASE ~ (j <= i - 1)
    <3>1. /\ j - Len(a) \in 1..(Len(s) - i) /\ ~ (j <= Len(a))
          /\ i + (j - Len(a)) \in 1..Len(s)
      BY <1>1, <1>2, <1>5, <2>2
    <3>2. t[j] = b[j - Len(a)]
      BY <1>4, <3>1
    <3> QED
      BY <1>3, <3>1, <3>2
  <2> QED
    BY <2>1, <2>2
<1>7. Range(t) = {t[j] : j \in 1..Len(t)} /\ Range(s) = {s[j] : j \in 1..Len(s)}
  BY <1>4, RangeIs
<1>8. Range(t) \subseteq Range(s)
  BY <1>6, <1>7
<1>9. RemoveAt(s, i) = t
  BY <1>1 DEF RemoveAt, t, a, b
<1>10. ASSUME NEW j \in DOMAIN s \ {i}
       PROVE  s[j] \in Range(t)
  <2>1. j \in 1..Len(s) /\ j # i
    BY LenProperties
  <2>2. CASE j < i
    <3>1. j \in 1..(i - 1) /\ j \in 1..Len(t) /\ j <= Len(a)
      BY <1>1, <1>2, <1>5, <2>1, <2>2
    <3>2. t[j] = s[j]
      BY <1>2, <1>3, <1>4, <3>1
    <3> QED
      BY <1>7, <3>1, <3>2
  <2>3. CASE ~ (j < i)
    <3>1. /\ j - i \in 1..(Len(s) - i) /\ j - 1 \in 1..Len(t)
          /\ ~ (j - 1 <= i - 1) /\ (j - 1) - (i - 1) = j - i /\ i + (j - i) = j
      <4>1. Len(t) = Len(s) - 1
        BY <1>5
      <4>2. i \in Nat /\ j \in Nat /\ i < j /\ j <= Len(s) /\ 1 <= i
        BY <1>1, <2>1, <2>3
      <4> QED
        BY <1>1, <4>1, <4>2
    <3>2. t[j - 1] = b[(j - 1) - Len(a)]
      BY <1>2, <1>3, <1>4, <1>5, <3>1
    <3>3. t[j - 1] = s[j]
      BY <1>2, <1>3, <3>1, <3>2
    <3> QED
      BY <1>7, <3>1, <3>3
  <2> QED
    BY <2>2, <2>3
<1> QED
  BY <1>5, <1>8, <1>9, <1>10

-----------------------------------------------------------------------------
(* Opening or creating the queue of the clients loses no letter.           *)
LEMMA NewQueue ==
  ASSUME MailTypes
  PROVE  LET new == Append(queues, <<>>)
         IN  /\ new \in Seq(Seq(Replies)) /\ Len(new) = Len(queues) + 1
             /\ DOMAIN new = 1..(Len(queues) + 1) /\ Len(queues) \in Nat
             /\ \A q \in DOMAIN new : new[q] = <<>> \/ (q \in DOMAIN queues /\ new[q] = queues[q])
             /\ \A q \in DOMAIN new : Len(new[q]) <= MailSize
<1> DEFINE new == Append(queues, <<>>)
<1>1. queues \in Seq(Seq(Replies)) /\ <<>> \in Seq(Replies) /\ Len(<<>>) = 0
  BY EmptySeq DEF MailTypes
<1>2. /\ new \in Seq(Seq(Replies)) /\ Len(new) = Len(queues) + 1
      /\ \A i \in 1..Len(queues) : new[i] = queues[i]
      /\ new[Len(queues) + 1] = <<>>
  BY <1>1, AppendProperties
<1> HIDE DEF new
<1>3. DOMAIN new = 1..Len(new) /\ DOMAIN queues = 1..Len(queues) /\ Len(queues) \in Nat
  BY <1>1, <1>2, LenProperties
<1>4. MailSize \in Nat
  BY ServerAssumption
<1>5. \A q \in DOMAIN new : new[q] = <<>> \/ (q \in DOMAIN queues /\ new[q] = queues[q])
  BY <1>2, <1>3
<1>6. \A q \in DOMAIN new : Len(new[q]) <= MailSize
  BY <1>1, <1>4, <1>5 DEF MailTypes
<1> QED
  BY <1>2, <1>3, <1>5, <1>6 DEF new

LEMMA OpenedTypes ==
  ASSUME MailTypes
  PROVE  LET o == Reopened
         IN  /\ o.q \in Seq(Seq(Replies)) /\ o.h \in DOMAIN o.q
             /\ o.name \in 0..Len(o.q) /\ Len(queues) <= Len(o.q)
             /\ DOMAIN o.q = 1..Len(o.q) /\ Len(o.q) \in Nat
             /\ \A q \in DOMAIN o.q : Len(o.q[q]) <= MailSize
             /\ \A q \in DOMAIN o.q :
                  o.q[q] = <<>> \/ (q \in DOMAIN queues /\ o.q[q] = queues[q])
<1>1. /\ queues \in Seq(Seq(Replies)) /\ DOMAIN queues = 1..Len(queues)
      /\ Len(queues) \in Nat
      /\ name \in 0..Len(queues) /\ handle \in 0..Len(queues)
      /\ \A q \in DOMAIN queues : Len(queues[q]) <= MailSize
  BY LenProperties DEF MailTypes
<1>2. CASE handle # 0
  BY <1>1, <1>2 DEF Reopened
<1>3. CASE handle = 0 /\ name # 0
  BY <1>1, <1>3 DEF Reopened
<1>4. CASE handle = 0 /\ name = 0
  <2>1. /\ Reopened.q = Append(queues, <<>>)
        /\ Reopened.name = Len(queues) + 1 /\ Reopened.h = Len(queues) + 1
    BY <1>4 DEF Reopened
  <2> QED
    BY <1>1, <2>1, NewQueue
<1> QED
  BY <1>2, <1>3, <1>4

(* What opening alone does.                                                *)
LEMMA OpenedMail ==
  ASSUME MailTypes, handle' = Reopened.h, name' = Reopened.name, queues' = Reopened.q
  PROVE  MailTypes' /\ Letters' \subseteq Letters /\ Len(queues) <= Len(queues')
<1>1. MailTypes' /\ Len(queues) <= Len(queues')
  BY OpenedTypes DEF MailTypes
<1>2. \A q \in DOMAIN queues' :
        queues'[q] = <<>> \/ (q \in DOMAIN queues /\ queues'[q] = queues[q])
  BY OpenedTypes
<1>3. Range(<<>>) = {}
  BY DEF Range
<1>4. Letters' \subseteq Letters
  BY <1>2, <1>3 DEF Letters
<1> QED
  BY <1>1, <1>4

LEMMA AnsweredMail ==
  ASSUME MailTypes, NEW reply \in Replies, Answer(reply)
  PROVE  MailTypes' /\ Letters' \subseteq Letters \cup {reply} /\ Len(queues) <= Len(queues')
<1> DEFINE o   == Reopened
           box == o.q[o.h]
<1>1. /\ o.q \in Seq(Seq(Replies)) /\ o.h \in DOMAIN o.q
      /\ o.name \in 0..Len(o.q) /\ Len(queues) <= Len(o.q)
      /\ DOMAIN o.q = 1..Len(o.q) /\ Len(o.q) \in Nat
      /\ \A q \in DOMAIN o.q : Len(o.q[q]) <= MailSize
      /\ \A q \in DOMAIN o.q : o.q[q] = <<>> \/ (q \in DOMAIN queues /\ o.q[q] = queues[q])
  BY OpenedTypes
<1>2. CASE Len(box) = MailSize
  <2>1. handle' = Reopened.h /\ name' = Reopened.name /\ queues' = Reopened.q
    BY <1>2 DEF Answer
  <2> QED
    BY <2>1, OpenedMail
<1>3. CASE Len(box) # MailSize
  <2>1. /\ handle' = o.h /\ name' = o.name
        /\ queues' = [o.q EXCEPT ![o.h] = Append(box, reply)]
    BY <1>3 DEF Answer
  <2> HIDE DEF o
  <2>2. box \in Seq(Replies) /\ Len(box) \in Nat /\ Len(box) <= MailSize /\ MailSize \in Nat
    <3>1. box \in Seq(Replies)
      BY <1>1, ElementOfSeq
    <3> QED
      BY <1>1, <3>1, LenProperties, ServerAssumption
  <2> DEFINE more == Append(box, reply)
  <2>3. more \in Seq(Replies) /\ Len(more) = Len(box) + 1 /\ Range(more) = Range(box) \cup {reply}
    BY <2>2, AppendProperties, RangeAppend
  <2>4. queues' = [o.q EXCEPT ![o.h] = more]
    BY <2>1
  <2> HIDE DEF more
  <2>5. /\ queues' \in Seq(Seq(Replies)) /\ Len(queues') = Len(o.q)
        /\ \A q \in 1..Len(o.q) : queues'[q] = IF q = o.h THEN more ELSE o.q[q]
    BY <1>1, <2>3, <2>4, ExceptSeq
  <2>6. DOMAIN queues' = 1..Len(o.q)
    BY <2>5, LenProperties
  <2>7. \A q \in DOMAIN queues' : Len(queues'[q]) <= MailSize
    <3>1. Len(more) <= MailSize
      BY <1>3, <2>2, <2>3
    <3>2. \A q \in 1..Len(o.q) : Len(o.q[q]) <= MailSize
      BY <1>1
    <3> QED
      BY <2>5, <2>6, <3>1, <3>2
  <2>8. MailTypes'
    BY <1>1, <2>1, <2>5, <2>7 DEF MailTypes
  <2>9. Range(<<>>) = {}
    BY DEF Range
  <2>10. \A q \in DOMAIN queues' : Range(queues'[q]) \subseteq Letters \cup {reply}
    <3>1. \A q \in DOMAIN o.q : Range(o.q[q]) \subseteq Letters
      BY <1>1, <2>9 DEF Letters
    <3>2. \A q \in DOMAIN queues' :
            q \in DOMAIN o.q /\ (queues'[q] = more \/ queues'[q] = o.q[q])
      BY <1>1, <2>5, <2>6
    <3>3. Range(more) \subseteq Letters \cup {reply}
      BY <1>1, <2>3, <3>1
    <3> QED
      BY <3>1, <3>2, <3>3
  <2>11. Letters' \subseteq Letters \cup {reply}
    BY <2>10 DEF Letters
  <2> QED
    BY <1>1, <2>5, <2>8, <2>11
<1> QED
  BY <1>2, <1>3

LEMMA TakenMail ==
  ASSUME MailTypes, NEW q \in DOMAIN queues, queues[q] # <<>>,
         queues' = [queues EXCEPT ![q] = Tail(queues[q])],
         name' = name, handle' = handle
  PROVE  /\ MailTypes' /\ Letters' \subseteq Letters /\ Head(queues[q]) \in Letters
         /\ Len(queues') = Len(queues)
<1>1. queues \in Seq(Seq(Replies)) /\ DOMAIN queues = 1..Len(queues)
  BY LenProperties DEF MailTypes
<1>2. queues[q] \in Seq(Replies)
  BY <1>1, ElementOfSeq
<1> DEFINE rest == Tail(queues[q])
<1>3. /\ rest \in Seq(Replies) /\ Len(rest) = Len(queues[q]) - 1
      /\ Head(queues[q]) \in Range(queues[q]) /\ Range(rest) \subseteq Range(queues[q])
  BY <1>2, HeadTailProperties, RangeTail
<1> HIDE DEF rest
<1>4. /\ queues' \in Seq(Seq(Replies)) /\ Len(queues') = Len(queues)
      /\ \A j \in 1..Len(queues) : queues'[j] = IF j = q THEN rest ELSE queues[j]
  BY <1>1, <1>3, ExceptSeq DEF rest
<1>5. DOMAIN queues' = 1..Len(queues)
  BY <1>4, LenProperties
<1>6. Len(queues[q]) \in Nat /\ MailSize \in Nat
  BY <1>2, LenProperties, ServerAssumption
<1>7. MailTypes'
  BY <1>1, <1>3, <1>4, <1>5, <1>6 DEF MailTypes
<1>8. Letters' \subseteq Letters /\ Head(queues[q]) \in Letters
  BY <1>1, <1>3, <1>4, <1>5 DEF Letters
<1> QED
  BY <1>4, <1>7, <1>8

-----------------------------------------------------------------------------
(* A task is sent to the queue of the server, kept to be registered, then  *)
(* pending, and may be read meanwhile: wherever its id turns up it is the  *)
(* same task.                                                              *)
Known == Range(requests) \cup {t \in {sending[p] : p \in Processes} : t # None}
         \cup (UNION {pending[p] : p \in Processes})
         \cup (IF server = "reading" THEN {work.request} ELSE {})

Suits(task, entry) == entry.key = IF task.key = NoKey THEN entry.sum ELSE task.key

(* A letter names an entry that suits the task it answers.                 *)
Apt(r) == r.id <= tasks /\ (r.status = 0 => /\ r.entry \in Range(schema)
                                            /\ \A t \in Known : t.id = r.id => Suits(t, r.entry))

Results == /\ \A t \in Known : t \in Requests /\ t.id <= tasks
           /\ \A t, u \in Known : t.id = u.id => t = u
           /\ \A r \in Letters : Apt(r)
           /\ \A p \in Processes : \A r \in completed[p] :
                r.entry \in Range(schema) /\ Suits(r.task, r.entry)

ClientTypes ==
  /\ stage \in [Processes -> {"new", "running", "gone"}]
  /\ inbox \in [Processes -> 0..Len(queues)]
  /\ daemon \in [Processes -> {"asleep", "taking", "ended"}]
  /\ sending = [p \in Processes |-> sending[p]]
  /\ pending = [p \in Processes |-> pending[p]]
  /\ completed = [p \in Processes |-> completed[p]]
  /\ \A p \in Processes : stage[p] = "running" => inbox[p] # 0
  /\ \A p \in Processes : daemon[p] = "taking" => stage[p] = "running"

ResultInv == IpcInv /\ MailTypes /\ ClientTypes /\ Results

LEMMA InitResults == Init => MailTypes /\ ClientTypes /\ Results
<1> SUFFICES ASSUME Init PROVE MailTypes /\ ClientTypes /\ Results
  OBVIOUS
<1> USE DEF Init, ServerInit
<1>1. /\ queues = <<>> /\ requests = <<>> /\ schema = <<>>
      /\ <<>> \in Seq(Seq(Replies)) /\ Len(<<>>) = 0
  BY EmptySeq
<1>2. DOMAIN queues = {} /\ Range(requests) = {}
  BY <1>1 DEF Range
<1>3. MailTypes
  BY <1>1, <1>2 DEF MailTypes
<1>4. ClientTypes
  BY <1>1 DEF ClientTypes
<1>5. Known = {} /\ Letters = {}
  BY <1>2 DEF Known, Letters
<1>6. Results
  BY <1>5 DEF Results
<1> QED
  BY <1>3, <1>4, <1>6

(* A step at which no task is sent, entries stay, and every new letter is  *)
(* an apt answer.                                                          *)
LEMMA ResultsStep ==
  ASSUME Results, Known' \subseteq Known, tasks' = tasks,
         Range(schema) \subseteq Range(schema'),
         \A r \in Letters' \ Letters :
           r.id <= tasks /\ (r.status = 0 => /\ r.entry \in Range(schema')
                                             /\ \A t \in Known : t.id = r.id => Suits(t, r.entry)),
         \A p \in Processes : \A r \in completed'[p] :
           r \in completed[p] \/ (r.entry \in Range(schema) /\ Suits(r.task, r.entry))
  PROVE  Results'
<1>1. \A t \in Known' : t \in Requests /\ t.id <= tasks'
  BY DEF Results
<1>2. \A t, u \in Known' : t.id = u.id => t = u
  BY DEF Results
<1>3. ASSUME NEW r \in Letters'
      PROVE  Apt(r)'
  <2>1. CASE r \in Letters
    BY <2>1 DEF Results, Apt, Suits
  <2>2. CASE r \notin Letters
    BY <1>3, <2>2 DEF Apt, Suits
  <2> QED
    BY <2>1, <2>2
<1>4. \A p \in Processes : \A r \in completed'[p] :
        r.entry \in Range(schema') /\ Suits(r.task, r.entry)
  BY DEF Results
<1> QED
  BY <1>1, <1>2, <1>3, <1>4 DEF Results, Suits

-----------------------------------------------------------------------------
(* The server.                                                             *)
LEMMA KnownShrinks ==
  ASSUME UNCHANGED <<sending, pending>>,
         Range(requests') \subseteq Range(requests),
         server' = "reading" =>
           \/ server = "reading" /\ work'.request = work.request
           \/ work'.request \in Range(requests)
  PROVE  Known' \subseteq Known
BY DEF Known

LEMMA TakenKnown ==
  ASSUME IpcInv, NEW i \in DOMAIN requests, Take(i)
  PROVE  /\ Range(requests') \subseteq Range(requests) /\ requests[i] \in Range(requests)
         /\ requests[i] \in Requests /\ requests[i] \in Known
<1>1. requests \in Seq(Requests) /\ requests' = RemoveAt(requests, i)
  BY DEF Take, IpcInv, Types
<1>2. requests[i] \in Range(requests)
  BY DEF Range
<1> QED
  BY <1>1, <1>2, RangeRemoveAt, TakeType DEF Known

LEMMA RefusalType ==
  ASSUME NEW m \in Requests
  PROVE  /\ Refusal(m) \in Replies /\ Refusal(m).status # 0 /\ Refusal(m).id = m.id
         /\ m.id \in Nat
BY DEF Refusal, Replies, Requests, PutRequests, GetRequests

LEMMA ClientsKept ==
  ASSUME ClientTypes, MailTypes, MailTypes', UNCHANGED clientVars,
         Len(queues) <= Len(queues')
  PROVE  ClientTypes'
<1>1. Len(queues) \in Nat /\ Len(queues') \in Nat
  BY LenProperties DEF MailTypes
<1>2. 0..Len(queues) \subseteq 0..Len(queues')
  BY <1>1
<1> QED
  BY <1>2 DEF ClientTypes, clientVars

(* A request is taken and refused, or located; or a PUT comes to its end.  *)
LEMMA AnswerKeeps ==
  ASSUME ResultInv, NEW t \in Known, NEW reply \in Replies, Answer(reply),
         reply.id = t.id, UNCHANGED clientVars,
         Range(requests') \subseteq Range(requests),
         Range(schema) \subseteq Range(schema'),
         reply.status = 0 => reply.entry \in Range(schema') /\ Suits(t, reply.entry)
  PROVE  MailTypes' /\ ClientTypes' /\ Results'
<1>1. MailTypes' /\ Letters' \subseteq Letters \cup {reply} /\ Len(queues) <= Len(queues')
  BY AnsweredMail DEF ResultInv
<1>2. ClientTypes'
  BY <1>1, ClientsKept DEF ResultInv
<1>3. Known' \subseteq Known
  BY AnswerEnds, KnownShrinks DEF clientVars
<1>4. \A u \in Known : u.id = t.id => u = t
  BY DEF ResultInv, Results
<1>5. t.id <= tasks
  BY DEF ResultInv, Results
<1>6. Results'
  BY <1>1, <1>3, <1>4, <1>5, ResultsStep DEF ResultInv, clientVars
<1> QED
  BY <1>1, <1>2, <1>6

(* Steps of the server that send no letter.                                *)
LEMMA SilentKeeps ==
  ASSUME ResultInv, UNCHANGED clientVars, schema' = schema,
         Range(requests') \subseteq Range(requests),
         server' = "reading" =>
           \/ server = "reading" /\ work'.request = work.request
           \/ work'.request \in Range(requests),
         \/ UNCHANGED mail
         \/ handle' = Reopened.h /\ name' = Reopened.name /\ queues' = Reopened.q
  PROVE  MailTypes' /\ ClientTypes' /\ Results'
<1>1. MailTypes' /\ Letters' \subseteq Letters /\ Len(queues) <= Len(queues')
  <2>1. CASE UNCHANGED mail
    <3>1. Len(queues) <= Len(queues)
      BY LenProperties DEF ResultInv, MailTypes
    <3> QED
      BY <2>1, <3>1 DEF ResultInv, MailTypes, Letters, mail
  <2>2. CASE handle' = Reopened.h /\ name' = Reopened.name /\ queues' = Reopened.q
    BY <2>2, OpenedMail DEF ResultInv
  <2> QED
    BY <2>1, <2>2
<1>2. ClientTypes'
  BY <1>1, ClientsKept DEF ResultInv
<1>3. Known' \subseteq Known
  BY KnownShrinks DEF clientVars
<1>4. Results'
  BY <1>1, <1>3, ResultsStep DEF ResultInv, clientVars
<1> QED
  BY <1>1, <1>2, <1>4

LEMMA LocateKeeps ==
  ASSUME ResultInv, NEW i \in DOMAIN requests, Locate(i), UNCHANGED clientVars
  PROVE  MailTypes' /\ ClientTypes' /\ Results'
<1> DEFINE m == requests[i]
           e == Entry(m.key)
           reply == [id |-> m.id, status |-> 0, entry |-> e]
<1>1. Take(i) /\ m.op = "GET" /\ m.key \in Stored /\ Answer(reply) /\ schema' = schema
  BY DEF Locate, held
<1>2. /\ Range(requests') \subseteq Range(requests) /\ m \in Requests /\ m \in Known
  BY <1>1, TakenKnown DEF ResultInv
<1>3. m.id \in Nat /\ m.key \in Names
  BY <1>1, <1>2 DEF Requests, PutRequests, GetRequests
<1>4. e \in Range(schema) /\ e.key = m.key
  <2>1. \E f \in Range(schema) : f.key = m.key
    BY <1>1 DEF Stored, Range
  <2> HIDE DEF m
  <2> QED
    BY <2>1 DEF Entry
<1>5. e \in Entries
  BY <1>4, RangeIs DEF ResultInv, IpcInv, Types
<1> HIDE DEF m, e
<1>6. reply \in Replies /\ reply.status = 0 /\ reply.entry = e /\ reply.id = m.id
  BY <1>3, <1>5 DEF Replies
<1>7. Suits(m, e)
  <2>1. m.key # NoKey
    BY <1>3, ServerAssumption DEF Names
  <2> QED
    BY <1>4, <2>1 DEF Suits
<1> HIDE DEF reply
<1> QED
  BY <1>1, <1>2, <1>4, <1>6, <1>7, AnswerKeeps

LEMMA StoreKeeps ==
  ASSUME ResultInv, Store, UNCHANGED clientVars
  PROVE  MailTypes' /\ ClientTypes' /\ Results'
<1> DEFINE m == work.request
           e == NewEntry
           reply == [id |-> m.id, status |-> 0, entry |-> e]
<1>1. /\ server = "reading" /\ Read /\ work.got = Cells[work.checksum]
      /\ schema' = Append(schema, e) /\ Answer(reply) /\ requests' = requests
  BY DEF Store, StoreAs, Read
<1>2. m \in PutRequests /\ m \in Known
  BY <1>1 DEF ResultInv, IpcInv, Reading, Known
<1>3. e \in Entries
  BY <1>1, NewEntryType DEF ResultInv
<1>4. e.key = KeyOf(m, work.checksum) /\ e.sum = work.checksum
  BY DEF NewEntry
<1> HIDE DEF m, e
<1>5. Range(schema') = Range(schema) \cup {e}
  BY <1>1, <1>3, RangeAppend DEF ResultInv, IpcInv, Types
<1>6. reply \in Replies /\ reply.status = 0 /\ reply.entry = e /\ reply.id = m.id
  BY <1>2, <1>3 DEF Replies, PutRequests
<1>7. Suits(m, e)
  BY <1>4 DEF Suits, KeyOf
<1> HIDE DEF reply
<1> QED
  BY <1>1, <1>2, <1>5, <1>6, <1>7, AnswerKeeps

LEMMA RefuseKeeps ==
  ASSUME ResultInv, NEW m \in Known, Answer(Refusal(m)), UNCHANGED clientVars,
         Range(requests') \subseteq Range(requests), schema' = schema
  PROVE  MailTypes' /\ ClientTypes' /\ Results'
<1>1. m \in Requests
  BY DEF ResultInv, Results
<1>2. Refusal(m) \in Replies /\ Refusal(m).status # 0 /\ Refusal(m).id = m.id
  BY <1>1, RefusalType
<1> QED
  BY <1>2, AnswerKeeps

LEMMA ServerKeeps ==
  ASSUME ResultInv, ServerNext
  PROVE  MailTypes' /\ ClientTypes' /\ Results'
<1>1. UNCHANGED clientVars
  BY DEF ServerNext
<1>2. ASSUME NEW i \in DOMAIN requests, RefusePut(i) \/ RefuseLargePut(i)
      PROVE  MailTypes' /\ ClientTypes' /\ Results'
  <2>1. Take(i) /\ Answer(Refusal(requests[i])) /\ schema' = schema
    BY <1>2 DEF RefusePut, RefuseLargePut, held
  <2>2. Range(requests') \subseteq Range(requests) /\ requests[i] \in Known
    BY <2>1, TakenKnown DEF ResultInv
  <2> QED
    BY <1>1, <2>1, <2>2, RefuseKeeps
<1>3. ASSUME NEW i \in DOMAIN requests, BeginPut(i)
      PROVE  MailTypes' /\ ClientTypes' /\ Results'
  <2>1. /\ Take(i) /\ schema' = schema
        /\ handle' = Reopened.h /\ name' = Reopened.name /\ queues' = Reopened.q
        /\ work' = [request |-> requests[i], checksum |-> files[requests[i].path],
                    got |-> <<>>]
    BY <1>3 DEF BeginPut, held
  <2>2. work'.request = requests[i]
    BY <2>1
  <2>3. Range(requests') \subseteq Range(requests) /\ requests[i] \in Range(requests)
    BY <2>1, TakenKnown DEF ResultInv
  <2> QED
    BY <1>1, <2>1, <2>2, <2>3, SilentKeeps
<1>4. ASSUME NEW i \in DOMAIN requests, Locate(i)
      PROVE  MailTypes' /\ ClientTypes' /\ Results'
  BY <1>1, <1>4, LocateKeeps
<1>5. ASSUME NEW i \in DOMAIN requests, NotFound(i)
      PROVE  MailTypes' /\ ClientTypes' /\ Results'
  <2>1. /\ Take(i) /\ schema' = schema /\ server' # "reading"
        /\ handle' = Reopened.h /\ name' = Reopened.name /\ queues' = Reopened.q
    BY <1>5 DEF NotFound, Take, held
  <2>2. Range(requests') \subseteq Range(requests)
    BY <2>1, TakenKnown DEF ResultInv
  <2> QED
    BY <1>1, <2>1, <2>2, SilentKeeps
<1>6. CASE Idle \/ Shutdown
  BY <1>1, <1>6, SilentKeeps DEF Idle, Shutdown, held
<1>7. CASE ReadChunk
  <2>1. server = "reading" /\ requests' = requests /\ schema' = schema /\ UNCHANGED mail
    BY <1>7 DEF ReadChunk
  <2>2. work'.request = work.request
    <3>1. work' = work \/ work' = [work EXCEPT !.got = work.got \o Chunk]
      BY <1>7 DEF ReadChunk
    <3>2. work = [request |-> work.request, checksum |-> work.checksum, got |-> work.got]
      BY <2>1 DEF ResultInv, IpcInv, Reading
    <3> QED
      BY <3>1, <3>2
  <2> QED
    BY <1>1, <2>1, <2>2, SilentKeeps
<1>8. CASE Store
  BY <1>1, <1>8, StoreKeeps
<1>9. CASE Mismatch
  <2>1. /\ server = "reading" /\ Answer(Refusal(work.request)) /\ schema' = schema
        /\ requests' = requests
    BY <1>9 DEF Mismatch, Read, held
  <2>2. work.request \in Known
    BY <2>1 DEF Known
  <2> QED
    BY <1>1, <2>1, <2>2, RefuseKeeps
<1> QED
  BY <1>2, <1>3, <1>4, <1>5, <1>6, <1>7, <1>8, <1>9 DEF ServerNext, Serve

-----------------------------------------------------------------------------
(* The clients.                                                            *)
LEMMA StartKeeps ==
  ASSUME ResultInv, NEW p \in Processes, Start(p)
  PROVE  MailTypes' /\ ClientTypes' /\ Results'
<1>1. /\ queues \in Seq(Seq(Replies)) /\ DOMAIN queues = 1..Len(queues)
      /\ Len(queues) \in Nat /\ name \in 0..Len(queues) /\ handle \in 0..Len(queues)
      /\ \A q \in DOMAIN queues : Len(queues[q]) <= MailSize
  BY LenProperties DEF ResultInv, MailTypes
<1>2. /\ handle' = handle
      /\ \/ name # 0 /\ queues' = queues /\ name' = name
         \/ name = 0 /\ queues' = Append(queues, <<>>) /\ name' = Len(queues) + 1
  BY DEF Start
<1>3. /\ queues' \in Seq(Seq(Replies)) /\ Len(queues) <= Len(queues')
      /\ name' \in 1..Len(queues') /\ handle' \in 0..Len(queues') /\ Len(queues') \in Nat
      /\ \A q \in DOMAIN queues' : Len(queues'[q]) <= MailSize
      /\ \A q \in DOMAIN queues' :
           queues'[q] = <<>> \/ (q \in DOMAIN queues /\ queues'[q] = queues[q])
  <2>1. CASE name # 0 /\ queues' = queues /\ name' = name
    <3>1. /\ name' \in 1..Len(queues) /\ handle' \in 0..Len(queues)
          /\ Len(queues) <= Len(queues)
      <4>1. /\ Len(queues) \in Nat /\ name \in 0..Len(queues)
            /\ handle \in 0..Len(queues)
        BY <1>1
      <4>2. name # 0 /\ name' = name /\ handle' = handle
        BY <1>2, <2>1
      <4> QED
        BY <4>1, <4>2
    <3>2. queues' = queues
      BY <2>1
    <3> QED
      BY <1>1, <3>1, <3>2, Zenon
  <2>2. CASE name = 0 /\ queues' = Append(queues, <<>>) /\ name' = Len(queues) + 1
    <3> DEFINE new == Append(queues, <<>>)
    <3>1. /\ new \in Seq(Seq(Replies)) /\ Len(new) = Len(queues) + 1
          /\ \A q \in DOMAIN new : new[q] = <<>> \/ (q \in DOMAIN queues /\ new[q] = queues[q])
          /\ \A q \in DOMAIN new : Len(new[q]) <= MailSize
      BY NewQueue DEF ResultInv
    <3>2. queues' = new
      BY <2>2
    <3> HIDE DEF new
    <3>3. /\ Len(queues) <= Len(new) /\ Len(new) \in Nat
          /\ Len(queues) + 1 \in 1..Len(new) /\ handle' \in 0..Len(new)
      BY <1>1, <1>2, <3>1
    <3> QED
      BY <2>2, <3>1, <3>2, <3>3
  <2> QED
    BY <1>2, <2>1, <2>2
<1>4. MailTypes'
  <2>1. name' \in 0..Len(queues')
    BY <1>3
  <2> QED
    BY <1>3, <2>1 DEF MailTypes
<1>5. Letters' \subseteq Letters
  <2>1. Range(<<>>) = {}
    BY DEF Range
  <2> QED
    BY <1>3, <2>1 DEF Letters
<1>6. ClientTypes'
  <2>1. 0..Len(queues) \subseteq 0..Len(queues') /\ name' \in 0..Len(queues') /\ name' # 0
    BY <1>1, <1>3
  <2>2. /\ stage' = [stage EXCEPT ![p] = "running"]
        /\ inbox' = [inbox EXCEPT ![p] = name']
        /\ UNCHANGED <<daemon, sending, pending, completed>>
    BY DEF Start
  <2> QED
    BY <2>1, <2>2 DEF ResultInv, ClientTypes
<1>7. Known' \subseteq Known
  BY DEF Start, Known
<1>8. Results'
  BY <1>5, <1>7, ResultsStep DEF ResultInv, Start, held
<1> QED
  BY <1>4, <1>6, <1>8

LEMMA SendKeeps ==
  ASSUME ResultInv, NEW p \in Processes, NEW op, NEW key, NEW path,
         Send(p, op, key, path),
         [id |-> tasks + 1, op |-> op, key |-> key, path |-> path] \in Requests
  PROVE  MailTypes' /\ ClientTypes' /\ Results'
<1> DEFINE task == [id |-> tasks + 1, op |-> op, key |-> key, path |-> path]
<1>1. /\ requests' = Append(requests, task) /\ sending' = [sending EXCEPT ![p] = task]
      /\ tasks' = tasks + 1 /\ task \in Requests /\ task.id = tasks + 1
      /\ UNCHANGED <<server, work, mail, schema, stage, inbox, daemon, pending, completed>>
  BY DEF Send, held
<1> HIDE DEF task
<1>2. requests \in Seq(Requests) /\ tasks \in Nat
  BY DEF ResultInv, IpcInv, Types
<1>3. Range(requests') = Range(requests) \cup {task}
  BY <1>1, <1>2, RangeAppend
<1>4. MailTypes' /\ Letters' = Letters
  BY <1>1 DEF ResultInv, MailTypes, Letters, mail
<1>5. ClientTypes'
  BY <1>1 DEF ResultInv, ClientTypes, mail
<1>6. Known' \subseteq Known \cup {task}
  BY <1>1, <1>3 DEF Known, ResultInv, ClientTypes
<1>7. /\ \A t \in Known : t \in Requests /\ t.id <= tasks /\ t.id \in Nat
      /\ \A t, u \in Known : t.id = u.id => t = u
  BY DEF ResultInv, Results, Requests, PutRequests, GetRequests
<1>8. \A t \in Known' : t \in Requests /\ t.id <= tasks'
  BY <1>1, <1>2, <1>6, <1>7
<1>9. \A t, u \in Known' : t.id = u.id => t = u
  BY <1>1, <1>2, <1>6, <1>7
<1>10. ASSUME NEW r \in Letters
       PROVE  Apt(r)'
  <2>1. Apt(r)
    BY DEF ResultInv, Results
  <2>2. r.id \in Nat
    BY RangeIs, LenProperties, ElementOfSeq DEF Letters, ResultInv, MailTypes, Replies
  <2>3. r.id <= tasks /\ r.id # task.id
    BY <1>1, <1>2, <2>1, <2>2 DEF Apt
  <2>4. r.id <= tasks'
    BY <1>1, <1>2, <2>2, <2>3
  <2> QED
    BY <1>1, <1>6, <2>1, <2>3, <2>4 DEF Apt, Suits
<1>11. Results'
  BY <1>1, <1>4, <1>8, <1>9, <1>10 DEF ResultInv, Results, Suits
<1> QED
  BY <1>4, <1>5, <1>11

LEMMA ReceiveKeeps ==
  ASSUME ResultInv, NEW p \in Processes, Receive(p)
  PROVE  MailTypes' /\ ClientTypes' /\ Results'
<1> DEFINE q     == inbox[p]
           reply == Head(queues[q])
           mine  == {t \in pending[p] : reply.status = 0 /\ t.id = reply.id}
           done  == {[task |-> t, entry |-> reply.entry] : t \in mine}
<1>1. /\ daemon[p] = "taking" /\ queues[q] # <<>>
      /\ queues' = [queues EXCEPT ![q] = Tail(queues[q])]
      /\ pending' = [pending EXCEPT ![p] = pending[p] \ mine]
      /\ completed' = [completed EXCEPT ![p] = completed[p] \cup done]
      /\ daemon' = [daemon EXCEPT ![p] = "asleep"]
      /\ UNCHANGED <<requests, server, work, schema, name, handle, stage, inbox, sending,
                     tasks>>
  BY DEF Receive, held
<1>2. q \in DOMAIN queues
  <2>1. inbox[p] \in 0..Len(queues) /\ inbox[p] # 0
    BY <1>1 DEF ResultInv, ClientTypes
  <2>2. DOMAIN queues = 1..Len(queues) /\ Len(queues) \in Nat
    BY LenProperties DEF ResultInv, MailTypes
  <2> QED
    BY <2>1, <2>2
<1> HIDE DEF q
<1>3. /\ MailTypes' /\ Letters' \subseteq Letters /\ reply \in Letters
      /\ Len(queues') = Len(queues)
  BY <1>1, <1>2, TakenMail DEF ResultInv
<1> HIDE DEF reply
<1>4. mine \subseteq Known
  BY DEF Known
<1>5. \A t \in mine : reply.entry \in Range(schema) /\ Suits(t, reply.entry)
  BY <1>3, <1>4 DEF ResultInv, Results, Apt
<1>6. \A r \in done : r.entry \in Range(schema) /\ Suits(r.task, r.entry)
  BY <1>5
<1> HIDE DEF mine, done
<1>7. ClientTypes'
  BY <1>1, <1>3 DEF ResultInv, ClientTypes
<1>8. \A o \in Processes :
        /\ pending'[o] \subseteq pending[o]
        /\ completed'[o] \subseteq completed[o] \cup done
  BY <1>1 DEF ResultInv, ClientTypes
<1>9. Known' \subseteq Known
  BY <1>1, <1>8 DEF Known
<1>10. Results'
  BY <1>1, <1>3, <1>6, <1>8, <1>9, ResultsStep DEF ResultInv
<1> QED
  BY <1>3, <1>7, <1>10

(* Steps of a client that leave the mail alone and send nothing.           *)
LEMMA QuietKeeps ==
  ASSUME ResultInv, ClientTypes', UNCHANGED <<requests, server, work, held, tasks>>,
         MailTypes', Letters' \subseteq Letters,
         \A p \in Processes : /\ pending'[p] \subseteq pending[p] \cup ({sending[p]} \ {None})
                              /\ sending'[p] \in {sending[p], None}
                              /\ completed'[p] \subseteq completed[p]
  PROVE  Results'
<1>1. Known' \subseteq Known
  BY DEF Known
<1> QED
  BY <1>1, ResultsStep DEF ResultInv, held

LEMMA ClientKeeps ==
  ASSUME ResultInv, NEW p \in Processes,
         Register(p) \/ Look(p) \/ TooLate(p) \/ Stop(p)
  PROVE  MailTypes' /\ ClientTypes' /\ Results'
<1> USE DEF ResultInv
<1>1. /\ queues' = queues /\ handle' = handle /\ name' \in {name, 0}
      /\ UNCHANGED <<requests, server, work, held, tasks>>
  BY DEF Register, Look, TooLate, Stop, serverVars, mail
<1>2. MailTypes' /\ Letters' = Letters
  <2>1. Len(queues) \in Nat
    BY LenProperties DEF MailTypes
  <2>2. name' \in 0..Len(queues)
    BY <1>1, <2>1 DEF MailTypes
  <2> QED
    BY <1>1, <2>2 DEF MailTypes, Letters
<1>3. 0 \in 0..Len(queues)
  BY LenProperties DEF MailTypes
<1>4. CASE Register(p)
  <2>1. /\ sending[p] # None
        /\ pending' = [pending EXCEPT ![p] = pending[p] \cup {sending[p]}]
        /\ sending' = [sending EXCEPT ![p] = None]
        /\ UNCHANGED <<stage, inbox, daemon, completed, tasks>>
    BY <1>4 DEF Register
  <2>2. ClientTypes'
    BY <1>1, <2>1 DEF ClientTypes
  <2>3. \A o \in Processes : /\ pending'[o] \subseteq pending[o] \cup ({sending[o]} \ {None})
                              /\ sending'[o] \in {sending[o], None}
                              /\ completed'[o] \subseteq completed[o]
    BY <2>1 DEF ClientTypes
  <2> QED
    BY <1>1, <1>2, <2>2, <2>3, QuietKeeps
<1>5. CASE Look(p) \/ TooLate(p)
  <2>1. /\ \/ stage[p] = "running" /\ daemon' = [daemon EXCEPT ![p] = "taking"]
           \/ daemon' = [daemon EXCEPT ![p] = "ended"]
        /\ UNCHANGED <<stage, inbox, sending, pending, completed, tasks>>
    BY <1>5 DEF Look, TooLate
  <2>2. ClientTypes'
    BY <1>1, <2>1 DEF ClientTypes
  <2> QED
    BY <1>1, <1>2, <2>1, <2>2, QuietKeeps
<1>6. CASE Stop(p)
  <2>1. /\ stage' = [stage EXCEPT ![p] = "gone"]
        /\ daemon' = [daemon EXCEPT ![p] = "ended"]
        /\ inbox' = [inbox EXCEPT ![p] = 0]
        /\ pending' = pending \/ pending' = [pending EXCEPT ![p] = {}]
        /\ completed' = completed \/ completed' = [completed EXCEPT ![p] = {}]
        /\ UNCHANGED <<sending, tasks>>
    BY <1>6 DEF Stop
  <2>2. ClientTypes'
    BY <1>1, <1>3, <2>1 DEF ClientTypes
  <2>3. \A o \in Processes : /\ pending'[o] \subseteq pending[o]
                              /\ completed'[o] \subseteq completed[o]
    BY <2>1 DEF ClientTypes
  <2> QED
    BY <1>1, <1>2, <2>1, <2>2, <2>3, QuietKeeps
<1> QED
  BY <1>4, <1>5, <1>6

-----------------------------------------------------------------------------
LEMMA ResultsFrame ==
  ASSUME ResultInv, UNCHANGED <<requests, server, work, held, mail, clientVars>>
  PROVE  MailTypes' /\ ClientTypes' /\ Results'
<1> USE DEF ResultInv
<1>1. MailTypes' /\ ClientTypes' /\ Letters' = Letters /\ Known' = Known
  BY DEF MailTypes, ClientTypes, Letters, Known, mail, clientVars
<1> QED
  BY <1>1 DEF Results, Apt, Suits, held, clientVars

LEMMA StepResults == ResultInv /\ [Next]_vars => ResultInv'
<1> SUFFICES ASSUME ResultInv, [Next]_vars PROVE ResultInv'
  OBVIOUS
<1>1. IpcInv'
  BY StepInv DEF ResultInv
<1>2. tasks \in Nat
  BY DEF ResultInv, IpcInv, Types
<1>3. CASE ServerNext
  BY <1>1, <1>3, ServerKeeps DEF ResultInv
<1>4. ASSUME NEW p \in Processes, Start(p)
      PROVE  ResultInv'
  BY <1>1, <1>4, StartKeeps DEF ResultInv
<1>5. ASSUME NEW p \in Processes, Put(p)
      PROVE  ResultInv'
  <2>1. PICK key \in Keys \cup {NoKey}, path \in Paths : Send(p, "PUT", key, path)
    BY <1>5 DEF Put
  <2>2. [id |-> tasks + 1, op |-> "PUT", key |-> key, path |-> path] \in Requests
    BY <1>2 DEF Requests, PutRequests
  <2> QED
    BY <1>1, <2>1, <2>2, SendKeeps DEF ResultInv
<1>6. ASSUME NEW p \in Processes, Get(p)
      PROVE  ResultInv'
  <2>1. PICK key \in Keys \cup Told(p) : Send(p, "GET", key, None)
    BY <1>6 DEF Get
  <2>2. key \in Names
    BY DEF Told, Names
  <2>3. [id |-> tasks + 1, op |-> "GET", key |-> key, path |-> None] \in Requests
    BY <1>2, <2>2 DEF Requests, GetRequests
  <2> QED
    BY <1>1, <2>1, <2>3, SendKeeps DEF ResultInv
<1>7. ASSUME NEW p \in Processes, Register(p) \/ Look(p) \/ TooLate(p) \/ Stop(p)
      PROVE  ResultInv'
  BY <1>1, <1>7, ClientKeeps DEF ResultInv
<1>8. ASSUME NEW p \in Processes, Receive(p)
      PROVE  ResultInv'
  BY <1>1, <1>8, ReceiveKeeps DEF ResultInv
<1>9. ASSUME NEW path \in Paths, NEW content \in Contents, Rewrite(path, content)
      PROVE  ResultInv'
  BY <1>1, <1>9, ResultsFrame DEF ResultInv, Rewrite, serverVars
<1>10. CASE UNCHANGED vars
  BY <1>1, <1>10, ResultsFrame DEF ResultInv, vars, serverVars
<1> QED
  BY <1>3, <1>4, <1>5, <1>6, <1>7, <1>8, <1>9, <1>10 DEF Next

LEMMA ResultInvariant == Spec => []ResultInv
<1>1. Init => ResultInv
  BY InitInv, InitResults DEF ResultInv
<1> QED
  BY <1>1, StepResults, PTL DEF Spec

LEMMA InvResultIsData == ResultInv => ResultIsData
<1> SUFFICES ASSUME ResultInv, NEW p \in Processes, NEW r \in completed[p]
             PROVE  /\ Suits(r.task, r.entry)
                    /\ Data(r.entry) = Cells[r.entry.sum]
  BY DEF ResultIsData, Suits
<1>1. r.entry \in Range(schema) /\ Suits(r.task, r.entry)
  BY DEF ResultInv, Results
<1>2. SchemaIsStored
  BY InvSchemaIsStored DEF ResultInv
<1>3. PICK i \in DOMAIN schema : r.entry = schema[i]
  BY <1>1 DEF Range
<1> QED
  BY <1>1, <1>2, <1>3 DEF SchemaIsStored

(* Whichever process an answer was for, whoever takes it from the shared   *)
(* queue, and whatever the server stores later: a task that is completed   *)
(* has an entry of the key it asked for, and the cells this entry names    *)
(* hold the content of that key for as long as the task is kept.           *)
THEOREM ResultIsDataAlways == Spec => []ResultIsData
BY ResultInvariant, InvResultIsData, PTL

-----------------------------------------------------------------------------
Bounds == /\ Len(requests) <= QueueSize
          /\ server \in {"waiting", "reading", "down", "gone"}
          /\ bound \in BOOLEAN
          /\ beats \in 0 .. ToDisk * ToCloud - 1

LEMMA BeatBound ==
  ASSUME beats \in 0 .. ToDisk * ToCloud - 1, Beat \/ UNCHANGED beats
  PROVE  beats' \in 0 .. ToDisk * ToCloud - 1
<1>1. ToDisk \in Nat \ {0} /\ ToCloud \in Nat \ {0}
  BY ServerAssumption
<1>2. ToDisk * ToCloud \in Nat \ {0}
  BY <1>1, SMT
<1> DEFINE n == ToDisk * ToCloud
<1> HIDE DEF n
<1>3. n \in Nat \ {0}
  BY <1>2 DEF n
<1>4. \A b \in Nat : (b + 1) % n \in 0 .. n - 1
  BY <1>3
<1> QED
  BY <1>3, <1>4 DEF n, Beat

LEMMA TakeBound ==
  ASSUME IpcInv, Bounds, NEW i \in DOMAIN requests, Take(i)
  PROVE  Len(requests') <= QueueSize
<1>1. requests \in Seq(Requests) /\ requests' = RemoveAt(requests, i) /\ QueueSize \in Nat
  BY ServerAssumption DEF IpcInv, Types, Take
<1>2. Len(requests') = Len(requests) - 1 /\ Len(requests) \in Nat
  BY <1>1, RangeRemoveAt, LenProperties
<1> QED
  BY <1>1, <1>2 DEF Bounds

LEMMA InitBounds == Init => Bounds
<1> SUFFICES ASSUME Init PROVE Bounds
  OBVIOUS
<1>1. ToDisk \in Nat \ {0} /\ ToCloud \in Nat \ {0} /\ QueueSize \in Nat
  BY ServerAssumption
<1>2. ToDisk * ToCloud \in Nat \ {0}
  BY <1>1, SMT
<1>3. 0 \in 0 .. ToDisk * ToCloud - 1
  BY <1>2
<1>4. Len(requests) = 0
  BY EmptySeq DEF Init, ServerInit
<1>5. beats = 0 /\ server = "waiting" /\ bound = FALSE
  BY DEF Init, ServerInit
<1>6. Len(requests) <= QueueSize
  BY <1>1, <1>4
<1> QED
  BY <1>3, <1>5, <1>6 DEF Bounds

LEMMA StepBounds == IpcInv /\ Bounds /\ [Next]_vars => Bounds'
<1> SUFFICES ASSUME IpcInv, Bounds, [Next]_vars PROVE Bounds'
  OBVIOUS
<1>1. /\ requests \in Seq(Requests) /\ Len(requests) \in Nat /\ QueueSize \in Nat
  BY LenProperties, ServerAssumption DEF IpcInv, Types
<1>2. CASE ServerNext
  <2>1. ASSUME NEW i \in DOMAIN requests, Take(i),
               server' \in {"waiting", "reading", "down"}, bound' \in BOOLEAN,
               Beat \/ UNCHANGED beats
        PROVE  Bounds'
    BY <2>1, TakeBound, BeatBound DEF Bounds
  <2>2. ASSUME NEW i \in DOMAIN requests,
               \/ RefusePut(i) \/ RefuseLargePut(i) \/ BeginPut(i) \/ Locate(i)
               \/ NotFound(i)
        PROVE  Bounds'
    <3>1. Take(i) /\ bound' \in BOOLEAN
      BY <2>2 DEF RefusePut, RefuseLargePut, BeginPut, Locate, NotFound, Bounds
    <3>2. /\ server' \in {"waiting", "reading", "down"}
          /\ Beat \/ UNCHANGED beats
      BY <2>2, <3>1
      DEF RefusePut, RefuseLargePut, BeginPut, Locate, NotFound, Answer, Take
    <3> QED
      BY <2>1, <3>1, <3>2
  <2>3. CASE Idle \/ ReadChunk \/ Store \/ Mismatch \/ Shutdown
    <3>1. requests' = requests /\ bound' = bound
      BY <2>3 DEF Idle, ReadChunk, Store, StoreAs, Mismatch, Shutdown
    <3>2. /\ server' \in {"waiting", "reading", "down", "gone"}
          /\ Beat \/ UNCHANGED beats
      BY <2>3 DEF Idle, ReadChunk, Store, StoreAs, Mismatch, Shutdown, Answer
    <3> QED
      BY <3>1, <3>2, BeatBound DEF Bounds
  <2> QED
    BY <1>2, <2>2, <2>3 DEF ServerNext, Serve
<1>3. ASSUME NEW p \in Processes, NEW op, NEW key, NEW path, Send(p, op, key, path),
             [id |-> tasks + 1, op |-> op, key |-> key, path |-> path] \in Requests
      PROVE  Bounds'
  <2>1. Len(requests') = Len(requests) + 1 /\ Len(requests) < QueueSize
    BY <1>1, <1>3, AppendProperties DEF Send
  <2> QED
    BY <1>1, <1>3, <2>1 DEF Bounds, Send
<1>4. ASSUME NEW p \in Processes, Put(p) \/ Get(p)
      PROVE  Bounds'
  <2>1. tasks \in Nat
    BY DEF IpcInv, Types
  <2>2. PICK op, key, path :
          /\ Send(p, op, key, path)
          /\ \/ op = "PUT" /\ key \in Keys \cup {NoKey} /\ path \in Paths
             \/ op = "GET" /\ key \in Names /\ path = None
    BY <1>4 DEF Put, Get, Told, Names
  <2>3. [id |-> tasks + 1, op |-> op, key |-> key, path |-> path] \in Requests
    BY <2>1, <2>2 DEF Requests, PutRequests, GetRequests
  <2> QED
    BY <1>3, <2>2, <2>3
<1>5. ASSUME UNCHANGED <<requests, server, bound, beats>>
      PROVE  Bounds'
  BY <1>5 DEF Bounds
<1>6. ASSUME NEW p \in Processes,
             Start(p) \/ Register(p) \/ Look(p) \/ Receive(p) \/ TooLate(p) \/ Stop(p)
      PROVE  Bounds'
  BY <1>5, <1>6 DEF Start, Register, Look, Receive, TooLate, Stop, serverVars
<1>7. ASSUME NEW path \in Paths, NEW content \in Contents, Rewrite(path, content)
      PROVE  Bounds'
  BY <1>5, <1>7 DEF Rewrite, serverVars
<1>8. CASE UNCHANGED vars
  BY <1>5, <1>8 DEF vars, serverVars
<1> QED
  BY <1>2, <1>4, <1>6, <1>7, <1>8 DEF Next

(* No request is lost to a full queue of the server, no queue of a client  *)
(* holds more than MailSize, and handles and names are of queues there are.*)
THEOREM IpcTypeCorrect == Spec => []TypeOK
<1>1. Spec => [](ResultInv /\ Bounds)
  <2>1. ResultInv /\ Bounds /\ [Next]_vars => Bounds'
    BY StepBounds DEF ResultInv
  <2> QED
    BY <2>1, InitBounds, ResultInvariant, PTL DEF Spec
<1>2. ResultInv /\ Bounds => TypeOK
  BY DEF ResultInv, Bounds, IpcInv, Types, Reading, MailTypes, ClientTypes, TypeOK
<1> QED
  BY <1>1, <1>2, PTL

-----------------------------------------------------------------------------
(* Order.  A request leaves the queue only when the server takes it.       *)
LEMMA TakenInTurn ==
  ASSUME IpcInv, [Next]_vars, NEW i \in DOMAIN requests, requests[i] \notin Range(requests')
  PROVE  IsNext(i)
<1>1. requests \in Seq(Requests) /\ requests[i] \in Range(requests)
  BY DEF IpcInv, Types, Range
<1>2. ASSUME NEW j \in DOMAIN requests, Take(j)
      PROVE  IsNext(i)
  <2>1. requests' = RemoveAt(requests, j) /\ IsNext(j)
    BY <1>2 DEF Take
  <2>2. i = j
    BY <1>1, <1>2, <2>1, RangeRemoveAt
  <2> QED
    BY <2>1, <2>2
<1>3. ASSUME NEW p \in Processes, Put(p) \/ Get(p)
      PROVE  requests[i] \in Range(requests')
  <2>1. PICK m : requests' = Append(requests, m)
    BY <1>3 DEF Put, Get, Send
  <2>2. requests' = Append(requests, m) /\ requests \in Seq(Requests \cup {m})
    BY <1>1, <2>1, SeqMonotonic
  <2> QED
    BY <1>1, <2>2, RangeAppend
<1>4. ASSUME NEW p \in Processes,
             Start(p) \/ Register(p) \/ Look(p) \/ Receive(p) \/ TooLate(p) \/ Stop(p)
      PROVE  requests' = requests
  BY <1>4 DEF Start, Register, Look, Receive, TooLate, Stop, serverVars
<1>5. ASSUME NEW path \in Paths, NEW content \in Contents, Rewrite(path, content)
      PROVE  requests' = requests
  BY <1>5 DEF Rewrite, serverVars
<1>6. CASE Shutdown \/ Idle \/ ReadChunk \/ Store \/ Mismatch
  BY <1>1, <1>6 DEF Shutdown, Idle, ReadChunk, Store, StoreAs, Mismatch
<1>7. CASE UNCHANGED vars
  BY <1>1, <1>7 DEF vars, serverVars
<1>8. ASSUME NEW j \in DOMAIN requests,
             RefusePut(j) \/ RefuseLargePut(j) \/ BeginPut(j) \/ Locate(j) \/ NotFound(j)
      PROVE  Take(j)
  BY <1>8 DEF RefusePut, RefuseLargePut, BeginPut, Locate, NotFound
<1> QED
  BY <1>1, <1>2, <1>3, <1>4, <1>5, <1>6, <1>7, <1>8 DEF Next, ServerNext, Serve

(* However many processes send requests, and in whatever order: when a get *)
(* is looked at and its key is not there, no put of this key was before it *)
(* in the queue.                                                           *)
THEOREM ReadsWhatWasPutAlways == Spec => ReadsWhatWasPut
<1> DEFINE InTurn ==
      \A i \in DOMAIN requests :
        requests[i].op = "GET" /\ requests[i].key \notin Stored
        /\ requests[i] \notin Range(requests') =>
          \A j \in 1..(i - 1) : ~ (requests[j].op = "PUT" /\ requests[j].key = requests[i].key)
<1>1. IpcInv /\ [Next]_vars => [InTurn]_<<requests, schema>>
  <2> SUFFICES ASSUME IpcInv, [Next]_vars, NEW i \in DOMAIN requests,
                      requests[i].op = "GET", requests[i] \notin Range(requests'),
                      NEW j \in 1..(i - 1), requests[j].op = "PUT"
               PROVE  FALSE
    OBVIOUS
  <2>1. requests \in Seq(Requests)
    BY DEF IpcInv, Types
  <2>2. DOMAIN requests = 1..Len(requests) /\ Len(requests) \in Nat
    BY <2>1, LenProperties
  <2>3. j \in DOMAIN requests
    BY <2>2
  <2>4. ~ Outranks(requests[j], requests[i])
    BY <2>3, TakenInTurn DEF IsNext
  <2> QED
    BY <2>4 DEF Outranks
<1> QED
  BY <1>1, InitInv, StepInv, PTL DEF ReadsWhatWasPut, Spec

-----------------------------------------------------------------------------
(* What SharedMemory sees, and what it is by the invariants: a step is     *)
(* looked at on the sums that the server recorded, not on the cells.       *)
PromiseKept == [Promise!MemoryNext]_(Promise!memoryVars)

StoredNow == [k \in Stored |-> Data(Entry(k))]
HeldNow   == [p \in Processes |-> {[key |-> Asked(r), value |-> Data(r.entry)] :
                                    r \in completed[p]}]

Shown == [k \in Stored |-> Cells[Entry(k).sum]]
Held  == [p \in Processes |-> {[key |-> Asked(r), value |-> Cells[r.entry.sum]] :
                                r \in completed[p]}]

Faithful == ResultInv /\ SchemaIsStored /\ StoredNow = Shown /\ HeldNow = Held

LEMMA InvFaithful == ResultInv => Faithful
<1> SUFFICES ASSUME ResultInv PROVE Faithful
  OBVIOUS
<1>1. SchemaIsStored /\ ResultIsData
  BY InvSchemaIsStored, InvResultIsData DEF ResultInv
<1>2. StoredNow = Shown
  BY <1>1, EntryIsData DEF StoredNow, Shown
<1>3. ASSUME NEW p \in Processes
      PROVE  {[key |-> Asked(r), value |-> Data(r.entry)] : r \in completed[p]}
             = {[key |-> Asked(r), value |-> Cells[r.entry.sum]] : r \in completed[p]}
  BY <1>1 DEF ResultIsData
<1>4. HeldNow = Held
  BY <1>3 DEF HeldNow, Held
<1> QED
  BY <1>1, <1>2, <1>4 DEF Faithful

(* With its key once in the list, an entry is the one a lookup chooses.    *)
LEMMA OneEntry ==
  ASSUME NEW s \in Seq(Entries),
         \A i, j \in DOMAIN s : i < j => s[i].key # s[j].key,
         NEW e \in Range(s)
  PROVE  (CHOOSE f \in Range(s) : f.key = e.key) = e
<1>1. PICK i \in DOMAIN s : e = s[i]
  BY DEF Range
<1>2. DOMAIN s = 1..Len(s) /\ Len(s) \in Nat
  BY LenProperties
<1>3. ASSUME NEW f \in Range(s), f.key = e.key
      PROVE  f = e
  <2>1. PICK j \in DOMAIN s : f = s[j]
    BY DEF Range
  <2>2. ~ (i < j) /\ ~ (j < i)
    BY <1>1, <1>3, <2>1
  <2>3. i = j
    BY <1>2, <2>2
  <2> QED
    BY <1>1, <2>1, <2>3
<1> QED
  BY <1>3

(* Steps that neither store nor complete nor end.                          *)
LEMMA NothingSeen ==
  ASSUME Faithful, Faithful', schema' = schema, completed' = completed
  PROVE  PromiseKept
<1>1. Shown' = Shown
  BY DEF Shown, Stored, Entry
<1>2. Held' = Held
  BY DEF Held, Asked
<1>3. StoredNow' = StoredNow /\ HeldNow' = HeldNow
  BY <1>1, <1>2 DEF Faithful
<1> QED
  BY <1>3 DEF PromiseKept, Promise!memoryVars, StoredNow, HeldNow

(* A PUT whose file has been read to the end, and is what was hashed.      *)
LEMMA StoreSeen ==
  ASSUME Faithful, Faithful', Store, UNCHANGED clientVars
  PROVE  PromiseKept
<1>. PICK e : e = NewEntry
  OBVIOUS
<1>1. /\ server = "reading" /\ Read /\ work.got = Cells[work.checksum]
      /\ schema' = Append(schema, e) /\ completed' = completed
  BY DEF Store, StoreAs, Read, clientVars
<1>2. e \in Entries
  BY <1>1, NewEntryType DEF Faithful, ResultInv
<1>3. schema \in Seq(Entries) /\ schema' \in Seq(Entries)
  BY DEF Faithful, ResultInv, IpcInv, Types
<1>4. e.key = KeyOf(work.request, work.checksum)
  BY DEF NewEntry
<1>5. e.key \notin Stored
  <2>1. Reading
    BY <1>1 DEF Faithful, ResultInv, IpcInv
  <2> QED
    BY <1>4, <2>1 DEF Reading, Stored
<1>6. Range(schema') = Range(schema) \cup {e}
  BY <1>1, <1>2, <1>3, RangeAppend
<1>7. Stored = {f.key : f \in Range(schema)} /\ Stored' = {f.key : f \in Range(schema')}
  BY DEF Stored, Range
<1>8. Stored' = Stored \cup {e.key}
  BY <1>6, <1>7
<1>9. ASSUME NEW f \in Range(schema')
      PROVE  Entry(f.key)' = f
  <2>1. \A i, j \in DOMAIN schema' : i < j => schema'[i].key # schema'[j].key
    BY DEF Faithful, SchemaIsStored
  <2>2. (CHOOSE g \in Range(schema') : g.key = f.key) = f
    BY <1>3, <2>1, OneEntry
  <2> QED
    BY <2>2 DEF Entry
<1>10. ASSUME NEW f \in Range(schema)
       PROVE  Entry(f.key) = f
  <2>1. \A i, j \in DOMAIN schema : i < j => schema[i].key # schema[j].key
    BY DEF Faithful, SchemaIsStored
  <2>2. (CHOOSE g \in Range(schema) : g.key = f.key) = f
    BY <1>3, <2>1, OneEntry
  <2> QED
    BY <2>2 DEF Entry
<1>11. \A k \in Stored : Entry(k)' = Entry(k)
  BY <1>6, <1>7, <1>9, <1>10
<1>12. Entry(e.key)' = e
  BY <1>6, <1>9
<1>13. Shown' = [j \in Stored \cup {e.key} |-> IF j = e.key THEN Cells[e.sum] ELSE Shown[j]]
  <2>1. Shown' = [j \in Stored' |-> Cells[Entry(j)'.sum]]
    BY DEF Shown
  <2>2. \A j \in Stored : Shown[j] = Cells[Entry(j).sum]
    BY DEF Shown
  <2>3. \A j \in Stored' : Cells[Entry(j)'.sum] = IF j = e.key THEN Cells[e.sum] ELSE Shown[j]
    BY <1>8, <1>11, <1>12, <2>2
  <2> QED
    BY <1>8, <2>1, <2>3
<1>14. Held' = Held
  BY <1>1 DEF Held, Asked
<1>15. /\ StoredNow' = [j \in Stored \cup {e.key} |->
                          IF j = e.key THEN Cells[e.sum] ELSE StoredNow[j]]
       /\ HeldNow' = HeldNow /\ DOMAIN StoredNow = Stored
  BY <1>13, <1>14 DEF Faithful, Shown
<1>16. Promise!Put(e.key, Cells[e.sum])
  BY <1>5, <1>15 DEF Promise!Put, StoredNow, HeldNow
<1>17. e.key \in Names /\ e.sum \in Contents
  BY <1>2 DEF Entries
<1> QED
  BY <1>16, <1>17 DEF PromiseKept, Promise!MemoryNext

(* An answer completes the task that has its id, if the process has it.    *)
LEMMA ReceiveSeen ==
  ASSUME Faithful, Faithful', NEW p \in Processes, Receive(p)
  PROVE  PromiseKept
<1> DEFINE reply == Head(queues[inbox[p]])
           mine  == {t \in pending[p] : reply.status = 0 /\ t.id = reply.id}
<1>. PICK e : e = reply.entry
  OBVIOUS
<1>1. /\ completed' = [completed EXCEPT ![p] =
                         completed[p] \cup {[task |-> t, entry |-> e] : t \in mine}]
      /\ schema' = schema
  BY DEF Receive, held
<1>2. \A t, u \in mine : t = u
  <2>1. mine \subseteq Known
    BY DEF Known
  <2>2. \A t, u \in mine : t.id = u.id
    OBVIOUS
  <2> HIDE DEF mine
  <2> QED
    BY <2>1, <2>2 DEF Faithful, ResultInv, Results
<1> HIDE DEF mine
<1>3. completed = [o \in Processes |-> completed[o]]
  BY DEF Faithful, ResultInv, ClientTypes
<1>4. CASE mine = {}
  <2>1. completed' = completed
    BY <1>1, <1>3, <1>4
  <2> QED
    BY <1>1, <2>1, NothingSeen
<1>5. ASSUME NEW t \in mine
      PROVE  PromiseKept
  <2> DEFINE done == [task |-> t, entry |-> e]
  <2>. PICK k : k = Asked(done)
    OBVIOUS
  <2> DEFINE view == [key |-> k, value |-> Cells[e.sum]]
  <2>1. mine = {t}
    BY <1>2, <1>5
  <2>2. /\ completed'[p] = completed[p] \cup {done}
        /\ \A o \in Processes \ {p} : completed'[o] = completed[o]
    BY <1>1, <1>3, <2>1
  <2>3. done \in completed'[p] /\ done.task = t /\ done.entry = e
    BY <2>2
  <2> HIDE DEF done
  <2>4. e \in Range(schema) /\ Suits(t, e)
    BY <1>1, <2>3 DEF Faithful, ResultInv, Results, Suits
  <2>5. k = e.key
    BY <2>3, <2>4 DEF Asked, Suits
  <2>6. schema \in Seq(Entries)
    BY DEF Faithful, ResultInv, IpcInv, Types
  <2>7. Entry(k) = e
    <3>1. \A i, j \in DOMAIN schema : i < j => schema[i].key # schema[j].key
      BY DEF Faithful, SchemaIsStored
    <3>2. (CHOOSE g \in Range(schema) : g.key = e.key) = e
      BY <2>4, <2>6, <3>1, OneEntry
    <3> QED
      BY <2>5, <3>2 DEF Entry
  <2>8. k \in Stored /\ k \in Names
    <3>1. e.key \in Stored
      BY <2>4 DEF Stored, Range
    <3>2. e \in Entries
      BY <2>4, <2>6, RangeIs
    <3> QED
      BY <2>5, <3>1, <3>2 DEF Entries
  <2>9. Held' = [Held EXCEPT ![p] = Held[p] \cup {view}]
    <3>1. \A o \in Processes :
            /\ Held[o] = {[key |-> Asked(r), value |-> Cells[r.entry.sum]] : r \in completed[o]}
            /\ Held'[o] = {[key |-> Asked(r), value |-> Cells[r.entry.sum]] : r \in completed'[o]}
      BY DEF Held, Asked
    <3>2. view = [key |-> Asked(done), value |-> Cells[done.entry.sum]]
      BY <2>3
    <3> HIDE DEF view
    <3>3. Held'[p] = Held[p] \cup {view}
      BY <2>2, <3>1, <3>2
    <3>4. \A o \in Processes \ {p} : Held'[o] = Held[o]
      BY <2>2, <3>1
    <3>5. /\ Held = [o \in Processes |-> Held[o]]
          /\ Held' = [o \in Processes |-> Held'[o]]
      BY DEF Held
    <3> QED
      BY <3>3, <3>4, <3>5
  <2>10. Shown' = Shown /\ k \in DOMAIN Shown /\ Shown[k] = Cells[e.sum]
    <3>1. Shown' = Shown
      BY <1>1 DEF Shown, Stored, Entry
    <3>2. DOMAIN Shown = Stored /\ Shown[k] = Cells[Entry(k).sum]
      BY <2>8 DEF Shown
    <3> QED
      BY <2>7, <2>8, <3>1, <3>2
  <2>11. /\ StoredNow' = StoredNow /\ k \in DOMAIN StoredNow
         /\ HeldNow' = [HeldNow EXCEPT ![p] = HeldNow[p] \cup
                                         {[key |-> k, value |-> StoredNow[k]]}]
    BY <2>9, <2>10 DEF Faithful
  <2>12. Promise!Get(p, k)
    BY <2>11 DEF Promise!Get, StoredNow, HeldNow
  <2> QED
    BY <2>8, <2>12 DEF PromiseKept, Promise!MemoryNext
<1> QED
  BY <1>4, <1>5

(* A process that ends loses its tasks, unless unlink raises.              *)
LEMMA StopSeen ==
  ASSUME Faithful, Faithful', NEW p \in Processes, Stop(p)
  PROVE  PromiseKept
<1>1. schema' = schema
  BY DEF Stop, held
<1>2. CASE completed' = completed
  BY <1>1, <1>2, NothingSeen
<1>3. CASE completed' = [completed EXCEPT ![p] = {}]
  <2>1. completed = [o \in Processes |-> completed[o]]
    BY DEF Faithful, ResultInv, ClientTypes
  <2>2. completed'[p] = {} /\ \A o \in Processes \ {p} : completed'[o] = completed[o]
    BY <1>3, <2>1
  <2>3. Held' = [Held EXCEPT ![p] = {}]
    BY <2>2 DEF Held, Asked
  <2>4. Shown' = Shown
    BY <1>1 DEF Shown, Stored, Entry
  <2>5. StoredNow' = StoredNow /\ HeldNow' = [HeldNow EXCEPT ![p] = {}]
    BY <2>3, <2>4 DEF Faithful
  <2>6. Promise!Close(p)
    BY <2>5 DEF Promise!Close, StoredNow, HeldNow
  <2> QED
    BY <2>6 DEF PromiseKept, Promise!MemoryNext
<1> QED
  BY <1>2, <1>3 DEF Stop

LEMMA StepSeen == Faithful /\ Faithful' /\ [Next]_vars => PromiseKept
<1> SUFFICES ASSUME Faithful, Faithful', [Next]_vars PROVE PromiseKept
  OBVIOUS
<1>1. CASE ServerNext
  <2>1. UNCHANGED clientVars /\ completed' = completed
    BY <1>1 DEF ServerNext, clientVars
  <2>2. CASE Store
    BY <2>1, <2>2, StoreSeen
  <2>3. CASE ~ Store
    <3>1. schema' = schema
      BY <1>1, <2>3 DEF ServerNext, Serve, RefusePut, RefuseLargePut, BeginPut, Locate,
         NotFound, Idle, ReadChunk, Mismatch, Shutdown, held
    <3> QED
      BY <2>1, <3>1, NothingSeen
  <2> QED
    BY <2>2, <2>3
<1>2. ASSUME NEW p \in Processes, Receive(p)
      PROVE  PromiseKept
  BY <1>2, ReceiveSeen
<1>3. ASSUME NEW p \in Processes, Stop(p)
      PROVE  PromiseKept
  BY <1>3, StopSeen
<1>4. ASSUME NEW p \in Processes,
             Start(p) \/ Put(p) \/ Get(p) \/ Register(p) \/ Look(p) \/ TooLate(p)
      PROVE  PromiseKept
  <2>1. schema' = schema /\ completed' = completed
    BY <1>4 DEF Start, Put, Get, Send, Register, Look, TooLate, serverVars, held
  <2> QED
    BY <2>1, NothingSeen
<1>5. ASSUME NEW path \in Paths, NEW content \in Contents, Rewrite(path, content)
      PROVE  PromiseKept
  BY <1>5, NothingSeen DEF Rewrite, serverVars, held, clientVars
<1>6. CASE UNCHANGED vars
  BY <1>6, NothingSeen DEF vars, serverVars, held, clientVars
<1> QED
  BY <1>1, <1>2, <1>3, <1>4, <1>5, <1>6 DEF Next

LEMMA InitSeen == Init => Promise!MemoryInit
<1> SUFFICES ASSUME Init PROVE Promise!MemoryInit
  OBVIOUS
<1>1. schema = <<>> /\ completed = [p \in Processes |-> {}]
  BY DEF Init, ServerInit
<1>2. Stored = {}
  BY <1>1 DEF Stored
<1>3. HeldNow = [p \in Processes |-> {}]
  BY <1>1 DEF HeldNow
<1>4. StoredNow = [k \in {} |-> {}]
  BY <1>2 DEF StoredNow
<1> QED
  BY <1>3, <1>4 DEF Promise!MemoryInit, StoredNow, HeldNow

(* The server with its clients implements SharedMemory: whatever is sent,  *)
(* refused, lost or taken by another process, and whatever happens to the  *)
(* files meanwhile, a key is taken once and for all, and what a process    *)
(* was handed for a key is what the key names, in the cells themselves.    *)
THEOREM ImplementsSharedMemory == Spec => KeepsMemoryPromise
<1>1. Spec => []Faithful
  BY ResultInvariant, InvFaithful, PTL
<1> QED
  BY <1>1, StepSeen, InitSeen, PTL
  DEF Spec, KeepsMemoryPromise, Promise!MemorySpec, PromiseKept
=============================================================================
