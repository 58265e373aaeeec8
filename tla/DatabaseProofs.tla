---------------------------- MODULE DatabaseProofs ----------------------------
(***************************************************************************)
(* What Database promises for every set of keys, every number of values    *)
(* and any number of waiting writes: the file never goes back behind what  *)
(* was saved, and catches up with the memory once nothing is left to write.*)
(***************************************************************************)
EXTENDS Database, SequenceTheorems, TLAPS

-----------------------------------------------------------------------------
\* Contents d has the keys of e, with the same or with later values.
Newer(d, e) == \A k \in DOMAIN e : k \in DOMAIN d /\ e[k] <= d[k]

\* The file, the waiting writes from the first to the last and the memory
\* come in the order in which their contents were made.
InOrder ==
    /\ process = "running" => Newer(memory, file.data)
    /\ \A i \in DOMAIN queue :
        /\ Newer(queue[i].data, file.data)
        /\ Newer(memory, queue[i].data)
    /\ \A i, j \in DOMAIN queue :
        i <= j => Newer(queue[j].data, queue[i].data)

\* Every write holds the value that its set() was called with.
WritesHoldValue ==
    \A i \in DOMAIN queue :
        /\ queue[i].key \in DOMAIN queue[i].data
        /\ queue[i].value <= queue[i].data[queue[i].key]

\* The last of the waiting writes will save the memory.
LastSavesMemory ==
    process = "running" =>
        IF queue = <<>> THEN unsaved \/ file.data = memory
        ELSE queue[Len(queue)].data = memory

\* Without the process there is no memory and nothing waits.
DownIsEmpty ==
    /\ process # "running" => memory = Nothing /\ queue = <<>>
    /\ process = "creating" => file.kind = "empty"

IInv ==
    /\ StoreTypeOK
    /\ NeverGoesBack
    /\ InOrder
    /\ WritesHoldValue
    /\ LastSavesMemory
    /\ DownIsEmpty

-----------------------------------------------------------------------------
\* Contents are functions from some keys to values.
LEMMA ContentsFacts ==
    /\ Nothing \in Contents
    /\ DOMAIN Nothing = {}
    /\ \A d \in Contents :
        /\ DOMAIN d \subseteq Keys
        /\ \A k \in DOMAIN d : d[k] \in Value
<1>1. Nothing \in [{} -> Value] /\ DOMAIN Nothing = {}
  BY DEF Nothing
<1>2. {} \in SUBSET Keys
  OBVIOUS
<1>3. Nothing \in Contents
  BY <1>1, <1>2 DEF Contents
<1>4. ASSUME NEW d \in Contents
      PROVE  DOMAIN d \subseteq Keys /\ \A k \in DOMAIN d : d[k] \in Value
  <2>1. PICK D \in SUBSET Keys : d \in [D -> Value]
    BY DEF Contents
  <2> QED
    BY <2>1
<1> QED
  BY <1>1, <1>3, <1>4

\* Map.set() yields contents.
LEMMA PutInContents ==
    ASSUME NEW d \in Contents, NEW k \in Keys, NEW v \in Value
    PROVE  Put(d, k, v) \in Contents
<1>1. DOMAIN d \subseteq Keys /\ \A x \in DOMAIN d : d[x] \in Value
  BY ContentsFacts
<1>2. /\ Put(d, k, v) \in [DOMAIN d \cup {k} -> Value]
      /\ DOMAIN d \cup {k} \in SUBSET Keys
  BY <1>1 DEF Put
<1> QED
  BY <1>2 DEF Contents

\* Newer is a preorder.
LEMMA NewerOrder ==
    /\ \A d \in Contents : Newer(d, d) /\ Newer(d, Nothing)
    /\ \A d, e, f \in Contents : Newer(d, e) /\ Newer(e, f) => Newer(d, f)
<1>1. ASSUME NEW d \in Contents PROVE Newer(d, d) /\ Newer(d, Nothing)
  BY ContentsFacts, DatabaseAssumption DEF Newer, Value
<1>2. ASSUME NEW d \in Contents, NEW e \in Contents, NEW f \in Contents,
             Newer(d, e), Newer(e, f)
      PROVE  Newer(d, f)
  <2> SUFFICES ASSUME NEW k \in DOMAIN f PROVE k \in DOMAIN d /\ f[k] <= d[k]
    BY DEF Newer
  <2>1. k \in DOMAIN e /\ f[k] <= e[k]
    BY <1>2 DEF Newer
  <2>2. k \in DOMAIN d /\ e[k] <= d[k]
    BY <1>2, <2>1 DEF Newer
  <2>3. f[k] \in Value /\ e[k] \in Value /\ d[k] \in Value
    BY <2>1, <2>2, ContentsFacts
  <2> QED
    BY <2>1, <2>2, <2>3, DatabaseAssumption DEF Value
<1> QED
  BY <1>1, <1>2

\* A value set to a greater one makes newer contents.
LEMMA PutIsNewer ==
    ASSUME NEW d \in Contents, NEW k \in Keys, NEW v \in Value,
           k \in DOMAIN d => d[k] <= v
    PROVE  Newer(Put(d, k, v), d)
<1> SUFFICES ASSUME NEW x \in DOMAIN d
             PROVE  x \in DOMAIN Put(d, k, v) /\ d[x] <= Put(d, k, v)[x]
  BY DEF Newer
<1>1. /\ DOMAIN Put(d, k, v) = DOMAIN d \cup {k}
      /\ Put(d, k, v)[k] = v
      /\ x # k => Put(d, k, v)[x] = d[x]
  BY DEF Put
<1>2. d[x] \in Nat
  BY ContentsFacts DEF Value
<1> QED
  BY <1>1, <1>2

\* The types of what the file and the waiting writes hold.
LEMMA FileAndQueue ==
    ASSUME StoreTypeOK
    PROVE  /\ file.data \in Contents
           /\ file.kind # "json" => file.data = Nothing
           /\ \A i \in DOMAIN queue :
                /\ queue[i] \in Write
                /\ queue[i].key \in Keys
                /\ queue[i].value \in Value
                /\ queue[i].data \in Contents
<1>1. file \in File /\ queue \in Seq(Write)
  BY DEF StoreTypeOK
<1>2. file.data \in Contents /\ (file.kind # "json" => file.data = Nothing)
  BY <1>1, ContentsFacts DEF File
<1>3. \A i \in DOMAIN queue : queue[i] \in Write
  BY <1>1
<1> QED
  BY <1>2, <1>3 DEF Write

\* Taking the first write off the queue leaves the others in their places.
LEMMA TailFacts ==
    ASSUME NEW q \in Seq(Write), q # <<>>
    PROVE  /\ Head(q) = q[1] /\ 1 \in DOMAIN q
           /\ Tail(q) \in Seq(Write)
           /\ \A i \in DOMAIN Tail(q) :
                i + 1 \in DOMAIN q /\ Tail(q)[i] = q[i + 1] /\ i \in Nat
           /\ Tail(q) # <<>> => Len(q) \in DOMAIN q
                                /\ Tail(q)[Len(Tail(q))] = q[Len(q)]
           /\ Tail(q) = <<>> => Len(q) = 1
<1>1. Len(q) \in Nat \ {0} /\ DOMAIN q = 1 .. Len(q)
  OBVIOUS
<1>2. /\ Tail(q) \in Seq(Write)
      /\ Len(Tail(q)) = Len(q) - 1
      /\ \A i \in 1 .. Len(q) - 1 : Tail(q)[i] = q[i + 1]
  BY <1>1, HeadTailProperties
<1>3. DOMAIN Tail(q) = 1 .. Len(q) - 1
  BY <1>2
<1>4. \A i \in DOMAIN Tail(q) :
        i + 1 \in DOMAIN q /\ Tail(q)[i] = q[i + 1] /\ i \in Nat
  BY <1>1, <1>2, <1>3
<1>5. Tail(q) # <<>> => /\ Len(q) \in DOMAIN q
                        /\ Tail(q)[Len(Tail(q))] = q[Len(q)]
  <2> SUFFICES ASSUME Tail(q) # <<>>
               PROVE  Len(q) \in DOMAIN q /\ Tail(q)[Len(q) - 1] = q[Len(q)]
    BY <1>2
  <2>1. Len(q) - 1 \in 1 .. Len(q) - 1
    BY <1>1, <1>2
  <2> QED
    BY <1>1, <1>2, <2>1
<1>6. Tail(q) = <<>> => Len(q) = 1
  <2>1. Tail(q) = <<>> => Len(Tail(q)) = 0
    BY <1>2, EmptySeq
  <2> QED
    BY <1>1, <1>2, <2>1
<1> QED
  BY <1>1, <1>2, <1>4, <1>5, <1>6

-----------------------------------------------------------------------------
LEMMA InvInit == InitStore => IInv
<1> SUFFICES ASSUME InitStore PROVE IInv
  OBVIOUS
<1>1. file.data = Nothing /\ file \in File /\ process = "down"
      /\ durable = Nothing /\ memory = Nothing /\ queue = <<>>
  BY DEF InitStore, File
<1>2. StoreTypeOK
  <2>1. memory \in Contents /\ durable \in Contents /\ queue \in Seq(Write)
    BY <1>1, ContentsFacts
  <2> QED
    BY <1>1, <2>1 DEF InitStore, StoreTypeOK
<1>3. NeverGoesBack
  BY <1>1, ContentsFacts DEF NeverGoesBack
<1>4. InOrder /\ WritesHoldValue /\ LastSavesMemory /\ DownIsEmpty
  BY <1>1 DEF InOrder, WritesHoldValue, LastSavesMemory, DownIsEmpty
<1> QED
  BY <1>2, <1>3, <1>4 DEF IInv

\* The constructor: what is loaded is what the file holds.
LEMMA StartKeeps ==
    ASSUME IInv, Start \/ FinishCreating
    PROVE  IInv'
<1> USE DEF IInv
<1>1. /\ file' \in File /\ file'.data = file.data
      /\ queue' = <<>>
      /\ UNCHANGED <<unsaved, durable>>
      /\ \/ /\ process' = "creating" /\ memory' = Nothing
            /\ file'.kind = "empty"
         \/ process' = "running" /\ memory' = file.data
  BY FileAndQueue, ContentsFacts
     DEF Start, FinishCreating, Load, StoreTypeOK, DownIsEmpty, File
<1>2. StoreTypeOK'
  BY <1>1, FileAndQueue, ContentsFacts DEF StoreTypeOK
<1>3. NeverGoesBack'
  BY <1>1 DEF NeverGoesBack
<1>4. InOrder'
  BY <1>1, FileAndQueue, NewerOrder DEF InOrder
<1>5. WritesHoldValue' /\ LastSavesMemory' /\ DownIsEmpty'
  BY <1>1 DEF WritesHoldValue, LastSavesMemory, DownIsEmpty
<1> QED
  BY <1>2, <1>3, <1>4, <1>5

LEMMA CrashKeeps ==
    ASSUME IInv, Crash
    PROVE  IInv'
<1> USE DEF IInv, Crash
<1>1. StoreTypeOK'
  <2>1. memory' \in Contents /\ queue' \in Seq(Write)
    BY ContentsFacts
  <2> QED
    BY <2>1 DEF StoreTypeOK
<1>2. NeverGoesBack'
  BY DEF NeverGoesBack
<1>3. InOrder' /\ WritesHoldValue' /\ LastSavesMemory' /\ DownIsEmpty'
  BY DEF InOrder, WritesHoldValue, LastSavesMemory, DownIsEmpty
<1> QED
  BY <1>1, <1>2, <1>3

\* set() with a value that is not older than the one in the memory.
LEMMA SetKeeps ==
    ASSUME IInv, NEW k \in Keys, NEW v \in Value, Set(k, v),
           k \in DOMAIN memory => memory[k] <= v
    PROVE  IInv'
<1> USE DEF IInv
<1> DEFINE write == [key |-> k, value |-> v, data |-> memory']
<1>1. /\ memory \in Contents /\ queue \in Seq(Write)
      /\ process = "running" /\ process' = "running"
      /\ memory' = Put(memory, k, v)
      /\ queue' = Append(queue, write)
      /\ UNCHANGED <<file, unsaved, durable>>
  BY DEF Set, StoreTypeOK
<1>2. memory' \in Contents /\ k \in DOMAIN memory' /\ memory'[k] = v
  <2>1. Put(memory, k, v) \in Contents
    BY <1>1, PutInContents
  <2>2. k \in DOMAIN Put(memory, k, v) /\ Put(memory, k, v)[k] = v
    BY DEF Put
  <2> QED
    BY <1>1, <2>1, <2>2
<1>3. Newer(memory', memory)
  BY <1>1, PutIsNewer
<1>4. write \in Write
  BY <1>2 DEF Write
<1>5. /\ queue' \in Seq(Write)
      /\ Len(queue') = Len(queue) + 1 /\ Len(queue) \in Nat
      /\ DOMAIN queue = 1 .. Len(queue)
      /\ DOMAIN queue' = 1 .. Len(queue) + 1
      /\ \A i \in DOMAIN queue : queue'[i] = queue[i]
      /\ queue'[Len(queue) + 1] = write
  BY <1>1, <1>4
<1> HIDE DEF write
<1>6. write.key = k /\ write.value = v /\ write.data = memory'
  BY DEF write
<1>7. StoreTypeOK'
  BY <1>1, <1>2, <1>5 DEF StoreTypeOK
<1>8. NeverGoesBack'
  BY <1>1 DEF NeverGoesBack
<1>9. Newer(memory', file'.data)
  BY <1>1, <1>2, <1>3, FileAndQueue, NewerOrder DEF InOrder
<1>10. \A i \in DOMAIN queue : Newer(memory', queue[i].data)
  BY <1>1, <1>2, <1>3, FileAndQueue, NewerOrder DEF InOrder
<1>11. InOrder'
  <2>1. ASSUME NEW i \in DOMAIN queue'
        PROVE  Newer(queue'[i].data, file'.data) /\ Newer(memory', queue'[i].data)
    <3>1. CASE i \in DOMAIN queue
      BY <1>1, <1>5, <1>10, <3>1 DEF InOrder
    <3>2. CASE i = Len(queue) + 1
      BY <1>2, <1>5, <1>6, <1>9, <3>2, NewerOrder
    <3> QED
      BY <1>5, <3>1, <3>2
  <2>2. ASSUME NEW i \in DOMAIN queue', NEW j \in DOMAIN queue', i <= j
        PROVE  Newer(queue'[j].data, queue'[i].data)
    <3>1. CASE j \in DOMAIN queue
      <4>1. i \in DOMAIN queue
        BY <1>5, <2>2, <3>1
      <4> QED
        BY <1>5, <2>2, <3>1, <4>1 DEF InOrder
    <3>2. CASE j = Len(queue) + 1
      BY <1>5, <1>6, <2>1, <3>2
    <3> QED
      BY <1>5, <3>1, <3>2
  <2> QED
    BY <1>9, <2>1, <2>2 DEF InOrder
<1>12. WritesHoldValue'
  <2> SUFFICES ASSUME NEW i \in DOMAIN queue'
               PROVE  /\ queue'[i].key \in DOMAIN queue'[i].data
                      /\ queue'[i].value <= queue'[i].data[queue'[i].key]
    BY DEF WritesHoldValue
  <2>1. CASE i \in DOMAIN queue
    BY <1>5, <2>1 DEF WritesHoldValue
  <2>2. CASE i = Len(queue) + 1
    BY <1>2, <1>5, <1>6, <2>2 DEF Value
  <2> QED
    BY <1>5, <2>1, <2>2
<1>13. LastSavesMemory' /\ DownIsEmpty'
  BY <1>1, <1>5, <1>6 DEF LastSavesMemory, DownIsEmpty
<1> QED
  BY <1>7, <1>8, <1>11, <1>12, <1>13

\* What the rest of the queue is like once its first write has settled.
LEMMA QueueShrinks ==
    ASSUME IInv, process = "running", queue # <<>>, queue' = Tail(queue),
           UNCHANGED <<process, memory>>,
           file'.data = file.data \/ file'.data = Head(queue).data,
           unsaved' \/ file'.data = Head(queue).data
    PROVE  InOrder' /\ WritesHoldValue' /\ LastSavesMemory' /\ DownIsEmpty'
<1> USE DEF IInv
<1>1. /\ queue[1] = Head(queue) /\ 1 \in DOMAIN queue
      /\ \A i \in DOMAIN queue' :
            i + 1 \in DOMAIN queue /\ queue'[i] = queue[i + 1] /\ i \in Nat
      /\ queue' # <<>> => Len(queue) \in DOMAIN queue
                          /\ queue'[Len(queue')] = queue[Len(queue)]
      /\ queue' = <<>> => Len(queue) = 1
  BY TailFacts DEF StoreTypeOK
<1>2. \A i \in DOMAIN queue' :
        /\ Newer(queue'[i].data, file'.data)
        /\ Newer(memory', queue'[i].data)
  BY <1>1 DEF InOrder
<1>3. Newer(memory', file'.data)
  BY <1>1 DEF InOrder
<1>4. \A i, j \in DOMAIN queue' :
        i <= j => Newer(queue'[j].data, queue'[i].data)
  BY <1>1 DEF InOrder
<1>5. InOrder'
  BY <1>2, <1>3, <1>4 DEF InOrder
<1>6. WritesHoldValue'
  BY <1>1 DEF WritesHoldValue
<1>7. LastSavesMemory'
  BY <1>1 DEF LastSavesMemory
<1>8. DownIsEmpty'
  BY DEF DownIsEmpty
<1> QED
  BY <1>5, <1>6, <1>7, <1>8

LEMMA WriteSucceedsKeeps ==
    ASSUME IInv, WriteSucceeds
    PROVE  IInv'
<1> USE DEF IInv
<1> DEFINE write == Head(queue)
<1>1. /\ write = queue[1] /\ 1 \in DOMAIN queue
      /\ Tail(queue) \in Seq(Write)
  BY TailFacts DEF StoreTypeOK, WriteSucceeds
<1>2. /\ write.key \in Keys /\ write.value \in Value
      /\ write.data \in Contents
  BY <1>1, FileAndQueue
<1>3. /\ write.key \in DOMAIN write.data
      /\ write.value <= write.data[write.key]
      /\ Newer(write.data, file.data)
  BY <1>1 DEF WritesHoldValue, InOrder
<1>4. /\ file' = [kind |-> "json", data |-> write.data]
      /\ durable' = Put(durable, write.key, write.value)
      /\ queue' = Tail(queue)
      /\ unsaved' = FALSE
      /\ process = "running" /\ queue # <<>>
      /\ UNCHANGED <<process, memory>>
  BY DEF WriteSucceeds
<1>5. durable \in Contents
  BY DEF StoreTypeOK
<1> HIDE DEF write
<1>6. file' \in File /\ file'.data = write.data
  BY <1>2, <1>4 DEF File
<1>7. durable' \in Contents
  BY <1>2, <1>4, <1>5, PutInContents
<1>8. StoreTypeOK'
  BY <1>1, <1>4, <1>6, <1>7 DEF StoreTypeOK
<1>9. NeverGoesBack'
  <2> SUFFICES ASSUME NEW k \in DOMAIN durable'
               PROVE  k \in DOMAIN write.data /\ durable'[k] <= write.data[k]
    BY <1>6 DEF NeverGoesBack
  <2>1. CASE k = write.key
    <3>1. durable'[k] = write.value
      BY <1>4, <2>1 DEF Put
    <3> QED
      BY <1>3, <2>1, <3>1
  <2>2. CASE k # write.key
    <3>1. k \in DOMAIN durable /\ durable'[k] = durable[k]
      BY <1>4, <2>2 DEF Put
    <3>2. k \in DOMAIN file.data /\ durable[k] <= file.data[k]
      BY <3>1 DEF NeverGoesBack
    <3>3. k \in DOMAIN write.data /\ file.data[k] <= write.data[k]
      BY <1>3, <3>2 DEF Newer
    <3>4. durable[k] \in Nat /\ file.data[k] \in Nat /\ write.data[k] \in Nat
      BY <1>2, <1>5, <3>1, <3>2, <3>3, FileAndQueue, ContentsFacts DEF Value
    <3> QED
      BY <3>1, <3>2, <3>3, <3>4
  <2> QED
    BY <2>1, <2>2
<1>10. InOrder' /\ WritesHoldValue' /\ LastSavesMemory' /\ DownIsEmpty'
  BY <1>4, <1>6, QueueShrinks DEF write
<1> QED
  BY <1>8, <1>9, <1>10

LEMMA WriteFailsKeeps ==
    ASSUME IInv, WriteFails
    PROVE  IInv'
<1> USE DEF IInv
<1>1. /\ queue' = Tail(queue) /\ queue # <<>> /\ process = "running"
      /\ unsaved' = TRUE
      /\ UNCHANGED <<process, memory, file, durable>>
  BY DEF WriteFails
<1>2. Tail(queue) \in Seq(Write)
  BY <1>1, TailFacts DEF StoreTypeOK
<1>3. StoreTypeOK'
  BY <1>1, <1>2 DEF StoreTypeOK
<1>4. NeverGoesBack'
  BY <1>1 DEF NeverGoesBack
<1>5. InOrder' /\ WritesHoldValue' /\ LastSavesMemory' /\ DownIsEmpty'
  BY <1>1, QueueShrinks
<1> QED
  BY <1>3, <1>4, <1>5

\* delete() never gets as far as the map.
LEMMA DeleteKeeps ==
    ASSUME IInv, NEW k \in Keys, Delete(k)
    PROVE  IInv'
<1> USE DEF IInv
<1>1. UNCHANGED <<process, memory, file, queue, unsaved, durable>>
  BY DEF Delete, HasOwnProperty
<1>2. StoreTypeOK' /\ NeverGoesBack'
  BY <1>1 DEF StoreTypeOK, NeverGoesBack
<1>3. InOrder' /\ WritesHoldValue' /\ LastSavesMemory' /\ DownIsEmpty'
  BY <1>1 DEF InOrder, WritesHoldValue, LastSavesMemory, DownIsEmpty
<1> QED
  BY <1>2, <1>3

LEMMA InvStep == IInv /\ [DatabaseNext]_store => IInv'
<1> SUFFICES ASSUME IInv, [DatabaseNext]_store PROVE IInv'
  OBVIOUS
<1>1. CASE Start \/ FinishCreating
  BY <1>1, StartKeeps
<1>2. CASE SetAny
  <2>1. PICK k \in Keys, v \in Value :
            (k \in DOMAIN memory => memory[k] < v) /\ Set(k, v)
    BY <1>2 DEF SetAny
  <2>2. k \in DOMAIN memory => memory[k] <= v
    BY <2>1, ContentsFacts DEF IInv, StoreTypeOK, Value
  <2> QED
    BY <2>1, <2>2, SetKeeps
<1>3. CASE UNCHANGED store
  <2>1. StoreTypeOK' /\ NeverGoesBack'
    BY <1>3 DEF store, IInv, StoreTypeOK, NeverGoesBack
  <2>2. InOrder' /\ WritesHoldValue' /\ LastSavesMemory' /\ DownIsEmpty'
    BY <1>3 DEF store, IInv, InOrder, WritesHoldValue, LastSavesMemory,
                DownIsEmpty
  <2> QED
    BY <2>1, <2>2 DEF IInv
<1> QED
  BY <1>1, <1>2, <1>3, CrashKeeps, DeleteKeeps, WriteSucceedsKeeps,
     WriteFailsKeeps DEF DatabaseNext

THEOREM Inductive == DatabaseSpec => []IInv
  BY InvInit, InvStep, PTL DEF DatabaseSpec

\* The map, the file and the waiting writes keep their types: a file that is
\* read back is empty or holds what was saved.
THEOREM TypeCorrect == DatabaseSpec => []StoreTypeOK
<1>1. IInv => StoreTypeOK
  BY DEF IInv
<1> QED
  BY <1>1, Inductive, PTL

\* The file never goes back behind a value whose set() has returned from a
\* successful write, for any number of overlapping sets, failures and crashes.
THEOREM SavedStaysSaved == DatabaseSpec => []NeverGoesBack
<1>1. IInv => NeverGoesBack
  BY DEF IInv
<1> QED
  BY <1>1, Inductive, PTL

\* Once nothing is left to write, the file holds what the memory holds, unless
\* the last write has failed.
THEOREM FileFollowsMemory == DatabaseSpec => []FileCatchesUp
<1>1. IInv => FileCatchesUp
  BY DEF IInv, LastSavesMemory, FileCatchesUp
<1> QED
  BY <1>1, Inductive, PTL
=============================================================================
