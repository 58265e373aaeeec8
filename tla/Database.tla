------------------------------ MODULE Database ------------------------------
(***************************************************************************)
(* The server's key/value store (src/base/database.ts): a map in memory,   *)
(* saved as a whole to a JSON file after every set().  Saving goes through *)
(* write-file-atomic, which writes a temporary file, renames it and lets   *)
(* the writes to one file wait for each other.  The process can end at any *)
(* moment and be started again.                                            *)
(*                                                                         *)
(* A module that uses the database adds its own variables and drives these *)
(* actions; DatabaseSpec is the database with a caller that may set and    *)
(* delete any key at any time.                                             *)
(***************************************************************************)
EXTENDS Naturals, Sequences, FiniteSets

CONSTANTS
    Keys,            \* of the database
    MaxValue,        \* bound: values are numbered in the order they are set
    MaxQueue         \* bound: writes waiting for the file

ASSUME DatabaseAssumption == MaxValue \in Nat /\ MaxQueue \in Nat

VARIABLES
    process,         \* whether the server runs
    memory,          \* Database.database
    file,            \* the JSON file
    queue,           \* the calls of writeFileAtomic that have not settled
    unsaved,         \* the last write has failed
    durable          \* durable[k]: what k was set to when set() last
                     \* returned after its write had succeeded

store == <<process, memory, file, queue, unsaved, durable>>

-----------------------------------------------------------------------------
Value == 0 .. MaxValue

Contents == UNION {[D -> Value] : D \in SUBSET Keys}

Nothing == [k \in {} |-> 0]

\* The file does not exist, has been truncated but not written, or is valid.
File == [kind : {"missing", "empty"}, data : {Nothing}]
            \cup [kind : {"json"}, data : Contents]

\* A write, with the set() that waits for it.
Write == [key : Keys, value : Value, data : Contents]

\* Function f with v at k, as Map.set() does.
Put(f, k, v) == [x \in DOMAIN f \cup {k} |-> IF x = k THEN v ELSE f[x]]

InitStore ==
    /\ process = "down"
    /\ memory = Nothing
    /\ file = [kind |-> "missing", data |-> Nothing]
    /\ queue = <<>>
    /\ unsaved = FALSE
    /\ durable = Nothing

\* loadDatabaseSync: a file that cannot be parsed counts as an empty one.
Load(data) ==
    /\ process' = "running"
    /\ memory' = data

\* The constructor.  A missing file is created first, by writeFileSync, which
\* truncates the file before it writes to it.
Start ==
    /\ process = "down"
    /\ IF file.kind = "missing"
       THEN /\ file' = [kind |-> "empty", data |-> Nothing]
            /\ process' = "creating"
            /\ UNCHANGED memory
       ELSE /\ Load(file.data)
            /\ UNCHANGED file
    /\ UNCHANGED <<queue, unsaved, durable>>

FinishCreating ==
    /\ process = "creating"
    /\ file' = [kind |-> "json", data |-> Nothing]
    /\ Load(Nothing)
    /\ UNCHANGED <<queue, unsaved, durable>>

Crash ==
    /\ process # "down"
    /\ process' = "down"
    /\ memory' = Nothing
    /\ queue' = <<>>
    /\ unsaved' = FALSE
    /\ UNCHANGED <<file, durable>>

\* Mutant: the data to be saved is collected before the map is changed.
SetSavesFirst(k, v) ==
    /\ process = "running"
    /\ Len(queue) < MaxQueue
    /\ memory' = Put(memory, k, v)
    /\ queue' = Append(queue, [key |-> k, value |-> v, data |-> memory])
    /\ UNCHANGED <<process, file, unsaved, durable>>

\* set(), up to the write it awaits: saveDatabase collects the data at once.
Set(k, v) ==
    /\ process = "running"
    /\ Len(queue) < MaxQueue
    /\ memory' = Put(memory, k, v)
    /\ queue' = Append(queue, [key |-> k, value |-> v, data |-> memory'])
    /\ UNCHANGED <<process, file, unsaved, durable>>

\* The entries of a Map are not its own properties.
HasOwnProperty(k) == FALSE

\* delete(), up to the write it would await; as it is, it returns at once.
Delete(k) ==
    /\ process = "running"
    /\ HasOwnProperty(k) => Len(queue) < MaxQueue
    /\ IF ~HasOwnProperty(k)
       THEN UNCHANGED <<memory, queue>>
       ELSE /\ memory' = [x \in DOMAIN memory \ {k} |-> memory[x]]
            /\ queue' = Append(queue, [key |-> k, value |-> 0, data |-> memory'])
    /\ UNCHANGED <<process, file, unsaved, durable>>

\* Mutant: the writes to one file do not wait for each other.
WriteInAnyOrder ==
    /\ process = "running"
    /\ \E i \in DOMAIN queue :
        /\ file' = [kind |-> "json", data |-> queue[i].data]
        /\ durable' = Put(durable, queue[i].key, queue[i].value)
        /\ queue' = [j \in 1 .. Len(queue) - 1 |->
                        IF j < i THEN queue[j] ELSE queue[j + 1]]
    /\ unsaved' = FALSE
    /\ UNCHANGED <<process, memory>>

\* Mutant: the data is written into a file that has been truncated, which
\* stays invalid.
WriteInPlace ==
    /\ process = "running"
    /\ queue # <<>>
    /\ file' = [file EXCEPT !.data = Head(queue).data]
    /\ durable' = Put(durable, Head(queue).key, Head(queue).value)
    /\ queue' = Tail(queue)
    /\ unsaved' = FALSE
    /\ UNCHANGED <<process, memory>>

\* The temporary file has been renamed, and set() returns.
WriteSucceeds ==
    /\ process = "running"
    /\ queue # <<>>
    /\ file' = [kind |-> "json", data |-> Head(queue).data]
    /\ durable' = Put(durable, Head(queue).key, Head(queue).value)
    /\ queue' = Tail(queue)
    /\ unsaved' = FALSE
    /\ UNCHANGED <<process, memory>>

\* saveDatabase logs the exception, and set() returns all the same.
WriteFails ==
    /\ process = "running"
    /\ queue # <<>>
    /\ queue' = Tail(queue)
    /\ unsaved' = TRUE
    /\ UNCHANGED <<process, memory, file, durable>>

-----------------------------------------------------------------------------
\* The values of a key are numbered in the order in which they are set.
SetAny ==
    \E k \in Keys, v \in Value :
        /\ k \in DOMAIN memory => memory[k] < v
        /\ Set(k, v)

DatabaseNext ==
    \/ Start \/ FinishCreating \/ Crash
    \/ SetAny
    \/ \E k \in Keys : Delete(k)
    \/ WriteSucceeds \/ WriteFails

DatabaseSpec == InitStore /\ [][DatabaseNext]_store

-----------------------------------------------------------------------------
StoreTypeOK ==
    /\ process \in {"down", "creating", "running"}
    /\ memory \in Contents
    /\ file \in File
    /\ queue \in Seq(Write)
    /\ unsaved \in BOOLEAN
    /\ durable \in Contents

\* What was saved stays saved: the file never goes back behind a value whose
\* set() has returned from a successful write, in whatever order sets, writes
\* and failures come and whenever the process ends.
NeverGoesBack ==
    \A k \in DOMAIN durable :
        k \in DOMAIN file.data /\ durable[k] <= file.data[k]

\* With nothing left to write the file agrees with the memory, unless the
\* last write has failed: the next one makes up for all that have failed.
FileCatchesUp ==
    process = "running" /\ queue = <<>> /\ ~unsaved => file.data = memory
=============================================================================
