------------------------- MODULE HueConnectionProofs -------------------------
(***************************************************************************)
(* Proofs about HueConnection, for any number of attempts, users, crashes  *)
(* and failing writes: what is stored was verified, comes with its client  *)
(* key and is what a restart will find.  They rest on what DatabaseProofs  *)
(* proves of the actions of Database for any caller that sets a key only   *)
(* to values that are not older than the one it has.                       *)
(***************************************************************************)
EXTENDS HueConnection, DatabaseProofs

\* Contents that hold only what the bridge has created, of which there are n,
\* and a user only when it is one of those that were verified and comes with a
\* client key at least as new.
Sound(d, n, users) ==
    /\ \A k \in DOMAIN d : d[k] <= n
    /\ kStorageKeyUser \in DOMAIN d =>
        /\ d[kStorageKeyUser] \in users
        /\ kStorageKeyClientKey \in DOMAIN d
        /\ d[kStorageKeyUser] <= d[kStorageKeyClientKey]

\* All that is stored, waits to be stored or is in the memory is sound.
AllSound ==
    /\ Sound(memory, created, verified)
    /\ Sound(file.data, created, verified)
    /\ \A i \in DOMAIN queue : Sound(queue[i].data, created, verified)

Holds(k) == k \in DOMAIN memory /\ memory[k] = user

\* What initialize() knows at each of its steps: nothing is written but the
\* credentials that it saves, and the user it works with is the newest, or the
\* one in the memory.
StepKnows ==
    /\ step \notin {"saving key", "saving user"} => queue = <<>>
    /\ step = "verifying" => user = created
    /\ step = "saving key" => user \in verified /\ Holds(kStorageKeyClientKey)
    /\ step \in {"reconnecting", "saving user", "connected"} =>
        Holds(kStorageKeyUser)

\* The inductive invariant, on top of the one of the database.
ConnectionInv ==
    /\ IInv
    /\ TypeOK
    /\ AllSound
    /\ StepKnows

USE HueConnectionAssumption, DatabaseAssumption

-----------------------------------------------------------------------------
\* The data in the memory, the file and the writes that wait are contents.
LEMMA AllContents ==
    ASSUME StoreTypeOK
    PROVE  /\ memory \in Contents /\ file.data \in Contents
           /\ \A i \in DOMAIN queue : queue[i].data \in Contents
BY FileAndQueue DEF StoreTypeOK

\* Sound contents stay sound when users are created and verified.
LEMMA SoundStays ==
    ASSUME NEW d \in Contents, NEW m \in Nat, NEW n \in Nat, m <= n,
           NEW U, NEW V, U \subseteq V, Sound(d, m, U)
    PROVE  Sound(d, n, V)
<1>1. \A k \in DOMAIN d : d[k] \in Nat
  BY ContentsFacts DEF Value
<1> QED
  BY <1>1 DEF Sound

LEMMA NothingSound == ASSUME NEW n, NEW U PROVE Sound(Nothing, n, U)
BY ContentsFacts DEF Sound

\* A new client key is sound with whatever user is kept.
LEMMA PutKeySound ==
    ASSUME NEW d \in Contents, NEW n \in Nat, NEW U, Sound(d, n, U)
    PROVE  Sound(Put(d, kStorageKeyClientKey, n), n, U)
<1> DEFINE e == Put(d, kStorageKeyClientKey, n)
<1>1. /\ DOMAIN e = DOMAIN d \cup {kStorageKeyClientKey}
      /\ e[kStorageKeyClientKey] = n
      /\ \A k \in DOMAIN d \ {kStorageKeyClientKey} : e[k] = d[k]
  BY DEF Put
<1> HIDE DEF e
<1> QED
  BY <1>1 DEF Sound, e

\* A verified user is sound with its own client key.
LEMMA PutUserSound ==
    ASSUME NEW d \in Contents, NEW n \in Nat, NEW U, Sound(d, n, U),
           NEW u \in U \cap Nat, kStorageKeyClientKey \in DOMAIN d,
           d[kStorageKeyClientKey] = u
    PROVE  Sound(Put(d, kStorageKeyUser, u), n, U)
<1> DEFINE e == Put(d, kStorageKeyUser, u)
<1>1. /\ DOMAIN e = DOMAIN d \cup {kStorageKeyUser}
      /\ e[kStorageKeyUser] = u
      /\ \A k \in DOMAIN d \ {kStorageKeyUser} : e[k] = d[k]
  BY DEF Put
<1> HIDE DEF e
<1> QED
  BY <1>1 DEF Sound, e

\* What is counted are natural numbers.
LEMMA Counted ==
    ASSUME TypeOK
    PROVE  created \in Nat /\ user \in Nat /\ created \in Value /\ StoreTypeOK
<1>1. created \in Value /\ user \in Value /\ StoreTypeOK
  BY DEF TypeOK
<1> QED
  BY <1>1 DEF Value

LEMMA CountedNext == TypeOK' => created' \in Nat
<1>1. TypeOK' => created' \in Value
  BY DEF TypeOK
<1> QED
  BY <1>1 DEF Value

-----------------------------------------------------------------------------
\* Steps that leave the database alone keep its invariant, and what is stored
\* as sound as it was.
LEMMA StoreUnchanged ==
    ASSUME ConnectionInv, UNCHANGED store, TypeOK', StepKnows',
           created <= created', verified \subseteq verified'
    PROVE  ConnectionInv'
<1>1. IInv'
  <2>1. StoreTypeOK' /\ NeverGoesBack'
    BY DEF store, ConnectionInv, IInv, StoreTypeOK, NeverGoesBack
  <2>2. InOrder' /\ WritesHoldValue' /\ LastSavesMemory' /\ DownIsEmpty'
    BY DEF store, ConnectionInv, IInv, InOrder, WritesHoldValue,
           LastSavesMemory, DownIsEmpty
  <2> QED
    BY <2>1, <2>2 DEF IInv
<1>2. created \in Nat /\ created' \in Nat
  BY Counted, CountedNext DEF ConnectionInv
<1>3. AllSound
  BY DEF ConnectionInv
<1>4. memory' = memory /\ file' = file /\ queue' = queue
  BY DEF store
<1>5. StoreTypeOK
  BY DEF ConnectionInv, TypeOK
<1>6. AllSound'
  BY <1>2, <1>3, <1>4, <1>5, AllContents, SoundStays DEF AllSound
<1> QED
  BY <1>1, <1>6 DEF ConnectionInv

\* Before the process is first started nothing is stored.
LEMMA InitKeeps == Init => ConnectionInv
<1> SUFFICES ASSUME Init PROVE ConnectionInv
  OBVIOUS
<1>1. InitStore /\ IInv
  BY InvInit DEF Init
<1>2. TypeOK
  BY <1>1 DEF Init, InitStore, IInv, TypeOK, Value
<1>3. AllSound
  BY <1>1, NothingSound DEF InitStore, AllSound
<1>4. StepKnows
  BY <1>1 DEF Init, InitStore, StepKnows
<1> QED
  BY <1>1, <1>2, <1>3, <1>4 DEF ConnectionInv

LEMMA BootKeeps == ASSUME ConnectionInv, Boot PROVE ConnectionInv'
<1>1. IInv' /\ IInv
  BY StartKeeps DEF Boot, ConnectionInv
<1>2. /\ memory' \in {memory, Nothing, file.data}
      /\ file'.data \in {Nothing, file.data}
      /\ UNCHANGED queue
      /\ process # "running"
      /\ process' \in {"creating", "running"}
      /\ step' = IF process' = "running" THEN "discovering" ELSE step
      /\ UNCHANGED <<user, attempt, created, accepted, verified, crashes>>
  BY DEF Boot, Start, FinishCreating, Load
<1>3. TypeOK /\ step = "off" /\ queue = <<>>
  BY <1>1, <1>2 DEF ConnectionInv, TypeOK, IInv, DownIsEmpty
<1>4. TypeOK'
  BY <1>1, <1>2, <1>3 DEF TypeOK, IInv
<1>5. AllSound'
  BY <1>2, <1>3, NothingSound DEF ConnectionInv, AllSound
<1>6. StepKnows'
  BY <1>2, <1>3 DEF StepKnows
<1> QED
  BY <1>1, <1>4, <1>5, <1>6 DEF ConnectionInv

LEMMA EndProcessKeeps == ASSUME ConnectionInv, EndProcess PROVE ConnectionInv'
<1>1. IInv'
  BY CrashKeeps DEF EndProcess, ConnectionInv
<1>2. TypeOK'
  <2>1. 0 \in Value
    BY DEF Value
  <2>2. /\ step' = "off" /\ process' = "down" /\ user' = 0 /\ attempt' = 0
        /\ crashes < MaxCrashes /\ crashes' = crashes + 1
        /\ UNCHANGED <<created, accepted, verified>>
    BY DEF EndProcess, Crash
  <2>3. crashes \in 0 .. MaxCrashes /\ created \in Value
        /\ accepted \subseteq 1 .. created /\ verified \subseteq 1 .. created
    BY DEF ConnectionInv, TypeOK
  <2>4. crashes' \in 0 .. MaxCrashes /\ attempt' \in 0 .. Attempts
    BY <2>2, <2>3
  <2>5. StoreTypeOK'
    BY <1>1 DEF IInv
  <2> QED
    BY <2>1, <2>2, <2>3, <2>4, <2>5 DEF TypeOK
<1>3. AllSound'
  BY NothingSound DEF ConnectionInv, EndProcess, Crash, AllSound
<1>4. StepKnows'
  BY DEF EndProcess, Crash, StepKnows
<1> QED
  BY <1>1, <1>2, <1>3, <1>4 DEF ConnectionInv

LEMMA WriteSettlesKeeps == ASSUME ConnectionInv, WriteSettles PROVE ConnectionInv'
<1>1. IInv'
  BY WriteSucceedsKeeps, WriteFailsKeeps DEF WriteSettles, ConnectionInv
<1>2. /\ UNCHANGED <<process, memory, connection>>
      /\ queue # <<>> /\ queue' = Tail(queue)
      /\ file'.data = file.data \/ file'.data = Head(queue).data
  BY DEF WriteSettles, WriteSucceeds, WriteFails
<1>3. TypeOK'
  BY <1>1, <1>2 DEF ConnectionInv, connection, TypeOK, IInv
<1>4. queue \in Seq(Write)
  BY DEF ConnectionInv, TypeOK, StoreTypeOK
<1>5. /\ Head(queue) = queue[1] /\ 1 \in DOMAIN queue
      /\ \A i \in DOMAIN queue' :
            i + 1 \in DOMAIN queue /\ queue'[i] = queue[i + 1]
  BY <1>2, <1>4, TailFacts
<1>6. AllSound'
  BY <1>2, <1>5 DEF ConnectionInv, AllSound, connection
<1>7. StepKnows'
  BY <1>2 DEF ConnectionInv, StepKnows, Holds, connection
<1> QED
  BY <1>1, <1>3, <1>6, <1>7 DEF ConnectionInv

\* The two calls of set(): what is set is not older than what was there.
LEMMA SetSound ==
    ASSUME ConnectionInv, NEW k \in Keys, NEW v \in Value, Set(k, v),
           k \in DOMAIN memory => memory[k] <= v,
           created' = created, verified \subseteq verified',
           Sound(Put(memory, k, v), created, verified')
    PROVE  /\ IInv' /\ AllSound'
           /\ UNCHANGED process
           /\ memory' = Put(memory, k, v) /\ Put(memory, k, v)[k] = v
           /\ k \in DOMAIN Put(memory, k, v)
<1>1. IInv'
  BY SetKeeps DEF ConnectionInv
<1> DEFINE write == [key |-> k, value |-> v, data |-> memory']
<1>2. /\ memory' = Put(memory, k, v)
      /\ queue' = Append(queue, write)
      /\ UNCHANGED <<process, file>>
  BY DEF Set
<1>3. queue \in Seq(Write) /\ StoreTypeOK /\ created \in Nat
  BY Counted DEF ConnectionInv, StoreTypeOK
<1>4. \A i \in DOMAIN queue' :
        queue'[i] = write \/ (i \in DOMAIN queue /\ queue'[i] = queue[i])
  BY <1>2, <1>3
<1>5. write.data = memory'
  OBVIOUS
<1> HIDE DEF write
<1>6. Sound(file'.data, created', verified')
  BY <1>2, <1>3, AllContents, SoundStays DEF ConnectionInv, AllSound
<1>7. \A i \in DOMAIN queue : Sound(queue[i].data, created', verified')
  BY <1>3, AllContents, SoundStays DEF ConnectionInv, AllSound
<1>8. AllSound'
  BY <1>2, <1>4, <1>5, <1>6, <1>7 DEF AllSound
<1>9. Put(memory, k, v)[k] = v /\ k \in DOMAIN Put(memory, k, v)
  BY DEF Put
<1> QED
  BY <1>1, <1>2, <1>8, <1>9

-----------------------------------------------------------------------------
\* initialize() returns false, from any of its steps but the last ones.
LEMMA GiveUpKeeps ==
    ASSUME ConnectionInv, GiveUp, process = "running", queue = <<>>
    PROVE  ConnectionInv'
<1>1. /\ step' = "unavailable" /\ user' = 0 /\ attempt' = 0
      /\ UNCHANGED <<store, created, accepted, verified, crashes>>
      /\ UNCHANGED <<process, queue>>
  BY DEF GiveUp, store
<1>2. 0 \in Value /\ 0 \in 0 .. Attempts
  BY DEF Value
<1>3. StoreTypeOK'
  BY <1>1 DEF ConnectionInv, TypeOK, store, StoreTypeOK
<1>4. TypeOK'
  BY <1>1, <1>2, <1>3 DEF ConnectionInv, TypeOK
<1>5. StepKnows'
  BY <1>1 DEF StepKnows
<1> QED
  BY <1>1, <1>4, <1>5, StoreUnchanged, Counted DEF ConnectionInv

LEMMA AskForButtonKeeps ==
    ASSUME ConnectionInv, AskForButton, process = "running", queue = <<>>
    PROVE  ConnectionInv'
<1>1. /\ step' = "linking" /\ user' = 0 /\ attempt' = 1
      /\ UNCHANGED <<store, created, accepted, verified, crashes>>
      /\ UNCHANGED <<process, queue>>
  BY DEF AskForButton, store
<1>2. 0 \in Value /\ 1 \in 0 .. Attempts
  BY DEF Value
<1>3. StoreTypeOK'
  BY <1>1 DEF ConnectionInv, TypeOK, store, StoreTypeOK
<1>4. TypeOK'
  BY <1>1, <1>2, <1>3 DEF ConnectionInv, TypeOK
<1>5. StepKnows'
  BY <1>1 DEF StepKnows
<1> QED
  BY <1>1, <1>4, <1>5, StoreUnchanged, Counted DEF ConnectionInv

\* The steps of initialize() that neither create a user nor write.
LEMMA DiscoveryKeeps ==
    ASSUME ConnectionInv, Discovered \/ NotDiscovered \/ DiscoveryThrows
    PROVE  ConnectionInv'
<1>1. step = "discovering" /\ process = "running" /\ queue = <<>>
  BY DEF Discovered, NotDiscovered, DiscoveryThrows, ConnectionInv, TypeOK,
         StepKnows
<1>2. CASE GiveUp \/ AskForButton
  BY <1>1, <1>2, GiveUpKeeps, AskForButtonKeeps
<1>3. ASSUME Has(kStorageKeyUser), step' = "reconnecting",
             user' = memory[kStorageKeyUser],
             UNCHANGED <<store, attempt, created, accepted, verified, crashes>>
      PROVE  ConnectionInv'
  <2>1. UNCHANGED <<process, queue, memory>>
    BY <1>3 DEF store
  <2>2. memory[kStorageKeyUser] \in Value
    BY <1>3, ContentsFacts DEF Has, ConnectionInv, TypeOK, StoreTypeOK
  <2>3. StoreTypeOK'
    BY <1>3 DEF ConnectionInv, TypeOK, store, StoreTypeOK
  <2>4. TypeOK'
    BY <1>1, <1>3, <2>1, <2>2, <2>3 DEF ConnectionInv, TypeOK
  <2>5. StepKnows'
    BY <1>1, <1>3, <2>1 DEF StepKnows, Has, Holds
  <2> QED
    BY <1>3, <2>4, <2>5, StoreUnchanged, Counted DEF ConnectionInv
<1> QED
  BY <1>2, <1>3, EndProcessKeeps DEF Discovered, NotDiscovered, DiscoveryThrows

LEMMA ReconnectionKeeps ==
    ASSUME ConnectionInv, Reconnected \/ NotReconnected
    PROVE  ConnectionInv'
<1>1. step = "reconnecting" /\ process = "running" /\ queue = <<>>
      /\ Holds(kStorageKeyUser)
  BY DEF Reconnected, NotReconnected, ConnectionInv, TypeOK, StepKnows
<1>2. CASE NotReconnected
  BY <1>1, <1>2, AskForButtonKeeps DEF NotReconnected
<1>3. CASE Reconnected
  <2>1. /\ step' = "connected" /\ verified' = verified \cup {user}
        /\ user \in accepted
        /\ UNCHANGED <<store, user, attempt, created, accepted, crashes>>
        /\ UNCHANGED <<process, queue, memory>>
    BY <1>3 DEF Reconnected, store
  <2>2. StoreTypeOK'
    BY <2>1 DEF ConnectionInv, TypeOK, store, StoreTypeOK
  <2>3. TypeOK'
    BY <1>1, <2>1, <2>2 DEF ConnectionInv, TypeOK
  <2>4. StepKnows'
    BY <1>1, <2>1 DEF StepKnows, Holds
  <2> QED
    BY <2>1, <2>3, <2>4, StoreUnchanged, Counted DEF ConnectionInv
<1> QED
  BY <1>2, <1>3

\* A user is created, by its number the newest.
LEMMA LinkingKeeps ==
    ASSUME ConnectionInv,
           NoUnauthenticatedApi \/ ButtonPressed \/ ButtonNotPressed
    PROVE  ConnectionInv'
<1>1. step = "linking" /\ process = "running" /\ queue = <<>>
  BY DEF NoUnauthenticatedApi, ButtonPressed, ButtonNotPressed, ConnectionInv,
         TypeOK, StepKnows
<1>2. CASE GiveUp
  BY <1>1, <1>2, GiveUpKeeps
<1>3. CASE ButtonPressed
  <2>1. /\ step' = "verifying" /\ user' = created + 1 /\ created' = created + 1
        /\ created < MaxValue
        /\ accepted' = accepted \cup {created + 1}
        /\ UNCHANGED <<store, attempt, verified, crashes>>
        /\ UNCHANGED <<process, queue>>
    BY <1>3 DEF ButtonPressed, store
  <2>2. StoreTypeOK'
    BY <2>1 DEF ConnectionInv, TypeOK, store, StoreTypeOK
  <2>3. created \in Nat
    BY Counted DEF ConnectionInv
  <2>4. created + 1 \in Value
    BY <2>1, <2>3 DEF Value
  <2>5. /\ attempt \in 0 .. Attempts /\ crashes \in 0 .. MaxCrashes
        /\ accepted \subseteq 1 .. created /\ verified \subseteq 1 .. created
    BY DEF ConnectionInv, TypeOK
  <2>6. accepted' \subseteq 1 .. created' /\ verified' \subseteq 1 .. created'
    BY <2>1, <2>3, <2>5
  <2>7. TypeOK'
    BY <1>1, <2>1, <2>2, <2>4, <2>5, <2>6 DEF TypeOK
  <2>8. StepKnows'
    BY <1>1, <2>1 DEF StepKnows
  <2> QED
    BY <2>1, <2>3, <2>7, <2>8, StoreUnchanged
<1>4. ASSUME attempt # Attempts, attempt' = attempt + 1,
             UNCHANGED <<store, step, user, created, accepted, verified, crashes>>
      PROVE  ConnectionInv'
  <2>1. UNCHANGED <<process, queue>>
    BY <1>4 DEF store
  <2>2. StoreTypeOK'
    BY <1>4 DEF ConnectionInv, TypeOK, store, StoreTypeOK
  <2>3. attempt' \in 0 .. Attempts
    <3>1. attempt \in 0 .. Attempts
      BY DEF ConnectionInv, TypeOK
    <3> QED
      BY <1>4, <3>1
  <2>4. TypeOK'
    BY <1>4, <2>1, <2>2, <2>3 DEF ConnectionInv, TypeOK
  <2>5. StepKnows'
    BY <1>1, <1>4, <2>1 DEF StepKnows
  <2> QED
    BY <1>4, <2>4, <2>5, StoreUnchanged, Counted DEF ConnectionInv
<1> QED
  BY <1>2, <1>3, <1>4, EndProcessKeeps DEF NoUnauthenticatedApi, ButtonNotPressed

\* The second set() has settled.
LEMMA UserSavedKeeps == ASSUME ConnectionInv, UserSaved PROVE ConnectionInv'
<1>1. /\ step = "saving user" /\ step' = "connected"
      /\ UNCHANGED <<store, user, attempt, created, accepted, verified, crashes>>
      /\ UNCHANGED <<process, queue, memory>>
  BY DEF UserSaved, store
<1>2. StoreTypeOK'
  BY <1>1 DEF ConnectionInv, TypeOK, store, StoreTypeOK
<1>3. TypeOK'
  BY <1>1, <1>2 DEF ConnectionInv, TypeOK
<1>4. StepKnows'
  BY <1>1 DEF UserSaved, ConnectionInv, StepKnows, Holds
<1>5. created <= created' /\ verified \subseteq verified'
  <2>1. created \in Nat
    BY Counted DEF ConnectionInv
  <2>2. created' = created /\ verified' = verified
    BY <1>1
  <2> QED
    BY <2>1, <2>2
<1> QED
  BY <1>1, <1>3, <1>4, <1>5, StoreUnchanged

\* The bridge drops a user, or nothing happens.
LEMMA RevokeKeeps ==
    ASSUME ConnectionInv, (\E u \in accepted : Revoke(u)) \/ UNCHANGED vars
    PROVE  ConnectionInv'
<1>1. /\ accepted' \subseteq accepted
      /\ UNCHANGED <<store, step, user, attempt, created, verified, crashes>>
      /\ UNCHANGED <<process, queue, memory>>
  BY DEF Revoke, store, vars, connection
<1>2. StoreTypeOK'
  BY <1>1 DEF ConnectionInv, TypeOK, store, StoreTypeOK
<1>3. TypeOK'
  BY <1>1, <1>2 DEF ConnectionInv, TypeOK
<1>4. StepKnows'
  BY <1>1 DEF ConnectionInv, StepKnows, Holds
<1> QED
  BY <1>1, <1>3, <1>4, StoreUnchanged, Counted DEF ConnectionInv

LEMMA NotVerifiedKeeps == ASSUME ConnectionInv, NotVerified PROVE ConnectionInv'
<1>1. process = "running" /\ queue = <<>> /\ GiveUp
  BY DEF NotVerified, ConnectionInv, TypeOK, StepKnows
<1> QED
  BY <1>1, GiveUpKeeps

\* The new credentials are valid: the client key is written.  The user is the
\* newest, so that no key in the memory is newer.
LEMMA VerifiedKeeps == ASSUME ConnectionInv, Verified PROVE ConnectionInv'
<1>1. /\ step = "verifying" /\ user \in accepted
      /\ verified' = verified \cup {user}
      /\ Set(kStorageKeyClientKey, user)
      /\ step' = "saving key"
      /\ UNCHANGED <<user, attempt, created, accepted, crashes>>
  BY DEF Verified
<1>2. user = created /\ user \in Value
  <2>1. TypeOK /\ StepKnows
    BY DEF ConnectionInv
  <2>2. user = created
    BY <1>1, <2>1 DEF StepKnows
  <2> QED
    BY <2>1, <2>2, Counted
<1>3. created \in Nat /\ memory \in Contents /\ Sound(memory, created, verified)
  BY Counted, AllContents DEF ConnectionInv, AllSound
<1>4. Sound(memory, created, verified')
  <2>1. verified \subseteq verified'
    BY <1>1
  <2> QED
    BY <1>3, <2>1, SoundStays
<1>5. Sound(Put(memory, kStorageKeyClientKey, user), created, verified')
  BY <1>2, <1>3, <1>4, PutKeySound
<1>6. kStorageKeyClientKey \in DOMAIN memory =>
        memory[kStorageKeyClientKey] <= user
  BY <1>2, <1>3 DEF Sound
<1>7. /\ IInv' /\ AllSound' /\ UNCHANGED process
      /\ kStorageKeyClientKey \in DOMAIN memory'
      /\ memory'[kStorageKeyClientKey] = user
  <2>1. kStorageKeyClientKey \in Keys
    OBVIOUS
  <2>2. created' = created /\ verified \subseteq verified'
    BY <1>1
  <2> QED
    BY <1>1, <1>2, <1>5, <1>6, <2>1, <2>2, SetSound
<1>8. TypeOK'
  <2>1. StoreTypeOK' /\ process = "running"
    BY <1>1, <1>7 DEF IInv, Set
  <2> QED
    BY <1>1, <1>7, <2>1 DEF ConnectionInv, TypeOK
<1>9. StepKnows'
  BY <1>1, <1>7 DEF StepKnows, Holds
<1> QED
  BY <1>7, <1>8, <1>9 DEF ConnectionInv

\* The first set() has settled: the user is written, and its key is there.
LEMMA KeySavedKeeps == ASSUME ConnectionInv, KeySaved PROVE ConnectionInv'
<1>1. /\ step = "saving key"
      /\ Set(kStorageKeyUser, user)
      /\ step' = "saving user"
      /\ UNCHANGED <<user, attempt, created, accepted, verified, crashes>>
  BY DEF KeySaved
<1>2. user \in verified /\ user \in Value /\ user \in Nat
  BY <1>1, Counted DEF ConnectionInv, TypeOK, StepKnows
<1>3. kStorageKeyClientKey \in DOMAIN memory
      /\ memory[kStorageKeyClientKey] = user
  BY <1>1 DEF ConnectionInv, StepKnows, Holds
<1>4. created \in Nat /\ memory \in Contents /\ Sound(memory, created, verified)
  BY Counted, AllContents DEF ConnectionInv, AllSound
<1>5. Sound(Put(memory, kStorageKeyUser, user), created, verified)
  BY <1>2, <1>3, <1>4, PutUserSound
<1>6. kStorageKeyUser \in DOMAIN memory => memory[kStorageKeyUser] <= user
  BY <1>3, <1>4 DEF Sound
<1>7. /\ IInv' /\ AllSound' /\ UNCHANGED process
      /\ kStorageKeyUser \in DOMAIN memory'
      /\ memory'[kStorageKeyUser] = user
  <2>1. kStorageKeyUser \in Keys
    OBVIOUS
  <2>2. created' = created /\ verified' = verified
    BY <1>1
  <2> QED
    BY <1>1, <1>2, <1>5, <1>6, <2>1, <2>2, SetSound
<1>8. TypeOK'
  <2>1. StoreTypeOK' /\ process = "running"
    BY <1>1, <1>7 DEF IInv, Set
  <2> QED
    BY <1>1, <1>7, <2>1 DEF ConnectionInv, TypeOK
<1>9. StepKnows'
  BY <1>1, <1>7 DEF StepKnows, Holds
<1> QED
  BY <1>7, <1>8, <1>9 DEF ConnectionInv

LEMMA ConnectionStep == ConnectionInv /\ [Next]_vars => ConnectionInv'
<1> SUFFICES ASSUME ConnectionInv, [Next]_vars PROVE ConnectionInv'
  OBVIOUS
<1>1. CASE Proceed
  BY <1>1, BootKeeps, DiscoveryKeeps, ReconnectionKeeps, LinkingKeeps,
     VerifiedKeeps, NotVerifiedKeeps, WriteSettlesKeeps, KeySavedKeeps,
     UserSavedKeeps DEF Proceed
<1>2. CASE EndProcess
  BY <1>2, EndProcessKeeps
<1>3. CASE (\E u \in accepted : Revoke(u)) \/ UNCHANGED vars
  BY <1>3, RevokeKeeps
<1> QED
  BY <1>1, <1>2, <1>3 DEF Next

-----------------------------------------------------------------------------
\* The inductive invariant holds throughout.
THEOREM ConnectionInductive == Spec => []ConnectionInv
  BY InitKeeps, ConnectionStep, PTL DEF Spec

\* initialize() and the database keep their types, and initialize() is at one
\* of its steps exactly when the process runs.
THEOREM ConnectionTypeCorrect == Spec => []TypeOK
<1>1. ConnectionInv => TypeOK
  BY DEF ConnectionInv
<1> QED
  BY <1>1, ConnectionInductive, PTL

\* Whenever the process ends and whatever write fails, the user in the file is
\* one that the bridge has accepted.
THEOREM OnlyVerifiedStored == Spec => []StoredUserVerified
<1>1. ConnectionInv => StoredUserVerified
  BY DEF ConnectionInv, AllSound, Sound, StoredUserVerified
<1> QED
  BY <1>1, ConnectionInductive, PTL

\* The user in the file is never without a client key, of its own or of a user
\* that was created later.
THEOREM KeyWithUser == Spec => []StoredUserHasKey
<1>1. ConnectionInv => StoredUserHasKey
  BY DEF ConnectionInv, AllSound, Sound, StoredUserHasKey
<1> QED
  BY <1>1, ConnectionInductive, PTL

\* Once initialize() has connected, a restart finds the user it is connected
\* as, unless the last write has failed.
THEOREM ConnectedSurvives == Spec => []ConnectedIsDurable
<1>1. ConnectionInv => ConnectedIsDurable
  <2> SUFFICES ASSUME ConnectionInv, step = "connected", ~unsaved
               PROVE  /\ kStorageKeyUser \in DOMAIN file.data
                      /\ file.data[kStorageKeyUser] = user
    BY DEF ConnectedIsDurable
  <2>1. Holds(kStorageKeyUser) /\ queue = <<>> /\ process = "running"
    BY DEF ConnectionInv, StepKnows, TypeOK
  <2>2. file.data = memory
    BY <2>1 DEF ConnectionInv, IInv, LastSavesMemory
  <2> QED
    BY <2>1, <2>2 DEF Holds
<1> QED
  BY <1>1, ConnectionInductive, PTL

\* What Database promises any caller it promises initialize(): a value whose
\* set() has returned from a successful write is not lost.
THEOREM CredentialsStaySaved == Spec => []NeverGoesBack
<1>1. ConnectionInv => NeverGoesBack
  BY DEF ConnectionInv, IInv
<1> QED
  BY <1>1, ConnectionInductive, PTL
=============================================================================
