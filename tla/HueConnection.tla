---------------------------- MODULE HueConnection ---------------------------
(***************************************************************************)
(* How the server gets hold of the Philips Hue bridge: the initialization  *)
(* of Connection (src/services/philips_hue/connection.ts) on top of the    *)
(* Database that keeps its credentials, with the process ending and being  *)
(* started again at any moment and users being revoked on the bridge.      *)
(*                                                                         *)
(* Users are numbered in the order the bridge creates them; the client key *)
(* of a user has the same number as the user.                              *)
(***************************************************************************)
EXTENDS Database

CONSTANTS
    kStorageKeyClientKey,
    kStorageKeyUser,
    Attempts,        \* to have the Link button pressed, 5 in createUser
    MaxCrashes       \* bound: how often the process ends

ASSUME HueConnectionAssumption ==
    /\ Keys = {kStorageKeyClientKey, kStorageKeyUser}
    /\ kStorageKeyClientKey # kStorageKeyUser
    /\ Attempts \in Nat \ {0}
    /\ MaxCrashes \in Nat

VARIABLES
    step,            \* what initialize() is awaiting
    user,            \* the user that initialize() is trying, or connected as
    attempt,         \* of pressing the Link button
    created,         \* users the bridge has created so far
    accepted,        \* users the bridge accepts
    verified,        \* users that a connection has been established with
    crashes          \* so far

connection == <<step, user, attempt, created, accepted, verified, crashes>>

vars == <<store, connection>>

-----------------------------------------------------------------------------
Has(k) == k \in DOMAIN memory

Init ==
    /\ InitStore
    /\ step = "off"
    /\ user = 0
    /\ attempt = 0
    /\ created = 0
    /\ accepted = {}
    /\ verified = {}
    /\ crashes = 0

\* The server has read its database and initializes its one service.
Boot ==
    /\ Start \/ FinishCreating
    /\ step' = IF process' = "running" THEN "discovering" ELSE step
    /\ UNCHANGED <<user, attempt, created, accepted, verified, crashes>>

EndProcess ==
    /\ Crash
    /\ crashes < MaxCrashes
    /\ crashes' = crashes + 1
    /\ step' = "off"
    /\ user' = 0
    /\ attempt' = 0
    /\ UNCHANGED <<created, accepted, verified>>

\* initialize() returns false: the service is skipped.
GiveUp ==
    /\ step' = "unavailable"
    /\ user' = 0
    /\ attempt' = 0
    /\ UNCHANGED <<store, created, accepted, verified, crashes>>

\* createUser asks for the Link button to be pressed.
AskForButton ==
    /\ step' = "linking"
    /\ user' = 0
    /\ attempt' = 1
    /\ UNCHANGED <<store, created, accepted, verified, crashes>>

\* A search of discoverBridge throws.  Nothing catches it on its way out of
\* Server.initialize(): the process ends, without having listened.
DiscoveryThrows == step = "discovering" /\ EndProcess

\* discoverBridge has found the bridge: credentials that are known are tried.
Discovered ==
    /\ step = "discovering"
    /\ IF Has(kStorageKeyUser)
       THEN /\ step' = "reconnecting"
            /\ user' = memory[kStorageKeyUser]
            /\ UNCHANGED <<store, attempt, created, accepted, verified, crashes>>
       ELSE AskForButton

\* There is no bridge on the network.
NotDiscovered == step = "discovering" /\ GiveUp

\* establishConnection with the credentials of the database.
Reconnected ==
    /\ step = "reconnecting"
    /\ user \in accepted
    /\ step' = "connected"
    /\ verified' = verified \cup {user}
    /\ UNCHANGED <<store, user, attempt, created, accepted, crashes>>

\* The bridge does not accept the user, or could not be asked.
NotReconnected == step = "reconnecting" /\ AskForButton

\* createUser fails to reach the bridge before its loop, and throws.
NoUnauthenticatedApi == step = "linking" /\ attempt = 1 /\ EndProcess

ButtonPressed ==
    /\ step = "linking"
    /\ created < MaxValue
    /\ step' = "verifying"
    /\ user' = created + 1
    /\ created' = created + 1
    /\ accepted' = accepted \cup {created + 1}
    /\ UNCHANGED <<store, attempt, verified, crashes>>

\* Mutant: the number of attempts is not limited.
AskForever ==
    /\ step = "linking"
    /\ attempt' = 1 + (attempt % Attempts)
    /\ UNCHANGED <<store, step, user, created, accepted, verified, crashes>>

\* Mutant: one attempt too many.
AskOnceMore ==
    /\ step = "linking"
    /\ IF attempt > Attempts
       THEN GiveUp
       ELSE /\ attempt' = attempt + 1
            /\ UNCHANGED <<store, step, user, created, accepted, verified,
                           crashes>>

ButtonNotPressed ==
    /\ step = "linking"
    /\ IF attempt = Attempts
       THEN GiveUp
       ELSE /\ attempt' = attempt + 1
            /\ UNCHANGED <<store, step, user, created, accepted, verified,
                           crashes>>

\* Mutant: the user is saved first.
VerifiedUserFirst ==
    /\ step = "verifying"
    /\ user \in accepted
    /\ verified' = verified \cup {user}
    /\ Set(kStorageKeyUser, user)
    /\ step' = "saving key"
    /\ UNCHANGED <<user, attempt, created, accepted, crashes>>

\* Mutant: the new credentials are saved without trying them.
SavedUnverified ==
    /\ step = "verifying"
    /\ Set(kStorageKeyClientKey, user)
    /\ step' = "saving key"
    /\ UNCHANGED <<user, attempt, created, accepted, verified, crashes>>

\* establishConnection with the new credentials, which are then saved.
Verified ==
    /\ step = "verifying"
    /\ user \in accepted
    /\ verified' = verified \cup {user}
    /\ Set(kStorageKeyClientKey, user)
    /\ step' = "saving key"
    /\ UNCHANGED <<user, attempt, created, accepted, crashes>>

NotVerified == step = "verifying" /\ GiveUp

\* The first set() has returned, with its data saved or not.
KeySaved ==
    /\ step = "saving key"
    /\ queue = <<>>
    /\ Set(kStorageKeyUser, user)
    /\ step' = "saving user"
    /\ UNCHANGED <<user, attempt, created, accepted, verified, crashes>>

\* Mutant: the second set() is not awaited.
UserNotAwaited ==
    /\ step = "saving user"
    /\ step' = "connected"
    /\ UNCHANGED <<store, user, attempt, created, accepted, verified, crashes>>

UserSaved ==
    /\ step = "saving user"
    /\ queue = <<>>
    /\ step' = "connected"
    /\ UNCHANGED <<store, user, attempt, created, accepted, verified, crashes>>

WriteSettles ==
    /\ WriteSucceeds \/ WriteFails
    /\ UNCHANGED connection

\* Somebody removes the user in the app of the bridge.
Revoke(u) ==
    /\ u \in accepted
    /\ accepted' = accepted \ {u}
    /\ UNCHANGED <<store, step, user, attempt, created, verified, crashes>>

\* What the server does: promises settle one way or the other.
Proceed ==
    \/ Boot
    \/ Discovered \/ NotDiscovered \/ DiscoveryThrows
    \/ Reconnected \/ NotReconnected
    \/ NoUnauthenticatedApi \/ ButtonPressed \/ ButtonNotPressed
    \/ Verified \/ NotVerified
    \/ WriteSettles \/ KeySaved \/ UserSaved

Next ==
    \/ Proceed
    \/ EndProcess
    \/ \E u \in accepted : Revoke(u)

Spec == Init /\ [][Next]_vars

\* The process is started again after it has ended (by whoever runs it), and
\* the calls of initialize() settle: they have timeouts.
FairSpec == Spec /\ WF_vars(Proceed)

-----------------------------------------------------------------------------
TypeOK ==
    /\ StoreTypeOK
    /\ step \in {"off", "discovering", "reconnecting", "linking", "verifying",
                 "saving key", "saving user", "connected", "unavailable"}
    /\ step = "off" <=> process # "running"
    /\ user \in Value
    /\ attempt \in 0 .. Attempts
    /\ created \in Value
    /\ accepted \subseteq 1 .. created
    /\ verified \subseteq 1 .. created
    /\ crashes \in 0 .. MaxCrashes

\* Only credentials that the bridge has accepted get into the file, whenever
\* the process ends: initialize() validates them before it saves them.
StoredUserVerified ==
    kStorageKeyUser \in DOMAIN file.data => file.data[kStorageKeyUser] \in verified

\* A user in the file comes with its client key or with that of a later user,
\* also when one of the two writes has failed or has never been made.
StoredUserHasKey ==
    kStorageKeyUser \in DOMAIN file.data =>
        /\ kStorageKeyClientKey \in DOMAIN file.data
        /\ file.data[kStorageKeyUser] <= file.data[kStorageKeyClientKey]

\* The user of an established connection is the one a restart will find, so
\* that nobody has to press the button again; unless it could not be saved.
ConnectedIsDurable ==
    step = "connected" /\ ~unsaved =>
        /\ kStorageKeyUser \in DOMAIN file.data
        /\ file.data[kStorageKeyUser] = user

\* Initialization comes to an end: nothing but people and the file system is
\* waited for, and for people only so long.
InitializationEnds == <>[](step \in {"connected", "unavailable"})
=============================================================================
