--------------------------- MODULE ControllerProofs --------------------------
(***************************************************************************)
(* Proofs about Controller, for any rooms, environments and bounds: what   *)
(* is pressed is pressed online, the panel ends up with its own room and,  *)
(* as long as there are rooms, with something to press, and elements send  *)
(* one command at a time, however calls of displayConfiguration overlap    *)
(* and whenever connections are lost.                                      *)
(***************************************************************************)
EXTENDS Controller, FiniteSetTheorems, TLAPS

\* Requests are sent in the order of their numbers.
SentInOrder ==
    \A m, n \in MessageIds :
        m <= n /\ outcome[n] # "unsent" => outcome[m] # "unsent"

AsksServices(n) ==
    n \in DOMAIN inFlight /\ inFlight[n].command = "environment-services"

AsksRooms(n) ==
    n \in DOMAIN inFlight /\ inFlight[n].command = "environment-rooms"

\* The dialog that tells that there is no connection is closed only while
\* there is one, and is as index.html has it until the first response: nothing
\* else has been shown or asked for by then.  It is closed whenever services
\* are or will be asked for.
DialogTells ==
    /\ notConnected = "closed" => online
    /\ notConnected = "shown" =>
        /\ ~interface /\ ~selectRoom.open /\ DOMAIN container = {}
        /\ next # "services"
        /\ \A n \in DOMAIN inFlight : AsksRooms(n)
    /\ online /\ (next = "services" \/ \E n \in DOMAIN inFlight : AsksServices(n)) =>
        notConnected = "closed"

\* Services are only asked for when there is a room.
RoomForServices == next = "services" => room \in Rooms

\* The room that is displayed will be another one or is not at rest yet: the
\* connection is lost, a handler is running, a list of rooms is open, or a
\* request with the number k or a later one asks for the rooms or for the
\* services of the panel's own room.
Settling(k) ==
    \/ ~online \/ next # "nothing" \/ selectRoom.open
    \/ \E m \in DOMAIN inFlight :
        /\ m >= k
        /\ AsksRooms(m) \/ (AsksServices(m) /\ inFlight[m].room = room)

\* What is displayed, or will be, of another room is going to be replaced.
OthersReplaced ==
    /\ \A id \in DOMAIN container : container[id].room # room => Settling(0)
    /\ \A n \in DOMAIN inFlight :
        AsksServices(n) /\ inFlight[n].room # room => Settling(n + 1)

\* Elements, those that toggles are under way of included, were made from
\* responses that have arrived.
ElementsArrived ==
    /\ \A id \in DOMAIN container : outcome[id[1]] = "answered"
    /\ \A n \in Toggles : outcome[inFlight[n].element[1]] = "answered"

\* A panel that waits for nothing of the hub's environment shows something, if
\* only a list of rooms.
SomethingShown ==
    online /\ Quiet /\ OfEnvironment = {} =>
        notConnected = "closed" /\ (interface \/ selectRoom.open \/ error)

\* The list of rooms that is open has some.
ListFull == selectRoom.open => selectRoom.rooms # {}

\* The inductive invariant.
IInv ==
    /\ TypeOK
    /\ SentInOrder
    /\ DialogTells
    /\ RoomForServices
    /\ OthersReplaced
    /\ SomethingShown
    /\ ElementsArrived
    /\ TogglesInTurn

\* The two halves of the type invariant.
SessionTypes ==
    /\ online \in BOOLEAN
    /\ outcome \in [MessageIds ->
                        {"unsent", "pending", "answered", "abandoned"}]
    /\ DOMAIN inFlight = {n \in MessageIds : outcome[n] = "pending"}
    /\ \A n \in DOMAIN inFlight : inFlight[n] \in Request

PanelTypes ==
    /\ environment \in Environments
    /\ room \in Rooms \cup {NoRoom}
    /\ next \in {"nothing", "rooms", "services"}
    /\ notConnected \in {"shown", "modal", "closed"}
    /\ selectRoom \in [open : BOOLEAN, rooms : SUBSET Rooms]
    /\ error \in BOOLEAN
    /\ interface \in BOOLEAN

ContainerTypes ==
    /\ DOMAIN container \subseteq MessageIds \X Nat
    /\ \A id \in DOMAIN container :
        container[id] \in [room : Rooms, on : BOOLEAN, active : BOOLEAN]

CounterTypes ==
    /\ disconnects \in 0 .. MaxDisconnects
    /\ manuals \in 0 .. MaxManual
    /\ toggles \in 0 .. MaxToggles
    /\ reloads \in 0 .. MaxReloads

-----------------------------------------------------------------------------
LEMMA Types ==
    TypeOK <=> SessionTypes /\ PanelTypes /\ ContainerTypes /\ CounterTypes
BY DEF TypeOK, SessionTypes, PanelTypes, ContainerTypes, CounterTypes

LEMMA TypesNext ==
    TypeOK' <=> SessionTypes' /\ PanelTypes' /\ ContainerTypes' /\ CounterTypes'
BY DEF TypeOK, SessionTypes, PanelTypes, ContainerTypes, CounterTypes

\* The numbers of requests are natural.
LEMMA Numbers == MessageIds \subseteq Nat \ {0}
BY ControllerAssumption DEF MessageIds

\* There are three kinds of requests.
LEMMA RequestKinds ==
    ASSUME NEW r \in Request
    PROVE  \/ r.command = "environment-rooms"
           \/ r.command = "environment-services" /\ r.room \in Rooms
           \/ /\ r.command = "philips-hue-power"
              /\ r.element \in MessageIds \X Nat /\ r.on \in BOOLEAN
BY DEF Request

LEMMA RequestsAre ==
    /\ \A manual \in BOOLEAN :
        [command |-> "environment-rooms", manual |-> manual] \in Request
    /\ \A name \in Rooms :
        [command |-> "environment-services", room |-> name] \in Request
    /\ \A id \in MessageIds \X Nat, on \in BOOLEAN :
        [command |-> "philips-hue-power", element |-> id, on |-> on] \in Request
BY DEF Request

\* What is in flight is of one of these kinds.
LEMMA KindsInFlight ==
    ASSUME SessionTypes
    PROVE  /\ DOMAIN inFlight \subseteq MessageIds
           /\ \A n \in DOMAIN inFlight :
                /\ outcome[n] = "pending"
                /\ AsksRooms(n) \/ AsksServices(n) \/ n \in Toggles
                /\ AsksRooms(n) => ~AsksServices(n) /\ n \notin Toggles
                /\ AsksServices(n) => n \notin Toggles /\ inFlight[n].room \in Rooms
                /\ n \in Toggles => /\ inFlight[n].element \in MessageIds \X Nat
                                    /\ inFlight[n].on \in BOOLEAN
                /\ n \in OfEnvironment <=> AsksRooms(n) \/ AsksServices(n)
<1>1. DOMAIN inFlight = {n \in MessageIds : outcome[n] = "pending"}
  BY DEF SessionTypes
<1>2. \A n \in DOMAIN inFlight : inFlight[n] \in Request
  BY DEF SessionTypes
<1> SUFFICES ASSUME NEW n \in DOMAIN inFlight
             PROVE  /\ AsksRooms(n) \/ AsksServices(n) \/ n \in Toggles
                    /\ AsksRooms(n) => ~AsksServices(n) /\ n \notin Toggles
                    /\ AsksServices(n) =>
                            n \notin Toggles /\ inFlight[n].room \in Rooms
                    /\ n \in Toggles =>
                            /\ inFlight[n].element \in MessageIds \X Nat
                            /\ inFlight[n].on \in BOOLEAN
                    /\ n \in OfEnvironment <=> AsksRooms(n) \/ AsksServices(n)
  BY <1>1
<1>3. \/ inFlight[n].command = "environment-rooms"
      \/ inFlight[n].command = "environment-services" /\ inFlight[n].room \in Rooms
      \/ /\ inFlight[n].command = "philips-hue-power"
         /\ inFlight[n].element \in MessageIds \X Nat
         /\ inFlight[n].on \in BOOLEAN
  BY <1>2, RequestKinds
<1> QED
  BY <1>3 DEF AsksRooms, AsksServices, Toggles, OfEnvironment

\* The request r has been sent under the number n, the greatest so far.
Sent(n, r) ==
    /\ n \in MessageIds /\ n \notin DOMAIN inFlight
    /\ \A m \in DOMAIN inFlight : m < n
    /\ DOMAIN inFlight' = DOMAIN inFlight \cup {n}
    /\ inFlight'[n] = r
    /\ \A m \in DOMAIN inFlight : inFlight'[m] = inFlight[m]
    /\ \A m \in MessageIds : outcome[m] = "answered" => outcome'[m] = "answered"
    /\ online /\ online'

LEMMA SendKeeps ==
    ASSUME TypeOK, SentInOrder, NEW r \in Request, Send(r)
    PROVE  SessionTypes' /\ SentInOrder' /\ \E n \in MessageIds : Sent(n, r)
<1>1. SessionTypes
  BY Types
<1>2. PICK n \in MessageIds :
        /\ NextIs(n) /\ Connection!Send(n)
        /\ inFlight' = [m \in DOMAIN inFlight \cup {n} |->
                            IF m = n THEN r ELSE inFlight[m]]
  BY DEF Send
<1>3. /\ outcome[n] = "unsent"
      /\ outcome' = [outcome EXCEPT ![n] = "pending"]
      /\ online /\ online' = online
      /\ \A m \in MessageIds : outcome[m] = "unsent" => n <= m
  BY <1>2 DEF NextIs, Connection!Send
<1>4. /\ DOMAIN inFlight = {m \in MessageIds : outcome[m] = "pending"}
      /\ outcome \in [MessageIds ->
                        {"unsent", "pending", "answered", "abandoned"}]
      /\ \A m \in DOMAIN inFlight : inFlight[m] \in Request
  BY <1>1 DEF SessionTypes
<1>5. /\ outcome' \in [MessageIds ->
                        {"unsent", "pending", "answered", "abandoned"}]
      /\ outcome'[n] = "pending"
      /\ \A m \in MessageIds \ {n} : outcome'[m] = outcome[m]
  BY <1>3, <1>4
<1>6. /\ n \notin DOMAIN inFlight
      /\ DOMAIN inFlight' = DOMAIN inFlight \cup {n}
      /\ inFlight'[n] = r
      /\ \A m \in DOMAIN inFlight : inFlight'[m] = inFlight[m]
  BY <1>2, <1>3, <1>4
<1>7. ASSUME NEW m \in DOMAIN inFlight PROVE m < n
  <2>1. m \in MessageIds /\ outcome[m] = "pending"
    BY <1>4
  <2>2. ~(n <= m)
    BY <1>3, <2>1 DEF SentInOrder
  <2>3. m \in Nat /\ n \in Nat
    BY <2>1, Numbers
  <2> QED
    BY <2>2, <2>3
<1>8. SessionTypes'
  <2>1. DOMAIN inFlight' = {m \in MessageIds : outcome'[m] = "pending"}
    BY <1>3, <1>4, <1>5, <1>6
  <2>2. \A m \in DOMAIN inFlight' : inFlight'[m] \in Request
    BY <1>4, <1>6
  <2>3. online' \in BOOLEAN
    BY <1>1, <1>3 DEF SessionTypes
  <2> QED
    BY <1>5, <2>1, <2>2, <2>3 DEF SessionTypes
<1>9. SentInOrder'
  <2> SUFFICES ASSUME NEW k \in MessageIds, NEW m \in MessageIds, k <= m,
                      outcome'[m] # "unsent"
               PROVE  outcome'[k] # "unsent"
    BY DEF SentInOrder
  <2>1. CASE m = n
    BY <1>3, <1>5, <2>1, Numbers
  <2>2. CASE m # n
    BY <1>5, <2>2 DEF SentInOrder
  <2> QED
    BY <2>1, <2>2
<1>10. \A m \in MessageIds : outcome[m] = "answered" => outcome'[m] = "answered"
  BY <1>3, <1>5
<1> QED
  BY <1>3, <1>6, <1>7, <1>8, <1>9, <1>10 DEF Sent

\* A response arrives to the n-th request.
Arrived(n) ==
    /\ n \in DOMAIN inFlight /\ n \in MessageIds
    /\ DOMAIN inFlight' = DOMAIN inFlight \ {n}
    /\ \A m \in DOMAIN inFlight' : inFlight'[m] = inFlight[m]
    /\ \A m \in MessageIds : outcome[m] = "answered" => outcome'[m] = "answered"
    /\ outcome[n] = "pending" /\ outcome'[n] = "answered"
    /\ online /\ online'
    /\ next = "nothing"

LEMMA ResponseKeeps ==
    ASSUME TypeOK, SentInOrder, NEW n \in DOMAIN inFlight, NEW command,
           Response(n, command)
    PROVE  SessionTypes' /\ SentInOrder' /\ Arrived(n)
<1>1. SessionTypes
  BY Types
<1>2. /\ outcome[n] = "pending"
      /\ outcome' = [outcome EXCEPT ![n] = "answered"]
      /\ online /\ online' = online
      /\ inFlight' = [m \in DOMAIN inFlight \ {n} |-> inFlight[m]]
      /\ next = "nothing"
  BY DEF Response, Connection!Answer, Restrict, Quiet
<1>3. /\ DOMAIN inFlight = {m \in MessageIds : outcome[m] = "pending"}
      /\ outcome \in [MessageIds ->
                        {"unsent", "pending", "answered", "abandoned"}]
      /\ \A m \in DOMAIN inFlight : inFlight[m] \in Request
  BY <1>1 DEF SessionTypes
<1>4. /\ outcome' \in [MessageIds ->
                        {"unsent", "pending", "answered", "abandoned"}]
      /\ outcome'[n] = "answered"
      /\ \A m \in MessageIds \ {n} : outcome'[m] = outcome[m]
      /\ n \in MessageIds
  BY <1>2, <1>3
<1>5. /\ DOMAIN inFlight' = DOMAIN inFlight \ {n}
      /\ \A m \in DOMAIN inFlight' : inFlight'[m] = inFlight[m]
  BY <1>2
<1>6. SessionTypes'
  <2>1. DOMAIN inFlight' = {m \in MessageIds : outcome'[m] = "pending"}
    BY <1>3, <1>4, <1>5
  <2>2. \A m \in DOMAIN inFlight' : inFlight'[m] \in Request
    BY <1>3, <1>5
  <2>3. online' \in BOOLEAN
    BY <1>1, <1>2 DEF SessionTypes
  <2> QED
    BY <1>4, <2>1, <2>2, <2>3 DEF SessionTypes
<1>7. SentInOrder'
  <2>1. \A m \in MessageIds : outcome'[m] = "unsent" <=> outcome[m] = "unsent"
    BY <1>2, <1>4
  <2> QED
    BY <2>1 DEF SentInOrder
<1>8. \A m \in MessageIds : outcome[m] = "answered" => outcome'[m] = "answered"
  BY <1>4
<1> QED
  BY <1>2, <1>4, <1>5, <1>6, <1>7, <1>8 DEF Arrived

-----------------------------------------------------------------------------
\* What is in flight after one more request, or after one response.
LEMMA KindsSent ==
    ASSUME NEW n, NEW r, Sent(n, r)
    PROVE  /\ Toggles' = IF r.command = "philips-hue-power" THEN Toggles \cup {n}
                         ELSE Toggles
           /\ AsksRooms(n)' <=> r.command = "environment-rooms"
           /\ AsksServices(n)' <=> r.command = "environment-services"
           /\ \A m \in DOMAIN inFlight :
                /\ AsksRooms(m)' <=> AsksRooms(m)
                /\ AsksServices(m)' <=> AsksServices(m)
                /\ m \in DOMAIN inFlight' /\ inFlight'[m] = inFlight[m]
           /\ DOMAIN inFlight' = DOMAIN inFlight \cup {n}
BY DEF Sent, Toggles, AsksRooms, AsksServices

LEMMA KindsArrived ==
    ASSUME NEW n, Arrived(n)
    PROVE  /\ Toggles' = Toggles \ {n}
           /\ \A m \in DOMAIN inFlight' :
                /\ AsksRooms(m)' <=> AsksRooms(m)
                /\ AsksServices(m)' <=> AsksServices(m)
                /\ inFlight'[m] = inFlight[m] /\ m \in DOMAIN inFlight
           /\ DOMAIN inFlight' = DOMAIN inFlight \ {n}
BY DEF Arrived, Toggles, AsksRooms, AsksServices

\* Elements are left alone, and no toggle is sent.
LEMMA ElementsStay ==
    ASSUME SessionTypes, ContainerTypes, ElementsArrived, TogglesInTurn,
           UNCHANGED container,
           \A n \in Toggles' : inFlight'[n] = inFlight[n],
           Toggles' = Toggles,
           \A m \in MessageIds : outcome[m] = "answered" => outcome'[m] = "answered"
    PROVE  ContainerTypes' /\ ElementsArrived' /\ TogglesInTurn'
<1>1. ContainerTypes'
  BY DEF ContainerTypes
<1>2. \A id \in DOMAIN container : id[1] \in MessageIds
  BY DEF ContainerTypes
<1>3. \A n \in Toggles : inFlight[n].element[1] \in MessageIds
  <2> SUFFICES ASSUME NEW n \in Toggles
               PROVE  inFlight[n].element[1] \in MessageIds
    OBVIOUS
  <2>1. inFlight[n].element \in MessageIds \X Nat
    BY KindsInFlight DEF Toggles
  <2> QED
    BY <2>1
<1>4. ElementsArrived'
  BY <1>2, <1>3 DEF ElementsArrived
<1>5. TogglesInTurn'
  <2>1. \A id : TogglesOf(id)' = TogglesOf(id)
    BY DEF TogglesOf
  <2> QED
    BY <2>1 DEF TogglesInTurn
<1> QED
  BY <1>1, <1>4, <1>5

\* The hub reloads its environment, or nothing happens.
LEMMA ReloadKeeps ==
    ASSUME IInv, Reload \/ UNCHANGED vars
    PROVE  IInv'
<1>1. UNCHANGED <<online, outcome, inFlight, room, next, notConnected,
                  selectRoom, error, interface, container>>
  BY DEF Reload, vars, sessionVars, dialogVars
<1>2. SessionTypes /\ PanelTypes /\ ContainerTypes /\ CounterTypes
  BY Types DEF IInv
<1>3. environment' \in Environments
  BY <1>2 DEF Reload, vars, PanelTypes
<1>4. SessionTypes' /\ PanelTypes' /\ ContainerTypes'
  BY <1>1, <1>2, <1>3 DEF SessionTypes, PanelTypes, ContainerTypes
<1>5. CounterTypes'
  BY <1>2, ControllerAssumption DEF Reload, vars, counters, CounterTypes
<1>6. SentInOrder' /\ RoomForServices'
  BY <1>1 DEF IInv, SentInOrder, RoomForServices
<1>7. DialogTells'
  BY <1>1 DEF IInv, DialogTells, AsksRooms, AsksServices
<1>8. OthersReplaced'
  BY <1>1 DEF IInv, OthersReplaced, Settling, AsksRooms, AsksServices
<1>9. SomethingShown'
  BY <1>1 DEF IInv, SomethingShown, Quiet, OfEnvironment, Toggles
<1>10. ElementsArrived' /\ TogglesInTurn'
  BY <1>1 DEF IInv, ElementsArrived, TogglesInTurn, TogglesOf, Toggles
<1> QED
  BY <1>4, <1>5, <1>6, <1>7, <1>8, <1>9, <1>10, TypesNext DEF IInv

\* The session goes online, with nothing in flight.
LEMMA ConnectedKeeps == ASSUME IInv, Connected PROVE IInv'
<1>1. /\ \A m \in MessageIds : outcome[m] # "pending"
      /\ online' = TRUE /\ next' = "rooms"
      /\ UNCHANGED <<outcome, inFlight, environment, room, notConnected,
                     selectRoom, error, interface, container, disconnects,
                     manuals, toggles, reloads>>
  BY DEF Connected, Connection!GoOnline, dialogVars, counters
<1>2. SessionTypes /\ PanelTypes /\ ContainerTypes /\ CounterTypes
  BY Types DEF IInv
<1>3. SessionTypes' /\ PanelTypes' /\ CounterTypes'
  BY <1>1, <1>2 DEF SessionTypes, PanelTypes, CounterTypes
<1>4. DOMAIN inFlight = {}
  BY <1>1, <1>2 DEF SessionTypes
<1>5. SentInOrder' /\ RoomForServices'
  BY <1>1 DEF IInv, SentInOrder, RoomForServices
<1>6. DialogTells'
  BY <1>1, <1>4 DEF IInv, DialogTells, AsksServices
<1>7. OthersReplaced' /\ SomethingShown'
  BY <1>1 DEF OthersReplaced, Settling, SomethingShown, Quiet
<1>8. Toggles' = {} /\ Toggles = {}
  BY <1>1, <1>4 DEF Toggles
<1>9. ContainerTypes' /\ ElementsArrived' /\ TogglesInTurn'
  BY <1>1, <1>2, <1>8, ElementsStay DEF IInv
<1> QED
  BY <1>3, <1>5, <1>6, <1>7, <1>9, TypesNext DEF IInv

LEMMA OnDisconnectedKeeps == ASSUME IInv, OnDisconnected PROVE IInv'
<1>1. /\ disconnects < MaxDisconnects /\ disconnects' = disconnects + 1
      /\ online' = FALSE /\ interface' = FALSE
      /\ notConnected' = IF notConnected = "closed" THEN "modal" ELSE notConnected
      /\ UNCHANGED <<outcome, inFlight, environment, room, next, selectRoom,
                     error, container, manuals, toggles, reloads>>
  BY DEF OnDisconnected, Connection!GoOffline
<1>2. SessionTypes /\ PanelTypes /\ ContainerTypes /\ CounterTypes
  BY Types DEF IInv
<1>3. SessionTypes' /\ PanelTypes'
  BY <1>1, <1>2 DEF SessionTypes, PanelTypes
<1>4. CounterTypes'
  BY <1>1, <1>2, ControllerAssumption DEF CounterTypes
<1>5. SentInOrder' /\ RoomForServices'
  BY <1>1 DEF IInv, SentInOrder, RoomForServices
<1>6. DialogTells'
  BY <1>1 DEF IInv, DialogTells, AsksRooms
<1>7. OthersReplaced' /\ SomethingShown'
  BY <1>1 DEF OthersReplaced, Settling, SomethingShown
<1>8. Toggles' = Toggles
  BY <1>1 DEF Toggles
<1>9. ContainerTypes' /\ ElementsArrived' /\ TogglesInTurn'
  BY <1>1, <1>2, <1>8, ElementsStay DEF IInv
<1> QED
  BY <1>3, <1>4, <1>5, <1>6, <1>7, <1>9, TypesNext DEF IInv

-----------------------------------------------------------------------------
\* displayConfiguration asks for the rooms: with the number of this request,
\* the greatest, everything that is in flight is going to be replaced.
LEMMA AskRoomsKeeps ==
    ASSUME IInv, NEW manual \in BOOLEAN, AskRooms(manual), next' = "nothing",
           UNCHANGED <<environment, room, dialogVars, container>>, CounterTypes'
    PROVE  IInv'
<1> DEFINE r == [command |-> "environment-rooms", manual |-> manual]
<1>1. r.command = "environment-rooms" /\ r \in Request /\ Send(r)
  BY RequestsAre DEF AskRooms
<1> HIDE DEF r
<1>2. SessionTypes /\ PanelTypes /\ ContainerTypes /\ CounterTypes
  BY Types DEF IInv
<1>3. SessionTypes' /\ SentInOrder' /\ \E n \in MessageIds : Sent(n, r)
  BY <1>1, SendKeeps DEF IInv
<1>4. PICK n \in MessageIds : Sent(n, r)
  BY <1>3
<1>5. UNCHANGED <<room, notConnected, selectRoom, error, interface, container>>
  BY DEF dialogVars
<1>6. PanelTypes' /\ RoomForServices'
  BY <1>2, <1>5 DEF PanelTypes, RoomForServices
<1>7. AsksRooms(n)' /\ ~AsksServices(n)' /\ Toggles' = Toggles
  BY <1>1, <1>4, KindsSent
<1>8. /\ \A m \in DOMAIN inFlight :
            /\ AsksRooms(m)' <=> AsksRooms(m)
            /\ AsksServices(m)' <=> AsksServices(m)
            /\ inFlight'[m] = inFlight[m]
            /\ m < n
      /\ DOMAIN inFlight' = DOMAIN inFlight \cup {n}
      /\ online /\ online'
      /\ \A m \in MessageIds : outcome[m] = "answered" => outcome'[m] = "answered"
  BY <1>4, KindsSent DEF Sent
<1>9. DialogTells'
  <2>1. DialogTells
    BY DEF IInv
  <2>2. notConnected' = "shown" => \A m \in DOMAIN inFlight' : AsksRooms(m)'
    BY <1>5, <1>7, <1>8, <2>1 DEF DialogTells
  <2>3. (\E m \in DOMAIN inFlight' : AsksServices(m)') => notConnected' = "closed"
    BY <1>5, <1>7, <1>8, <2>1 DEF DialogTells
  <2> QED
    BY <1>5, <1>8, <2>1, <2>2, <2>3 DEF DialogTells
<1>10. \A k \in Nat : k <= n => Settling(k)'
  BY <1>7, <1>8, Numbers DEF Settling
<1>11. OthersReplaced'
  <2>1. n \in Nat /\ \A m \in DOMAIN inFlight : m + 1 \in Nat /\ m + 1 <= n
    <3>1. n \in Nat /\ \A m \in DOMAIN inFlight : m \in Nat
      BY <1>2, Numbers, KindsInFlight
    <3> QED
      BY <1>8, <3>1
  <2>2. Settling(0)'
    BY <1>10, <2>1
  <2>3. \A m \in DOMAIN inFlight : Settling(m + 1)'
    BY <1>10, <2>1
  <2> QED
    BY <1>7, <1>8, <2>2, <2>3 DEF OthersReplaced
<1>12. SomethingShown'
  <2>1. n \in OfEnvironment'
    BY <1>4, <1>7, <1>8 DEF Sent, OfEnvironment, Toggles
  <2> QED
    BY <2>1 DEF SomethingShown
<1>13. ContainerTypes' /\ ElementsArrived' /\ TogglesInTurn'
  <2>1. \A m \in Toggles : m \in DOMAIN inFlight
    BY DEF Toggles
  <2> QED
    BY <1>2, <1>5, <1>7, <1>8, <2>1, ElementsStay DEF IInv
<1> QED
  BY <1>3, <1>6, <1>9, <1>11, <1>12, <1>13, TypesNext DEF IInv

\* displayConfiguration asks for the services of the panel's room: whatever is
\* in flight for another one has a smaller number.
LEMMA AskServicesKeeps ==
    ASSUME IInv, room' \in Rooms, AskServices(room'), next' = "nothing",
           notConnected = "closed", selectRoom' \in [open : BOOLEAN, rooms : SUBSET Rooms],
           UNCHANGED <<environment, notConnected, error, interface, container,
                       counters>>
    PROVE  IInv'
<1> DEFINE r == [command |-> "environment-services", room |-> room']
<1>1. /\ r.command = "environment-services" /\ r.room = room'
      /\ r \in Request /\ Send(r)
  BY RequestsAre DEF AskServices
<1> HIDE DEF r
<1>2. SessionTypes /\ PanelTypes /\ ContainerTypes /\ CounterTypes
  BY Types DEF IInv
<1>3. SessionTypes' /\ SentInOrder' /\ \E n \in MessageIds : Sent(n, r)
  BY <1>1, SendKeeps DEF IInv
<1>4. PICK n \in MessageIds : Sent(n, r)
  BY <1>3
<1>5. UNCHANGED <<notConnected, container>> /\ CounterTypes'
  BY <1>2 DEF counters, CounterTypes
<1>6. PanelTypes' /\ RoomForServices'
  BY <1>2 DEF PanelTypes, RoomForServices
<1>7. AsksServices(n)' /\ ~AsksRooms(n)' /\ Toggles' = Toggles
  BY <1>1, <1>4, KindsSent
<1>8. /\ \A m \in DOMAIN inFlight : inFlight'[m] = inFlight[m] /\ m < n
      /\ DOMAIN inFlight' = DOMAIN inFlight \cup {n}
      /\ inFlight'[n].room = room'
      /\ online /\ online'
      /\ \A m \in MessageIds : outcome[m] = "answered" => outcome'[m] = "answered"
  BY <1>1, <1>4 DEF Sent
<1>9. DialogTells'
  BY <1>5, <1>8 DEF DialogTells
<1>10. \A k \in Nat : k <= n => Settling(k)'
  BY <1>7, <1>8, Numbers DEF Settling
<1>11. OthersReplaced'
  <2>1. n \in Nat /\ \A m \in DOMAIN inFlight : m + 1 \in Nat /\ m + 1 <= n
    <3>1. n \in Nat /\ \A m \in DOMAIN inFlight : m \in Nat
      BY <1>2, Numbers, KindsInFlight
    <3> QED
      BY <1>8, <3>1
  <2>2. Settling(0)'
    BY <1>10, <2>1
  <2>3. \A m \in DOMAIN inFlight : Settling(m + 1)'
    BY <1>10, <2>1
  <2> QED
    BY <1>8, <2>2, <2>3 DEF OthersReplaced
<1>12. SomethingShown'
  <2>1. n \in OfEnvironment'
    BY <1>4, <1>7, <1>8 DEF Sent, OfEnvironment, Toggles
  <2> QED
    BY <2>1 DEF SomethingShown
<1>13. ContainerTypes' /\ ElementsArrived' /\ TogglesInTurn'
  <2>1. \A m \in Toggles : m \in DOMAIN inFlight
    BY DEF Toggles
  <2> QED
    BY <1>2, <1>5, <1>7, <1>8, <2>1, ElementsStay DEF IInv
<1> QED
  BY <1>3, <1>5, <1>6, <1>9, <1>11, <1>12, <1>13, TypesNext DEF IInv

LEMMA OnConnectedKeeps == ASSUME IInv, OnConnected PROVE IInv'
<1>1. /\ AskRooms(FALSE) /\ next' = "nothing"
      /\ UNCHANGED <<environment, room, dialogVars, container, counters>>
  BY DEF OnConnected
<1>2. CounterTypes'
  BY <1>1, Types DEF IInv, counters, CounterTypes
<1> QED
  BY <1>1, <1>2, AskRoomsKeeps

LEMMA PressConfigurationKeeps == ASSUME IInv, PressConfiguration PROVE IInv'
<1>1. /\ AskRooms(TRUE) /\ next' = "nothing"
      /\ manuals < MaxManual /\ manuals' = manuals + 1
      /\ UNCHANGED <<environment, room, dialogVars, container>>
      /\ UNCHANGED <<disconnects, toggles, reloads>>
  BY DEF PressConfiguration, Interactive, Quiet
<1>2. CounterTypes
  BY Types DEF IInv
<1>3. CounterTypes'
  BY <1>1, <1>2, ControllerAssumption DEF CounterTypes
<1> QED
  BY <1>1, <1>3, AskRoomsKeeps

LEMMA RequestServicesKeeps == ASSUME IInv, RequestServices PROVE IInv'
<1>1. /\ next = "services" /\ AskServices(room) /\ next' = "nothing"
      /\ UNCHANGED <<environment, room, dialogVars, container, counters>>
  BY DEF RequestServices
<1>2. UNCHANGED <<notConnected, selectRoom, error, interface>>
  BY <1>1 DEF dialogVars
<1>3. room \in Rooms /\ online
  BY <1>1 DEF IInv, RoomForServices, AskServices, Send
<1>4. notConnected = "closed"
  BY <1>1, <1>3 DEF IInv, DialogTells
<1>5. selectRoom \in [open : BOOLEAN, rooms : SUBSET Rooms]
  BY Types DEF IInv, PanelTypes
<1>6. AskServices(room') /\ room' \in Rooms
  BY <1>1, <1>3
<1> QED
  BY <1>1, <1>2, <1>4, <1>5, <1>6, AskServicesKeeps

LEMMA SelectRoomKeeps ==
    ASSUME IInv, NEW selected \in Rooms, SelectRoom(selected)
    PROVE  IInv'
<1>1. /\ notConnected # "modal" /\ next = "nothing" /\ selectRoom.open
      /\ selectRoom' = [open |-> FALSE, rooms |-> {}]
      /\ room' = selected /\ AskServices(selected)
      /\ UNCHANGED <<environment, next, notConnected, error, interface,
                     container, counters>>
  BY DEF SelectRoom, Interactive, Quiet
<1>2. notConnected \in {"shown", "modal", "closed"}
  BY Types DEF IInv, PanelTypes
<1>3. notConnected = "closed"
  BY <1>1, <1>2 DEF IInv, DialogTells
<1>4. selectRoom' \in [open : BOOLEAN, rooms : SUBSET Rooms]
  BY <1>1
<1>5. AskServices(room') /\ room' \in Rooms /\ next' = "nothing"
  BY <1>1
<1> QED
  BY <1>1, <1>3, <1>4, <1>5, AskServicesKeeps

-----------------------------------------------------------------------------
\* displayConfiguration goes on with the rooms.
LEMMA ShowRoomsKeeps ==
    ASSUME IInv, NEW n \in DOMAIN inFlight, ShowRooms(n)
    PROVE  IInv'
<1>1. /\ Response(n, "environment-rooms")
      /\ notConnected' = "closed" /\ interface' = FALSE
      /\ IF KeepsRoom(n) THEN next' = "services" /\ UNCHANGED selectRoom
         ELSE /\ next' = "nothing"
              /\ selectRoom' = [open |-> TRUE, rooms |-> DOMAIN environment]
      /\ UNCHANGED <<environment, room, error, container>>
      /\ UNCHANGED <<disconnects, manuals, toggles, reloads>>
  BY DEF ShowRooms, counters
<1>2. SessionTypes /\ PanelTypes /\ ContainerTypes /\ CounterTypes
  BY Types DEF IInv
<1>3. SessionTypes' /\ SentInOrder' /\ Arrived(n)
  BY <1>1, ResponseKeeps DEF IInv
<1>4. DOMAIN environment \subseteq Rooms
  BY <1>2, ControllerAssumption DEF PanelTypes
<1>5. PanelTypes' /\ CounterTypes'
  <2>1. selectRoom' \in [open : BOOLEAN, rooms : SUBSET Rooms]
    <3>1. selectRoom' = selectRoom
            \/ selectRoom' = [open |-> TRUE, rooms |-> DOMAIN environment]
      BY <1>1
    <3>2. selectRoom \in [open : BOOLEAN, rooms : SUBSET Rooms]
      BY <1>2 DEF PanelTypes
    <3>3. [open |-> TRUE, rooms |-> DOMAIN environment]
            \in [open : BOOLEAN, rooms : SUBSET Rooms]
      BY <1>4
    <3> QED
      BY <3>1, <3>2, <3>3
  <2>2. next' \in {"nothing", "rooms", "services"}
    BY <1>1
  <2>3. PanelTypes'
    BY <1>1, <1>2, <2>1, <2>2 DEF PanelTypes
  <2> QED
    BY <1>1, <1>2, <2>3 DEF CounterTypes
<1>6. RoomForServices'
  BY <1>1, <1>4 DEF KeepsRoom, RoomForServices
<1>7. DialogTells'
  BY <1>1, <1>3 DEF Arrived, DialogTells
<1>8. next' # "nothing" \/ selectRoom'.open
  BY <1>1
<1>9. OthersReplaced' /\ SomethingShown'
  BY <1>1, <1>8 DEF OthersReplaced, Settling, SomethingShown, Quiet
<1>10. ContainerTypes' /\ ElementsArrived' /\ TogglesInTurn'
  <2>1. \A m \in Toggles' : inFlight'[m] = inFlight[m]
    BY <1>3, KindsArrived DEF Toggles
  <2>2. n \notin Toggles
    BY <1>1 DEF Response, Toggles
  <2>3. Toggles' = Toggles
    BY <1>3, <2>2, KindsArrived
  <2> QED
    BY <1>1, <1>2, <1>3, <2>1, <2>3, ElementsStay DEF IInv, Arrived
<1> QED
  BY <1>3, <1>5, <1>6, <1>7, <1>9, <1>10, TypesNext DEF IInv

\* displayConfiguration goes on with the services.  When they are of another
\* room, a request with a greater number will replace them.
LEMMA ShowServicesKeeps ==
    ASSUME IInv, NEW n \in DOMAIN inFlight, ShowServices(n)
    PROVE  IInv'
<1> DEFINE services == Served(inFlight[n].room)
           unrecognised == Recognised(services) # DOMAIN services
<1>1. /\ Response(n, "environment-services") /\ Earliest(n)
      /\ container' = Elements(n, services)
      /\ interface' = ~unrecognised /\ error' = (error \/ unrecognised)
      /\ UNCHANGED <<environment, room, next, notConnected, selectRoom>>
      /\ UNCHANGED <<disconnects, manuals, toggles, reloads>>
  BY DEF ShowServices, counters
<1>2. SessionTypes /\ PanelTypes /\ ContainerTypes /\ CounterTypes
  BY Types DEF IInv
<1>3. SessionTypes' /\ SentInOrder' /\ Arrived(n)
  BY <1>1, ResponseKeeps DEF IInv
<1>4. AsksServices(n) /\ inFlight[n].room \in Rooms /\ n \in MessageIds
  BY <1>1, <1>2, KindsInFlight DEF Response, AsksServices
<1>5. /\ DOMAIN container' = {n} \X Recognised(services)
      /\ \A id \in DOMAIN container' :
            container'[id] = [room |-> inFlight[n].room, on |-> FALSE,
                              active |-> FALSE]
  BY <1>1 DEF Elements, Element
<1>6. Recognised(services) \subseteq Nat
  <2>1. services \in Seq(STRING)
    <3>1. environment \in Environments
      BY <1>2 DEF PanelTypes
    <3>2. \A name \in DOMAIN environment : environment[name] \in Seq(STRING)
      BY <3>1, ControllerAssumption
    <3>3. <<>> \in Seq(STRING)
      OBVIOUS
    <3> QED
      BY <3>2, <3>3 DEF Served
  <2>2. Recognised(services) \subseteq DOMAIN services
    BY DEF Recognised
  <2> HIDE DEF services
  <2> QED
    BY <2>1, <2>2
<1> HIDE DEF services
<1>7. ContainerTypes'
  <2>1. DOMAIN container' \subseteq MessageIds \X Nat
    BY <1>4, <1>5, <1>6
  <2>2. \A id \in DOMAIN container' :
            container'[id] \in [room : Rooms, on : BOOLEAN, active : BOOLEAN]
    <3> DEFINE e == [room |-> inFlight[n].room, on |-> FALSE, active |-> FALSE]
    <3>1. e \in [room : Rooms, on : BOOLEAN, active : BOOLEAN]
      BY <1>4
    <3>2. \A id \in DOMAIN container' : container'[id] = e
      BY <1>5
    <3> HIDE DEF e
    <3> QED
      BY <3>1, <3>2
  <2> QED
    BY <2>1, <2>2 DEF ContainerTypes
<1>8. interface' \in BOOLEAN /\ error' \in BOOLEAN /\ (interface' \/ error')
  BY <1>1
<1> HIDE DEF unrecognised
<1>9. PanelTypes' /\ CounterTypes' /\ RoomForServices'
  BY <1>1, <1>2, <1>8 DEF IInv, PanelTypes, CounterTypes, RoomForServices
<1>10. /\ \A m \in DOMAIN inFlight' :
            /\ AsksRooms(m)' <=> AsksRooms(m)
            /\ AsksServices(m)' <=> AsksServices(m)
            /\ inFlight'[m] = inFlight[m] /\ m \in DOMAIN inFlight
       /\ DOMAIN inFlight' = DOMAIN inFlight \ {n}
       /\ Toggles' = Toggles \ {n}
       /\ online /\ online' /\ next = "nothing"
  BY <1>3, KindsArrived DEF Arrived
<1>11. notConnected = "closed"
  BY <1>4, <1>10 DEF IInv, DialogTells
<1>12. DialogTells'
  BY <1>1, <1>10, <1>11 DEF DialogTells
<1>13. SomethingShown'
  BY <1>1, <1>8, <1>11 DEF SomethingShown
<1>14. ASSUME NEW k \in Nat, k > n, Settling(k) PROVE Settling(k)'
  <2>1. CASE next # "nothing" \/ selectRoom.open
    BY <1>1, <2>1 DEF Settling
  <2>2. ASSUME NEW m \in DOMAIN inFlight, m >= k,
               AsksRooms(m) \/ (AsksServices(m) /\ inFlight[m].room = room)
        PROVE  Settling(k)'
    <3>1. m \in Nat /\ n \in Nat
      BY <1>2, Numbers, KindsInFlight
    <3>2. m \in DOMAIN inFlight'
      BY <1>10, <1>14, <2>2, <3>1
    <3> QED
      BY <1>1, <1>10, <2>2, <3>2 DEF Settling
  <2> QED
    BY <1>10, <1>14, <2>1, <2>2 DEF Settling
<1>15. n + 1 \in Nat /\ n + 1 > n /\ n \in Nat
  BY <1>4, Numbers
<1>16. ASSUME inFlight[n].room # room PROVE Settling(0)'
  <2>1. Settling(n + 1)
    BY <1>4, <1>16 DEF IInv, OthersReplaced
  <2>2. Settling(n + 1)'
    BY <1>14, <1>15, <2>1
  <2>3. \A m \in DOMAIN inFlight' : m >= 0
    <3>1. DOMAIN inFlight \subseteq Nat
      BY <1>2, Numbers, KindsInFlight
    <3> QED
      BY <1>10, <3>1
  <2>4. CASE next' # "nothing" \/ selectRoom'.open
    BY <2>4 DEF Settling
  <2>5. CASE ~(next' # "nothing" \/ selectRoom'.open)
    <3>1. PICK m \in DOMAIN inFlight' :
            AsksRooms(m)' \/ (AsksServices(m)' /\ inFlight'[m].room = room')
      BY <1>10, <2>2, <2>5 DEF Settling
    <3> QED
      BY <2>3, <3>1 DEF Settling
  <2> QED
    BY <2>4, <2>5
<1>17. ASSUME NEW m \in DOMAIN inFlight', AsksServices(m)',
              inFlight'[m].room # room'
       PROVE  Settling(m + 1)'
  <2>1. m \in DOMAIN inFlight /\ AsksServices(m) /\ inFlight[m].room # room
    BY <1>1, <1>10, <1>17
  <2>2. Settling(m + 1)
    BY <2>1 DEF IInv, OthersReplaced
  <2>3. n <= m
    BY <1>1, <1>2, <2>1, KindsInFlight DEF Earliest
  <2>4. m \in Nat
    BY <1>2, <2>1, Numbers, KindsInFlight
  <2>5. m + 1 \in Nat /\ m + 1 > n
    BY <1>15, <2>3, <2>4
  <2> QED
    BY <1>14, <2>2, <2>5
<1>18. OthersReplaced'
  <2>1. \A id \in DOMAIN container' : container'[id].room # room' => Settling(0)'
    BY <1>1, <1>5, <1>16
  <2> QED
    BY <1>17, <2>1 DEF OthersReplaced
<1>19. ElementsArrived' /\ TogglesInTurn'
  <2>1. \A id \in DOMAIN container' : id[1] = n
    BY <1>5
  <2>2. outcome[n] = "pending" /\ outcome'[n] = "answered"
        /\ \A m \in MessageIds : outcome[m] = "answered" => outcome'[m] = "answered"
    BY <1>3 DEF Arrived
  <2>3. ASSUME NEW m \in Toggles'
        PROVE  /\ inFlight'[m].element \notin DOMAIN container'
               /\ outcome'[inFlight'[m].element[1]] = "answered"
    <3>1. m \in Toggles /\ inFlight'[m] = inFlight[m] /\ m \in DOMAIN inFlight
      BY <1>10, <2>3 DEF Toggles
    <3>2. inFlight[m].element \in MessageIds \X Nat
      BY <1>2, <3>1, KindsInFlight
    <3>3. outcome[inFlight[m].element[1]] = "answered"
      BY <3>1 DEF IInv, ElementsArrived
    <3>4. inFlight[m].element[1] # n /\ inFlight[m].element[1] \in MessageIds
      BY <2>2, <3>2, <3>3
    <3> QED
      BY <2>1, <2>2, <3>1, <3>3, <3>4
  <2>4. \A id \in DOMAIN container' : ~container'[id].active /\ TogglesOf(id)' = {}
    BY <1>5, <2>3 DEF TogglesOf
  <2>5. \A m, k \in Toggles' :
            inFlight'[m].element = inFlight'[k].element => m = k
    BY <1>10 DEF IInv, TogglesInTurn, Toggles
  <2>6. TogglesInTurn'
    BY <2>4, <2>5 DEF TogglesInTurn
  <2> QED
    BY <2>1, <2>2, <2>3, <2>6 DEF ElementsArrived
<1> QED
  BY <1>3, <1>7, <1>9, <1>12, <1>13, <1>18, <1>19, TypesNext DEF IInv

-----------------------------------------------------------------------------
\* toggle() and what it makes of an element.
ElementType == [room : Rooms, on : BOOLEAN, active : BOOLEAN]

WentOn(e, b) == [e EXCEPT !.active = FALSE, !.on = b]

LEMMA ElementChanges ==
    ASSUME NEW e \in ElementType, NEW b \in BOOLEAN
    PROVE  /\ Activated(e) \in ElementType
           /\ Activated(e).room = e.room /\ Activated(e).active
           /\ WentOn(e, b) \in ElementType
           /\ WentOn(e, b).room = e.room /\ ~WentOn(e, b).active
BY DEF ElementType, Activated, WentOn

LEMMA MaxOfOne == \A n \in Nat : Max({n}) = n
BY DEF Max

\* Elements change without their rooms, and requests for rooms and services are
\* the same as before.
LEMMA RoomsStay ==
    ASSUME IInv, notConnected # "shown",
           UNCHANGED <<online, room, next, notConnected, selectRoom, error, interface>>,
           DOMAIN container' = DOMAIN container,
           \A id \in DOMAIN container : container'[id].room = container[id].room,
           OfEnvironment' = OfEnvironment,
           \A n \in DOMAIN inFlight :
                AsksRooms(n) \/ AsksServices(n) =>
                    n \in DOMAIN inFlight' /\ inFlight'[n] = inFlight[n],
           \A n \in DOMAIN inFlight' :
                AsksServices(n)' => n \in DOMAIN inFlight /\ inFlight'[n] = inFlight[n]
    PROVE  DialogTells' /\ RoomForServices' /\ OthersReplaced' /\ SomethingShown'
<1>1. DialogTells /\ RoomForServices /\ OthersReplaced /\ SomethingShown
  BY DEF IInv
<1>2. /\ \A n \in DOMAIN inFlight : AsksRooms(n) => AsksRooms(n)'
      /\ \A n \in DOMAIN inFlight : AsksServices(n) => AsksServices(n)'
      /\ \A n \in DOMAIN inFlight' : AsksServices(n)' => AsksServices(n)
  BY DEF AsksRooms, AsksServices
<1>3. DialogTells' /\ RoomForServices'
  BY <1>1, <1>2 DEF DialogTells, RoomForServices
<1>4. ASSUME NEW k, Settling(k) PROVE Settling(k)'
  BY <1>2, <1>4 DEF Settling
<1>5. OthersReplaced'
  BY <1>1, <1>2, <1>4 DEF OthersReplaced
<1>6. SomethingShown'
  BY <1>1 DEF SomethingShown, Quiet
<1> QED
  BY <1>3, <1>5, <1>6

\* An element that is not active sends a command, and is active.
LEMMA ToggleKeeps ==
    ASSUME IInv, NEW id \in DOMAIN container, Toggle(id)
    PROVE  IInv'
<1> DEFINE r == [command |-> "philips-hue-power", element |-> id,
                 on |-> ~container[id].on]
<1>1. /\ notConnected # "modal" /\ ~container[id].active
      /\ toggles < MaxToggles /\ toggles' = toggles + 1
      /\ Send(r)
      /\ container' = [container EXCEPT ![id] = Activated(container[id])]
      /\ UNCHANGED <<environment, room, next, notConnected, selectRoom, error,
                     interface, disconnects, manuals, reloads>>
  BY DEF Toggle, AskPower, Interactive, dialogVars
<1>2. SessionTypes /\ PanelTypes /\ ContainerTypes /\ CounterTypes
  BY Types DEF IInv
<1>3. container[id] \in ElementType /\ id \in MessageIds \X Nat
  BY <1>2 DEF ContainerTypes, ElementType
<1>4. (~container[id].on) \in BOOLEAN
  OBVIOUS
<1>5. /\ r \in Request /\ r.command = "philips-hue-power"
      /\ r.element = id /\ r.on = ~container[id].on
  BY <1>3, <1>4, RequestsAre
<1> HIDE DEF r
<1>6. SessionTypes' /\ SentInOrder' /\ \E n \in MessageIds : Sent(n, r)
  BY <1>1, <1>5, SendKeeps DEF IInv
<1>7. PICK n \in MessageIds : Sent(n, r)
  BY <1>6
<1>8. /\ DOMAIN container' = DOMAIN container
      /\ container'[id] = Activated(container[id])
      /\ \A other \in DOMAIN container \ {id} : container'[other] = container[other]
  BY <1>1
<1>9. /\ Activated(container[id]) \in ElementType
      /\ container'[id].room = container[id].room
      /\ container'[id].active
  <2> DEFINE e == container[id]
  <2>1. /\ Activated(e) \in ElementType
        /\ Activated(e).room = e.room /\ Activated(e).active
    BY ONLY <1>3, ElementChanges
  <2> QED
    BY <1>8, <2>1
<1>10. ContainerTypes'
  BY <1>2, <1>8, <1>9 DEF ContainerTypes, ElementType
<1>11. PanelTypes' /\ CounterTypes'
  <2>1. PanelTypes'
    BY <1>1, <1>2 DEF PanelTypes
  <2> QED
    BY <1>1, <1>2, <2>1, ControllerAssumption DEF CounterTypes
<1>12. /\ Toggles' = Toggles \cup {n}
       /\ DOMAIN inFlight' = DOMAIN inFlight \cup {n}
       /\ n \notin DOMAIN inFlight /\ inFlight'[n] = r
       /\ \A m \in DOMAIN inFlight : inFlight'[m] = inFlight[m]
       /\ ~AsksServices(n)'
       /\ UNCHANGED online
  BY <1>2, <1>5, <1>6, <1>7, KindsSent DEF Sent, SessionTypes
<1>13. DialogTells' /\ RoomForServices' /\ OthersReplaced' /\ SomethingShown'
  <2>1. notConnected # "shown"
    BY DEF IInv, DialogTells
  <2>2. OfEnvironment' = OfEnvironment
    BY <1>12 DEF OfEnvironment
  <2>3. \A other \in DOMAIN container :
            container'[other].room = container[other].room
    BY <1>8, <1>9
  <2> QED
    BY <1>1, <1>8, <1>12, <2>1, <2>2, <2>3, RoomsStay
<1>14. ElementsArrived'
  <2>1. \A m \in MessageIds : outcome[m] = "answered" => outcome'[m] = "answered"
    BY <1>7 DEF Sent
  <2>2. \A other \in DOMAIN container : other[1] \in MessageIds
    BY <1>2 DEF ContainerTypes
  <2>3. \A other \in DOMAIN container' : outcome'[other[1]] = "answered"
    BY <1>8, <2>1, <2>2 DEF IInv, ElementsArrived
  <2>4. ASSUME NEW m \in Toggles'
        PROVE  outcome'[inFlight'[m].element[1]] = "answered"
    <3>1. CASE m = n
      BY <1>5, <1>8, <1>12, <2>3, <3>1
    <3>2. CASE m # n
      <4>1. m \in Toggles /\ m \in DOMAIN inFlight /\ inFlight'[m] = inFlight[m]
        BY <1>12, <2>4, <3>2 DEF Toggles
      <4>2. inFlight[m].element \in MessageIds \X Nat
        BY <1>2, <4>1, KindsInFlight
      <4>3. inFlight[m].element[1] \in MessageIds
        BY <4>2
      <4> QED
        BY <2>1, <4>1, <4>3 DEF IInv, ElementsArrived
    <3> QED
      BY <3>1, <3>2
  <2> QED
    BY <2>3, <2>4 DEF ElementsArrived
<1>15. TogglesOf(id) = {}
  BY <1>1 DEF IInv, TogglesInTurn
<1>16. TogglesInTurn'
  <2>1. \A m \in Toggles : /\ inFlight'[m] = inFlight[m] /\ m # n
                            /\ inFlight[m].element # id
    BY <1>12, <1>15 DEF TogglesOf, Toggles
  <2>2. inFlight'[n].element = id
    BY <1>5, <1>12
  <2>3. ASSUME NEW m \in Toggles', NEW k \in Toggles',
               inFlight'[m].element = inFlight'[k].element
        PROVE  m = k
    <3>1. CASE m # n /\ k # n
      BY <1>12, <2>1, <2>3, <3>1 DEF IInv, TogglesInTurn
    <3>2. CASE m = n \/ k = n
      BY <1>12, <2>1, <2>2, <2>3, <3>2
    <3> QED
      BY <3>1, <3>2
  <2>4. ASSUME NEW other \in DOMAIN container'
        PROVE  container'[other].active <=> TogglesOf(other)' # {}
    <3>1. CASE other = id
      <4>1. n \in TogglesOf(other)'
        BY <1>12, <2>2, <3>1 DEF TogglesOf
      <4> QED
        BY <1>9, <3>1, <4>1
    <3>2. CASE other # id
      <4>1. TogglesOf(other)' = TogglesOf(other)
        BY <1>12, <2>1, <2>2, <3>2 DEF TogglesOf
      <4>2. container'[other] = container[other] /\ other \in DOMAIN container
        BY <1>8, <2>4, <3>2
      <4> QED
        BY <4>1, <4>2 DEF IInv, TogglesInTurn
    <3> QED
      BY <3>1, <3>2
  <2> QED
    BY <2>3, <2>4 DEF TogglesInTurn
<1> QED
  BY <1>6, <1>10, <1>11, <1>13, <1>14, <1>16, TypesNext DEF IInv

\* toggle() goes on after responses of an element, one at most: it is active
\* no longer.
LEMMA AfterKeeps ==
    ASSUME IInv, NEW id \in DOMAIN container, NEW responses,
           responses \subseteq TogglesOf(id)
    PROVE  /\ After(id, responses) \in ElementType
           /\ After(id, responses).room = container[id].room
           /\ responses = {} => After(id, responses) = container[id]
           /\ responses # {} =>
                /\ ~After(id, responses).active
                /\ responses = TogglesOf(id)
<1>1. SessionTypes /\ ContainerTypes
  BY Types DEF IInv
<1>2. container[id] \in ElementType
  BY <1>1 DEF ContainerTypes, ElementType
<1>3. CASE responses = {}
  BY <1>2, <1>3 DEF After
<1>4. CASE responses # {}
  <2>1. PICK n \in responses : TRUE
    BY <1>4
  <2>2. n \in Toggles /\ inFlight[n].element = id
    BY <2>1 DEF TogglesOf
  <2>3. \A m \in TogglesOf(id) : m = n
    BY <2>2 DEF TogglesOf, TogglesInTurn, IInv
  <2>4. responses = {n} /\ responses = TogglesOf(id)
    BY <2>1, <2>3
  <2>5. n \in DOMAIN inFlight
    BY <2>2 DEF Toggles
  <2>6. n \in Nat
    BY <1>1, <2>5, Numbers, KindsInFlight
  <2>7. Max(responses) = n
    BY <2>4, <2>6, MaxOfOne
  <2>8. inFlight[n].on \in BOOLEAN
    BY <1>1, <2>2, <2>5, KindsInFlight
  <2> DEFINE b == inFlight[n].on
             e == container[id]
  <2>9. After(id, responses) = WentOn(e, b)
    BY <1>4, <2>7 DEF After, WentOn
  <2>10. /\ WentOn(e, b) \in ElementType
         /\ WentOn(e, b).room = e.room /\ ~WentOn(e, b).active
    BY <1>2, <2>8, ElementChanges
  <2> QED
    BY <1>4, <2>4, <2>9, <2>10
<1> QED
  BY <1>3, <1>4

\* The display after responses to some of the toggles, which are no longer in
\* flight afterwards.
LEMMA ElementsGoOn ==
    ASSUME IInv, NEW responses,
           container' = [id \in DOMAIN container |->
                            After(id, TogglesOf(id) \cap responses)],
           Toggles' = Toggles \ responses,
           \A n \in Toggles' : inFlight'[n] = inFlight[n],
           \A m \in MessageIds : outcome[m] = "answered" => outcome'[m] = "answered"
    PROVE  /\ ContainerTypes' /\ ElementsArrived' /\ TogglesInTurn'
           /\ DOMAIN container' = DOMAIN container
           /\ \A id \in DOMAIN container : container'[id].room = container[id].room
<1> DEFINE heard(id) == TogglesOf(id) \cap responses
<1>1. SessionTypes /\ ContainerTypes
  BY Types DEF IInv
<1>2. /\ DOMAIN container' = DOMAIN container
      /\ \A id \in DOMAIN container : container'[id] = After(id, heard(id))
  OBVIOUS
<1>3. \A id \in DOMAIN container : heard(id) \subseteq TogglesOf(id)
  OBVIOUS
<1>4. \A id : TogglesOf(id)' = TogglesOf(id) \ heard(id)
  BY DEF TogglesOf
<1> HIDE DEF heard
<1>5. \A id \in DOMAIN container :
        /\ container'[id] \in ElementType
        /\ container'[id].room = container[id].room
        /\ heard(id) = {} => container'[id] = container[id]
        /\ heard(id) # {} =>
            ~container'[id].active /\ heard(id) = TogglesOf(id)
  BY <1>2, <1>3, AfterKeeps
<1>6. ContainerTypes'
  BY <1>1, <1>2, <1>5 DEF ContainerTypes, ElementType
<1>7. ElementsArrived'
  <2>1. \A id \in DOMAIN container : id[1] \in MessageIds
    BY <1>1 DEF ContainerTypes
  <2>2. ASSUME NEW n \in Toggles'
        PROVE  outcome'[inFlight'[n].element[1]] = "answered"
    <3>1. n \in Toggles /\ inFlight'[n] = inFlight[n] /\ n \in DOMAIN inFlight
      BY <2>2 DEF Toggles
    <3>2. inFlight[n].element \in MessageIds \X Nat
      BY <1>1, <3>1, KindsInFlight
    <3>3. inFlight[n].element[1] \in MessageIds
      BY <3>2
    <3> QED
      BY <3>1, <3>3 DEF IInv, ElementsArrived
  <2> QED
    BY <1>2, <2>1, <2>2 DEF IInv, ElementsArrived
<1>8. TogglesInTurn'
  <2>1. ASSUME NEW id \in DOMAIN container'
        PROVE  container'[id].active <=> TogglesOf(id)' # {}
    <3>1. CASE heard(id) = {}
      BY <1>2, <1>4, <1>5, <2>1, <3>1 DEF IInv, TogglesInTurn
    <3>2. CASE heard(id) # {}
      BY <1>2, <1>4, <1>5, <2>1, <3>2
    <3> QED
      BY <3>1, <3>2
  <2>2. ASSUME NEW m \in Toggles', NEW n \in Toggles',
               inFlight'[m].element = inFlight'[n].element
        PROVE  m = n
    BY <2>2 DEF IInv, TogglesInTurn
  <2> QED
    BY <2>1, <2>2 DEF TogglesInTurn
<1> QED
  BY <1>2, <1>5, <1>6, <1>7, <1>8

LEMMA ToggledKeeps ==
    ASSUME IInv, NEW n \in DOMAIN inFlight, Toggled(n)
    PROVE  IInv'
<1>1. /\ Response(n, "philips-hue-power")
      /\ container' = [id \in DOMAIN container |->
                            After(id, TogglesOf(id) \cap {n})]
      /\ UNCHANGED <<environment, room, next, notConnected, selectRoom, error,
                     interface>>
      /\ UNCHANGED <<disconnects, manuals, toggles, reloads>>
  BY DEF Toggled, dialogVars, counters
<1>2. SessionTypes /\ PanelTypes /\ CounterTypes
  BY Types DEF IInv
<1>3. SessionTypes' /\ SentInOrder' /\ Arrived(n)
  BY <1>1, ResponseKeeps DEF IInv
<1>4. n \in Toggles
  BY <1>1 DEF Response, Toggles
<1>5. ~AsksRooms(n) /\ ~AsksServices(n)
  BY <1>2, <1>4, KindsInFlight
<1>6. /\ Toggles' = Toggles \ {n}
      /\ DOMAIN inFlight' = DOMAIN inFlight \ {n}
      /\ \A m \in DOMAIN inFlight' : inFlight'[m] = inFlight[m]
      /\ \A m \in MessageIds : outcome[m] = "answered" => outcome'[m] = "answered"
      /\ online /\ online'
  BY <1>3, KindsArrived DEF Arrived
<1>7. \A m \in Toggles' : inFlight'[m] = inFlight[m]
  BY <1>6 DEF Toggles
<1>8. /\ ContainerTypes' /\ ElementsArrived' /\ TogglesInTurn'
      /\ DOMAIN container' = DOMAIN container
      /\ \A id \in DOMAIN container : container'[id].room = container[id].room
  BY <1>1, <1>6, <1>7, ElementsGoOn
<1>9. PanelTypes' /\ CounterTypes'
  BY <1>1, <1>2 DEF PanelTypes, CounterTypes
<1>10. DialogTells' /\ RoomForServices' /\ OthersReplaced' /\ SomethingShown'
  <2>1. notConnected # "shown"
    BY <1>5 DEF IInv, DialogTells
  <2>2. OfEnvironment' = OfEnvironment
    BY <1>4, <1>6 DEF OfEnvironment
  <2>3. UNCHANGED <<online, room, next, notConnected, selectRoom, error, interface>>
    <3>1. online' = online
      BY <1>2, <1>3, <1>6 DEF SessionTypes
    <3> QED
      BY <1>1, <3>1
  <2>4. /\ \A m \in DOMAIN inFlight :
            AsksRooms(m) \/ AsksServices(m) =>
                m \in DOMAIN inFlight' /\ inFlight'[m] = inFlight[m]
        /\ \A m \in DOMAIN inFlight' :
            AsksServices(m)' => m \in DOMAIN inFlight /\ inFlight'[m] = inFlight[m]
    BY <1>5, <1>6
  <2> QED
    BY <1>8, <2>1, <2>2, <2>3, <2>4, RoomsStay
<1> QED
  BY <1>3, <1>8, <1>9, <1>10, TypesNext DEF IInv

\* Without a connection, nothing has a response.
LEMMA GiveUpKeeps == ASSUME IInv, GiveUp PROVE IInv'
<1>1. /\ ~online /\ online' = online
      /\ outcome' = [m \in MessageIds |-> IF outcome[m] = "pending"
                                          THEN "abandoned" ELSE outcome[m]]
      /\ inFlight' = Nothing
      /\ container' = [id \in DOMAIN container |-> After(id, TogglesOf(id))]
      /\ UNCHANGED <<environment, room, next, notConnected, selectRoom, error,
                     interface>>
      /\ UNCHANGED <<disconnects, manuals, toggles, reloads>>
  BY DEF GiveUp, Connection!GiveUp, dialogVars, counters
<1>2. SessionTypes /\ PanelTypes /\ CounterTypes
  BY Types DEF IInv
<1>3. DOMAIN inFlight' = {}
  BY <1>1 DEF Nothing
<1>4. /\ outcome' \in [MessageIds ->
                        {"unsent", "pending", "answered", "abandoned"}]
      /\ \A m \in MessageIds :
            /\ outcome'[m] # "pending"
            /\ outcome'[m] = "unsent" <=> outcome[m] = "unsent"
            /\ outcome[m] = "answered" => outcome'[m] = "answered"
  BY <1>1, <1>2 DEF SessionTypes
<1>5. SessionTypes'
  <2>1. online' \in BOOLEAN
    BY <1>1, <1>2 DEF SessionTypes
  <2>2. DOMAIN inFlight' = {m \in MessageIds : outcome'[m] = "pending"}
    BY <1>3, <1>4
  <2>3. \A m \in DOMAIN inFlight' : inFlight'[m] \in Request
    BY <1>3
  <2> QED
    BY <1>4, <2>1, <2>2, <2>3 DEF SessionTypes
<1>6. SentInOrder'
  BY <1>4 DEF IInv, SentInOrder
<1>7. Toggles' = {}
  BY <1>3 DEF Toggles
<1>8. ContainerTypes' /\ ElementsArrived' /\ TogglesInTurn'
      /\ DOMAIN container' = DOMAIN container
  <2>1. \A id : TogglesOf(id) \cap Toggles = TogglesOf(id)
    BY DEF TogglesOf
  <2>2. container' = [id \in DOMAIN container |->
                        After(id, TogglesOf(id) \cap Toggles)]
    BY <1>1, <2>1
  <2> QED
    BY <1>4, <1>7, <2>2, ElementsGoOn
<1>9. PanelTypes' /\ CounterTypes'
  BY <1>1, <1>2 DEF PanelTypes, CounterTypes
<1>10. DialogTells' /\ RoomForServices'
  BY <1>1, <1>3, <1>8 DEF IInv, DialogTells, RoomForServices
<1>11. OthersReplaced' /\ SomethingShown'
  BY <1>1, <1>3 DEF OthersReplaced, Settling, SomethingShown, AsksServices
<1> QED
  BY <1>5, <1>6, <1>8, <1>9, <1>10, <1>11, TypesNext DEF IInv

-----------------------------------------------------------------------------
LEMMA InitKeeps == ASSUME Init PROVE IInv
<1>1. /\ online = FALSE /\ outcome = [m \in MessageIds |-> "unsent"]
      /\ DOMAIN inFlight = {} /\ DOMAIN container = {}
      /\ environment \in Environments /\ room = NoRoom /\ next = "nothing"
      /\ notConnected = "shown"
      /\ selectRoom = [open |-> FALSE, rooms |-> {}]
      /\ error = FALSE /\ interface = FALSE
      /\ disconnects = 0 /\ manuals = 0 /\ toggles = 0 /\ reloads = 0
  BY DEF Init, Connection!Init, Nothing
<1>2. SessionTypes
  BY <1>1 DEF SessionTypes
<1>3. PanelTypes /\ ContainerTypes
  BY <1>1 DEF PanelTypes, ContainerTypes
<1>4. CounterTypes
  BY <1>1, ControllerAssumption DEF CounterTypes
<1>5. SentInOrder /\ DialogTells /\ RoomForServices
  BY <1>1 DEF SentInOrder, DialogTells, RoomForServices
<1>6. OthersReplaced /\ SomethingShown
  BY <1>1 DEF OthersReplaced, AsksServices, SomethingShown
<1>7. ElementsArrived /\ TogglesInTurn
  BY <1>1 DEF ElementsArrived, TogglesInTurn, Toggles
<1> QED
  BY <1>2, <1>3, <1>4, <1>5, <1>6, <1>7, Types DEF IInv

LEMMA NextKeeps == ASSUME IInv, [Next]_vars PROVE IInv'
<1>1. CASE Reload \/ UNCHANGED vars
  BY <1>1, ReloadKeeps
<1>2. CASE Connected
  BY <1>2, ConnectedKeeps
<1>3. CASE OnConnected
  BY <1>3, OnConnectedKeeps
<1>4. CASE OnDisconnected
  BY <1>4, OnDisconnectedKeeps
<1>5. CASE GiveUp
  BY <1>5, GiveUpKeeps
<1>6. CASE PressConfiguration
  BY <1>6, PressConfigurationKeeps
<1>7. CASE RequestServices
  BY <1>7, RequestServicesKeeps
<1>8. ASSUME NEW selected \in Rooms, SelectRoom(selected) PROVE IInv'
  BY <1>8, SelectRoomKeeps
<1>9. ASSUME NEW id \in DOMAIN container, Toggle(id) PROVE IInv'
  BY <1>9, ToggleKeeps
<1>10. ASSUME NEW n \in DOMAIN inFlight, Continue(n) PROVE IInv'
  BY <1>10, ShowRoomsKeeps, ShowServicesKeeps, ToggledKeeps DEF Continue
<1> QED
  BY <1>1, <1>2, <1>3, <1>4, <1>5, <1>6, <1>7, <1>8, <1>9, <1>10 DEF Next

\* Whatever displayConfiguration() and toggle() are awaiting when connections
\* come and go, the panel's dialogs, requests and elements fit together.
THEOREM PanelInductive == Spec => []IInv
<1>1. Init => IInv
  BY InitKeeps
<1>2. IInv /\ [Next]_vars => IInv'
  BY NextKeeps
<1> QED
  BY <1>1, <1>2, PTL DEF Spec

\* The panel's state is what its dialogs, requests and elements can be.
THEOREM PanelTypeCorrect == Spec => []TypeOK
<1>1. IInv => TypeOK
  BY DEF IInv
<1> QED
  BY <1>1, PanelInductive, PTL

\* What can be pressed sends its message over a connection that is there:
\* send() never throws in the face of the user.
THEOREM PressesAreSent == Spec => []PressedOnlyOnline
<1>1. IInv => PressedOnlyOnline
  <2> SUFFICES ASSUME IInv PROVE PressedOnlyOnline
    OBVIOUS
  <2>1. notConnected \in {"shown", "modal", "closed"}
    BY Types DEF IInv, PanelTypes
  <2> QED
    BY <2>1 DEF IInv, DialogTells, PressedOnlyOnline
<1> QED
  BY <1>1, PanelInductive, PTL

\* The elements on display when all is quiet are those of the panel's room,
\* although services of another room may have arrived in between.
THEOREM PanelShowsItsRoom == Spec => []ShowsItsRoom
<1>1. IInv => ShowsItsRoom
  <2> SUFFICES ASSUME IInv, online, Quiet, OfEnvironment = {}, ~selectRoom.open,
                      NEW id \in DOMAIN container
               PROVE  container[id].room = room
    BY DEF ShowsItsRoom
  <2>1. SessionTypes
    BY Types DEF IInv
  <2>2. \A m \in DOMAIN inFlight : ~AsksRooms(m) /\ ~AsksServices(m)
    BY <2>1, KindsInFlight
  <2>3. ~Settling(0)
    BY <2>2 DEF Settling, Quiet
  <2> QED
    BY <2>3 DEF IInv, OthersReplaced
<1> QED
  BY <1>1, PanelInductive, PTL

\* As long as the hub's configurations have rooms, so has the list that is open.
LEMMA ListKeeps == ASSUME HasRooms, ListFull, [Next]_vars PROVE ListFull'
<1>1. CASE UNCHANGED selectRoom
  BY <1>1 DEF ListFull
<1>2. ASSUME NEW selected, SelectRoom(selected) PROVE ListFull'
  BY <1>2 DEF SelectRoom, ListFull
<1>3. ASSUME NEW n, ShowRooms(n) PROVE ListFull'
  <2>1. CASE KeepsRoom(n)
    BY <1>1, <1>3, <2>1 DEF ShowRooms
  <2>2. CASE ~KeepsRoom(n)
    BY <1>3, <2>2 DEF ShowRooms, ListFull, HasRooms
  <2> QED
    BY <2>1, <2>2
<1>4. CASE Reload \/ Connected \/ OnConnected \/ OnDisconnected \/ GiveUp
  BY <1>1, <1>4 DEF Reload, Connected, OnConnected, OnDisconnected, GiveUp,
     dialogVars
<1>5. CASE PressConfiguration \/ RequestServices
  BY <1>1, <1>5 DEF PressConfiguration, RequestServices, dialogVars
<1>6. ASSUME NEW id, Toggle(id) PROVE ListFull'
  BY <1>1, <1>6 DEF Toggle, dialogVars
<1>7. ASSUME NEW n, ShowServices(n) \/ Toggled(n) PROVE ListFull'
  BY <1>1, <1>7 DEF ShowServices, Toggled, dialogVars
<1>8. CASE UNCHANGED vars
  BY <1>1, <1>8 DEF vars, dialogVars
<1> QED
  BY <1>2, <1>3, <1>4, <1>5, <1>6, <1>7, <1>8 DEF Next, Continue

\* As long as the hub's configurations have rooms, a panel that is online and
\* awaits nothing of its environment has a button, a room to select, or a page
\* to reload: whatever calls of displayConfiguration (controller.js:60-90) have
\* overlapped or were cut short with their connection.
THEOREM PanelIsUsable == Spec => NeverStranded
<1>1. Init => ListFull
  BY DEF Init, ListFull
<1>2. HasRooms /\ ListFull /\ [Next]_vars => ListFull'
  BY ListKeeps
<1>3. IInv /\ ListFull => NotStranded
  BY DEF IInv, SomethingShown, ListFull, NotStranded, Usable
<1> QED
  BY <1>1, <1>2, <1>3, PanelInductive, PTL DEF Spec, NeverStranded

\* No element has two commands under way, and it takes clicks again as soon as
\* it has none (philips_hue_bindings.js:36-47), whichever responses were lost
\* with the connection.
THEOREM OneCommandAtATime == Spec => []TogglesInTurn
<1>1. IInv => TogglesInTurn
  BY DEF IInv
<1> QED
  BY <1>1, PanelInductive, PTL
=============================================================================
