----------------------------- MODULE Controller -----------------------------
(***************************************************************************)
(* The panel (public/script/controller.js and the Philips Hue bindings and *)
(* element): its dialogs, the configuration button, the room it is         *)
(* responsible for, and the elements by which lights are toggled.          *)
(*                                                                         *)
(* It runs on the session that ControlSession specifies and                *)
(* ControlConnection implements: Connection's actions are conjoined with   *)
(* what the panel does at the same time.  displayConfiguration() is an     *)
(* async function: each of its awaits ends an action, and calls that were  *)
(* started by a connect event or by the button can be under way together.  *)
(*                                                                         *)
(* The hub answers requests for rooms and services in the order in which   *)
(* they were sent, since it awaits no I/O for them, and out of the         *)
(* environment it has by then; commands to the bridge are answered in any  *)
(* order, and whether they succeeded makes no difference to the panel.     *)
(***************************************************************************)
EXTENDS Integers, Sequences, FiniteSetsExt, Functions

CONSTANTS
    Rooms,           \* names of rooms
    NoRoom,          \* the panel has not been assigned to a room
    Environments,    \* what the hub can be configured with: the services of
                     \* each room, "Philips Hue" or any other
    MaxDisconnects,  \* bound: how often the connection is lost
    MaxManual,       \* bound: how often the configuration button is pressed
    MaxToggles,      \* bound: how often an element is toggled
    MaxReloads       \* bound: how often the hub gets another environment

ASSUME ControllerAssumption ==
    /\ MaxDisconnects \in Nat
    /\ MaxManual \in Nat
    /\ MaxToggles \in Nat
    /\ MaxReloads \in Nat
    /\ NoRoom \notin Rooms
    /\ \A e \in Environments :
        DOMAIN e \subseteq Rooms /\ \A r \in DOMAIN e : e[r] \in Seq(STRING)

\* The ids of the panel's requests: each connection and each press of the
\* button makes for two of them.
MessageIds == 1 .. 2 * (MaxDisconnects + 1 + MaxManual) + MaxToggles

VARIABLES
    online,          \* ControlConnection.available
    outcome,         \* outcome[m]: what became of the request with id m
    inFlight,        \* inFlight[n]: the n-th request, while its response
                     \* is awaited
    environment,     \* the hub's environment
    room,            \* Controller.room
    next,            \* what a running handler is still to send, if anything
    notConnected,    \* the dialog: shown by index.html, by showModal(), or not
    selectRoom,      \* the dialog, with the rooms in its list
    error,           \* the fatal error dialog is open
    interface,       \* the configuration button is displayed
    container,       \* the elements that are displayed, by the response
                     \* they were made from and their place in it
    disconnects, manuals, toggles, reloads   \* counters

sessionVars == <<online, outcome, inFlight>>
dialogVars == <<notConnected, selectRoom, error, interface>>
counters == <<disconnects, manuals, toggles, reloads>>
vars == <<sessionVars, environment, room, next, dialogVars, container,
          counters>>

Connection == INSTANCE ControlSession WITH Messages <- MessageIds

-----------------------------------------------------------------------------
\* The requests in flight for rooms and services, and those to the bridge.
Toggles == {n \in DOMAIN inFlight : inFlight[n].command = "philips-hue-power"}
OfEnvironment == DOMAIN inFlight \ Toggles

Earliest(n) == \A other \in OfEnvironment : n <= other

\* Requests are numbered in the order in which they are sent.
NextIs(n) ==
    /\ n \in MessageIds
    /\ outcome[n] = "unsent"
    /\ \A m \in MessageIds : outcome[m] = "unsent" => n <= m

\* No handler is running.
Quiet == next = "nothing"

\* Everything outside of a modal dialog is inert.
Interactive == Quiet /\ notConnected # "modal"

Nothing == [id \in {} |-> id]

Init ==
    /\ Connection!Init
    /\ inFlight = Nothing
    /\ environment \in Environments
    /\ room = NoRoom
    /\ next = "nothing"
    /\ notConnected = "shown"
    /\ selectRoom = [open |-> FALSE, rooms |-> {}]
    /\ error = FALSE
    /\ interface = FALSE
    /\ container = Nothing
    /\ disconnects = 0
    /\ manuals = 0
    /\ toggles = 0
    /\ reloads = 0

\* send(), which throws unless the session is online.
Send(request) ==
    /\ online
    /\ \E n \in MessageIds :
        /\ NextIs(n)
        /\ Connection!Send(n)
        /\ inFlight' = [m \in DOMAIN inFlight \cup {n} |->
                            IF m = n THEN request ELSE inFlight[m]]

AskRooms(manual) == Send([command |-> "environment-rooms", manual |-> manual])

AskServices(name) == Send([command |-> "environment-services", room |-> name])

\* The response to the n-th request arrives.
Response(n, command) ==
    /\ Quiet
    /\ inFlight[n].command = command
    /\ Connection!Answer(n)
    /\ inFlight' = Restrict(inFlight, DOMAIN inFlight \ {n})

-----------------------------------------------------------------------------
\* The hub reloads its environment.
Reload ==
    /\ reloads < MaxReloads
    /\ environment' \in Environments \ {environment}
    /\ reloads' = reloads + 1
    /\ UNCHANGED <<sessionVars, room, next, dialogVars, container, disconnects,
                   manuals, toggles>>

\* The connection has been established: onConnected() is called, and asks for
\* the rooms right away.
Connected ==
    /\ Quiet
    /\ Connection!GoOnline
    /\ next' = "rooms"
    /\ UNCHANGED <<inFlight, environment, room, dialogVars, container, counters>>

\* Mutant: a panel that has a room does not ask for the rooms again.
OnFirstConnected ==
    /\ next = "rooms"
    /\ next' = "nothing"
    /\ IF room = NoRoom THEN AskRooms(FALSE) ELSE UNCHANGED sessionVars
    /\ UNCHANGED <<environment, room, dialogVars, container, counters>>

OnConnected ==
    /\ next = "rooms"
    /\ next' = "nothing"
    /\ AskRooms(FALSE)
    /\ UNCHANGED <<environment, room, dialogVars, container, counters>>

\* Mutant: the dialog is shown without being modal.
OnDisconnectedShow ==
    /\ Quiet
    /\ disconnects < MaxDisconnects
    /\ Connection!GoOffline
    /\ disconnects' = disconnects + 1
    /\ interface' = FALSE
    /\ notConnected' = IF notConnected = "closed" THEN "shown" ELSE notConnected
    /\ UNCHANGED <<inFlight, environment, room, next, selectRoom, error,
                   container, manuals, toggles, reloads>>

\* onDisconnected(): showModal() throws when the dialog is open in the way
\* index.html has it, and has no effect when it is modal already.
OnDisconnected ==
    /\ Quiet
    /\ disconnects < MaxDisconnects
    /\ Connection!GoOffline
    /\ disconnects' = disconnects + 1
    /\ interface' = FALSE
    /\ notConnected' = IF notConnected = "closed" THEN "modal" ELSE notConnected
    /\ UNCHANGED <<inFlight, environment, room, next, selectRoom, error,
                   container, manuals, toggles, reloads>>

-----------------------------------------------------------------------------
\* The configuration button, displayConfiguration(true).
PressConfiguration ==
    /\ Interactive
    /\ interface
    /\ manuals < MaxManual
    /\ manuals' = manuals + 1
    /\ AskRooms(TRUE)
    /\ UNCHANGED <<environment, room, next, dialogVars, container, disconnects,
                   toggles, reloads>>

\* Mutant of KeepsRoom: the room is not looked for among those there are.
KeepsRoomUnlessManual(n) == ~inFlight[n].manual

\* The panel keeps its room if there is still such a room.
KeepsRoom(n) == room \in DOMAIN environment /\ ~inFlight[n].manual

\* displayConfiguration() goes on with the rooms: it asks for the services of
\* the room, or lets the user select one.  selectRoom() empties the list of
\* the dialog: an earlier call that waits for a selection never goes on.
ShowRooms(n) ==
    /\ Response(n, "environment-rooms")
    /\ Earliest(n)
    /\ notConnected' = "closed"
    /\ interface' = FALSE
    /\ next' = IF KeepsRoom(n) THEN "services" ELSE "nothing"
    /\ selectRoom' = IF KeepsRoom(n) THEN selectRoom
                     ELSE [open |-> TRUE, rooms |-> DOMAIN environment]
    /\ UNCHANGED <<environment, room, error, container, counters>>

RequestServices ==
    /\ next = "services"
    /\ next' = "nothing"
    /\ AskServices(room)
    /\ UNCHANGED <<environment, room, dialogVars, container, counters>>

\* A room is selected in the dialog.
SelectRoom(selected) ==
    /\ Interactive
    /\ selectRoom.open
    /\ selected \in selectRoom.rooms
    /\ selectRoom' = [open |-> FALSE, rooms |-> {}]
    /\ room' = selected
    /\ AskServices(selected)
    /\ UNCHANGED <<environment, next, notConnected, error, interface, container,
                   counters>>

\* A new element is off, whatever the lights are.
Element(name) == [room |-> name, on |-> FALSE, active |-> FALSE]

Recognised(services) ==
    {place \in DOMAIN services : services[place] = "Philips Hue"}

Elements(n, services) ==
    [id \in {n} \X Recognised(services) |-> Element(inFlight[n].room)]

Served(name) == IF name \in DOMAIN environment THEN environment[name] ELSE <<>>

\* Mutant: what was displayed before is not removed.
ShowServicesToo(n) ==
    /\ Response(n, "environment-services")
    /\ Earliest(n)
    /\ LET new == Elements(n, Served(inFlight[n].room))
       IN  container' =
            [id \in DOMAIN container \cup DOMAIN new |->
                IF id \in DOMAIN new THEN new[id] ELSE container[id]]
    /\ interface' = TRUE
    /\ UNCHANGED <<environment, room, next, notConnected, selectRoom, error,
                   counters>>

\* displayConfiguration() goes on with the services.  When the room is gone
\* the response is an error, which is found out when the display is empty.
ShowServices(n) ==
    LET services == Served(inFlight[n].room)
        unrecognised == Recognised(services) # DOMAIN services
    IN  /\ Response(n, "environment-services")
        /\ Earliest(n)
        /\ container' = Elements(n, services)
        /\ interface' = ~unrecognised
        /\ error' = (error \/ unrecognised)
        /\ UNCHANGED <<environment, room, next, notConnected, selectRoom,
                       counters>>

-----------------------------------------------------------------------------
AskPower(id) ==
    Send([command |-> "philips-hue-power", element |-> id,
          on |-> ~container[id].on])

Activated(element) == [element EXCEPT !.active = TRUE]

\* Mutant: an element that is active is toggled as well.
ToggleActive(id) ==
    /\ Interactive
    /\ toggles < MaxToggles
    /\ toggles' = toggles + 1
    /\ AskPower(id)
    /\ container' = [container EXCEPT ![id] = Activated(@)]
    /\ UNCHANGED <<environment, room, next, dialogVars, disconnects, manuals,
                   reloads>>

\* A click on an element, and PhilipsHueBindings.toggle().
Toggle(id) ==
    /\ Interactive
    /\ toggles < MaxToggles
    /\ toggles' = toggles + 1
    /\ ~container[id].active
    /\ AskPower(id)
    /\ container' = [container EXCEPT ![id] = Activated(@)]
    /\ UNCHANGED <<environment, room, next, dialogVars, disconnects, manuals,
                   reloads>>

TogglesOf(id) == {n \in Toggles : inFlight[n].element = id}

\* toggle() goes on after any kind of response, and after several in the order
\* of their requests.
After(id, responses) ==
    IF responses = {} THEN container[id]
    ELSE [container[id] EXCEPT !.active = FALSE,
                               !.on = inFlight[Max(responses)].on]

Toggled(n) ==
    /\ Response(n, "philips-hue-power")
    /\ container' =
        [id \in DOMAIN container |-> After(id, TogglesOf(id) \cap {n})]
    /\ UNCHANGED <<environment, room, next, dialogVars, counters>>

\* Mutant: toggle() reads a property of the response that it does not have.
GiveUpThrows ==
    /\ Quiet
    /\ Connection!GiveUp
    /\ inFlight' = Nothing
    /\ UNCHANGED <<environment, room, next, dialogVars, container, counters>>

\* The requests that are pending when connect() is called have no response:
\* displayConfiguration() throws, toggle() goes on.
GiveUp ==
    /\ Quiet
    /\ Connection!GiveUp
    /\ inFlight' = Nothing
    /\ container' = [id \in DOMAIN container |-> After(id, TogglesOf(id))]
    /\ UNCHANGED <<environment, room, next, dialogVars, counters>>

-----------------------------------------------------------------------------
\* A response arrives, and what awaits it goes on.
Continue(n) == ShowRooms(n) \/ ShowServices(n) \/ Toggled(n)

Next ==
    \/ Reload
    \/ Connected \/ OnConnected \/ OnDisconnected \/ GiveUp
    \/ PressConfiguration \/ RequestServices
    \/ \E selected \in Rooms : SelectRoom(selected)
    \/ \E id \in DOMAIN container : Toggle(id)
    \/ \E n \in DOMAIN inFlight : Continue(n)

Spec == Init /\ [][Next]_vars

\* Handlers run to their end, the connection is made again, and each request
\* is answered or given up: what ControlConnection's Reconnects and
\* EverySendSettles say.  Nothing makes a user press anything.
FairSpec ==
    /\ Spec
    /\ WF_vars(Connected) /\ WF_vars(OnConnected) /\ WF_vars(RequestServices)
    /\ WF_vars(GiveUp)
    /\ \A n \in MessageIds :
        WF_vars(n \in DOMAIN inFlight /\ Continue(n))

-----------------------------------------------------------------------------
Request ==
    [command : {"environment-rooms"}, manual : BOOLEAN]
    \cup [command : {"environment-services"}, room : Rooms]
    \cup [command : {"philips-hue-power"}, element : MessageIds \X Nat,
           on : BOOLEAN]

TypeOK ==
    /\ online \in BOOLEAN
    /\ outcome \in [MessageIds ->
                        {"unsent", "pending", "answered", "abandoned"}]
    /\ DOMAIN inFlight = {n \in MessageIds : outcome[n] = "pending"}
    /\ \A n \in DOMAIN inFlight : inFlight[n] \in Request
    /\ environment \in Environments
    /\ room \in Rooms \cup {NoRoom}
    /\ next \in {"nothing", "rooms", "services"}
    /\ notConnected \in {"shown", "modal", "closed"}
    /\ selectRoom \in [open : BOOLEAN, rooms : SUBSET Rooms]
    /\ error \in BOOLEAN
    /\ interface \in BOOLEAN
    /\ DOMAIN container \subseteq MessageIds \X Nat
    /\ \A id \in DOMAIN container :
        container[id] \in [room : Rooms, on : BOOLEAN, active : BOOLEAN]
    /\ disconnects \in 0 .. MaxDisconnects
    /\ manuals \in 0 .. MaxManual
    /\ toggles \in 0 .. MaxToggles
    /\ reloads \in 0 .. MaxReloads

\* Nothing that a user can press sends a message when the connection is lost,
\* which would throw: the button, the list of rooms and the elements can only
\* be reached while it is established.
PressedOnlyOnline ==
    notConnected # "modal"
        /\ (interface \/ selectRoom.open \/ DOMAIN container # {})
        => online

\* When the panel has come to rest, the elements on display are those of the
\* room it is responsible for, however its requests have overlapped.
ShowsItsRoom ==
    online /\ Quiet /\ OfEnvironment = {} /\ ~selectRoom.open =>
        \A id \in DOMAIN container : container[id].room = room

\* The hub is configured with some room.
HasRooms == DOMAIN environment # {}

\* There is something to press that goes on: the configuration button, a room in
\* the list, or the button that reloads the page after a fatal error.
Usable == interface \/ error \/ (selectRoom.open /\ selectRoom.rooms # {})

NotStranded ==
    online /\ Quiet /\ OfEnvironment = {} => notConnected = "closed" /\ Usable

\* As long as the hub's configurations have rooms, a connected panel that waits
\* for nothing can be used.  Without rooms the list it opens has none to select,
\* and the button does not come back until the connection is made again.
NeverStranded == []HasRooms => []NotStranded

\* An element is active exactly while its one command is awaited: a click never
\* sends a second one, whose answer could come before the first and leave the
\* lights as they were before, and none is suspended without a command in
\* flight, when connections are lost or displays are made anew in between.
TogglesInTurn ==
    /\ \A m, n \in Toggles : inFlight[m].element = inFlight[n].element => m = n
    /\ \A id \in DOMAIN container : container[id].active <=> TogglesOf(id) # {}

\* An element that is active takes another command sooner or later, with or
\* without a response.
TogglesSettle ==
    (\E id \in DOMAIN container : container[id].active)
        ~> (\A id \in DOMAIN container : ~container[id].active)

\* Once the connection holds, the panel can be used for good, as long as the
\* hub's configurations have rooms.
PanelComesBack == []HasRooms => <>[](notConnected = "closed" /\ Usable)

\* controller.js:63-64, of displayConfiguration() up to the selection of a
\* room: the user interface "shouldn't be visible during this operation".
HiddenWhileSelecting == ~(selectRoom.open /\ interface)
=============================================================================
