---------------------------- MODULE PanelLights -----------------------------
(***************************************************************************)
(* The panel of Controller together with the lights that its elements are  *)
(* for: what becomes of the commands it sends, and whether its elements    *)
(* show the lights as they are.  Only this panel switches lights, and none *)
(* is on to begin with, so that every difference is of its own making.     *)
(***************************************************************************)
EXTENDS Controller

VARIABLES
    lights,          \* the groups whose lights are on
    commands         \* commands[n]: what the n-th request asks of which group,
                     \* until the hub is done with it

lightsVars == <<lights, commands>>

\* The group in the options of the service that the element was made from.
GroupOf(id) == <<container[id].room, id[2]>>

LightsInit ==
    /\ Init
    /\ lights = {}
    /\ commands = Nothing

\* toggle() sends a command.
ToggleLights(id) ==
    /\ Toggle(id)
    /\ LET sent == DOMAIN inFlight' \ DOMAIN inFlight
       IN  commands' = [n \in DOMAIN commands \cup sent |->
                            IF n \in sent
                            THEN [group |-> GroupOf(id), on |-> ~container[id].on]
                            ELSE commands[n]]
    /\ UNCHANGED lights

Done(n) == commands' = Restrict(commands, DOMAIN commands \ {n})

\* update() has the bridge switch the lights of the group.
SetGroupState(n) ==
    /\ lights' = IF commands[n].on THEN lights \cup {commands[n].group}
                 ELSE lights \ {commands[n].group}
    /\ Done(n)
    /\ UNCHANGED vars

\* update() throws, which becomes an error response, or the connection was
\* lost before the command arrived.
CommandFails(n) ==
    /\ Done(n)
    /\ UNCHANGED <<vars, lights>>

\* What the panel does besides; the hub responds when it is done.
PanelProceeds ==
    /\ \/ Reload
       \/ Connected \/ OnConnected \/ OnDisconnected \/ GiveUp
       \/ PressConfiguration \/ RequestServices
       \/ \E selected \in Rooms : SelectRoom(selected)
       \/ \E n \in DOMAIN inFlight \ DOMAIN commands : Continue(n)
    /\ UNCHANGED lightsVars

LightsNext ==
    \/ PanelProceeds
    \/ \E id \in DOMAIN container : ToggleLights(id)
    \/ \E n \in DOMAIN commands : SetGroupState(n) \/ CommandFails(n)

LightsSpec == LightsInit /\ [][LightsNext]_<<vars, lightsVars>>

-----------------------------------------------------------------------------
\* philips_hue_element.js:14-19: the attributes of an element "will be kept in
\* sync by the PhilipsHueBindings", and "on" is "whether the lights are
\* currently turned on or not".  Asked here of a panel that is online and has
\* no command under way.
ElementsInSync ==
    online /\ Quiet /\ commands = Nothing /\ Toggles = {} =>
        \A id \in DOMAIN container : container[id].on <=> GroupOf(id) \in lights
=============================================================================
