# Formal models of home-control-hq

TLA+ specifications of the server (`src/`) and of the panel (`public/script/`),
the TLC runs that check them on small instances and TLAPS proofs of every
invariant that those runs check and that holds. `PROJECT.json` lists the components,
the runs, the source lines every definition stands for, the hazards of the code
and the findings. File names below are relative to the repository.

    tlc -workers 2 -config ServiceManager_control.cfg MCServiceManager.tla
    tlapm ServiceManagerProofs.tla

## 1. The system

| Component | State | Operations | Talks to |
|---|---|---|---|
| `Network`, `NetworkClient` (`src/network*.ts`) | one object per WebSocket with its observers | connection, message, close; reply; `send` | the delegate (`Server`) by a call per message, observers by callback |
| `ServiceManager` (`src/service_manager.ts`) | services, commands, subscriptions | `addService`, `dispatchCommand`, `executeRoutine`, `distribute`, `onClientDisconnected`, `validateEnvironment` | services (handlers, routines), clients (broadcasts) |
| `PhilipsHueService`, `Interface` (`src/services/...`) | cache of the bridge | `synchronize` every 60 s, `composeState`, `update`, five commands | bridge over HTTP, `distribute` |
| `Connection` (`philips_hue/connection.ts`) | the established API | `initialize`: discovery, credentials, Link button | bridge, `Database` |
| `Database` (`src/base/database.ts`) | a map and its JSON file | load, `set`, `delete`, save | file system |
| `Server`, `Environment` (`src/server.ts`, `src/environment.ts`) | rooms and their services | start-up, `reloadEnvironment`, `environment-*` commands | all of the above |
| `ControlConnection` (`public/script/control_connection.js`) | state, socket, promises, timer | `connect`, `send`, four socket events | hub over a WebSocket, controller by events |
| `Controller` (`controller.js`) | room, four dialogs and displays, bindings | `onConnected`, `onDisconnected`, `displayConfiguration`, `selectRoom` | control connection |
| `PhilipsHueBindings`, `PhilipsHueElement` | busy flag, `on` attribute | `toggle`, `onClick` | control connection |
| `Logger`, `colours.ts`, debug page, vendored lit | none that matters here | | |

Both programs are single threaded. What makes them hard is the await: a handler
that awaits the bridge or the disk gives way to every other event, one that
awaits only settled promises does not, and some of the code is right only
because of that difference. The other hard parts are state that is used after
it has gone stale (the cache, group names and ids, old promises), connections
and calls that fail half way, and the process ending between two writes.

What makes each component correct:

* Service manager: one subscription per topic; every subscriber is observed,
  and forgotten when its connection is; each broadcast reaches each subscriber
  once, after the full state; every request is answered.
* Interface: displays show what the cache holds, the cache converges on the
  bridge, the routine never dies.
* Connection and Database: what was saved stays saved, only verified
  credentials are saved, a restart finds those of the last connection.
* Control connection: one reconnection at a time, connected only after hello,
  events in turns, every promise settles.
* Server: clients are let in with an environment whose services all work; what
  they were told about keeps working whatever is reloaded; a reload never brings
  back what the file held before it.
* Controller: the room that was chosen is the one shown, however often the
  connection came and went; nothing that sends can be pressed while offline; as
  long as the hub's configurations have rooms, a connected panel that waits for
  nothing has something to press; an element takes one toggle at a time, and
  every toggle settles. (That elements also show the lights as they are is what
  their comments say and the code does not do: `Controller_lights`.)

## 2. Modules

| Module | Models | Used by |
|---|---|---|
| `TopicBroadcast` | abstract: what broadcasts promise | refined by `ServiceManager` |
| `ServiceManager` | `network.ts`, `network_client.ts`, `service_manager.ts` | `MCServiceManager`, `ServiceManagerProofs` |
| `HueInterface` | `interface.ts`, `philips_hue_service.ts`, `executeRoutine` | `MCHueInterface`, `HueInterfaceProofs` |
| `Database` | `database.ts` | `HueConnection`, `DatabaseProofs` |
| `HueConnection` | `connection.ts` on top of `Database` | `HueConnectionProofs` |
| `ControlSession` | abstract: what sessions and promises promise | refined by `ControlConnection`, composed into `Controller` |
| `ControlConnection` | `control_connection.js` | `ControlConnectionProofs` |
| `Controller` | `controller.js`, `philips_hue_bindings.js`, `philips_hue_element.js`, on `ControlSession` | `MCController`, `PanelLights`, `ControllerProofs` |
| `PanelLights` | `Controller` with the lights that its elements are for | `MCPanelLights` |
| `Server` | `server.ts`, `environment.ts`, and of `service_manager.ts` the registry and the command lookup | `MCServer`, `ServerProofs` |

**ServiceManager.** One action per event: a connection (`Connect`), a message
accepted or refused (`Receive`, `ReceiveMalformed`), a handler that settles
(`Succeed`, `Fail`, each with the subscription and the reply that follow in the
same task), the two phases of closing (`StartClosing`, `Close`) and `distribute`
(`Distribute`). `Immediate` says which commands settle without I/O;
`EventLoopIdle` keeps all other events away until they have. Between
`StartClosing` and `Close` messages still arrive but `send()` throws. Commands
are the subscribable one (`state`, with its topic), those that settle at once
(`query`) and those that do I/O (`update`); any may fail. `heard` and `replies`
record what was handed to the sockets; that no message is replied to twice is part
of `TypeOK`.

**HueInterface.** `bridge` is what the bridge holds, `cache` is
`Interface.bridge`. A synchronization is `Tick`, three `Fetch` steps in any
order with the house changing the bridge between them, then `Synchronize` or
`SynchronizeThrows`; any call may fail (`CallFails`). Commands (`Update`,
`UpdateScene`) take a group id from the cache and reach the bridge later
(`SetGroupState`). `view[n]` is what a display shows that asked for group `n`:
the reply to `philips-hue-state` and then every broadcast. Delivery is taken to
be immediate here, since `ServiceManager` shows that a broadcast reaches each
subscriber. The brightness of a group is the rounded average, as in the code;
the colour, averaged alike, is left out. The bridge holds levels of 0 to 254,
the cache percentages: `Percent` (`updateBridgeLights`) and `Step` (`update`)
both round down, so that 1% is asked for as step 2 and read back as 0%, and a
display that keeps setting what it shows goes down one per cent each time
(`AskedIsShown` says that it is never more than one). That lights which are off
stay off when their brightness is set and that step 0 counts as 1 is the
bridge's part, and marked external. `Renames` and `Reuse` say what the house may
do to groups: the properties hold or fail by that.

**Database, HueConnection.** `Start` and `FinishCreating` are the constructor
(with the moment in which a new file is empty), `Set` is `set()` up to its
await, `WriteSucceeds` and `WriteFails` settle the first of the queued writes,
`Crash` can come anywhere. `Delete` has no effect, as in the code.
`HueConnection` drives these actions through
`initialize()`, one step per await, with users that are revoked on the bridge.
Where it returns false (`GiveUp`) the service is skipped and the server goes on
without it; where it throws (a search in `DiscoveryThrows`, the first call of
`createUser` in `NoUnauthenticatedApi`) nothing catches the exception on its way
out of `Server.initialize()`, and the process ends before it has listened. These
exceptions count among the `MaxCrashes`.

**ControlConnection.** `Connect`, `Send`, and the socket's events `Open`,
`Message`, `Break` (an error, or the hub or network ending it) and `Close`.
`Greet` is the continuation of the hello promise, a microtask: `Idle` keeps
events away until it has run. `connect()` resolves old promises *before* it
sets the state to connecting, and their continuations run *after*: what keeps
the panel from taking itself for connected then is that reading the debug
values of no response throws. `Answer` is the hub. A promise that `connect()`
resolves with null is `"abandoned"`; the comment of `send()` promises an answer
from the hub, and `displayConfiguration` relies on it.

**Server.** `initialize()` is `AddService`, `SkipService` or `AddServiceThrows`
for one service after the other (which of them a service deserves is its own
affair: `HueConnection` shows it for Philips Hue), then `LoadEnvironment` and the
end of that reload. A reload is three steps: `StartReading`, `ReadFile`, which
sees the file as it is at some moment, and `Install`, `Refuse` (the reply says
that it has not succeeded) or `ValidateThrows` (the exception of a service's
`validate()` becomes an error reply, or ends the start-up), with parsing,
validation and the reply in one step since all of that runs in microtasks. The
file is edited at any time (`EditFile`), into another configuration or into
something that cannot be parsed, and carries a version so that "older" means
something; `since[r]` is the version at the time the reload, or the first of
those it overlaps with, was begun. Requests are the `Ask...` actions and
`CallCommand`, whose parameter loop is `Given`, `WellTyped` and `Complete`. A
message is the types of what it carries, and which of it JavaScript takes for
true. `service_manager.ts:114` tests `optional` in the *message*, where
`service.ts:17` declares it on the parameter: `Complete` is translated as it
stands.

**Controller.** The panel runs on the session of `ControlSession`: its actions
conjoin `Connection!GoOnline`, `Send`, `Answer`, `GoOffline` and `GiveUp` with
what the panel does in the same step. `ControlConnectionProofs` proves that
`ControlConnection` implements this session, so what holds here holds on the real
one. `displayConfiguration()` is cut at its awaits: `OnConnected` or
`PressConfiguration` send the request for the rooms, `ShowRooms` goes on with
the response and either asks for the services or opens the list, `SelectRoom` is
the click that resumes it, `ShowServices` is the rest. `next` is non-empty
between two parts of one task, and nothing else happens meanwhile (`Quiet`).
Calls overlap freely: each request remembers which call it belongs to. Requests
are numbered in the order in which they are sent (`NextIs`); a message id of
the code is as unique and says nothing about the order. The
response is computed when it arrives; that is equivalent to computing it
earlier, at any moment since the request, because the hub answers these requests
in order and without I/O (`Earliest`) and its environment may have changed just
before. `GiveUp` settles promises with null: `displayConfiguration()` throws there,
a toggle goes on. A modal dialog makes the rest of the page inert
(`Interactive`), which is the browser's doing and external. Elements are
identified by the response they were made from and their place in it, so that a
late response to a toggle of an element that was removed does not touch its
successor.

**PanelLights.** The panel of `Controller`, with the commands that its toggles
send on their way to the bridge: each is carried out (`SetGroupState`) or not
(`CommandFails`), and only then answered. Nobody else switches the lights, which
are off to begin with, so that a difference between an element and its lights is
the panel's own.

## 3. Runs

| Run | Question | Bounds |
|---|---|---|
| `ServiceManager_control` | subscriptions, closing, order of state and updates, refinement of `TopicBroadcast`, every request answered | 2 clients, 2 topics, 2 requests, 2 broadcasts a topic |
| `ServiceManager_operational` | *violated*: the process ends on a reply to a closing socket | 1 client, valid messages only |
| `HueInterface_cache` | displays follow the cache and converge on the bridge, brightness comes back as it was asked for or one lower, the routine goes on | 3 ids, 3 names, 2 lights, 1 scene, 2 changes or commands, 1 failure, renames |
| `HueInterface_renamed` | *violated*: a rename stops all updates | 2 changes |
| `HueInterface_recreated` | *violated*: a re-created group's displays stay stale | 3 changes, names reused |
| `Database_store` | nothing saved is lost, the file catches up | 2 keys, 4 values each, 3 queued writes |
| `HueConnection_credentials` | stored credentials are verified, complete, durable; initialization ends, also when steps of it throw | 3 users, 3 crashes, 5 attempts |
| `ControlConnection_session` | reconnections, hello, events, refinement of `ControlSession`, sends settle, the panel reconnects | 3 messages, 4 breaks |
| `Server_environment` | start-up with failing services, overlapping reloads of an edited file, requests of every kind, start-up ends | 2 services, 2 configurations and an unreadable one, 2 edits, 3 reloads (one at start-up), 5 messages |
| `Controller_panel` | overlapping `displayConfiguration` calls, rooms that vanish, what can be pressed when, one toggle of an element at a time | 2 rooms, 3 environments, 1 lost connection, 2 presses of the button, 3 toggles, 1 reload of the hub |
| `Controller_lights` | *violated*: after a command that failed the element shows the lights as switched | 1 toggle |
| `Controller_selecting` | *violated*: a reconnection shows the room behind an open list | 1 lost connection, 1 press |

Why the bounds are enough: the loops of the service manager treat subscriptions
and clients one by one, so two of each show every interaction, and two requests
let one client subscribe twice or two clients race for one topic; the proofs
cover the rest. A rename and a change after it show whether displays recover; a
stale group needs a removal, a creation and a synchronization between them, which
three changes allow, and the third id and name are what a new group needs.
The percentages are the ends of the range, the 1% that comes back as 0% and one
that is refused. Values of the database are numbered, so that "older" and "newer" are visible. A
break in each phase of a connection and one more after recovery need four
breaks. Two reloads that overlap, a third that has succeeded, and an edit before
and after the readings show each order in which reloads can begin, read and end;
the messages are complete, incomplete or ill-typed, with "optional" true, false
or not there. Of the panel, two presses overlap with each other and
with the call of a reconnection; two toggles overlap, if an element lets them,
and a third comes after them. No symmetry is used, since the runs check liveness too. Deadlock is
checked where the model cannot stop (`Database`); in the others a finite supply
of requests, changes, crashes or breaks runs out.

`DisplaysConverge` carries its condition in the formula: it asks for displays
that end up right in every behaviour that ends with the groups under the names
the cache has for them. `HueInterface_renamed` shows why the condition is there.
In the same way `NeverStranded` and `PanelComesBack` are about behaviours in
which the hub's environment always has a room: the instance has a configuration
without any, which does strand the panel (see below), and TLC takes all
behaviours that never get to it.

Fairness: handlers and API calls settle (the HTTP client answers or fails;
nothing in `src/` adds a timeout, so this is an assumption on the library),
timers fire, microtasks run, the hub answers (which `RequestsAnswered` shows of
the service manager), ended connections are noticed, and the process is started
again. Services settle and files are read (`Server`); handlers of the panel run to
their end, requests are answered or given up and the connection is made again
(`Controller`; `Reconnects` and `EverySendSettles` show the latter two of
`ControlConnection`). Nothing is assumed about people, about the order of events or about how
often a call fails, except that failures, changes and breaks are finite where a
property says "once the house comes to rest". Exceptions that end the process are
as finite as crashes.


### Findings

1. `network.ts:122`: a reply to a socket that began to close meanwhile rejects a
   promise nobody handles; on Node 15 and later that ends the server. The same
   holds of `distribute`.
2. `interface.ts:236`: renaming a group stops every later synchronization.
3. `interface.ts:229`: a re-created group does have subscribers.
4. `philips_hue_bindings.js:49`: the element is switched after any response, an
   error or none, so that it shows the lights as they are not, and the next press
   asks for what they are already. `philips_hue_element.js:14-19` says that `on`
   is "whether the lights are currently turned on or not" and is kept in sync.
5. `controller.js:85`: the user interface "shouldn't be visible during this
   operation" (63-64), but a list that the button has opened stays open when the
   connection is lost; the reconnection keeps the room and shows the interface
   with the list still in front of it. Selecting a room there works as usual.

Observed while modelling, without a run of their own:

* `interface.ts:256`: a command looks the group's id up by name in a cache that
  can be a minute old. When an id is used again for another group, or two groups
  exchange their names, the command reaches another group than the one that was
  named.
* `service_manager.ts:114` reads `parameters.optional`: no parameter can be
  declared optional (`service.ts:16-17`), and a message that carries a true
  `optional` may leave out parameters that are required, although such requests
  are to be refused (`service_manager.ts:101-102`); handlers then get `undefined`.
* `database.ts:51` asks a Map whether it has the key as an own property, which its
  entries are not: `delete()` never deletes. It has no caller.
* `database.ts:84`: a write that fails is only logged. The next one makes up for it
  (`FileCatchesUp`); a process that ends before has lost what was set.
* `server.ts:71`: when reloads overlap, an older reading of the file can be installed
  after a newer one. It is never older than the first of the reloads that
  overlapped (`ReloadsTakeEffect`).
* `server.ts:59`: a service that is skipped as unusable ends the start-up all the same
  when the environment names it, since the first environment is then refused
  (`phase` is "aborted"). The routines of the other services have been
  scheduled by then: on Node 14, where an unhandled rejection does not end the
  process, their timers keep alive one that synchronizes and never listens.
* `control_connection.js:55` settles promises with null, on which
  `displayConfiguration` throws; harmless, since a new call follows with every
  connection (`PanelComesBack`).
* `controller.js:148`: a configuration without rooms makes the panel show a list
  with nothing to select. It asks for the rooms again only when the connection is
  made again: until then there is no way to choose one, also when the hub has
  rooms by then. Elements that were displayed before stay where they are.
* A room that is gone leaves an empty panel with the configuration button: the
  error response has no services, which is found out when the container has been
  cleared and the button is shown again.
* A new element is off, whatever its lights are (`philips_hue_bindings.js:62` has a
  TODO), and no broadcast reaches it.

## 4. Proofs

`ServiceManagerProofs` proves, for any clients, topics, requests and bounds, that
`TypeOK`, `UniqueTopics`, `SubscribersObserved`, `NoClosedSubscriber` and
`NoUpdateBeforeState` are invariants and that `ServiceManager` implements
`TopicBroadcast`. They are not inductive by themselves. That no closed client is
subscribed needs `HandlersConnected`: a handler that can still subscribe its
client belongs to a connection that has not closed, which `Close` keeps because
it waits for an idle event loop. That state comes before updates needs
`SubscribersInformed`: whoever is subscribed on an open socket has been sent an
"ok" reply for the topic. `SubscribeEffect`, `UnsubscribeEffect` and
`RespondEffect` say once what the helpers do to the sequence of subscriptions;
`CopiesAreOne`, that a broadcast sends one message to each subscriber, is where
uniqueness meets the abstract `Publish`. The only assumption is
`ServiceManagerAssumption` on the constants.

`ControlConnectionProofs` proves `TypeOK`, `OneReconnection`,
`ConnectedMeansGreeted` and `EventsAlternate`, and that `ControlConnection`
implements `ControlSession`. The strengthening ties the socket to the state
(`SocketOfState`), lets nothing be in flight but on an open socket
(`NothingInFlight`), places an answered hello on the current socket
(`HelloAnswered`), counts breaks, and says that every pending promise is among
the responses and none is while connecting (`PendingRegistered`), which is what
makes the abstract session start with nothing pending.

`DatabaseProofs` proves `StoreTypeOK`, `NeverGoesBack` and `FileCatchesUp` for
any keys, number of values and length of the queue, provided that a key is only
ever set to later values (`SetAny`), which is what makes "going back" visible.
The invariant orders the file, the waiting writes and the memory by `Newer`
(`InOrder`) and says that the last waiting write holds the memory
(`LastSavesMemory`); every write that settles takes one step along that order.
`SetKeeps` is stated for any caller. The theorems hold of the code as it is:
`delete()` has no effect, and one that worked would need a tombstone in the
order.

`HueConnectionProofs` carries this over to the credentials: `ConnectionInv` has
the invariant of `DatabaseProofs` and says, for each step of `initialize()`, which
user and key it holds and how far they have been saved. Since the key is set
before the user and writes settle in order, no file has a user that was not
verified (`StoredUserVerified`) or has no key (`StoredUserHasKey`), wherever a
crash comes; `ConnectedIsDurable` adds that the second `set()` has settled before
`initialize()` returns. `CredentialsStaySaved` is `NeverGoesBack` for the database
as `HueConnection` drives it. Each action of `Database` has a lemma, stated for any
caller, which both proofs use.

`HueInterfaceProofs` has three parts. `AskedIsShown` holds for every percentage
and any bounds: `RoundTrip` is the arithmetic of the two floors, and the rest is
that only `UpdateBrightness` makes a command of this kind.

`ViewsFollowCache` is proved under `~Reuse`, the
condition of the run `HueInterface_cache`: `HueInterface_recreated` shows that it
fails when a name is used again. The invariant `NamesInv` says that the
bridge, what has been fetched of it and the cache agree on which group a name
stands for (`AllAgree`), that a name which displays have asked for is in the cache or is gone
for good (`AskedOrGone`), and that a group which is missing in what was fetched is
missing on the bridge (`MissingIsGone`). `GroupsChange` is its core: one group
gets a name that is new, or the one it still has in the cache.

`TypeOK` needs that an average of percentages is a percentage, for any number of
lights. The sum is a fold, a recursive function on the subsets of a set, and the
induction theorems of the library take predicates as operators, which the provers
cannot instantiate; `NatSets` is induction for a *set* of numbers instead, from the
well-foundedness of `<`. With it `SumExists` shows that there is a function as the
recursion defines it, level by level, and `SumBounded` that a sum of `n` percentages
is at most `100 * n`. The assumption is that there are finitely many lights.

`ControllerProofs` proves the four invariants of `Controller_panel` and
`NeverStranded` for any rooms, environments and bounds. These needed an idea:

* `ShowsItsRoom`. Calls overlap and their responses may bring services of a
  room that the panel has left. `OthersReplaced` says that whatever is displayed
  of another room, and every request for the services of another room, is followed
  by something that will replace it: a request with a greater number for the rooms
  or for the services of the panel's own room, an open list, a handler that is
  running, or a connection that is lost (`Settling`). Since responses come in the
  order of the requests (`Earliest`), nothing settles on the wrong room.
* `PressedOnlyOnline` and `NeverStranded` rest on `DialogTells`: the dialog
  that there is no connection is closed only while there is one, and is as
  index.html has it only until the first response. `SomethingShown` says that a
  panel at rest has its button, an error or a list open, whatever the
  configurations are. `NeverStranded` is not an invariant but an implication between two:
  `ListKeeps` shows that a step from a state with rooms keeps an open list
  full (`ListFull`), and the temporal step puts that under `[]HasRooms`.
* `TogglesInTurn`, that an element is active exactly while it has a toggle in
  flight, and then only one. `ElementsArrived` keeps a new element from being taken
  for one that was removed with a toggle under way: elements are made from
  responses that have arrived, each only once.

`ServerProofs` proves `TypeOK`, `OfferedStaysServed` and `ReloadsTakeEffect`
for any services, configurations, messages and numbers of edits
and reloads. `Registered` and `EnvironmentServed` are what "served" rests on: the
registry only grows, command names are unique, and an environment is installed
only when its services are registered. That reloads do not go back needs
`SinceInOrder`: all reloads in progress lead back to one version, none that has
ended leads to a later one, and none has read an older one; so whichever of them
comes last, what it installs is recent enough for all that have succeeded before.
The assumptions are those of `ServerAssumption`: unique command names
(`service.ts:26`), commands of the declared form, and an unreadable file being
none of the configurations.

Every inductive invariant was checked by TLC as an invariant of the instance
its run uses before it was proved.

Only model-checked: the liveness properties, which need fairness and `ENABLED`
and are out of the provers' reach (`RequestsAnswered`, `DisplaysConverge`,
`RoutineGoesOn`, `InitializationEnds`, `EverySendSettles`, `Reconnects`,
`StartupEnds`, `TogglesSettle`, `PanelComesBack`). The properties that the code
violates are shown by their runs alone.

## 5. Not modelled, and the plan

Left out: logging, HTTP file serving, colour conversion (floating point, no
state), the debug page (a developers' tool on the same connection), rendering
and vendored lit. `deleteObserver` has no caller. The two programs are not put
together in one module: `ControlConnection` has an external hub that answers what
it receives, which `RequestsAnswered` shows of the service manager, and
`Controller` computes the hub's responses from an environment that changes as
`Server` lets it.

In this order:

1. What `Database` promises, as an abstract specification: a store whose saved
   values survive a crash, with `Database` shown to implement it, by TLC and by
   proof.
2. The same for what displays are promised of the interface, from `NamesInv`.
3. That the panel uses its session only as `ControlSession` allows, as a theorem
   that puts `ControllerProofs` on top of `ControlConnectionProofs`.
4. `RequestReply`: the control connection and the service manager composed over
   a lossy channel, replacing the external hub of `ControlConnection`.
