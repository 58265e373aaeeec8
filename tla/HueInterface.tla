---------------------------- MODULE HueInterface ----------------------------
(***************************************************************************)
(* The Philips Hue service's view of the bridge: the cache that Interface  *)
(* (src/services/philips_hue/interface.ts) keeps of its groups, lights and *)
(* scenes, the routine that synchronizes it (executeRoutine of the service *)
(* manager and updateState of src/services/philips_hue_service.ts), and    *)
(* the commands that read the cache and act on the bridge.                 *)
(*                                                                         *)
(* The bridge belongs to the house: people switch lights and edit groups   *)
(* with other apps at any time, also between the three API calls that one  *)
(* synchronization consists of.                                            *)
(*                                                                         *)
(* The state of a group keeps its power, its average brightness and its    *)
(* scenes.  The colour, which is averaged in the same way, is left out.    *)
(* The bridge has 254 steps of brightness, everybody else a percentage.    *)
(***************************************************************************)
EXTENDS Naturals, FiniteSets, FiniteSetsExt, Functions

CONSTANTS
    Groups,          \* group ids
    Names,           \* names of groups, unique on the bridge
    Lights,          \* light ids
    Scenes,          \* scene ids, standing for their names too
    Levels,          \* steps that lights are switched to, 0 being off
    Percentages,     \* that displays ask for
    InitialBridges,  \* what the bridge may hold when the server starts
    Renames,         \* groups can be renamed
    Reuse,           \* a group can get the name or the id of an earlier one
    MaxChanges,      \* bound: changes made to the bridge
    MaxFailures      \* bound: API calls that fail

VARIABLES
    bridge,          \* what the bridge holds
    cache,           \* Interface.bridge
    fetched,         \* the results of the API calls of updateBridge so far
    pending,         \* the API calls of updateBridge that are under way
    phase,           \* of the routine that synchronizes
    commands,        \* the calls of setGroupState that are under way
    view,            \* view[n]: what a display that subscribed to n shows
    changes,         \* made to the bridge so far
    failures         \* of API calls so far

vars == <<bridge, cache, fetched, pending, phase, commands, view, changes,
          failures>>

-----------------------------------------------------------------------------
Partly(f, S, T) == DOMAIN f \subseteq S /\ \A x \in DOMAIN f : f[x] \in T

Level == 0 .. 254
Percentage == 0 .. 100

\* updateBridgeLights: the percentage of a step, which is rounded down.
Percent(level) == (level * 100) \div 254

\* Mutant: the bridge is taken to count in per cent too.
SameStep(percentage) == percentage

\* update: the step of a percentage, which is rounded down.
Step(percentage) == (percentage * 254) \div 100

Group == [name : Names, lights : SUBSET Lights]

\* updateBridge asks for the three parts of a bridge, each by a call.
ApiCalls == {"groups", "lights", "scenes"}

\* The lights that are reachable with their levels, 0 being off, and the
\* scenes with the id of their group.
House(b) ==
    /\ DOMAIN b = ApiCalls
    /\ Partly(b.groups, Groups, Group)
    /\ Partly(b.lights, Lights, Level)
    /\ Partly(b.scenes, Scenes, Groups)

\* The brightness of a light that is off is not looked at.
Light == [on : BOOLEAN, brightness : Percentage]

Bridge(b) ==
    /\ DOMAIN b = ApiCalls
    /\ Partly(b.groups, Groups, Group)
    /\ Partly(b.lights, Lights, Light)
    /\ Partly(b.scenes, Scenes, Groups)

State == [on : BOOLEAN, brightness : Percentage, scenes : SUBSET Scenes]

\* What setGroupState changes: the power, the brightness or the scene.
Change == [on : BOOLEAN]
            \cup [brightness : Percentage, bri : Level]
            \cup [scene : Scenes]

\* A call of setGroupState.  It has the id of a group and not its name: it acts
\* on whatever group has that id, or name, by the time that it arrives.
Command == [group : Groups, change : Change]

Nothing == [k \in {} |-> k]

kDefaultBridge == [groups |-> Nothing, lights |-> Nothing, scenes |-> Nothing]

NamesOf(b) == {b.groups[id].name : id \in DOMAIN b.groups}

UniqueNames(b) ==
    \A i, j \in DOMAIN b.groups : b.groups[i].name = b.groups[j].name => i = j

ASSUME HueInterfaceAssumption ==
    /\ IsFiniteSet(Lights)
    /\ Levels \subseteq Level
    /\ Percentages \subseteq Nat
    /\ MaxChanges \in Nat
    /\ MaxFailures \in Nat
    /\ Renames \in BOOLEAN
    /\ Reuse \in BOOLEAN
    /\ \A b \in InitialBridges : House(b) /\ UniqueNames(b)

\* Function f with v at k, as Map.set() does.
Put(f, k, v) == [x \in DOMAIN f \cup {k} |-> IF x = k THEN v ELSE f[x]]

-----------------------------------------------------------------------------
\* findGroupIdOrThrow, for a name that is known to b.
FindGroupId(n, b) == CHOOSE id \in DOMAIN b.groups : b.groups[id].name = n

\* The lights of the group that are reachable and on.
Lit(id, b) ==
    {l \in b.groups[id].lights : l \in DOMAIN b.lights /\ b.lights[l].on}

\* Mutant: the sum is not divided.
Total(id, b) == MapThenSumSet(LAMBDA l : b.lights[l].brightness, Lit(id, b))

Brightness(id, b) ==
    IF Lit(id, b) = {} THEN 0
    ELSE MapThenSumSet(LAMBDA l : b.lights[l].brightness, Lit(id, b))
            \div Cardinality(Lit(id, b))

ComposeState(n, b) ==
    LET id == FindGroupId(n, b)
    IN [on |-> Lit(id, b) # {},
        brightness |-> Brightness(id, b),
        scenes |-> {s \in DOMAIN b.scenes : b.scenes[s] = id}]

\* What updateBridge makes of the lights and of the rest of the bridge.
LightAt(level) ==
    [on |-> level > 0, brightness |-> IF level > 0 THEN Percent(level) ELSE 0]

Read(house) ==
    [house EXCEPT !.lights = [l \in DOMAIN @ |-> LightAt(@[l])]]

-----------------------------------------------------------------------------
\* Service.initialize has called synchronize for the first time.
Init ==
    /\ bridge \in InitialBridges
    /\ cache = kDefaultBridge
    /\ fetched = kDefaultBridge
    /\ pending = ApiCalls
    /\ phase = "starting"
    /\ commands = {}
    /\ view = Nothing
    /\ changes = 0
    /\ failures = 0

\* What other apps and the lights themselves do to the bridge.
Changes(b) ==
    /\ changes < MaxChanges
    /\ changes' = changes + 1
    /\ bridge' = b
    /\ UNCHANGED <<cache, fetched, pending, phase, commands, view, failures>>

SwitchLight(l, level) ==
    Changes([bridge EXCEPT !.lights = Put(@, l, level)])

LoseLight(l) ==
    /\ l \in DOMAIN bridge.lights
    /\ Changes([bridge EXCEPT !.lights = Restrict(@, DOMAIN @ \ {l})])

SaveScene(s, id) ==
    /\ id \in DOMAIN bridge.groups
    /\ Changes([bridge EXCEPT !.scenes = Put(@, s, id)])

\* The names and the ids that the server may have come across.
KnownNames ==
    NamesOf(cache) \cup NamesOf(fetched) \cup DOMAIN view

KnownIds == DOMAIN cache.groups \cup DOMAIN fetched.groups

CreateGroup(id, n, lights) ==
    /\ id \notin DOMAIN bridge.groups
    /\ n \notin NamesOf(bridge)
    /\ Reuse \/ (n \notin KnownNames /\ id \notin KnownIds)
    /\ Changes([bridge EXCEPT !.groups =
                    Put(@, id, [name |-> n, lights |-> lights])])

\* A group gets a new name, or the one that it had before.
RenameGroup(id, n) ==
    /\ Renames
    /\ id \in DOMAIN bridge.groups
    /\ n \notin NamesOf(bridge)
    /\ \/ Reuse \/ n \notin KnownNames
       \/ id \in DOMAIN cache.groups /\ cache.groups[id].name = n
    /\ Changes([bridge EXCEPT !.groups[id].name = n])

RemoveGroup(id) ==
    /\ id \in DOMAIN bridge.groups
    /\ Changes([bridge EXCEPT !.groups = Restrict(@, DOMAIN @ \ {id})])

BridgeChanges ==
    \/ \E l \in Lights, level \in Levels : SwitchLight(l, level)
    \/ \E l \in Lights : LoseLight(l)
    \/ \E s \in Scenes, id \in Groups : SaveScene(s, id)
    \/ \E id \in Groups, n \in Names, lights \in SUBSET Lights :
        CreateGroup(id, n, lights)
    \/ \E id \in Groups, n \in Names : RenameGroup(id, n)
    \/ \E id \in Groups : RemoveGroup(id)

-----------------------------------------------------------------------------
\* setTimeout has run executeRoutine, which runs updateState.
Tick ==
    /\ phase = "waiting"
    /\ phase' = "fetching"
    /\ pending' = ApiCalls
    /\ UNCHANGED <<bridge, cache, fetched, commands, view, changes, failures>>

\* One of the three API calls of updateBridge is answered.
Fetch(call) ==
    /\ call \in pending
    /\ pending' = pending \ {call}
    /\ fetched' = [fetched EXCEPT ![call] = Read(bridge)[call]]
    /\ UNCHANGED <<bridge, cache, phase, commands, view, changes, failures>>

\* synchronize has thrown.  executeRoutine catches it and schedules the next
\* run; in initialize nobody does, which ends the start-up of the server.
Throw ==
    /\ phase' = IF phase = "starting" THEN "stopped" ELSE "waiting"
    /\ pending' = {}
    /\ fetched' = kDefaultBridge
    /\ UNCHANGED <<bridge, cache, commands, view, changes>>

\* Mutant: executeRoutine does not schedule a routine that has failed.
CallFailsForGood(call) ==
    /\ call \in pending
    /\ failures < MaxFailures
    /\ failures' = failures + 1
    /\ phase' = "stopped"
    /\ pending' = {}
    /\ fetched' = kDefaultBridge
    /\ UNCHANGED <<bridge, cache, commands, view, changes>>

\* The first API call that fails rejects Promise.all; the results of the
\* others are not looked at any more.
CallFails(call) ==
    /\ call \in pending
    /\ failures < MaxFailures
    /\ failures' = failures + 1
    /\ Throw

Fetched == phase \in {"starting", "fetching"} /\ pending = {}

\* The groups that synchronize considers, by id.
Kept == DOMAIN cache.groups \cap DOMAIN fetched.groups

\* composeState of the fetched bridge throws.
NameMissing == \E id \in Kept : cache.groups[id].name \notin NamesOf(fetched)

\* Mutant: only the power of the group is compared.
PowerUpdates ==
    {n \in {cache.groups[id].name : id \in Kept} :
        ComposeState(n, cache).on # ComposeState(n, fetched).on}

\* The names of the groups that synchronize returns new states for.
Updates ==
    {n \in {cache.groups[id].name : id \in Kept} :
        ComposeState(n, cache) # ComposeState(n, fetched)}

\* The rest of synchronize and updateState: the states that have changed are
\* broadcast to the displays that have subscribed to them.
Synchronize ==
    /\ Fetched /\ ~NameMissing
    /\ cache' = fetched
    /\ view' = [n \in DOMAIN view |-> IF n \in Updates
                                      THEN ComposeState(n, fetched)
                                      ELSE view[n]]
    /\ fetched' = kDefaultBridge
    /\ phase' = "waiting"
    /\ UNCHANGED <<bridge, pending, commands, changes, failures>>

\* Mutant: the exception of a missing name escapes from executeRoutine.
SynchronizeThrowsForGood ==
    /\ Fetched /\ NameMissing
    /\ phase' = "stopped"
    /\ pending' = {}
    /\ fetched' = kDefaultBridge
    /\ UNCHANGED <<bridge, cache, commands, view, changes, failures>>

SynchronizeThrows ==
    /\ Fetched /\ NameMissing
    /\ Throw
    /\ UNCHANGED failures

-----------------------------------------------------------------------------
\* Commands are registered once the service has been initialized.
Serving == phase \in {"waiting", "fetching"}

\* philips-hue-state: a display asks for a group, which subscribes it.
Ask(n) ==
    /\ Serving
    /\ n \in NamesOf(cache)
    /\ view' = Put(view, n, ComposeState(n, cache))
    /\ UNCHANGED <<bridge, cache, fetched, pending, phase, commands, changes,
                   failures>>

\* update() looks the group up in the cache and calls the bridge.
Update(n, change) ==
    /\ Serving
    /\ n \in NamesOf(cache)
    /\ changes < MaxChanges
    /\ changes' = changes + 1
    /\ commands' = commands \cup
            {[group |-> FindGroupId(n, cache), change |-> change]}
    /\ UNCHANGED <<bridge, cache, fetched, pending, phase, view, failures>>

\* philips-hue-power.
UpdatePower(n, on) == Update(n, [on |-> on])

\* philips-hue-brightness, which throws unless it is given a percentage.
UpdateBrightness(n, percentage) ==
    /\ percentage \in Percentage
    /\ Update(n, [brightness |-> percentage, bri |-> Step(percentage)])

\* philips-hue-scene: the scene must be one of the group in the cache.
UpdateScene(n, s) ==
    /\ s \in DOMAIN cache.scenes
    /\ n \in NamesOf(cache)
    /\ cache.scenes[s] = FindGroupId(n, cache)
    /\ Update(n, [scene |-> s])

\* What a change makes of a light at that level.  Which level a light has
\* that is switched on, and in a scene, only the bridge knows: it is known.
\* Lights that are off keep off when their brightness is set, and the lowest
\* step is 1.
Changed(change, level, known) ==
    CASE "on" \in DOMAIN change ->
            IF ~change.on THEN 0 ELSE IF level > 0 THEN level ELSE known
      [] "bri" \in DOMAIN change ->
            IF level = 0 THEN 0 ELSE IF change.bri = 0 THEN 1 ELSE change.bri
      [] OTHER -> known

\* The bridge applies setGroupState, which it refuses for a missing group.
\* A call that gets lost has no effect either.
SetGroupState(c) ==
    /\ commands' = commands \ {c}
    /\ IF c.group \in DOMAIN bridge.groups
       THEN \E known \in Levels \ {0} :
            bridge' = [bridge EXCEPT !.lights =
                [l \in DOMAIN @ |->
                    IF l \in bridge.groups[c.group].lights
                    THEN Changed(c.change, @[l], known) ELSE @[l]]]
       ELSE UNCHANGED bridge
    /\ UNCHANGED <<cache, fetched, pending, phase, view, changes, failures>>

LoseCommand(c) ==
    /\ failures < MaxFailures
    /\ failures' = failures + 1
    /\ commands' = commands \ {c}
    /\ UNCHANGED <<bridge, cache, fetched, pending, phase, view, changes>>

-----------------------------------------------------------------------------
Routine ==
    \/ Tick
    \/ \E call \in ApiCalls : Fetch(call)
    \/ Synchronize
    \/ SynchronizeThrows

Next ==
    \/ BridgeChanges
    \/ Routine
    \/ \E call \in ApiCalls : CallFails(call)
    \/ \E n \in Names : Ask(n)
    \/ \E n \in Names, on \in BOOLEAN : UpdatePower(n, on)
    \/ \E n \in Names, percentage \in Percentages : UpdateBrightness(n, percentage)
    \/ \E n \in Names, s \in Scenes : UpdateScene(n, s)
    \/ \E c \in commands : SetGroupState(c) \/ LoseCommand(c)

Spec == Init /\ [][Next]_vars

\* Timers fire and API calls are answered.
FairSpec ==
    /\ Spec
    /\ WF_vars(Routine)
    /\ WF_vars(\E c \in commands : SetGroupState(c))

-----------------------------------------------------------------------------
TypeOK ==
    /\ House(bridge)
    /\ Bridge(cache)
    /\ Bridge(fetched)
    /\ pending \subseteq ApiCalls
    /\ phase \in {"starting", "waiting", "fetching", "stopped"}
    /\ commands \subseteq Command
    /\ Partly(view, Names, State)
    /\ changes \in 0 .. MaxChanges
    /\ failures \in 0 .. MaxFailures

\* A display shows what the cache holds: the broadcasts of a synchronization
\* cover every difference between the old and the new cache, for all groups
\* that somebody asked for and that still exist.
ViewsFollowCache ==
    \A n \in DOMAIN view : n \in NamesOf(cache) => view[n] = ComposeState(n, cache)

\* A brightness that was asked for comes back as it was or one per cent lower,
\* although it is rounded down on the way there and on the way back.
AskedIsShown ==
    \A c \in commands :
        "brightness" \in DOMAIN c.change =>
            Percent(c.change.bri) \in {c.change.brightness - 1, c.change.brightness}

\* The groups in the cache have the names that they have on the bridge.
NamesUpToDate ==
    \A id \in DOMAIN cache.groups \cap DOMAIN bridge.groups :
        cache.groups[id].name = bridge.groups[id].name

\* A display whose group exists shows its state on the bridge.
DisplaysRight ==
    \A n \in DOMAIN view \cap NamesOf(bridge) :
        view[n] = ComposeState(n, Read(bridge))

\* Once the house has come to rest, with every group under the name that it
\* is known by, every display shows the state of its group on the bridge,
\* whatever was changed by whom, fetched piecemeal or lost.
DisplaysConverge == <>[]NamesUpToDate => <>[]DisplaysRight

\* The comment of Bridge says of the cache: "All user interfaces will display
\* information based on this, so the expectation is to keep it up-to-date".
KeptUpToDate == <>[]DisplaysRight

\* The routine goes on for as long as the server runs, also when an API call
\* fails or synchronize throws.
RoutineGoesOn ==
    /\ (phase = "waiting") ~> (phase = "fetching")
    /\ (phase = "fetching") ~> (phase = "waiting")
=============================================================================
