------------------------- MODULE HueInterfaceProofs -------------------------
(***************************************************************************)
(* Proofs about HueInterface, for any groups, lights and bounds: what the  *)
(* two conversions of brightness make of every percentage, and, as long as *)
(* no group gets the name or the id of an earlier one, that displays show  *)
(* what the cache holds.                                                   *)
(***************************************************************************)
EXTENDS HueInterface, FiniteSetTheorems, WellFoundedInduction, TLAPS

\* The steps of the bridge are those it has, and the percentage comes back
\* from them as it was or one lower.
LEMMA RoundTrip ==
    ASSUME NEW p \in Percentage
    PROVE  /\ Step(p) \in Level
           /\ Percent(Step(p)) \in {p - 1, p}
<1> DEFINE s == (p * 254) \div 100
<1>1. p \in Nat /\ 0 <= p /\ p <= 100
  BY DEF Percentage
<1>2. s \in Int /\ 100 * s <= 254 * p /\ 254 * p < 100 * s + 100
  BY <1>1
<1>3. s \in Nat /\ s <= 254
  BY <1>1, <1>2
<1> DEFINE q == (s * 100) \div 254
<1> HIDE DEF s
<1>4. q \in Int /\ 254 * q <= 100 * s /\ 100 * s < 254 * q + 254
  BY <1>3
<1> HIDE DEF q
<1>5. q \in {p - 1, p}
  BY <1>1, <1>2, <1>3, <1>4
<1> QED
  BY <1>3, <1>5 DEF s, q, Step, Percent, Level

\* What a command asks for, which is decided when update() is called.
LEMMA BrightnessAsked ==
    ASSUME NEW c, NEW p \in Percentage, 
           c.change = [brightness |-> p, bri |-> Step(p)]
    PROVE  Percent(c.change.bri) \in {c.change.brightness - 1, c.change.brightness}
BY RoundTrip

\* A brightness comes back as it was asked for or one per cent lower: in every
\* command that update() has under way (interface.ts:265 and 352).
THEOREM BrightnessComesBack == Spec => []AskedIsShown
<1>1. Init => AskedIsShown
  BY DEF Init, AskedIsShown
<1>2. AskedIsShown /\ [Next]_vars => AskedIsShown'
  <2> SUFFICES ASSUME AskedIsShown, [Next]_vars, NEW c \in commands',
                      "brightness" \in DOMAIN c.change
               PROVE  Percent(c.change.bri)
                        \in {c.change.brightness - 1, c.change.brightness}
    BY DEF AskedIsShown
  <2>1. CASE c \in commands
    BY <2>1 DEF AskedIsShown
  <2>2. ASSUME c \notin commands
        PROVE  \E p \in Percentage : c.change = [brightness |-> p, bri |-> Step(p)]
    <3> DEFINE New(n, change) ==
          [group |-> FindGroupId(n, cache), name |-> n, change |-> change]
    <3>1. ASSUME NEW n, NEW change, Update(n, change)
          PROVE  c.change = change
      BY <2>2, <3>1 DEF Update
    <3>2. ASSUME NEW n, NEW on, UpdatePower(n, on)
          PROVE  FALSE
      BY <3>1, <3>2 DEF UpdatePower
    <3>3. ASSUME NEW n, NEW s, UpdateScene(n, s)
          PROVE  FALSE
      BY <3>1, <3>3 DEF UpdateScene
    <3>4. ASSUME NEW n, NEW p, UpdateBrightness(n, p)
          PROVE  \E q \in Percentage : c.change = [brightness |-> q, bri |-> Step(q)]
      BY <3>1, <3>4 DEF UpdateBrightness
    <3>5. CASE UNCHANGED vars
      BY <2>2, <3>5 DEF vars
    <3>6. CASE BridgeChanges
      BY <2>2, <3>6 DEF BridgeChanges, Changes, SwitchLight, LoseLight,
         SaveScene, CreateGroup, RenameGroup, RemoveGroup
    <3>7. CASE Routine
      BY <2>2, <3>7 DEF Routine, Tick, Fetch, Synchronize, SynchronizeThrows,
         Throw
    <3>8. ASSUME NEW call \in ApiCalls, CallFails(call)
          PROVE  FALSE
      BY <2>2, <3>8 DEF CallFails, Throw
    <3>9. ASSUME NEW n \in Names, Ask(n)
          PROVE  FALSE
      BY <2>2, <3>9 DEF Ask
    <3>10. ASSUME NEW d \in commands, SetGroupState(d) \/ LoseCommand(d)
           PROVE  FALSE
      BY <2>2, <3>10 DEF SetGroupState, LoseCommand
    <3> QED
      BY <3>2, <3>3, <3>4, <3>5, <3>6, <3>7, <3>8, <3>9, <3>10 DEF Next
  <2> QED
    BY <2>1, <2>2, BrightnessAsked
<1> QED
  BY <1>1, <1>2, PTL DEF Spec

-----------------------------------------------------------------------------
\* A name stands for one and the same group in both.
Agree(a, b) ==
    \A i \in DOMAIN a.groups, j \in DOMAIN b.groups :
        a.groups[i].name = b.groups[j].name => i = j

\* The bridge, what is being fetched from it and the cache agree on names.
AllAgree ==
    /\ Agree(bridge, bridge) /\ Agree(fetched, fetched) /\ Agree(cache, cache)
    /\ Agree(cache, bridge) /\ Agree(fetched, bridge) /\ Agree(cache, fetched)

\* A name that a display asked for is in the cache, or else gone for good.
AskedOrGone ==
    \A n \in DOMAIN view :
        n \in NamesOf(cache) \/ (n \notin NamesOf(bridge) /\ n \notin NamesOf(fetched))

\* Once the groups are fetched, those in the cache are missing only if they
\* are missing on the bridge.
MissingIsGone ==
    phase \in {"starting", "fetching"} /\ "groups" \notin pending =>
        DOMAIN cache.groups \cap DOMAIN bridge.groups \subseteq DOMAIN fetched.groups

Shapes ==
    /\ DOMAIN bridge = ApiCalls /\ DOMAIN fetched = ApiCalls
    /\ Partly(bridge.groups, Groups, Group)

\* The inductive invariant, as long as nothing is reused.
NamesInv ==
    /\ Shapes
    /\ AllAgree
    /\ AskedOrGone
    /\ MissingIsGone
    /\ ViewsFollowCache

\* findGroupIdOrThrow finds a group of that name.
LEMMA Found ==
    ASSUME NEW b, NEW n \in NamesOf(b)
    PROVE  /\ FindGroupId(n, b) \in DOMAIN b.groups
           /\ b.groups[FindGroupId(n, b)].name = n
BY DEF NamesOf, FindGroupId

\* A group of the next bridge that was there before, under the same name.
Same(j) ==
    /\ j \in DOMAIN bridge.groups
    /\ bridge'.groups[j].name = bridge.groups[j].name

\* One whose name is new, or is the one it still has in the cache.
Fresh(j) ==
    /\ bridge'.groups[j].name \notin NamesOf(bridge)
    /\ \/ bridge'.groups[j].name \notin KnownNames
       \/ j \in DOMAIN cache.groups /\ cache.groups[j].name = bridge'.groups[j].name

\* The house changes its groups one at a time, and nothing that the server
\* knows of them changes with them.
LEMMA GroupsChange ==
    ASSUME NamesInv, Shapes',
           UNCHANGED <<cache, fetched, pending, phase, view>>,
           \A j \in DOMAIN bridge'.groups : Same(j) \/ Fresh(j),
           \A i, j \in DOMAIN bridge'.groups : Fresh(i) /\ Fresh(j) => i = j,
           DOMAIN bridge'.groups \cap DOMAIN cache.groups
                \subseteq DOMAIN bridge.groups
    PROVE  NamesInv'
<1>1. AllAgree /\ AskedOrGone /\ MissingIsGone /\ ViewsFollowCache
  BY DEF NamesInv
<1>2. AllAgree'
  <2>1. Agree(bridge, bridge)'
    <3> SUFFICES ASSUME NEW i \in DOMAIN bridge'.groups,
                        NEW j \in DOMAIN bridge'.groups,
                        bridge'.groups[i].name = bridge'.groups[j].name
                 PROVE  i = j
      BY DEF Agree
    <3>1. CASE Same(i) /\ Same(j)
      BY <1>1, <3>1 DEF AllAgree, Agree, Same
    <3>2. ~(Same(i) /\ Fresh(j)) /\ ~(Same(j) /\ Fresh(i))
      BY DEF Same, Fresh, NamesOf
    <3> QED
      BY <3>1, <3>2
  <2>2. Agree(cache, bridge)'
    <3> SUFFICES ASSUME NEW i \in DOMAIN cache.groups,
                        NEW j \in DOMAIN bridge'.groups,
                        cache.groups[i].name = bridge'.groups[j].name
                 PROVE  i = j
      BY DEF Agree
    <3>1. CASE Same(j)
      BY <1>1, <3>1 DEF AllAgree, Agree, Same
    <3>2. CASE Fresh(j)
      BY <1>1, <3>2 DEF AllAgree, Agree, Fresh, KnownNames, NamesOf
    <3> QED
      BY <3>1, <3>2
  <2>3. Agree(fetched, bridge)'
    <3> SUFFICES ASSUME NEW i \in DOMAIN fetched.groups,
                        NEW j \in DOMAIN bridge'.groups,
                        fetched.groups[i].name = bridge'.groups[j].name
                 PROVE  i = j
      BY DEF Agree
    <3>1. CASE Same(j)
      BY <1>1, <3>1 DEF AllAgree, Agree, Same
    <3>2. CASE Fresh(j)
      BY <1>1, <3>2 DEF AllAgree, Agree, Fresh, KnownNames, NamesOf
    <3> QED
      BY <3>1, <3>2
  <2> QED
    BY <1>1, <2>1, <2>2, <2>3 DEF AllAgree
<1>3. AskedOrGone'
  <2> SUFFICES ASSUME NEW n \in DOMAIN view, n \notin NamesOf(cache),
                      NEW j \in DOMAIN bridge'.groups,
                      bridge'.groups[j].name = n
               PROVE  FALSE
    BY <1>1 DEF AskedOrGone, NamesOf
  <2>1. CASE Same(j)
    BY <1>1, <2>1 DEF AskedOrGone, NamesOf, Same
  <2>2. CASE Fresh(j)
    BY <2>2 DEF Fresh, KnownNames, NamesOf
  <2> QED
    BY <2>1, <2>2
<1>4. MissingIsGone' /\ ViewsFollowCache'
  BY <1>1 DEF MissingIsGone, ViewsFollowCache
<1> QED
  BY <1>2, <1>3, <1>4 DEF NamesInv

\* Lights and scenes change, groups do not.
LEMMA GroupsStay ==
    ASSUME NamesInv, DOMAIN bridge' = ApiCalls, bridge'.groups = bridge.groups,
           UNCHANGED <<cache, fetched, pending, phase, view>>
    PROVE  NamesInv'
<1>1. Shapes'
  BY DEF NamesInv, Shapes
<1>2. \A j \in DOMAIN bridge'.groups : Same(j)
  BY DEF Same
<1>3. \A j \in DOMAIN bridge'.groups : ~Fresh(j)
  BY DEF Fresh, NamesOf
<1> QED
  BY <1>1, <1>2, <1>3, GroupsChange

\* One group changes, is created or is removed.
LEMMA EditKeeps ==
    ASSUME NamesInv, ~Reuse, NEW id \in Groups,
           \/ \E n \in Names, lights \in SUBSET Lights : CreateGroup(id, n, lights)
           \/ \E n \in Names : RenameGroup(id, n)
           \/ RemoveGroup(id)
    PROVE  NamesInv'
<1>1. /\ UNCHANGED <<cache, fetched, pending, phase, view>>
      /\ DOMAIN bridge = ApiCalls /\ DOMAIN fetched = ApiCalls
      /\ Partly(bridge.groups, Groups, Group)
  BY DEF CreateGroup, RenameGroup, RemoveGroup, Changes, NamesInv, Shapes
<1>2. CASE RemoveGroup(id)
  <2>1. /\ DOMAIN bridge' = ApiCalls
        /\ DOMAIN bridge'.groups = DOMAIN bridge.groups \ {id}
        /\ \A j \in DOMAIN bridge'.groups : bridge'.groups[j] = bridge.groups[j]
    BY <1>1, <1>2 DEF RemoveGroup, Changes, Restrict, ApiCalls
  <2>2. Shapes'
    BY <1>1, <2>1 DEF NamesInv, Shapes, Partly
  <2>3. \A j \in DOMAIN bridge'.groups : Same(j) /\ ~Fresh(j)
    BY <2>1 DEF Same, Fresh, NamesOf
  <2> QED
    BY <1>1, <2>1, <2>2, <2>3, GroupsChange
<1>3. ASSUME NEW n \in Names, NEW lights \in SUBSET Lights,
             CreateGroup(id, n, lights)
      PROVE  NamesInv'
  <2>1. /\ DOMAIN bridge' = ApiCalls
        /\ DOMAIN bridge'.groups = DOMAIN bridge.groups \cup {id}
        /\ bridge'.groups[id] = [name |-> n, lights |-> lights]
        /\ \A j \in DOMAIN bridge.groups \ {id} :
                bridge'.groups[j] = bridge.groups[j]
    BY <1>1, <1>3 DEF CreateGroup, Changes, Put, ApiCalls
  <2>2. /\ id \notin DOMAIN bridge.groups /\ n \notin NamesOf(bridge)
        /\ n \notin KnownNames /\ id \notin DOMAIN cache.groups
    BY <1>3 DEF CreateGroup, KnownIds
  <2>3. Shapes'
    <3>1. [name |-> n, lights |-> lights] \in Group
      BY DEF Group
    <3> QED
      BY <1>1, <2>1, <3>1 DEF Shapes, Partly
  <2>4. bridge'.groups[id].name = n
    BY <2>1
  <2>5. \A j \in DOMAIN bridge'.groups :
            IF j = id THEN Fresh(j) ELSE Same(j) /\ ~Fresh(j)
    BY <2>1, <2>2, <2>4 DEF Same, Fresh, NamesOf
  <2> QED
    BY <1>1, <2>1, <2>2, <2>3, <2>5, GroupsChange
<1>4. ASSUME NEW n \in Names, RenameGroup(id, n)
      PROVE  NamesInv'
  <2>1. /\ DOMAIN bridge' = ApiCalls
        /\ DOMAIN bridge'.groups = DOMAIN bridge.groups
        /\ id \in DOMAIN bridge.groups
        /\ bridge'.groups[id] = [bridge.groups[id] EXCEPT !.name = n]
        /\ \A j \in DOMAIN bridge.groups \ {id} :
                bridge'.groups[j] = bridge.groups[j]
    BY <1>1, <1>4 DEF RenameGroup, Changes, ApiCalls
  <2>2. /\ n \notin NamesOf(bridge)
        /\ n \notin KnownNames
            \/ (id \in DOMAIN cache.groups /\ cache.groups[id].name = n)
    BY <1>4 DEF RenameGroup
  <2>3. bridge.groups[id] \in Group
    BY <1>1, <2>1 DEF Partly
  <2>4. bridge'.groups[id] \in Group /\ bridge'.groups[id].name = n
    BY <2>1, <2>3 DEF Group
  <2>5. Shapes'
    BY <1>1, <2>1, <2>4 DEF Shapes, Partly
  <2>6. \A j \in DOMAIN bridge'.groups :
            IF j = id THEN Fresh(j) ELSE Same(j) /\ ~Fresh(j)
    BY <2>1, <2>2, <2>4 DEF Same, Fresh, NamesOf
  <2> QED
    BY <1>1, <2>1, <2>5, <2>6, GroupsChange
<1> QED
  BY <1>2, <1>3, <1>4

LEMMA BridgeChangesKeep ==
    ASSUME NamesInv, ~Reuse, BridgeChanges
    PROVE  NamesInv'
<1>1. ASSUME NEW l, NEW level,
             \/ SwitchLight(l, level) \/ LoseLight(l)
             \/ \E s \in Scenes, id \in Groups : SaveScene(s, id)
      PROVE  NamesInv'
  <2>1. /\ DOMAIN bridge' = DOMAIN bridge /\ bridge'.groups = bridge.groups
        /\ UNCHANGED <<cache, fetched, pending, phase, view>>
    BY <1>1 DEF SwitchLight, LoseLight, SaveScene, Changes, NamesInv, Shapes,
                ApiCalls
  <2> QED
    BY <2>1, GroupsStay DEF NamesInv, Shapes
<1>2. ASSUME NEW id \in Groups,
             \/ \E n \in Names, lights \in SUBSET Lights : CreateGroup(id, n, lights)
             \/ \E n \in Names : RenameGroup(id, n)
             \/ RemoveGroup(id)
      PROVE  NamesInv'
  BY <1>2, EditKeeps
<1> QED
  BY <1>1, <1>2 DEF BridgeChanges

\* The bridge applies a command, or never gets it.
LEMMA CommandsKeep ==
    ASSUME NamesInv, NEW c \in commands, SetGroupState(c) \/ LoseCommand(c)
    PROVE  NamesInv'
<1>1. /\ DOMAIN bridge' = DOMAIN bridge /\ bridge'.groups = bridge.groups
      /\ UNCHANGED <<cache, fetched, pending, phase, view>>
  BY DEF SetGroupState, LoseCommand, NamesInv, Shapes, ApiCalls
<1> QED
  BY <1>1, GroupsStay DEF NamesInv, Shapes

-----------------------------------------------------------------------------
\* The groups arrive: those of the bridge at this moment.
LEMMA FetchKeeps ==
    ASSUME NamesInv, NEW call \in ApiCalls, Fetch(call)
    PROVE  NamesInv'
<1>1. /\ pending' = pending \ {call}
      /\ DOMAIN fetched' = ApiCalls
      /\ UNCHANGED <<bridge, cache, phase, view>>
      /\ IF call = "groups" THEN fetched'.groups = bridge.groups
                            ELSE fetched'.groups = fetched.groups
  BY DEF Fetch, NamesInv, Shapes, ApiCalls, Read
<1>2. Shapes'
  BY <1>1 DEF NamesInv, Shapes
<1>3. AllAgree'
  BY <1>1 DEF NamesInv, AllAgree, Agree
<1>4. AskedOrGone'
  BY <1>1 DEF NamesInv, AskedOrGone, NamesOf
<1>5. MissingIsGone'
  BY <1>1 DEF NamesInv, MissingIsGone
<1>6. ViewsFollowCache'
  BY <1>1 DEF NamesInv, ViewsFollowCache
<1> QED
  BY <1>2, <1>3, <1>4, <1>5, <1>6 DEF NamesInv

\* The routine begins, or what was fetched is thrown away.
LEMMA RestartKeeps ==
    ASSUME NamesInv, UNCHANGED <<bridge, cache, view>>,
           \/ pending' = ApiCalls /\ UNCHANGED fetched
           \/ phase' \in {"stopped", "waiting"} /\ fetched' = kDefaultBridge
    PROVE  NamesInv'
<1>1. DOMAIN kDefaultBridge = ApiCalls /\ DOMAIN kDefaultBridge.groups = {}
  BY DEF kDefaultBridge, ApiCalls, Nothing
<1>2. /\ DOMAIN fetched' = ApiCalls
      /\ \A i \in DOMAIN fetched'.groups :
            i \in DOMAIN fetched.groups /\ fetched'.groups[i] = fetched.groups[i]
      /\ phase' \in {"starting", "fetching"} /\ "groups" \notin pending' => FALSE
  BY <1>1 DEF NamesInv, Shapes, ApiCalls
<1>3. Shapes'
  BY <1>2 DEF NamesInv, Shapes
<1>4. AllAgree'
  BY <1>2 DEF NamesInv, AllAgree, Agree
<1>5. AskedOrGone'
  BY <1>2 DEF NamesInv, AskedOrGone, NamesOf
<1>6. MissingIsGone'
  BY <1>2 DEF MissingIsGone
<1>7. ViewsFollowCache'
  BY DEF NamesInv, ViewsFollowCache
<1> QED
  BY <1>3, <1>4, <1>5, <1>6, <1>7 DEF NamesInv

\* synchronize: a group whose name a display has asked for is among those that
\* are compared, unless it is gone.
LEMMA SynchronizeKeeps ==
    ASSUME NamesInv, Synchronize
    PROVE  NamesInv'
<1>1. /\ phase \in {"starting", "fetching"} /\ pending = {} /\ ~NameMissing
      /\ cache' = fetched /\ fetched' = kDefaultBridge /\ phase' = "waiting"
      /\ DOMAIN view' = DOMAIN view
      /\ \A n \in DOMAIN view :
            view'[n] = IF n \in Updates THEN ComposeState(n, fetched) ELSE view[n]
      /\ UNCHANGED bridge
  BY DEF Synchronize, Fetched
<1>2. /\ Shapes /\ AllAgree /\ AskedOrGone /\ MissingIsGone
      /\ ViewsFollowCache
  BY DEF NamesInv
<1>3. DOMAIN fetched' = ApiCalls /\ DOMAIN fetched'.groups = {}
  BY <1>1 DEF kDefaultBridge, ApiCalls, Nothing
<1>4. Shapes'
  BY <1>1, <1>2, <1>3 DEF Shapes
<1>5. AllAgree'
  BY <1>1, <1>2, <1>3 DEF AllAgree, Agree
<1>6. MissingIsGone'
  BY <1>1 DEF MissingIsGone
<1>7. AskedOrGone'
  <2> SUFFICES ASSUME NEW n \in DOMAIN view, n \notin NamesOf(fetched),
                      n \in NamesOf(bridge)
               PROVE  FALSE
    BY <1>1, <1>3 DEF AskedOrGone, NamesOf
  <2>1. PICK j \in DOMAIN bridge.groups : bridge.groups[j].name = n
    BY DEF NamesOf
  <2>2. PICK i \in DOMAIN cache.groups : cache.groups[i].name = n
    BY <1>2 DEF AskedOrGone, NamesOf
  <2>3. i = j
    BY <1>2, <2>1, <2>2 DEF AllAgree, Agree
  <2>4. i \in Kept
    BY <1>1, <1>2, <2>2, <2>3 DEF MissingIsGone, Kept
  <2> QED
    BY <1>1, <2>2, <2>4 DEF NameMissing
<1>8. ViewsFollowCache'
  <2> SUFFICES ASSUME NEW n \in DOMAIN view, n \in NamesOf(fetched)
               PROVE  view'[n] = ComposeState(n, fetched)
    BY <1>1 DEF ViewsFollowCache
  <2>1. PICK j \in DOMAIN fetched.groups : fetched.groups[j].name = n
    BY DEF NamesOf
  <2>2. n \in NamesOf(cache)
    BY <1>2 DEF AskedOrGone
  <2>3. PICK i \in DOMAIN cache.groups : cache.groups[i].name = n
    BY <2>2 DEF NamesOf
  <2>4. i \in Kept
    BY <1>2, <2>1, <2>3 DEF AllAgree, Agree, Kept
  <2>5. view[n] = ComposeState(n, cache)
    BY <1>2, <2>2 DEF ViewsFollowCache
  <2> QED
    BY <1>1, <2>3, <2>4, <2>5 DEF Updates
<1> QED
  BY <1>4, <1>5, <1>6, <1>7, <1>8 DEF NamesInv

\* A display subscribes and is given the state of the cache.
LEMMA AskKeeps ==
    ASSUME NamesInv, NEW n \in Names, Ask(n)
    PROVE  NamesInv'
<1>1. /\ n \in NamesOf(cache)
      /\ DOMAIN view' = DOMAIN view \cup {n}
      /\ view'[n] = ComposeState(n, cache)
      /\ \A k \in DOMAIN view \ {n} : view'[k] = view[k]
      /\ UNCHANGED <<bridge, cache, fetched, pending, phase>>
  BY DEF Ask, Put
<1>2. Shapes' /\ MissingIsGone'
  BY <1>1 DEF NamesInv, Shapes, MissingIsGone
<1>3. AllAgree'
  BY <1>1 DEF NamesInv, AllAgree, Agree
<1>4. AskedOrGone'
  BY <1>1 DEF NamesInv, AskedOrGone
<1>5. ViewsFollowCache'
  BY <1>1 DEF NamesInv, ViewsFollowCache
<1> QED
  BY <1>2, <1>3, <1>4, <1>5 DEF NamesInv

\* A command that is sent leaves the bridge, the cache and the displays alone.
LEMMA UpdateKeeps ==
    ASSUME NamesInv, NEW n, NEW change, Update(n, change)
    PROVE  NamesInv'
<1>1. UNCHANGED <<bridge, cache, fetched, pending, phase, view>>
  BY DEF Update
<1> QED
  BY <1>1, GroupsStay DEF NamesInv, Shapes

-----------------------------------------------------------------------------
LEMMA NamesInit == Init => NamesInv
<1> SUFFICES ASSUME Init PROVE NamesInv
  OBVIOUS
<1>1. House(bridge) /\ UniqueNames(bridge)
  BY HueInterfaceAssumption DEF Init
<1>2. /\ cache = kDefaultBridge /\ fetched = kDefaultBridge
      /\ pending = ApiCalls /\ DOMAIN view = {}
  BY DEF Init, Nothing
<1>3. DOMAIN kDefaultBridge = ApiCalls /\ DOMAIN kDefaultBridge.groups = {}
  BY DEF kDefaultBridge, ApiCalls, Nothing
<1>4. Shapes
  BY <1>1, <1>2, <1>3 DEF Shapes, House
<1>5. AllAgree
  BY <1>1, <1>2, <1>3 DEF AllAgree, Agree, UniqueNames
<1>6. AskedOrGone /\ ViewsFollowCache
  BY <1>2 DEF AskedOrGone, ViewsFollowCache
<1>7. MissingIsGone
  BY <1>2, <1>3 DEF MissingIsGone
<1> QED
  BY <1>4, <1>5, <1>6, <1>7 DEF NamesInv

LEMMA NamesStep == ASSUME ~Reuse, NamesInv, [Next]_vars PROVE NamesInv'
<1>1. CASE Routine
  <2>1. CASE Tick
    BY <2>1, RestartKeeps DEF Tick
  <2>2. CASE SynchronizeThrows
    BY <2>2, RestartKeeps DEF SynchronizeThrows, Throw
  <2> QED
    BY <1>1, <2>1, <2>2, FetchKeeps, SynchronizeKeeps DEF Routine
<1>2. ASSUME NEW call \in ApiCalls, CallFails(call) PROVE NamesInv'
  BY <1>2, RestartKeeps DEF CallFails, Throw
<1>3. ASSUME NEW n \in Names,
             \/ \E on \in BOOLEAN : UpdatePower(n, on)
             \/ \E percentage \in Percentages : UpdateBrightness(n, percentage)
             \/ \E s \in Scenes : UpdateScene(n, s)
      PROVE  NamesInv'
  BY <1>3, UpdateKeeps DEF UpdatePower, UpdateBrightness, UpdateScene
<1>4. CASE UNCHANGED vars
  <2>1. UNCHANGED <<bridge, cache, fetched, pending, phase, view>>
    BY <1>4 DEF vars
  <2> QED
    BY <2>1, GroupsStay DEF NamesInv, Shapes
<1> QED
  BY <1>1, <1>2, <1>3, <1>4, BridgeChangesKeep, CommandsKeep, AskKeeps DEF Next

\* As long as no group gets the name or the id of an earlier one, the inductive
\* invariant holds throughout.
THEOREM NamesInductive == ASSUME ~Reuse PROVE Spec => []NamesInv
<1>1. NamesInv /\ [Next]_vars => NamesInv'
  BY NamesStep
<1> QED
  BY <1>1, NamesInit, PTL DEF Spec

\* Under the same condition every display whose group is in the cache shows it
\* as the cache has it: the comparison by id that synchronize makes finds each
\* state that has changed, also while groups are renamed, created and removed
\* between the three API calls (interface.ts:229-244).
THEOREM DisplaysFollow == ASSUME ~Reuse PROVE Spec => []ViewsFollowCache
<1>1. NamesInv => ViewsFollowCache
  BY DEF NamesInv
<1> QED
  BY <1>1, NamesInductive, PTL

\* Induction over the natural numbers, for a set in the place of a predicate.
LEMMA NatSets ==
    ASSUME NEW T, T \subseteq Nat, 0 \in T, \A n \in T : n + 1 \in T
    PROVE  T = Nat
<1> SUFFICES ASSUME Nat \ T # {} PROVE FALSE
  OBVIOUS
<1>1. PICK x \in Nat \ T : \A y \in Nat \ T : ~(<<y, x>> \in OpToRel(<, Nat))
  BY NatLessThanWellFounded, WFMin
<1>2. \A y \in Nat \ T : ~(y < x)
  BY <1>1 DEF OpToRel
<1>3. x - 1 \in Nat /\ x - 1 < x
  OBVIOUS
<1>4. x - 1 \in T
  BY <1>2, <1>3
<1> QED
  BY <1>4

-----------------------------------------------------------------------------
\* The light that is added next, and those that are left.
One(s) == CHOOSE x \in s : TRUE

Rest(s) == s \ {One(s)}

\* f adds up the brightnesses of each set of lights in S.
AddsUp(f, lights, S) ==
  f = [s \in SUBSET S |->
        IF s = {} THEN 0 ELSE lights[One(s)].brightness + f[Rest(s)]]

\* The sum as updateState's average of brightness takes it.
SumOf(lights, S) == MapThenSumSet(LAMBDA l : lights[l].brightness, S)

\* The sum is that of such a function, if there is one.
LEMMA TheSum ==
    ASSUME NEW lights, NEW S, \E f : AddsUp(f, lights, S)
    PROVE  \E f : /\ AddsUp(f, lights, S)
                  /\ SumOf(lights, S) = f[S]
<1> DEFINE sum == CHOOSE f : AddsUp(f, lights, S)
<1>1. SumOf(lights, S) = sum[S]
  BY DEF SumOf, MapThenSumSet, MapThenFoldSet, AddsUp, One, Rest
<1> QED
  BY <1>1

\* There is a light less to be added each time.
LEMMA RestIsSmaller ==
    ASSUME NEW S, IsFiniteSet(S), NEW s \in SUBSET S
    PROVE  /\ IsFiniteSet(s) /\ Cardinality(s) \in Nat
           /\ Cardinality(s) = 0 <=> s = {}
           /\ s # {} => /\ One(s) \in S /\ Rest(s) \in SUBSET S
                        /\ Cardinality(Rest(s)) = Cardinality(s) - 1
<1>1. IsFiniteSet(s)
  BY FS_Subset
<1>2. Cardinality(s) \in Nat
  BY <1>1, FS_CardinalityType
<1>3. Cardinality(s) = 0 <=> s = {}
  BY <1>1, FS_EmptySet
<1>4. ASSUME s # {} PROVE One(s) \in s
  BY <1>4 DEF One
<1>5. Cardinality(s \ {One(s)}) =
        IF One(s) \in s THEN Cardinality(s) - 1 ELSE Cardinality(s)
  BY <1>1, FS_RemoveElement
<1> QED
  BY <1>1, <1>2, <1>3, <1>4, <1>5 DEF Rest

\* There is one: sets with up to n lights can be added up for every n.
LEMMA SumExists ==
    ASSUME NEW lights, NEW S, IsFiniteSet(S)
    PROVE  \E f : AddsUp(f, lights, S)
<1> DEFINE added(f, s) ==
            IF s = {} THEN 0 ELSE lights[One(s)].brightness + f[Rest(s)]
           upTo(f, n) == \A s \in SUBSET S :
                            Cardinality(s) <= n => f[s] = added(f, s)
           T == {n \in Nat : \E f : upTo(f, n)}
<1>1. 0 \in T
  <2>1. upTo([s \in SUBSET S |-> 0], 0)
    <3> SUFFICES ASSUME NEW s \in SUBSET S, Cardinality(s) <= 0 PROVE s = {}
      OBVIOUS
    <3> QED
      BY RestIsSmaller
  <2> HIDE DEF upTo
  <2> QED
    BY <2>1
<1>2. ASSUME NEW n \in T PROVE n + 1 \in T
  <2>1. PICK f : upTo(f, n)
    OBVIOUS
  <2> DEFINE g == [s \in SUBSET S |->
                    IF Cardinality(s) <= n THEN f[s] ELSE added(f, s)]
  <2>2. ASSUME NEW s \in SUBSET S, Cardinality(s) <= n + 1
        PROVE  g[s] = added(g, s)
    <3>1. g[s] = added(f, s)
      BY <2>1
    <3>2. CASE s = {}
      BY <3>1, <3>2
    <3>3. CASE s # {}
      <4>1. Rest(s) \in SUBSET S /\ Cardinality(Rest(s)) <= n
        BY <2>2, <3>3, RestIsSmaller
      <4>2. g[Rest(s)] = f[Rest(s)]
        BY <4>1
      <4> HIDE DEF g
      <4> QED
        BY <3>1, <3>3, <4>2
    <3> QED
      BY <3>2, <3>3
  <2>3. upTo(g, n + 1)
    BY <2>2
  <2> HIDE DEF g, upTo
  <2> QED
    BY <2>3
<1>3. T = Nat
  <2> HIDE DEF T
  <2>1. T \subseteq Nat
    BY DEF T
  <2> QED
    BY <1>1, <1>2, <2>1, NatSets
<1>4. Cardinality(S) \in Nat
  BY FS_CardinalityType
<1>5. PICK f : upTo(f, Cardinality(S))
  BY <1>3, <1>4
<1> DEFINE g == [s \in SUBSET S |-> f[s]]
<1>6. ASSUME NEW s \in SUBSET S PROVE g[s] = added(g, s)
  <2>1. Cardinality(s) <= Cardinality(S)
    BY FS_Subset
  <2>2. f[s] = added(f, s)
    BY <1>5, <2>1
  <2>3. s # {} => Rest(s) \in SUBSET S
    BY DEF Rest
  <2> QED
    BY <2>2, <2>3
<1>7. g = [s \in SUBSET S |-> added(g, s)]
  <2>1. g = [s \in SUBSET S |-> g[s]]
    OBVIOUS
  <2> HIDE DEF g, added
  <2> QED
    BY <1>6, <2>1
<1>8. AddsUp(g, lights, S)
  BY <1>7 DEF AddsUp
<1> QED
  BY <1>8

\* A sum of percentages is at most 100 for each.
LEMMA SumBounded ==
    ASSUME NEW lights, NEW S, IsFiniteSet(S),
           \A l \in S : lights[l].brightness \in Percentage
    PROVE  SumOf(lights, S)
                \in 0 .. 100 * Cardinality(S)
<1>1. PICK f : /\ AddsUp(f, lights, S)
               /\ SumOf(lights, S) = f[S]
  BY SumExists, TheSum
<1>2. \A s \in SUBSET S :
        f[s] = IF s = {} THEN 0 ELSE lights[One(s)].brightness + f[Rest(s)]
  BY <1>1 DEF AddsUp
<1> DEFINE T == {n \in Nat : \A s \in SUBSET S :
                    Cardinality(s) = n => f[s] \in 0 .. 100 * n}
<1>3. 0 \in T
  BY <1>2, RestIsSmaller
<1>4. ASSUME NEW n \in T PROVE n + 1 \in T
  <2> SUFFICES ASSUME NEW s \in SUBSET S, Cardinality(s) = n + 1
               PROVE  f[s] \in 0 .. 100 * (n + 1)
    OBVIOUS
  <2>1. s # {} /\ One(s) \in S /\ Rest(s) \in SUBSET S /\ Cardinality(Rest(s)) = n
    BY RestIsSmaller
  <2>2. f[Rest(s)] \in 0 .. 100 * n
    BY <2>1
  <2>3. lights[One(s)].brightness \in 0 .. 100
    BY <2>1 DEF Percentage
  <2> QED
    BY <1>2, <2>1, <2>2, <2>3
<1>5. T = Nat
  <2> HIDE DEF T
  <2>1. T \subseteq Nat
    BY DEF T
  <2> QED
    BY <1>3, <1>4, <2>1, NatSets
<1>6. Cardinality(S) \in Nat
  BY FS_CardinalityType
<1> QED
  BY <1>1, <1>5, <1>6

\* Their mean is a percentage again.
LEMMA Mean ==
    ASSUME NEW k \in Nat \ {0}, NEW a \in 0 .. 100 * k
    PROVE  a \div k \in Percentage
BY DEF Percentage

\* The brightness of a group is a percentage.
LEMMA IsPercentage ==
    ASSUME NEW id, NEW b, IsFiniteSet(Lit(id, b)),
           \A l \in Lit(id, b) : b.lights[l].brightness \in Percentage
    PROVE  Brightness(id, b) \in Percentage
<1> DEFINE S == Lit(id, b)
<1>1. CASE S = {}
  BY <1>1 DEF Brightness, Percentage
<1>2. CASE S # {}
  <2>1. Cardinality(S) \in Nat \ {0}
    BY <1>2, FS_CardinalityType, FS_EmptySet
  <2>2. SumOf(b.lights, S) \in 0 .. 100 * Cardinality(S)
    BY SumBounded
  <2>3. Brightness(id, b) = SumOf(b.lights, S) \div Cardinality(S)
    BY <1>2 DEF Brightness, SumOf
  <2> QED
    BY <2>1, <2>2, <2>3, Mean
<1> QED
  BY <1>1, <1>2

-----------------------------------------------------------------------------
LEMMA PutPartly ==
    ASSUME NEW f, NEW S, NEW T, NEW k \in S, NEW v \in T, Partly(f, S, T)
    PROVE  Partly(Put(f, k, v), S, T)
BY DEF Partly, Put

LEMMA RestrictPartly ==
    ASSUME NEW f, NEW S, NEW T, NEW k, Partly(f, S, T)
    PROVE  Partly(Restrict(f, DOMAIN f \ {k}), S, T)
BY DEF Partly, Restrict

LEMMA PercentTypes ==
    ASSUME NEW level \in Level
    PROVE  Percent(level) \in Percentage /\ LightAt(level) \in Light
<1>1. Percent(level) \in Percentage
  BY DEF Percent, Percentage, Level
<1>2. (IF level > 0 THEN Percent(level) ELSE 0) \in Percentage
  BY <1>1 DEF Percentage
<1>3. (level > 0) \in BOOLEAN
  BY DEF Level
<1> QED
  BY <1>1, <1>2, <1>3 DEF LightAt, Light

\* The state that a display is told is one that it can show.
LEMMA ComposedState ==
    ASSUME NEW b, Bridge(b), NEW n \in NamesOf(b)
    PROVE  ComposeState(n, b) \in State
<1> DEFINE id == FindGroupId(n, b)
<1>1. id \in DOMAIN b.groups
  BY Found
<1>2. b.groups[id] \in Group
  BY <1>1 DEF Bridge, Partly
<1>3. b.groups[id].lights \subseteq Lights
  BY <1>2 DEF Group
<1>4. Lit(id, b) \subseteq Lights /\ Lit(id, b) \subseteq DOMAIN b.lights
  BY <1>3 DEF Lit
<1>5. IsFiniteSet(Lit(id, b))
  BY <1>4, FS_Subset, HueInterfaceAssumption
<1>6. \A l \in DOMAIN b.lights : b.lights[l].brightness \in Percentage
  BY DEF Bridge, Partly, Light
<1>7. Brightness(id, b) \in Percentage
  BY <1>4, <1>5, <1>6, IsPercentage
<1>8. {s \in DOMAIN b.scenes : b.scenes[s] = id} \subseteq Scenes
  BY DEF Bridge, Partly
<1> HIDE DEF id
<1> DEFINE scenes == {s \in DOMAIN b.scenes : b.scenes[s] = id}
           on == Lit(id, b) # {}
<1>9. on \in BOOLEAN /\ scenes \in SUBSET Scenes
  BY <1>8
<1>10. ComposeState(n, b) = [on |-> on, brightness |-> Brightness(id, b),
                             scenes |-> scenes]
  BY DEF ComposeState, id
<1> HIDE DEF scenes, on
<1> QED
  BY <1>7, <1>9, <1>10 DEF State

\* What a command makes of a light is a step of the bridge.
LEMMA ChangedLevel ==
    ASSUME NEW change \in Change, NEW level \in Level, NEW known \in Level
    PROVE  Changed(change, level, known) \in Level
<1>1. CASE change \in [on : BOOLEAN]
  <2>1. "on" \in DOMAIN change
    BY <1>1
  <2>2. Changed(change, level, known)
            = IF ~change.on THEN 0 ELSE IF level > 0 THEN level ELSE known
    BY <2>1, <1>1 DEF Changed
  <2> QED
    BY <2>2 DEF Level
<1>2. CASE change \in [brightness : Percentage, bri : Level]
  <2>1. "on" \notin DOMAIN change /\ "bri" \in DOMAIN change
        /\ change.bri \in Level
    BY <1>2
  <2>2. Changed(change, level, known)
            = IF level = 0 THEN 0 ELSE IF change.bri = 0 THEN 1 ELSE change.bri
    BY <2>1 DEF Changed
  <2> QED
    BY <2>1, <2>2 DEF Level
<1>3. CASE change \in [scene : Scenes]
  <2>1. "on" \notin DOMAIN change /\ "bri" \notin DOMAIN change
    BY <1>3
  <2> QED
    BY <2>1 DEF Changed
<1> QED
  BY <1>1, <1>2, <1>3 DEF Change

LEMMA DefaultBridge == Bridge(kDefaultBridge)
<1>1. Partly(Nothing, Groups, Group) /\ Partly(Nothing, Lights, Light)
      /\ Partly(Nothing, Scenes, Groups)
  BY DEF Nothing, Partly
<1>2. DOMAIN kDefaultBridge = ApiCalls
  BY DEF kDefaultBridge, ApiCalls
<1>3. /\ kDefaultBridge.groups = Nothing /\ kDefaultBridge.lights = Nothing
      /\ kDefaultBridge.scenes = Nothing
  BY DEF kDefaultBridge
<1> QED
  BY <1>1, <1>2, <1>3 DEF Bridge

\* One part of the bridge is changed.
LEMMA HouseWith ==
    ASSUME House(bridge), NEW part \in ApiCalls, NEW f,
           part = "groups" => Partly(f, Groups, Group),
           part = "lights" => Partly(f, Lights, Level),
           part = "scenes" => Partly(f, Scenes, Groups)
    PROVE  House([bridge EXCEPT ![part] = f])
BY DEF House, ApiCalls

\* What an API call fetches is its part of a bridge.
LEMMA FetchedPart ==
    ASSUME House(bridge), Bridge(fetched), NEW call \in ApiCalls
    PROVE  Bridge([fetched EXCEPT ![call] = Read(bridge)[call]])
<1> DEFINE lights == [l \in DOMAIN bridge.lights |-> LightAt(bridge.lights[l])]
<1>1. Partly(lights, Lights, Light)
  <2>1. \A l \in DOMAIN bridge.lights : l \in Lights /\ bridge.lights[l] \in Level
    BY DEF House, Partly
  <2>2. \A l \in DOMAIN bridge.lights : LightAt(bridge.lights[l]) \in Light
    BY <2>1, PercentTypes
  <2> QED
    BY <2>1, <2>2 DEF Partly
<1> HIDE DEF lights
<1>2. Read(bridge) = [bridge EXCEPT !.lights = lights]
  BY DEF Read, lights
<1>3. /\ Read(bridge)["groups"] = bridge.groups
      /\ Read(bridge)["lights"] = lights
      /\ Read(bridge)["scenes"] = bridge.scenes
  BY <1>2 DEF House, ApiCalls
<1>4. CASE call = "groups"
  BY <1>3, <1>4 DEF House, Bridge, ApiCalls
<1>5. CASE call = "lights"
  BY <1>1, <1>3, <1>5 DEF Bridge, ApiCalls
<1>6. CASE call = "scenes"
  BY <1>3, <1>6 DEF House, Bridge, ApiCalls
<1> QED
  BY <1>4, <1>5, <1>6 DEF ApiCalls

-----------------------------------------------------------------------------
\* What is known to the server, and to the displays.
ServerTypes ==
    /\ Bridge(cache) /\ Bridge(fetched)
    /\ pending \subseteq ApiCalls
    /\ phase \in {"starting", "waiting", "fetching", "stopped"}
    /\ Partly(view, Names, State)

Counts == changes \in 0 .. MaxChanges /\ failures \in 0 .. MaxFailures

LEMMA InterfaceTypes ==
    TypeOK <=> House(bridge) /\ ServerTypes /\ commands \subseteq Command /\ Counts
BY DEF TypeOK, ServerTypes, Counts

LEMMA InterfaceTypesNext ==
    TypeOK' <=> /\ House(bridge)' /\ ServerTypes'
                /\ (commands \subseteq Command)' /\ Counts'
BY DEF TypeOK, ServerTypes, Counts

LEMMA ServerTypesStay ==
    ASSUME ServerTypes, UNCHANGED <<cache, fetched, pending, phase, view>>
    PROVE  ServerTypes'
BY DEF ServerTypes

LEMMA BridgeChangesTyped ==
    ASSUME TypeOK, BridgeChanges PROVE TypeOK'
<1>1. House(bridge) /\ ServerTypes /\ commands \subseteq Command /\ Counts
  BY InterfaceTypes
<1>2. ASSUME NEW b, Changes(b), House(b) PROVE TypeOK'
  <2>1. /\ changes < MaxChanges /\ changes' = changes + 1 /\ bridge' = b
        /\ UNCHANGED <<cache, fetched, pending, phase, view>>
        /\ UNCHANGED <<commands, failures>>
    BY <1>2 DEF Changes
  <2>2. Counts'
    BY <1>1, <2>1, HueInterfaceAssumption DEF Counts
  <2>3. House(bridge)'
    BY <1>2, <2>1 DEF House
  <2> QED
    BY <1>1, <2>1, <2>2, <2>3, ServerTypesStay, InterfaceTypesNext
<1>3. /\ Partly(bridge.groups, Groups, Group)
      /\ Partly(bridge.lights, Lights, Level)
      /\ Partly(bridge.scenes, Scenes, Groups)
  BY <1>1 DEF House
<1>4. ASSUME NEW l \in Lights, NEW level \in Levels, SwitchLight(l, level)
      PROVE  TypeOK'
  <2>1. Partly(Put(bridge.lights, l, level), Lights, Level)
    BY <1>3, PutPartly, HueInterfaceAssumption
  <2>2. House([bridge EXCEPT !["lights"] = Put(bridge.lights, l, level)])
    BY <1>1, <2>1, HouseWith DEF ApiCalls
  <2> QED
    BY <1>2, <1>4, <2>2 DEF SwitchLight
<1>5. ASSUME NEW l \in Lights, LoseLight(l) PROVE TypeOK'
  <2> DEFINE f == Restrict(bridge.lights, DOMAIN bridge.lights \ {l})
  <2>1. Partly(f, Lights, Level)
    BY <1>3, RestrictPartly
  <2>2. House([bridge EXCEPT !["lights"] = f])
    BY <1>1, <2>1, HouseWith DEF ApiCalls
  <2> QED
    BY <1>2, <1>5, <2>2 DEF LoseLight
<1>6. ASSUME NEW s \in Scenes, NEW id \in Groups, SaveScene(s, id) PROVE TypeOK'
  <2>1. Partly(Put(bridge.scenes, s, id), Scenes, Groups)
    BY <1>3, PutPartly
  <2>2. House([bridge EXCEPT !["scenes"] = Put(bridge.scenes, s, id)])
    BY <1>1, <2>1, HouseWith DEF ApiCalls
  <2> QED
    BY <1>2, <1>6, <2>2 DEF SaveScene
<1>7. ASSUME NEW id \in Groups, NEW n \in Names, NEW lights \in SUBSET Lights,
             CreateGroup(id, n, lights)
      PROVE  TypeOK'
  <2> DEFINE g == [name |-> n, lights |-> lights]
  <2>1. g \in Group
    BY DEF Group
  <2> HIDE DEF g
  <2>2. Partly(Put(bridge.groups, id, g), Groups, Group)
    BY <1>3, <2>1, PutPartly
  <2>3. House([bridge EXCEPT !["groups"] = Put(bridge.groups, id, g)])
    BY <1>1, <2>2, HouseWith DEF ApiCalls
  <2> QED
    BY <1>2, <1>7, <2>3 DEF CreateGroup, g
<1>8. ASSUME NEW id \in Groups, NEW n \in Names, RenameGroup(id, n) PROVE TypeOK'
  <2> DEFINE g == [bridge.groups[id] EXCEPT !.name = n]
             f == [bridge.groups EXCEPT ![id] = g]
  <2>1. id \in DOMAIN bridge.groups /\ bridge.groups[id] \in Group
    BY <1>3, <1>8 DEF RenameGroup, Partly
  <2>2. g \in Group
    BY <2>1 DEF Group
  <2> HIDE DEF g
  <2>3. Partly(f, Groups, Group)
    BY <1>3, <2>2 DEF Partly
  <2>4. House([bridge EXCEPT !["groups"] = f])
    BY <1>1, <2>3, HouseWith DEF ApiCalls
  <2>5. Changes([bridge EXCEPT !["groups"] = f])
    BY <1>8 DEF RenameGroup, g
  <2> QED
    BY <1>2, <2>4, <2>5
<1>9. ASSUME NEW id \in Groups, RemoveGroup(id) PROVE TypeOK'
  <2> DEFINE f == Restrict(bridge.groups, DOMAIN bridge.groups \ {id})
  <2>1. Partly(f, Groups, Group)
    BY <1>3, RestrictPartly
  <2>2. House([bridge EXCEPT !["groups"] = f])
    BY <1>1, <2>1, HouseWith DEF ApiCalls
  <2> QED
    BY <1>2, <1>9, <2>2 DEF RemoveGroup
<1> QED
  BY <1>4, <1>5, <1>6, <1>7, <1>8, <1>9 DEF BridgeChanges

LEMMA RoutineTyped ==
    ASSUME TypeOK, Routine \/ \E call \in ApiCalls : CallFails(call)
    PROVE  TypeOK'
<1>1. House(bridge) /\ ServerTypes /\ commands \subseteq Command /\ Counts
  BY InterfaceTypes
<1>2. /\ Bridge(cache) /\ Bridge(fetched) /\ Partly(view, Names, State)
      /\ pending \subseteq ApiCalls
  BY <1>1 DEF ServerTypes
<1>3. UNCHANGED <<bridge, commands, changes>>
  BY DEF Routine, Tick, Fetch, Synchronize, SynchronizeThrows, CallFails, Throw
<1>4. House(bridge)' /\ (commands \subseteq Command)'
  BY <1>1, <1>3 DEF House
<1>5. Counts'
  <2>1. failures' = failures \/ (failures < MaxFailures /\ failures' = failures + 1)
    BY DEF Routine, Tick, Fetch, Synchronize, SynchronizeThrows, CallFails
  <2> QED
    BY <1>1, <1>3, <2>1, HueInterfaceAssumption DEF Counts
<1>6. ASSUME Tick PROVE ServerTypes'
  BY <1>1, <1>6 DEF Tick, ServerTypes
<1>7. ASSUME NEW call \in ApiCalls, Fetch(call) PROVE ServerTypes'
  <2>1. /\ fetched' = [fetched EXCEPT ![call] = Read(bridge)[call]]
        /\ pending' = pending \ {call}
        /\ UNCHANGED <<cache, phase, view>>
    BY <1>7 DEF Fetch
  <2>2. Bridge([fetched EXCEPT ![call] = Read(bridge)[call]])
    BY <1>1, <1>2, FetchedPart
  <2>3. Bridge(fetched')
    BY <2>1, <2>2
  <2> QED
    BY <1>1, <2>1, <2>3 DEF ServerTypes
<1>8. ASSUME Synchronize PROVE ServerTypes'
  <2>1. /\ ~NameMissing /\ cache' = fetched /\ fetched' = kDefaultBridge
        /\ phase' = "waiting" /\ pending' = pending
        /\ view' = [n \in DOMAIN view |-> IF n \in Updates
                                          THEN ComposeState(n, fetched)
                                          ELSE view[n]]
    BY <1>8 DEF Synchronize
  <2>2. \A n \in Updates : n \in NamesOf(fetched)
    BY <2>1 DEF Updates, NameMissing
  <2>3. \A n \in Updates : ComposeState(n, fetched) \in State
    BY <1>2, <2>2, ComposedState
  <2>4. Partly(view', Names, State)
    <3>1. DOMAIN view' = DOMAIN view
      BY <2>1
    <3>2. ASSUME NEW n \in DOMAIN view PROVE view'[n] \in State
      <4>1. CASE n \in Updates
        BY <2>1, <2>3, <4>1
      <4>2. CASE n \notin Updates
        BY <1>2, <2>1, <4>2 DEF Partly
      <4> QED
        BY <4>1, <4>2
    <3> QED
      BY <1>2, <3>1, <3>2 DEF Partly
  <2>5. Bridge(cache') /\ Bridge(fetched')
    BY <1>2, <2>1, DefaultBridge
  <2> QED
    BY <1>2, <2>1, <2>4, <2>5 DEF ServerTypes
<1>9. ASSUME Throw PROVE ServerTypes'
  <2>1. /\ phase' \in {"waiting", "stopped"} /\ pending' = {}
        /\ fetched' = kDefaultBridge /\ UNCHANGED <<cache, view>>
    BY <1>9 DEF Throw
  <2>2. Bridge(cache') /\ Bridge(fetched')
    BY <1>2, <2>1, DefaultBridge
  <2> QED
    BY <1>2, <2>1, <2>2 DEF ServerTypes
<1>10. ServerTypes'
  BY <1>6, <1>7, <1>8, <1>9 DEF Routine, SynchronizeThrows, CallFails
<1> QED
  BY <1>4, <1>5, <1>10, InterfaceTypesNext

LEMMA AskTyped ==
    ASSUME TypeOK, NEW n \in Names, Ask(n)
    PROVE  TypeOK'
<1>1. House(bridge) /\ ServerTypes /\ commands \subseteq Command /\ Counts
  BY InterfaceTypes
<1>2. /\ n \in NamesOf(cache) /\ view' = Put(view, n, ComposeState(n, cache))
      /\ UNCHANGED <<bridge, commands, changes, failures>>
      /\ UNCHANGED <<cache, fetched, pending, phase>>
  BY DEF Ask
<1>3. Bridge(cache) /\ Partly(view, Names, State)
  BY <1>1 DEF ServerTypes
<1>4. ComposeState(n, cache) \in State
  BY <1>2, <1>3, ComposedState
<1>5. Partly(view', Names, State)
  BY <1>2, <1>3, <1>4, PutPartly
<1>6. ServerTypes'
  BY <1>1, <1>2, <1>5 DEF ServerTypes
<1>7. House(bridge)' /\ (commands \subseteq Command)' /\ Counts'
  BY <1>1, <1>2 DEF House, Counts
<1> QED
  BY <1>6, <1>7, InterfaceTypesNext

LEMMA UpdateTyped ==
    ASSUME TypeOK, NEW n \in Names, NEW change \in Change, Update(n, change)
    PROVE  TypeOK'
<1>1. House(bridge) /\ ServerTypes /\ commands \subseteq Command /\ Counts
  BY InterfaceTypes
<1> DEFINE c == [group |-> FindGroupId(n, cache), change |-> change]
<1>2. /\ n \in NamesOf(cache) /\ changes < MaxChanges /\ changes' = changes + 1
      /\ commands' = commands \cup {c}
      /\ UNCHANGED <<bridge, failures>>
      /\ UNCHANGED <<cache, fetched, pending, phase, view>>
  BY DEF Update
<1>3. FindGroupId(n, cache) \in Groups
  <2>1. Partly(cache.groups, Groups, Group)
    BY <1>1 DEF ServerTypes, Bridge
  <2> QED
    BY <1>2, <2>1, Found DEF Partly
<1>4. c \in Command
  BY <1>3 DEF Command
<1> HIDE DEF c
<1>5. (commands \subseteq Command)'
  BY <1>1, <1>2, <1>4
<1>6. Counts'
  BY <1>1, <1>2, HueInterfaceAssumption DEF Counts
<1>7. House(bridge)'
  BY <1>1, <1>2 DEF House
<1> QED
  BY <1>1, <1>2, <1>5, <1>6, <1>7, ServerTypesStay, InterfaceTypesNext

\* A command changes the lights of its group, each to a step it can have.
LEMMA CommandTyped ==
    ASSUME TypeOK, NEW c \in commands, SetGroupState(c) \/ LoseCommand(c)
    PROVE  TypeOK'
<1>1. House(bridge) /\ ServerTypes /\ commands \subseteq Command /\ Counts
  BY InterfaceTypes
<1>2. /\ UNCHANGED <<cache, fetched, pending, phase, view>>
      /\ commands' = commands \ {c} /\ changes' = changes
      /\ failures' = failures \/ (failures < MaxFailures /\ failures' = failures + 1)
  BY DEF SetGroupState, LoseCommand
<1>3. Counts' /\ (commands \subseteq Command)'
  BY <1>1, <1>2, HueInterfaceAssumption DEF Counts
<1>4. House(bridge')
  <2>1. CASE bridge' = bridge
    BY <1>1, <2>1
  <2>2. CASE bridge' # bridge
    <3>1. PICK known \in Levels \ {0} :
            bridge' = [bridge EXCEPT !.lights =
                [l \in DOMAIN @ |->
                    IF l \in bridge.groups[c.group].lights
                    THEN Changed(c.change, @[l], known) ELSE @[l]]]
      BY <2>2 DEF SetGroupState, LoseCommand
    <3> DEFINE lights == [l \in DOMAIN bridge.lights |->
                            IF l \in bridge.groups[c.group].lights
                            THEN Changed(c.change, bridge.lights[l], known)
                            ELSE bridge.lights[l]]
    <3>2. c.change \in Change
      BY <1>1 DEF Command
    <3>3. known \in Level
      BY HueInterfaceAssumption
    <3>4. Partly(bridge.lights, Lights, Level)
      BY <1>1 DEF House
    <3>5. ASSUME NEW l \in DOMAIN bridge.lights PROVE lights[l] \in Level
      <4>1. bridge.lights[l] \in Level
        BY <3>4 DEF Partly
      <4>2. Changed(c.change, bridge.lights[l], known) \in Level
        BY <3>2, <3>3, <4>1, ChangedLevel
      <4> QED
        BY <4>1, <4>2
    <3>6. Partly(lights, Lights, Level)
      BY <3>4, <3>5 DEF Partly
    <3>7. bridge' = [bridge EXCEPT !["lights"] = lights]
      BY <3>1
    <3> HIDE DEF lights
    <3> QED
      BY <1>1, <3>6, <3>7, HouseWith DEF ApiCalls
  <2> QED
    BY <2>1, <2>2
<1>5. House(bridge)'
  BY <1>4 DEF House
<1> QED
  BY <1>1, <1>2, <1>3, <1>5, ServerTypesStay, InterfaceTypesNext

LEMMA ChangesTyped ==
    /\ \A on \in BOOLEAN : [on |-> on] \in Change
    /\ \A p \in Percentage, bri \in Level :
        [brightness |-> p, bri |-> bri] \in Change
    /\ \A s \in Scenes : [scene |-> s] \in Change
BY DEF Change

\* The bridge, the cache and the displays hold what they can hold: the average
\* brightness of any lights is a percentage, and what is asked for is a step.
THEOREM InterfaceTypeCorrect == Spec => []TypeOK
<1>1. Init => TypeOK
  <2> SUFFICES ASSUME Init PROVE TypeOK
    OBVIOUS
  <2>1. House(bridge)
    BY HueInterfaceAssumption DEF Init
  <2>2. Bridge(cache) /\ Bridge(fetched)
    BY DefaultBridge DEF Init
  <2>3. Partly(view, Names, State)
    BY DEF Init, Nothing, Partly
  <2>4. changes \in 0 .. MaxChanges /\ failures \in 0 .. MaxFailures
    BY HueInterfaceAssumption DEF Init
  <2>5. commands \subseteq Command
    BY DEF Init
  <2> QED
    BY <2>1, <2>2, <2>3, <2>4, <2>5 DEF Init, TypeOK
<1>2. TypeOK /\ [Next]_vars => TypeOK'
  <2> SUFFICES ASSUME TypeOK, [Next]_vars PROVE TypeOK'
    OBVIOUS
  <2>1. CASE UNCHANGED vars
    <3>1. UNCHANGED <<bridge, cache, fetched, pending, phase, commands, view,
                      changes, failures>>
      BY <2>1 DEF vars
    <3> QED
      BY <3>1 DEF TypeOK, House, Bridge
  <2>2. ASSUME NEW n \in Names, NEW on \in BOOLEAN, UpdatePower(n, on)
        PROVE  TypeOK'
    BY <2>2, ChangesTyped, UpdateTyped DEF UpdatePower
  <2>3. ASSUME NEW n \in Names, NEW p \in Percentages, UpdateBrightness(n, p)
        PROVE  TypeOK'
    <3>1. p \in Percentage /\ Step(p) \in Level
      BY <2>3, RoundTrip DEF UpdateBrightness
    <3> QED
      BY <2>3, <3>1, ChangesTyped, UpdateTyped DEF UpdateBrightness
  <2>4. ASSUME NEW n \in Names, NEW s \in Scenes, UpdateScene(n, s)
        PROVE  TypeOK'
    BY <2>4, ChangesTyped, UpdateTyped DEF UpdateScene
  <2> QED
    BY <2>1, <2>2, <2>3, <2>4, BridgeChangesTyped, RoutineTyped, AskTyped,
       CommandTyped DEF Next
<1> QED
  BY <1>1, <1>2, PTL DEF Spec
=============================================================================
