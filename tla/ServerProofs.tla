---------------------------- MODULE ServerProofs ----------------------------
(***************************************************************************)
(* Proofs about Server, for any services and commands, any configurations  *)
(* of the file and any number of reloads that overlap: what clients were   *)
(* told about stays served, and no reload brings back what was in the file *)
(* before it.                                                              *)
(***************************************************************************)
EXTENDS Server, TLAPS

USE ServerAssumption

-----------------------------------------------------------------------------
\* Type correctness, one lemma for each part of the program.
Outcomes == {"loaded", "refused", "failed"}
Stages == {"none", "reading", "read"} \cup Outcomes

LEMMA ServicesOfSequence ==
    ASSUME NEW service, TypeOK, Adding(service)
    PROVE  /\ service \in Range(Services)
           /\ service \in DOMAIN Commands
           /\ added + 1 \in 0 .. Len(Services)
BY DEF TypeOK, Adding, Range

LEMMA CommandNamesOfService ==
    ASSUME NEW service \in DOMAIN Commands
    PROVE  CommandNames(service) \subseteq Names
BY DEF CommandNames, Names

LEMMA RegisterType ==
    ASSUME NEW service \in DOMAIN Commands, TypeOK, Register(service)
    PROVE  /\ DOMAIN commands' \subseteq Names
           /\ \A name \in DOMAIN commands' :
                /\ commands'[name] \in services'
                /\ name \in CommandNames(commands'[name])
BY CommandNamesOfService DEF TypeOK, Register

LEMMA StartType ==
    ASSUME NEW service, TypeOK, Start(service)
    PROVE  TypeOK'
<1>1. Adding(service)
  BY DEF Start, AddService, SkipService, AddServiceThrows
<1>2. /\ service \in Range(Services) /\ service \in DOMAIN Commands
      /\ added + 1 \in 0 .. Len(Services)
  BY <1>1, ServicesOfSequence
<1>3. CASE AddService(service)
  <2>1. Register(service)
    BY <1>3 DEF AddService
  <2>2. services' \subseteq Range(Services) /\ routines' \subseteq services'
    BY <1>2, <1>3 DEF AddService, Register, TypeOK
  <2> QED
    BY <1>2, <1>3, <2>1, <2>2, RegisterType
    DEF AddService, TypeOK, reloadVars, replyVars
<1>4. CASE SkipService(service)
  BY <1>2, <1>4 DEF SkipService, TypeOK, reloadVars, replyVars
<1>5. CASE AddServiceThrows(service)
  <2>1. CASE UNCHANGED <<services, commands>>
    BY <1>5, <2>1 DEF AddServiceThrows, TypeOK, reloadVars, replyVars
  <2>2. CASE Register(service)
    <3>1. services' \subseteq Range(Services) /\ routines' \subseteq services'
      BY <1>2, <1>5, <2>2 DEF AddServiceThrows, Register, TypeOK
    <3> QED
      BY <1>2, <1>5, <2>2, <3>1, RegisterType
      DEF AddServiceThrows, TypeOK, reloadVars, replyVars
  <2> QED
    BY <1>5, <2>1, <2>2 DEF AddServiceThrows
<1> QED
  BY <1>3, <1>4, <1>5 DEF Start

\* A reload that begins goes back to the first of those that it overlaps with.
LEMMA SinceEffect ==
    ASSUME TypeOK, NEW r \in AllReloads, StartReading(r)
    PROVE  \E v : /\ since' = [since EXCEPT ![r] = v]
                  /\ \/ InProgress = {} /\ v = file.version
                     \/ \E q \in InProgress : v = since[q]
<1>1. CASE InProgress = {}
  BY <1>1 DEF StartReading
<1>2. CASE InProgress # {}
  <2> DEFINE S == {since[q] : q \in InProgress}
  <2>1. \E v : v \in S
    BY <1>2
  <2>2. (CHOOSE v \in S : TRUE) \in S
    BY <2>1
  <2>3. since' = [since EXCEPT ![r] = CHOOSE v \in S : TRUE]
    BY <1>2 DEF StartReading
  <2> HIDE DEF S
  <2>4. \E q \in InProgress : (CHOOSE v \in S : TRUE) = since[q]
    BY <2>2 DEF S
  <2> QED
    BY <2>3, <2>4
<1> QED
  BY <1>1, <1>2

LEMMA StartReadingType ==
    ASSUME TypeOK, NEW r \in AllReloads, StartReading(r),
           phase' \in {"services", "environment", "listening", "aborted"}
    PROVE  TypeOK'
<1>1. since' \in [AllReloads -> Version]
  BY SinceEffect DEF TypeOK, InProgress
<1> QED
  BY <1>1 DEF StartReading, TypeOK, replyVars

LEMMA FinishType ==
    ASSUME TypeOK, NEW r \in AllReloads, Finish(r)
    PROVE  TypeOK'
<1>1. ASSUME NEW outcome \in Outcomes, Conclude(r, outcome)
      PROVE  /\ phase' \in {"services", "environment", "listening", "aborted"}
             /\ stage' \in [AllReloads -> Stages]
             /\ seen' \in [AllReloads -> [version : Version, content : Content]]
             /\ reply'.is \in {"none", "error", "hello", "rooms", "services",
                               "commands", "called", "reloaded"}
             /\ UNCHANGED <<added, services, commands, routines, file, since,
                            offered>>
  <2>1. Nothing \in [version : Version, content : Content]
    BY DEF Nothing, Version, Content
  <2> QED
    BY <1>1, <2>1 DEF Conclude, TypeOK, Stages, Outcomes, Error
<1>2. CASE Install(r)
  <2>1. environment' \in [version : Version, content : Content \ {Unreadable}]
    BY <1>2 DEF Install, TypeOK
  <2> QED
    BY <1>1, <1>2, <2>1 DEF Install, TypeOK, Stages, Outcomes
<1>3. CASE Refuse(r) \/ ValidateThrows(r)
  BY <1>1, <1>3 DEF Refuse, ValidateThrows, TypeOK, Stages, Outcomes
<1> QED
  BY <1>2, <1>3 DEF Finish

-----------------------------------------------------------------------------
\* The strengthening.  All commands of a service are registered with it.
Registered ==
    \A service \in services : \A name \in CommandNames(service) :
        name \in DOMAIN commands /\ commands[name] = service

\* The environment that is in effect names services that can be used.
EnvironmentServed == Named(environment.content) \subseteq services

\* Reloads that are in progress go back to the same version, which nothing in
\* effect is older than, and what they read is not older either.
SinceInOrder ==
    /\ \A r \in AllReloads : since[r] <= file.version
    /\ \A r \in InProgress, q \in AllReloads : since[q] <= since[r]
    /\ \A r \in AllReloads : stage[r] = "read" => since[r] <= seen[r].version

IInv ==
    /\ TypeOK
    /\ Registered
    /\ EnvironmentServed
    /\ offered \subseteq services
    /\ SinceInOrder
    /\ ReloadsTakeEffect

LEMMA NothingNamed == Named(<<>>) = {}
BY DEF Named

LEMMA InitIInv == Init => IInv
<1> SUFFICES ASSUME Init PROVE IInv
  OBVIOUS
<1> USE DEF Init
<1>1. TypeOK
  <2>1. Nothing \in [version : Version, content : Content \ {Unreadable}]
    BY DEF Nothing, Version, Content
  <2>2. file \in [version : Version, content : Content]
    BY DEF Version, Content
  <2>3. DOMAIN commands = {}
    OBVIOUS
  <2> QED
    BY <2>1, <2>2, <2>3 DEF TypeOK, Version, Range
<1>2. Registered /\ EnvironmentServed /\ offered \subseteq services
  BY NothingNamed DEF Registered, EnvironmentServed, Nothing
<1>3. SinceInOrder
  BY DEF SinceInOrder, InProgress
<1>4. ReloadsTakeEffect
  BY DEF ReloadsTakeEffect
<1> QED
  BY <1>1, <1>2, <1>3, <1>4 DEF IInv

\* The parts about reloads speak of few variables.
LEMMA ReloadsUnchanged ==
    ASSUME SinceInOrder, ReloadsTakeEffect, UNCHANGED reloadVars,
           file.version \in Int, since \in [AllReloads -> Int],
           file'.version \in Int, file'.version >= file.version,
           phase' = "listening" => phase = "listening"
    PROVE  SinceInOrder' /\ ReloadsTakeEffect'
BY DEF SinceInOrder, ReloadsTakeEffect, reloadVars, InProgress

LEMMA EditFileIInv ==
    ASSUME IInv, EditFile
    PROVE  IInv'
<1> USE DEF IInv, EditFile, startVars, replyVars
<1>1. TypeOK'
  BY DEF TypeOK, reloadVars, Version, Content
<1>2. Registered' /\ EnvironmentServed' /\ offered' \subseteq services'
  BY DEF Registered, EnvironmentServed, reloadVars
<1>3. SinceInOrder' /\ ReloadsTakeEffect'
  BY ReloadsUnchanged DEF TypeOK, Version
<1> QED
  BY <1>1, <1>2, <1>3

-----------------------------------------------------------------------------
\* No two services share a command: registering one keeps the others'.
LEMMA RegisterKeeps ==
    ASSUME TypeOK, Registered, NEW service \in DOMAIN Commands,
           Register(service)
    PROVE  Registered'
<1> SUFFICES ASSUME NEW t \in services', NEW name \in CommandNames(t)
             PROVE  name \in DOMAIN commands' /\ commands'[name] = t
  BY DEF Registered
<1>1. CASE t = service
  BY <1>1 DEF Register
<1>2. CASE t # service
  <2>1. t \in services /\ t \in DOMAIN Commands
    BY <1>2 DEF Register, TypeOK, Range
  <2>2. name \notin CommandNames(service)
    BY <1>2, <2>1 DEF CommandNames
  <2> QED
    BY <2>1, <2>2 DEF Register, Registered
<1> QED
  BY <1>1, <1>2

LEMMA StartIInv ==
    ASSUME IInv, NEW service, Start(service)
    PROVE  IInv'
<1>1. TypeOK'
  BY StartType DEF IInv
<1>2. /\ phase = "services" /\ phase' # "listening"
      /\ UNCHANGED <<file, reloadVars, replyVars>>
      /\ Register(service) \/ UNCHANGED <<services, commands>>
      /\ Adding(service)
  BY DEF Start, AddService, SkipService, AddServiceThrows, Adding
<1>3. Registered'
  <2>1. CASE Register(service)
    BY <1>2, <2>1, RegisterKeeps, ServicesOfSequence DEF IInv
  <2>2. CASE UNCHANGED <<services, commands>>
    BY <2>2 DEF IInv, Registered
  <2> QED
    BY <1>2, <2>1, <2>2
<1>4. services \subseteq services'
  BY <1>2 DEF Register
<1>5. EnvironmentServed' /\ offered' \subseteq services'
  BY <1>2, <1>4 DEF IInv, EnvironmentServed, reloadVars, replyVars
<1>6. SinceInOrder' /\ ReloadsTakeEffect'
  BY <1>2, ReloadsUnchanged DEF IInv, TypeOK, Version
<1> QED
  BY <1>1, <1>3, <1>5, <1>6 DEF IInv

-----------------------------------------------------------------------------
\* What a reload leaves alone: the services, and what clients were told.
LEMMA ServicesUnchanged ==
    ASSUME Registered, offered \subseteq services,
           UNCHANGED <<services, commands, offered>>
    PROVE  Registered' /\ offered' \subseteq services'
BY DEF Registered

LEMMA StartReadingOrder ==
    ASSUME IInv, NEW r \in AllReloads, StartReading(r)
    PROVE  SinceInOrder'
<1>1. PICK v : /\ since' = [since EXCEPT ![r] = v]
               /\ \/ InProgress = {} /\ v = file.version
                  \/ \E q \in InProgress : v = since[q]
  BY SinceEffect DEF IInv
<1>2. /\ stage[r] = "none" /\ stage' = [stage EXCEPT ![r] = "reading"]
      /\ UNCHANGED <<file, seen>>
  BY DEF StartReading
<1>3. /\ stage \in [AllReloads -> Stages] /\ since \in [AllReloads -> Int]
      /\ file.version \in Int
  BY DEF IInv, TypeOK, Stages, Outcomes, Version
<1>4. InProgress' = InProgress \cup {r} /\ InProgress \subseteq AllReloads
  BY <1>2, <1>3 DEF InProgress
<1>5. v \in Int /\ v <= file.version /\ \A q \in AllReloads : since[q] <= v
  BY <1>1, <1>3, <1>4 DEF IInv, SinceInOrder
<1>6. \A p \in InProgress : v <= since[p]
  BY <1>1, <1>3, <1>4 DEF IInv, SinceInOrder
<1>7. \A q \in AllReloads : since'[q] <= file'.version
  BY <1>1, <1>2, <1>3, <1>5 DEF IInv, SinceInOrder
<1>8. ASSUME NEW p \in InProgress', NEW q \in AllReloads
      PROVE  since'[q] <= since'[p]
  BY <1>1, <1>3, <1>4, <1>5, <1>6, <1>8 DEF IInv, SinceInOrder
<1>9. ASSUME NEW q \in AllReloads, stage'[q] = "read"
      PROVE  since'[q] <= seen'[q].version
  BY <1>1, <1>2, <1>3, <1>9 DEF IInv, SinceInOrder
<1> QED
  BY <1>7, <1>8, <1>9 DEF SinceInOrder

LEMMA StartReadingIInv ==
    ASSUME IInv, NEW r \in AllReloads, StartReading(r),
           \/ phase' = phase
           \/ phase = "services" /\ phase' = "environment"
    PROVE  IInv'
<1>1. TypeOK'
  BY StartReadingType DEF IInv, TypeOK
<1>2. UNCHANGED <<services, commands, environment, reply, offered>>
  BY DEF StartReading, replyVars
<1>3. Registered' /\ EnvironmentServed' /\ offered' \subseteq services'
  BY <1>2, ServicesUnchanged DEF IInv, EnvironmentServed
<1>4. ReloadsTakeEffect'
  <2>1. stage[r] = "none" /\ stage' = [stage EXCEPT ![r] = "reading"]
    BY DEF StartReading
  <2>2. stage \in [AllReloads -> Stages] /\ since \in [AllReloads -> Version]
    BY DEF IInv, TypeOK, Stages, Outcomes
  <2>3. phase' = "listening" => stage'[Boot] = "loaded"
    BY <2>1, <2>2 DEF IInv, ReloadsTakeEffect, AllReloads
  <2>4. PICK v : since' = [since EXCEPT ![r] = v]
    BY SinceEffect DEF IInv
  <2>5. ASSUME NEW q \in AllReloads, stage'[q] = "loaded"
        PROVE  environment'.version >= since'[q]
    BY <1>2, <2>1, <2>2, <2>4, <2>5 DEF IInv, ReloadsTakeEffect
  <2> QED
    BY <2>3, <2>5 DEF ReloadsTakeEffect
<1> QED
  BY <1>1, <1>3, <1>4, StartReadingOrder DEF IInv

LEMMA ReadFileIInv ==
    ASSUME IInv, NEW r \in AllReloads, ReadFile(r)
    PROVE  IInv'
<1>1. /\ stage[r] = "reading" /\ stage' = [stage EXCEPT ![r] = "read"]
      /\ seen' = [seen EXCEPT ![r] = file]
      /\ UNCHANGED <<startVars, file, since, environment, reply, offered>>
  BY DEF ReadFile, replyVars
<1>2. TypeOK'
  BY <1>1 DEF IInv, TypeOK, startVars
<1>3. Registered' /\ EnvironmentServed' /\ offered' \subseteq services'
  BY <1>1, ServicesUnchanged DEF IInv, EnvironmentServed, startVars
<1>4. SinceInOrder'
  BY <1>1 DEF IInv, SinceInOrder, TypeOK, Version, InProgress
<1>5. ReloadsTakeEffect'
  BY <1>1 DEF IInv, ReloadsTakeEffect, TypeOK, AllReloads, startVars
<1> QED
  BY <1>2, <1>3, <1>4, <1>5 DEF IInv

LEMMA FinishIInv ==
    ASSUME IInv, NEW r \in AllReloads, Finish(r)
    PROVE  IInv'
<1>1. PICK outcome \in Outcomes :
        /\ Conclude(r, outcome)
        /\ \/ /\ environment' = seen[r]
              /\ Named(seen[r].content) \subseteq services
           \/ UNCHANGED environment /\ outcome # "loaded"
  BY DEF Finish, Install, Refuse, ValidateThrows, KnowsServices, Outcomes
<1>2. /\ stage[r] = "read"
      /\ stage' = [stage EXCEPT ![r] = outcome]
      /\ seen' = [seen EXCEPT ![r] = Nothing]
      /\ r = Boot => phase' = IF outcome = "loaded" THEN "listening" ELSE "aborted"
      /\ r # Boot => UNCHANGED phase
      /\ UNCHANGED <<services, commands, file, since, offered>>
  BY <1>1 DEF Conclude
<1>3. /\ stage \in [AllReloads -> Stages] /\ since \in [AllReloads -> Int]
      /\ seen \in [AllReloads -> [version : Version, content : Content]]
      /\ environment.version \in Int
  BY DEF IInv, TypeOK, Stages, Outcomes, Version
<1>4. TypeOK'
  BY FinishType DEF IInv
<1>5. Registered' /\ EnvironmentServed' /\ offered' \subseteq services'
  BY <1>1, <1>2, ServicesUnchanged DEF IInv, EnvironmentServed
<1>6. SinceInOrder'
  BY <1>2, <1>3 DEF IInv, SinceInOrder, InProgress, Outcomes
<1>7. ReloadsTakeEffect'
  <2>1. phase' = "listening" => stage'[Boot] = "loaded"
    BY <1>2, <1>3 DEF IInv, ReloadsTakeEffect, AllReloads
  <2>2. ASSUME NEW q \in AllReloads, stage'[q] = "loaded"
        PROVE  environment'.version >= since'[q]
    <3>1. CASE UNCHANGED environment /\ outcome # "loaded"
      BY <1>2, <1>3, <2>2, <3>1 DEF IInv, ReloadsTakeEffect
    <3>2. CASE environment' = seen[r]
      <4>1. r \in InProgress /\ seen[r].version \in Int
        BY <1>2, <1>3 DEF InProgress, Version
      <4>2. since[q] <= since[r] /\ since[r] <= seen[r].version
        BY <1>2, <4>1 DEF IInv, SinceInOrder
      <4> QED
        BY <1>2, <1>3, <3>2, <4>1, <4>2
    <3> QED
      BY <1>1, <3>1, <3>2
  <2> QED
    BY <2>1, <2>2 DEF ReloadsTakeEffect
<1> QED
  BY <1>4, <1>5, <1>6, <1>7 DEF IInv

-----------------------------------------------------------------------------
\* The answer to a request: only the services of a room that is in effect are
\* told.
LEMMA AnswerIInv ==
    ASSUME IInv, NEW answer, Answer(answer),
           answer.is \in {"error", "hello", "rooms", "services", "commands",
                          "called"},
           answer.is = "services" => Range(answer.services) \subseteq services
    PROVE  IInv'
<1>1. /\ phase = "listening" /\ reply' = answer
      /\ UNCHANGED <<startVars, file, reloadVars>>
  BY DEF Answer
<1>2. offered' \subseteq services
  BY DEF Answer, IInv
<1>3. services \subseteq DOMAIN Commands
  BY DEF IInv, TypeOK, Range
<1>4. TypeOK'
  BY <1>1, <1>2, <1>3 DEF IInv, TypeOK, startVars, reloadVars
<1>5. Registered' /\ EnvironmentServed' /\ offered' \subseteq services'
  BY <1>1, <1>2 DEF IInv, Registered, EnvironmentServed, startVars, reloadVars
<1>6. SinceInOrder' /\ ReloadsTakeEffect'
  BY <1>1, ReloadsUnchanged DEF IInv, TypeOK, Version, startVars
<1> QED
  BY <1>4, <1>5, <1>6 DEF IInv

LEMMA AskIInv ==
    ASSUME IInv,
           \/ AskHello \/ AskRooms
           \/ \E room \in AnyRoom : AskServices(room)
           \/ \E service \in DOMAIN Commands : AskCommands(service)
    PROVE  IInv'
<1>1. CASE AskHello
  BY <1>1, AnswerIInv DEF AskHello
<1>2. CASE AskRooms
  BY <1>2, AnswerIInv DEF AskRooms
<1>3. ASSUME NEW room, AskServices(room)
      PROVE  IInv'
  <2> DEFINE rooms == environment.content
  <2>1. CASE room \in DOMAIN rooms
    <3>1. Range(rooms[room]) \subseteq Named(rooms)
      BY <2>1 DEF Named, ServicesOf
    <3>2. Range(rooms[room]) \subseteq services
      BY <3>1 DEF IInv, EnvironmentServed
    <3>3. Answer([is |-> "services", services |-> rooms[room]])
      BY <1>3, <2>1 DEF AskServices
    <3> HIDE DEF rooms
    <3> QED
      BY <3>2, <3>3, AnswerIInv
  <2>2. CASE room \notin DOMAIN rooms
    BY <1>3, <2>2, AnswerIInv DEF AskServices, Error
  <2> QED
    BY <2>1, <2>2
<1>4. ASSUME NEW service, AskCommands(service)
      PROVE  IInv'
  BY <1>4, AnswerIInv DEF AskCommands
<1> QED
  BY <1>1, <1>2, <1>3, <1>4

LEMMA CallCommandIInv ==
    ASSUME IInv, NEW name, NEW message, CallCommand(name, message)
    PROVE  IInv'
<1>1. CASE Answer([is |-> "called", command |-> name])
  BY <1>1, AnswerIInv
<1>2. CASE Answer(Error)
  BY <1>2, AnswerIInv DEF Error
<1> QED
  BY <1>1, <1>2 DEF CallCommand

-----------------------------------------------------------------------------
LEMMA NextIInv == ASSUME IInv, [Next]_vars PROVE IInv'
<1>1. CASE EditFile
  BY <1>1, EditFileIInv
<1>2. ASSUME NEW service \in Range(Services), Start(service)
      PROVE  IInv'
  BY <1>2, StartIInv
<1>3. CASE LoadEnvironment
  BY <1>3, StartReadingIInv DEF LoadEnvironment, AllReloads
<1>4. ASSUME NEW r \in AllReloads, ReloadEnvironment(r)
      PROVE  IInv'
  BY <1>4, StartReadingIInv DEF ReloadEnvironment
<1>5. ASSUME NEW r \in AllReloads, ReadFile(r) \/ Finish(r)
      PROVE  IInv'
  BY <1>5, ReadFileIInv, FinishIInv
<1>6. ASSUME NEW name, NEW message, CallCommand(name, message)
      PROVE  IInv'
  BY <1>6, CallCommandIInv
<1>7. CASE UNCHANGED vars
  <2> USE DEF vars, startVars, reloadVars, replyVars
  <2>1. TypeOK' /\ Registered' /\ EnvironmentServed' /\ offered' \subseteq services'
    BY <1>7 DEF IInv, TypeOK, Registered, EnvironmentServed
  <2>2. SinceInOrder' /\ ReloadsTakeEffect'
    BY <1>7 DEF IInv, SinceInOrder, InProgress, ReloadsTakeEffect
  <2> QED
    BY <2>1, <2>2 DEF IInv
<1> QED
  BY <1>1, <1>2, <1>3, <1>4, <1>5, <1>6, <1>7, AskIInv DEF Next

LEMMA Invariance == Spec => []IInv
BY InitIInv, NextIInv, PTL DEF Spec

\* Every variable keeps its type, for any services, files and reloads.
THEOREM TypeCorrect == Spec => []TypeOK
<1>1. IInv => TypeOK
  BY DEF IInv
<1> QED
  BY <1>1, Invariance, PTL

\* A service that a client was told about (environment.ts:94) goes on being
\* served, with all its commands, through every reload that follows.
THEOREM OfferedGoOn == Spec => []OfferedStaysServed
<1>1. IInv => OfferedStaysServed
  BY DEF IInv, OfferedStaysServed, Registered
<1> QED
  BY <1>1, Invariance, PTL

\* However many reloads overlap (server.ts:71-81), none that has succeeded
\* leaves an environment in effect from before the first of them.
THEOREM ReloadsForward == Spec => []ReloadsTakeEffect
<1>1. IInv => ReloadsTakeEffect
  BY DEF IInv
<1> QED
  BY <1>1, Invariance, PTL
=============================================================================
