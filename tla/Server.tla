------------------------------- MODULE Server -------------------------------
(***************************************************************************)
(* The server as a whole (server.ts, environment.ts, and the registry and  *)
(* command lookup of service_manager.ts): services are initialized one by  *)
(* one, the environment is loaded from a file that people edit, the server *)
(* starts to listen, and from then on it answers requests while any number *)
(* of reload-environment requests overlap.                                 *)
(*                                                                         *)
(* Reading the file is the one thing that takes time: everything after it, *)
(* from parsing to the reply, runs in microtasks, and so is one step.      *)
(* Subscriptions are the subject of ServiceManager, the routine and the    *)
(* handlers of the Philips Hue service that of HueInterface.               *)
(***************************************************************************)
EXTENDS Integers, Sequences, FiniteSets, Functions

CONSTANTS
    Services,        \* the sequence of services given to initialize()
    Commands,        \* Commands[s]: what getCommands() of service s returns
    Configurations,  \* configurations the file can hold, by room
    Unreadable,      \* a file that is missing, incomplete or of another form
    Messages,        \* what requests can carry: the type of each parameter,
                     \* and whether JavaScript takes its value for true
    Reloads,         \* reload-environment requests, each made once
    Boot,            \* the reload that initialize() makes
    MaxEdits         \* bound: how often the file is edited

Names == {c.command : c \in UNION {Commands[s] : s \in DOMAIN Commands}}

\* Command names are unique (service.ts:26), and none is one of the names
\* that are tried before the services are.
ASSUME ServerAssumption ==
    /\ Services \in Seq(DOMAIN Commands)
    /\ \A s \in DOMAIN Commands :
        Commands[s] \subseteq
            [command : STRING,
             parameters : Seq([name : STRING, type : STRING])]
    /\ \A s, t \in DOMAIN Commands : \A c \in Commands[s], d \in Commands[t] :
        c.command = d.command => s = t /\ c = d
    /\ Names \cap {"hello", "reload-environment", "environment-rooms",
                   "environment-services", "service-commands"} = {}
    /\ Unreadable \notin Configurations \cup {<<>>}
    /\ Boot \notin Reloads
    /\ MaxEdits \in Nat

VARIABLES
    phase,           \* how far initialize() has come
    added,           \* how many of the services it has added or skipped
    services,        \* ServiceManager.services: identifiers that can be used
    commands,        \* ServiceManager.commands: the service of each command
    routines,        \* the services whose routines have been scheduled
    file,            \* the environment file, with the number of its version
    stage,           \* stage[r]: what became of reload r
    seen,            \* seen[r]: the file as reload r has read it, meanwhile
    since,           \* the version when reload r, or the first of those it
                     \* overlaps with, was begun
    environment,     \* Server.environment, with the version it comes from
    reply,           \* the last reply to a client
    offered          \* services that clients have been told about

startVars == <<phase, added, services, commands, routines>>
reloadVars == <<stage, seen, since, environment>>
replyVars == <<reply, offered>>
vars == <<startVars, file, reloadVars, replyVars>>

-----------------------------------------------------------------------------
\* The commands of the one service that index.ts passes to initialize().
Parameter(name, type) == [name |-> name, type |-> type]
Command(name, parameter) ==
    [command |-> name,
     parameters |-> <<Parameter("group", "string")>> \o parameter]

PhilipsHueCommands ==
    {Command("philips-hue-power", <<Parameter("on", "boolean")>>),
     Command("philips-hue-brightness", <<Parameter("brightness", "number")>>),
     Command("philips-hue-colour", <<Parameter("colour", "string")>>),
     Command("philips-hue-scene", <<Parameter("scene", "string")>>),
     Command("philips-hue-state", <<>>)}

-----------------------------------------------------------------------------
AllReloads == Reloads \cup {Boot}

Error == [is |-> "error"]

Nothing == [version |-> 0, content |-> <<>>]

ServicesOf(rooms, room) == Range(rooms[room])
Named(rooms) == UNION {ServicesOf(rooms, room) : room \in DOMAIN rooms}

InProgress == {r \in AllReloads : stage[r] \in {"reading", "read"}}

Init ==
    /\ phase = "services"
    /\ added = 0
    /\ services = {}
    /\ commands = <<>>
    /\ routines = {}
    /\ file \in [version : {1}, content : Configurations \cup {Unreadable}]
    /\ stage = [r \in AllReloads |-> "none"]
    /\ seen = [r \in AllReloads |-> Nothing]
    /\ since = [r \in AllReloads |-> 0]
    /\ environment = Nothing
    /\ reply = [is |-> "none"]
    /\ offered = {}

\* Somebody edits the file, in place or step by step.
EditFile ==
    /\ file.version <= MaxEdits
    /\ \E content \in Configurations \cup {Unreadable} :
        file' = [version |-> file.version + 1, content |-> content]
    /\ UNCHANGED <<startVars, reloadVars, replyVars>>

-----------------------------------------------------------------------------
\* initialize(): addService() for one service after the other.
Adding(service) ==
    /\ phase = "services"
    /\ added < Len(Services)
    /\ service = Services[added + 1]

CommandNames(service) == {c.command : c \in Commands[service]}

Register(service) ==
    /\ services' = services \cup {service}
    /\ commands' = [name \in DOMAIN commands \cup CommandNames(service) |->
                        IF name \in CommandNames(service) THEN service
                        ELSE commands[name]]

AddService(service) ==
    /\ Adding(service)
    /\ added' = added + 1
    /\ Register(service)
    /\ routines' = routines \cup {service}
    /\ UNCHANGED <<phase, file, reloadVars, replyVars>>

\* Mutant: the routines are activated before it is known to be usable.
SkipServiceLate(service) ==
    /\ Adding(service)
    /\ added' = added + 1
    /\ routines' = routines \cup {service}
    /\ UNCHANGED <<phase, services, commands, file, reloadVars, replyVars>>

\* A service that cannot be used is left out.
SkipService(service) ==
    /\ Adding(service)
    /\ added' = added + 1
    /\ UNCHANGED <<phase, services, commands, routines, file, reloadVars,
                   replyVars>>

\* initialize() of the service throws, or its routine has an interval that is
\* out of bounds, which is found out when its commands have been registered.
AddServiceThrows(service) ==
    /\ Adding(service)
    /\ phase' = "aborted"
    /\ \/ UNCHANGED <<services, commands>>
       \/ Register(service)
    /\ UNCHANGED <<added, routines, file, reloadVars, replyVars>>

-----------------------------------------------------------------------------
\* reloadEnvironment() starts to read the file.
StartReading(r) ==
    /\ stage[r] = "none"
    /\ stage' = [stage EXCEPT ![r] = "reading"]
    /\ since' = [since EXCEPT ![r] =
                    IF InProgress = {} THEN file.version
                    ELSE CHOOSE v \in {since[q] : q \in InProgress} : TRUE]
    /\ UNCHANGED <<added, services, commands, routines, file, seen,
                   environment, replyVars>>

\* Mutant: waits until every service has been registered.
LoadWhenAllRegistered ==
    /\ phase = "services"
    /\ services = Range(Services)
    /\ phase' = "environment"
    /\ StartReading(Boot)

\* The first environment, when all services have been added.
LoadEnvironment ==
    /\ phase = "services"
    /\ added = Len(Services)
    /\ phase' = "environment"
    /\ StartReading(Boot)

\* The reload-environment command.
ReloadEnvironment(r) ==
    /\ phase = "listening"
    /\ r \in Reloads
    /\ UNCHANGED phase
    /\ StartReading(r)

\* Mutant: what has been read once is not read again.
ReadOnce(r) ==
    /\ stage[r] = "reading"
    /\ stage' = [stage EXCEPT ![r] = "read"]
    /\ seen' = [seen EXCEPT ![r] = IF environment.version > 0 THEN environment
                                   ELSE file]
    /\ UNCHANGED <<startVars, file, since, environment, replyVars>>

\* readFile() sees the file as it is at some moment.
ReadFile(r) ==
    /\ stage[r] = "reading"
    /\ stage' = [stage EXCEPT ![r] = "read"]
    /\ seen' = [seen EXCEPT ![r] = file]
    /\ UNCHANGED <<startVars, file, since, environment, replyVars>>

\* The outcome is the reply, an exception being one that says so, or it ends
\* initialize().
Conclude(r, outcome) ==
    /\ stage[r] = "read"
    /\ stage' = [stage EXCEPT ![r] = outcome]
    /\ seen' = [seen EXCEPT ![r] = Nothing]
    /\ IF r = Boot
       THEN /\ phase' = IF outcome = "loaded" THEN "listening" ELSE "aborted"
            /\ UNCHANGED reply
       ELSE /\ reply' = IF outcome = "failed" THEN Error
                        ELSE [is |-> "reloaded", success |-> outcome = "loaded"]
            /\ UNCHANGED phase
    /\ UNCHANGED <<added, services, commands, routines, file, since, offered>>

\* Mutant: only the first service of each room is looked at.
KnowsFirstServices(rooms) ==
    \A room \in DOMAIN rooms :
        rooms[room] # <<>> => rooms[room][1] \in services

\* validateEnvironment(): every service is known, and approves its options.
KnowsServices(rooms) == Named(rooms) \subseteq services

Install(r) ==
    /\ seen[r].content # Unreadable
    /\ KnowsServices(seen[r].content)
    /\ Conclude(r, "loaded")
    /\ environment' = seen[r]

\* Nothing is installed when the file cannot be used, it names an unknown
\* service, or a service does not approve of its options.
Refuse(r) ==
    /\ seen[r].content # Unreadable => Named(seen[r].content) # {}
    /\ Conclude(r, "refused")
    /\ UNCHANGED environment

\* validate() of a service throws: of one that is known, and that comes before
\* any other service of its room.
ValidateThrows(r) ==
    /\ seen[r].content # Unreadable
    /\ \E room \in DOMAIN seen[r].content :
        LET named == seen[r].content[room]
        IN  named # <<>> /\ named[1] \in services
    /\ Conclude(r, "failed")
    /\ UNCHANGED environment

-----------------------------------------------------------------------------
Answer(answer) ==
    /\ phase = "listening"
    /\ reply' = answer
    /\ offered' = offered \cup (IF answer.is = "services"
                                THEN Range(answer.services) ELSE {})
    /\ UNCHANGED <<startVars, file, reloadVars>>

AskHello == Answer([is |-> "hello"])

AskRooms == Answer([is |-> "rooms", rooms |-> DOMAIN environment.content])

\* A room may be gone that was there when the rooms were asked for.
AskServices(room) ==
    Answer(IF room \in DOMAIN environment.content
           THEN [is |-> "services", services |-> environment.content[room]]
           ELSE Error)

\* service-commands, for a service that may be unknown.
AskCommands(service) ==
    Answer([is |-> "commands",
            commands |-> {name \in DOMAIN commands : commands[name] = service}])

\* The parameters that are given, up to the first that is not, are those whose
\* types are checked and that are passed on.
Given(parameters, message) ==
    Cardinality({i \in DOMAIN parameters :
        \A j \in 1 .. i : parameters[j].name \in DOMAIN message})

WellTyped(parameters, message) ==
    \A i \in 1 .. Given(parameters, message) :
        message[parameters[i].name].type = parameters[i].type

\* Parameters can be left out of a message that has something true under the
\* name "optional"; what the command declares is not looked at.
Complete(parameters, message) ==
    \/ Given(parameters, message) = Len(parameters)
    \/ "optional" \in DOMAIN message /\ message["optional"].truthy

ParametersOf(name) ==
    (CHOOSE c \in Commands[commands[name]] : c.command = name).parameters

\* dispatchCommand() for any other command, known or not.
CallCommand(name, message) ==
    Answer(IF /\ name \in DOMAIN commands
              /\ Complete(ParametersOf(name), message)
              /\ WellTyped(ParametersOf(name), message)
           THEN [is |-> "called", command |-> name]
           ELSE Error)

-----------------------------------------------------------------------------
AnyRoom == UNION {DOMAIN rooms : rooms \in Configurations}

Start(service) ==
    AddService(service) \/ SkipService(service) \/ AddServiceThrows(service)

Finish(r) == Install(r) \/ Refuse(r) \/ ValidateThrows(r)

Next ==
    \/ EditFile
    \/ \E service \in Range(Services) : Start(service)
    \/ LoadEnvironment
    \/ \E r \in AllReloads : ReloadEnvironment(r) \/ ReadFile(r) \/ Finish(r)
    \/ AskHello
    \/ AskRooms
    \/ \E room \in AnyRoom : AskServices(room)
    \/ \E service \in DOMAIN Commands : AskCommands(service)
    \/ \E name \in Names, message \in Messages : CallCommand(name, message)

Spec == Init /\ [][Next]_vars

\* Services settle sooner or later (HueConnection shows it for Philips Hue),
\* and so does reading a file.
FairSpec ==
    /\ Spec
    /\ \A service \in Range(Services) : WF_vars(Start(service))
    /\ WF_vars(LoadEnvironment)
    /\ \A r \in AllReloads : WF_vars(ReadFile(r)) /\ WF_vars(Finish(r))

-----------------------------------------------------------------------------
Content == Configurations \cup {<<>>, Unreadable}
Version == 0 .. MaxEdits + 1

TypeOK ==
    /\ phase \in {"services", "environment", "listening", "aborted"}
    /\ added \in 0 .. Len(Services)
    /\ services \subseteq Range(Services)
    /\ DOMAIN commands \subseteq Names
    /\ \A name \in DOMAIN commands :
        commands[name] \in services /\ name \in CommandNames(commands[name])
    /\ routines \subseteq services
    /\ file \in [version : Version, content : Content]
    /\ stage \in [AllReloads ->
                    {"none", "reading", "read", "loaded", "refused", "failed"}]
    /\ seen \in [AllReloads -> [version : Version, content : Content]]
    /\ since \in [AllReloads -> Version]
    /\ environment \in [version : Version, content : Content \ {Unreadable}]
    /\ reply.is \in {"none", "error", "hello", "rooms", "services",
                     "commands", "called", "reloaded"}
    /\ offered \subseteq DOMAIN Commands

\* A panel goes on using the services it was told about, whatever has been
\* reloaded or refused since: all their commands are still dispatched to them.
OfferedStaysServed ==
    \A service \in offered :
        /\ service \in services
        /\ \A name \in CommandNames(service) :
            name \in DOMAIN commands /\ commands[name] = service

\* Reloads can end in another order than they began and an old reading of the
\* file can be installed last, but never one from before the first of the
\* reloads that overlap: what was in the file by then is in effect once any of
\* them has succeeded, and stays.  Clients are let in by the first that has.
ReloadsTakeEffect ==
    /\ phase = "listening" => stage[Boot] = "loaded"
    /\ \A r \in AllReloads :
        stage[r] = "loaded" => environment.version >= since[r]

\* Starting the server comes to an end, whichever services fail.
StartupEnds == <>(phase \in {"listening", "aborted"})
=============================================================================
