--------------------------- MODULE ServiceManager ---------------------------
(***************************************************************************)
(* The server's half of the control channel: the WebSocket handlers of     *)
(* Network (src/network.ts), the NetworkClient objects they create         *)
(* (src/network_client.ts) and the ServiceManager that dispatches their    *)
(* commands, keeps their subscriptions and broadcasts to them              *)
(* (src/service_manager.ts).                                               *)
(*                                                                         *)
(* Everything runs on one event loop.  A message handler is an async       *)
(* function: when it awaits only promises that settle without I/O, it is   *)
(* done before the next event is taken; when it awaits the Philips Hue     *)
(* bridge or the file system, any event can come first.  The operator      *)
(* Immediate tells the two apart and EventLoopIdle guards every event.     *)
(***************************************************************************)
EXTENDS Naturals, Sequences, FiniteSets

CONSTANTS
    Clients,         \* NetworkClient objects, one per accepted connection
    Topics,          \* parameter lists of the subscribable command
    Requests,        \* message ids, each used once
    MaxBroadcasts,   \* bound: calls of distribute() on one topic
    FatalRejections  \* Node 15 and up end the process on an unhandled
                     \* rejection, Node 14 logs a warning (package.json
                     \* allows both)

ASSUME ServiceManagerAssumption ==
    /\ MaxBroadcasts \in Nat
    /\ FatalRejections \in BOOLEAN

VARIABLES
    socket,          \* socket[c]: readyState of the client's WebSocket
    observing,       \* clients whose observers hold the service manager
    subscriptions,   \* ServiceManager.subscriptions, in creation order
    handling,        \* requests whose message handler has not finished
    replies,         \* finished requests, with what became of the reply
    heard,           \* heard[c][t]: broadcasts on t handed to c's socket
    broadcasts,      \* broadcasts[t]: calls of distribute() on t
    running          \* the server process has not been ended

vars == <<socket, observing, subscriptions, handling, replies, heard,
          broadcasts, running>>

-----------------------------------------------------------------------------
\* "state":  philips-hue-state, the one command with subscribe: true;
\* "query":  hello, environment-*, service-commands, or an unknown command;
\* "update": a command that awaits the bridge, or reload-environment.
Command ==
    [kind : {"state"}, topic : Topics] \cup [kind : {"query", "update"}]

Request == [id : Requests, client : Clients, command : Command]

\* The results of the handler that were sent, or "dropped" when the socket
\* was no longer open and send() threw.
Reply == [request : Request, result : {"ok", "error", "dropped"}]

Subscription == [topic : Topics, clients : SUBSET Clients]

\* Mutant: the handler of philips-hue-state asks the bridge.
NothingImmediate(command) == FALSE

\* Whether the handler of a command settles without awaiting I/O.
Immediate(command) == command.kind # "update"

EventLoopIdle == \A r \in handling : ~Immediate(r.command)

UsedIds == {r.id : r \in handling} \cup {p.request.id : p \in replies}

\* The positions of the subscriptions for topic t.
Matching(t) == {i \in DOMAIN subscriptions : subscriptions[i].topic = t}

FirstMatch(t) == CHOOSE i \in Matching(t) : \A j \in Matching(t) : i <= j

Subscribed(c, t) == \E i \in Matching(t) : c \in subscriptions[i].clients

\* An exception leaves an async function nobody awaits.
Rejected == running' = ~FatalRejections

-----------------------------------------------------------------------------
Init ==
    /\ socket = [c \in Clients |-> "none"]
    /\ observing = {}
    /\ subscriptions = <<>>
    /\ handling = {}
    /\ replies = {}
    /\ heard = [c \in Clients |-> [t \in Topics |-> 0]]
    /\ broadcasts = [t \in Topics |-> 0]
    /\ running = TRUE

\* Network.onNetworkConnection: a NetworkClient without observers.
Connect(c) ==
    /\ running /\ EventLoopIdle
    /\ socket[c] = "none"
    /\ socket' = [socket EXCEPT ![c] = "open"]
    /\ UNCHANGED <<observing, subscriptions, handling, replies, heard,
                   broadcasts, running>>

\* A frame has arrived.  The frames of one chunk of data are delivered back
\* to back, before the handlers of the first ones have finished.  Frames are
\* delivered until the connection has closed, even after webSocket.close().
Delivers(c) ==
    /\ running
    /\ socket[c] \in {"open", "closing"}
    /\ \A r \in handling : Immediate(r.command) => r.client = c

\* Client c joins the subscription that already exists for t.
JoinFirst(c, t) ==
    [subscriptions EXCEPT ![FirstMatch(t)] =
        [topic |-> t, clients |-> @.clients \cup {c}]]

\* Mutant: the first loop forgets to record that it has subscribed.
SubscribeForgetsFlag(c, t) ==
    /\ subscriptions' =
            Append(IF Matching(t) = {} THEN subscriptions ELSE JoinFirst(c, t),
                   [topic |-> t, clients |-> {c}])
    /\ observing' = observing \cup {c}

\* Mutant: joining an existing subscription returns before addObserver.
SubscribeReturnsEarly(c, t) ==
    IF Matching(t) = {}
    THEN /\ subscriptions' =
                Append(subscriptions, [topic |-> t, clients |-> {c}])
         /\ observing' = observing \cup {c}
    ELSE /\ subscriptions' = JoinFirst(c, t)
         /\ UNCHANGED observing

\* dispatchCommand, after the handler's result is known.
Subscribe(c, t) ==
    IF Matching(t) = {}
    THEN /\ subscriptions' =
                Append(subscriptions, [topic |-> t, clients |-> {c}])
         /\ observing' = observing \cup {c}
    ELSE IF c \in subscriptions[FirstMatch(t)].clients
    THEN UNCHANGED <<subscriptions, observing>>
    ELSE /\ subscriptions' = JoinFirst(c, t)
         /\ observing' = observing \cup {c}

\* Mutant: the client is subscribed before its command has succeeded.
ReceiveSubscribesFirst(c, id, command) ==
    /\ Delivers(c)
    /\ id \notin UsedIds
    /\ handling' = handling \cup
                    {[id |-> id, client |-> c, command |-> command]}
    /\ IF command.kind = "state"
       THEN Subscribe(c, command.topic)
       ELSE UNCHANGED <<subscriptions, observing>>
    /\ UNCHANGED <<socket, replies, heard, broadcasts, running>>

\* The 'message' listener accepts a message and calls the dispatchers.
Receive(c, id, command) ==
    /\ Delivers(c)
    /\ id \notin UsedIds
    /\ handling' = handling \cup
                    {[id |-> id, client |-> c, command |-> command]}
    /\ UNCHANGED <<socket, observing, subscriptions, replies, heard,
                   broadcasts, running>>

\* The 'message' listener refuses a message and closes the connection.
ReceiveMalformed(c) ==
    /\ Delivers(c)
    /\ socket' = [socket EXCEPT ![c] = "closing"]
    /\ UNCHANGED <<observing, subscriptions, handling, replies, heard,
                   broadcasts, running>>

\* Mutant: the catch sends its error, and the code after it sends once more.
RespondTwice(r, result) ==
    LET sent == socket[r.client] = "open"
        results == IF sent THEN {result, "ok"} ELSE {"dropped"}
    IN /\ handling' = handling \ {r}
       /\ replies' = replies \cup {[request |-> r, result |-> x] : x \in results}
       /\ IF sent THEN UNCHANGED running ELSE Rejected

\* webSocket.send() of the reply throws unless the socket is open.
Respond(r, result) ==
    LET sent == socket[r.client] = "open"
    IN /\ handling' = handling \ {r}
       /\ replies' = replies \cup
            {[request |-> r, result |-> IF sent THEN result ELSE "dropped"]}
       /\ IF sent THEN UNCHANGED running ELSE Rejected

\* The handler of a request settles, by a microtask or by an event, and the
\* reply is sent.  A failed command throws before it can subscribe.
Settles(r) ==
    /\ running
    /\ r \in handling
    /\ Immediate(r.command) \/ EventLoopIdle

Succeed(r) ==
    /\ Settles(r)
    /\ IF r.command.kind = "state"
       THEN Subscribe(r.client, r.command.topic)
       ELSE UNCHANGED <<subscriptions, observing>>
    /\ Respond(r, "ok")
    /\ UNCHANGED <<socket, heard, broadcasts>>

\* Mutant: an exception of the handler is not turned into a reply.
FailSilently(r) ==
    /\ Settles(r)
    /\ handling' = handling \ {r}
    /\ UNCHANGED <<socket, observing, subscriptions, replies, heard,
                   broadcasts, running>>

Fail(r) ==
    /\ Settles(r)
    /\ Respond(r, "error")
    /\ UNCHANGED <<socket, observing, subscriptions, heard, broadcasts>>

\* The peer starts the closing handshake or its data ends: send() throws
\* from here on, the 'close' event is still to come.
StartClosing(c) ==
    /\ running /\ EventLoopIdle
    /\ socket[c] = "open"
    /\ socket' = [socket EXCEPT ![c] = "closing"]
    /\ UNCHANGED <<observing, subscriptions, handling, replies, heard,
                   broadcasts, running>>

\* onClientDisconnected removes the client from every subscription.
Unsubscribe(c) ==
    subscriptions' = [i \in DOMAIN subscriptions |->
                        [subscriptions[i] EXCEPT !.clients = @ \ {c}]]

\* The 'close' event: NetworkClient tells the observers it has.
Close(c) ==
    /\ running /\ EventLoopIdle
    /\ socket[c] \in {"open", "closing"}
    /\ socket' = [socket EXCEPT ![c] = "closed"]
    /\ IF c \in observing THEN Unsubscribe(c) ELSE UNCHANGED subscriptions
    /\ UNCHANGED <<observing, handling, replies, heard, broadcasts, running>>

\* How many messages one call of distribute() sends to client c.
Copies(c, t) ==
    Cardinality({i \in Matching(t) : c \in subscriptions[i].clients})

\* Mutant: send() throws out of the loop and nobody is sent the message.
DistributeStops(t) ==
    /\ running /\ EventLoopIdle
    /\ broadcasts[t] < MaxBroadcasts
    /\ broadcasts' = [broadcasts EXCEPT ![t] = @ + 1]
    /\ heard' = [c \in Clients |->
                    IF socket[c] = "open" /\ \A d \in Clients :
                            Subscribed(d, t) => socket[d] = "open"
                    THEN [heard[c] EXCEPT ![t] = @ + Copies(c, t)]
                    ELSE heard[c]]
    /\ UNCHANGED <<socket, observing, subscriptions, handling, replies, running>>

\* distribute(): send() is an async function, so that a socket that is not
\* open rejects one promise and the loop goes on with the other clients.
Distribute(t) ==
    /\ running /\ EventLoopIdle
    /\ broadcasts[t] < MaxBroadcasts
    /\ broadcasts' = [broadcasts EXCEPT ![t] = @ + 1]
    /\ heard' = [c \in Clients |->
                    IF socket[c] = "open"
                    THEN [heard[c] EXCEPT ![t] = @ + Copies(c, t)]
                    ELSE heard[c]]
    /\ IF \E c \in Clients : Subscribed(c, t) /\ socket[c] # "open"
       THEN Rejected
       ELSE UNCHANGED running
    /\ UNCHANGED <<socket, observing, subscriptions, handling, replies>>

Next ==
    \/ \E c \in Clients :
        Connect(c) \/ ReceiveMalformed(c) \/ StartClosing(c) \/ Close(c)
    \/ \E c \in Clients, id \in Requests, command \in Command :
        Receive(c, id, command)
    \/ \E r \in handling : Succeed(r) \/ Fail(r)
    \/ \E t \in Topics : Distribute(t)

Spec == Init /\ [][Next]_vars

\* Every handler settles: the bridge and the file system answer or fail.
HandlersSettle ==
    \A id \in Requests :
        WF_vars(\E r \in handling : r.id = id /\ (Succeed(r) \/ Fail(r)))

FairSpec == Spec /\ HandlersSettle

-----------------------------------------------------------------------------
\* A request is being handled or has one reply, never both.
AnsweredOnce ==
    /\ \A r, s \in handling : r.id = s.id => r = s
    /\ \A r \in handling, p \in replies : r.id # p.request.id
    /\ \A p, q \in replies : p.request.id = q.request.id => p = q

\* Every variable has its type, and no message is replied to a second time.
TypeOK ==
    /\ socket \in [Clients -> {"none", "open", "closing", "closed"}]
    /\ observing \subseteq Clients
    /\ subscriptions \in Seq(Subscription)
    /\ handling \subseteq Request
    /\ replies \subseteq Reply
    /\ heard \in [Clients -> [Topics -> Nat]]
    /\ broadcasts \in [Topics -> Nat]
    /\ running \in BOOLEAN
    /\ AnsweredOnce

\* There is one subscription per command and parameter list, whichever clients
\* ask for it and in whatever order they leave: the list neither grows without
\* bound nor sends a message twice.  dispatchCommand looks for a subscription
\* and adds one without an await in between.
UniqueTopics ==
    \A i, j \in DOMAIN subscriptions :
        subscriptions[i].topic = subscriptions[j].topic => i = j

\* Whoever is subscribed is also observed, through whichever branch of
\* dispatchCommand it came: otherwise its 'close' event would go unnoticed.
SubscribersObserved ==
    \A i \in DOMAIN subscriptions : subscriptions[i].clients \subseteq observing

\* No client is subscribed after its connection has closed.  It holds because
\* the handlers of subscribable commands do not await I/O: dispatchCommand
\* subscribes after its await and does not look at the connection again.
NoClosedSubscriber ==
    \A i \in DOMAIN subscriptions : \A c \in subscriptions[i].clients :
        socket[c] \in {"open", "closing"}

\* A controller that hears a broadcast has been sent the full state of that
\* topic before, in a reply to a request of its own.
NoUpdateBeforeState ==
    \A c \in Clients, t \in Topics :
        heard[c][t] > 0 =>
            \E p \in replies :
                /\ p.result = "ok"
                /\ p.request.client = c
                /\ p.request.command = [kind |-> "state", topic |-> t]

\* The subscriptions and broadcasts implement the abstract promise.
Presence ==
    [c \in Clients |-> CASE socket[c] = "none" -> "absent"
                         [] socket[c] = "open" -> "present"
                         [] socket[c] = "closing" -> "fading"
                         [] OTHER -> "gone"]

Members == {m \in Clients \X Topics : Subscribed(m[1], m[2])}

Abstract == INSTANCE TopicBroadcast
                WITH presence <- Presence, members <- Members

BroadcastsAsPromised == Abstract!Spec

\* Every request is answered, unless its connection does not stay open.
RequestsAnswered ==
    \A id \in Requests :
        (\E r \in handling : r.id = id)
            ~> (\E p \in replies :
                    /\ p.request.id = id
                    /\ p.result # "dropped" \/ socket[p.request.client] # "open")

\* src/index.ts says that listening "will keep the system operational
\* indefinitely".
StaysOperational == running
=============================================================================
