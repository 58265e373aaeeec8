------------------------- MODULE ControlConnection --------------------------
(***************************************************************************)
(* The panel's half of the control channel: ControlConnection              *)
(* (public/script/control_connection.js), its WebSocket, the hello message *)
(* by which a connection is established, the promises of the messages that *)
(* were sent and the timer that reconnects.  The hub is what the source    *)
(* expects of it: it accepts connections, answers each request once, and   *)
(* the connection can break at any time.                                   *)
(*                                                                         *)
(* The page has one event loop.  The continuation of the hello promise is  *)
(* a microtask, which runs after the event that settled it and before the  *)
(* next one: Idle guards the events.                                       *)
(***************************************************************************)
EXTENDS Integers

CONSTANTS
    Messages,        \* messages the panel sends, each once
    MaxBreaks        \* bound: how often a connection breaks

ASSUME ControlConnectionAssumption ==
    /\ MaxBreaks \in Nat
    /\ "hello" \notin Messages

VARIABLES
    state,           \* ControlConnection.state
    socket,          \* readyState of the current WebSocket
    timers,          \* the timers that will call connect()
    hello,           \* the promise of the hello message
    promises,        \* promises[m]: the promise of message m
    responses,       \* the messages that #responses has a resolver for
    requests,        \* messages on their way to the hub, or being handled
    answers,         \* responses on their way to the panel
    announced,       \* connect events less disconnect events
    connections,     \* how often connect() has created a socket
    breaks           \* how often a connection has broken

vars == <<state, socket, timers, hello, promises, responses, requests,
          answers, announced, connections, breaks>>

-----------------------------------------------------------------------------
\* The hello message is told apart from the messages of the panel.
Hello == "hello"

Requests == Messages \cup {Hello}

\* No microtask is due.
Idle == hello \notin {"answered", "abandoned"}

Init ==
    /\ state = "disconnected"
    /\ socket = "none"
    /\ timers = 0
    /\ hello = "unsent"
    /\ promises = [m \in Messages |-> "unsent"]
    /\ responses = {}
    /\ requests = {}
    /\ answers = {}
    /\ announced = 0
    /\ connections = 0
    /\ breaks = 0

\* Resolvers that have been called before do nothing.
Settled(promise, outcome) == IF promise = "pending" THEN outcome ELSE promise

\* Mutant: connect() forgets about the promises of the last connection.
ConnectForgets ==
    /\ Idle
    /\ IF connections = 0
       THEN UNCHANGED timers
       ELSE timers > 0 /\ timers' = timers - 1
    /\ IF state # "disconnected"
       THEN UNCHANGED <<state, socket, hello, promises, responses, connections>>
       ELSE /\ state' = "connecting"
            /\ socket' = "connecting"
            /\ responses' = {}
            /\ connections' = connections + 1
            /\ UNCHANGED <<hello, promises>>
    /\ UNCHANGED <<requests, answers, announced, breaks>>

\* connect(), called by the controller once and by the timers from then on.
Connect ==
    /\ Idle
    /\ IF connections = 0
       THEN UNCHANGED timers
       ELSE timers > 0 /\ timers' = timers - 1
    /\ IF state # "disconnected"
       THEN UNCHANGED <<state, socket, hello, promises, responses, connections>>
       ELSE /\ hello' = IF Hello \in responses
                        THEN Settled(hello, "abandoned") ELSE hello
            /\ promises' = [m \in Messages |->
                                IF m \in responses
                                THEN Settled(promises[m], "abandoned")
                                ELSE promises[m]]
            /\ state' = "connecting"
            /\ socket' = "connecting"
            /\ responses' = {}
            /\ connections' = connections + 1
    /\ UNCHANGED <<requests, answers, announced, breaks>>

\* The 'open' event: onOpen() sends the hello message.
Open ==
    /\ Idle
    /\ socket = "connecting"
    /\ socket' = "open"
    /\ hello' = "pending"
    /\ responses' = responses \cup {Hello}
    /\ requests' = requests \cup {Hello}
    /\ UNCHANGED <<state, timers, promises, answers, announced, connections,
                   breaks>>

\* Mutant: the response may be missing, response?.debugValues ?? [].
GreetAnyway ==
    /\ hello \in {"answered", "abandoned"}
    /\ hello' = "unsent"
    /\ IF state = "connecting"
       THEN /\ state' = "connected"
            /\ announced' = announced + 1
       ELSE UNCHANGED <<state, announced>>
    /\ UNCHANGED <<socket, timers, promises, responses, requests, answers,
                   connections, breaks>>

\* The continuation of the hello promise.  Without a response it throws when
\* it reads the debug values, before it changes the state.
Greet ==
    /\ hello \in {"answered", "abandoned"}
    /\ hello' = "unsent"
    /\ IF state = "connecting" /\ hello = "answered"
       THEN /\ state' = "connected"
            /\ announced' = announced + 1
       ELSE UNCHANGED <<state, announced>>
    /\ UNCHANGED <<socket, timers, promises, responses, requests, answers,
                   connections, breaks>>

\* send(): a WebSocket that is closing discards the data without notice.
Send(m) ==
    /\ Idle
    /\ state = "connected"
    /\ promises[m] = "unsent"
    /\ promises' = [promises EXCEPT ![m] = "pending"]
    /\ responses' = responses \cup {m}
    /\ requests' = IF socket = "open" THEN requests \cup {m} ELSE requests
    /\ UNCHANGED <<state, socket, timers, hello, answers, announced,
                   connections, breaks>>

\* The hub answers a request; the order is up to its handlers.
Answer(r) ==
    /\ r \in requests
    /\ requests' = requests \ {r}
    /\ answers' = answers \cup {r}
    /\ UNCHANGED <<state, socket, timers, hello, promises, responses,
                   announced, connections, breaks>>

\* The 'message' event for a response: onMessage() calls the resolver.
Message(r) ==
    /\ Idle
    /\ socket = "open"
    /\ r \in answers
    /\ answers' = answers \ {r}
    /\ IF r \notin responses
       THEN UNCHANGED <<hello, promises>>
       ELSE IF r = Hello
       THEN /\ hello' = Settled(hello, "answered")
            /\ UNCHANGED promises
       ELSE /\ promises' = [promises EXCEPT ![r] = Settled(@, "answered")]
            /\ UNCHANGED hello
    /\ UNCHANGED <<state, socket, timers, responses, requests, announced,
                   connections, breaks>>

\* Mutant: an error schedules a reconnection of its own.
BreakAndRetry ==
    /\ Idle
    /\ breaks < MaxBreaks
    /\ socket \in {"connecting", "open"}
    /\ socket' = "closing"
    /\ requests' = {}
    /\ answers' = {}
    /\ breaks' = breaks + 1
    /\ timers' = timers + 1
    /\ UNCHANGED <<state, hello, promises, responses, announced, connections>>

\* The hub, the network or the 'error' event (onError) ends the connection:
\* what is on its way is lost, the 'close' event is still to come.
Break ==
    /\ Idle
    /\ breaks < MaxBreaks
    /\ socket \in {"connecting", "open"}
    /\ socket' = "closing"
    /\ requests' = {}
    /\ answers' = {}
    /\ breaks' = breaks + 1
    /\ UNCHANGED <<state, timers, hello, promises, responses, announced,
                   connections>>

\* Mutant: only a connection that was established is tried again.
CloseIfConnected ==
    /\ Idle
    /\ socket = "closing"
    /\ socket' = "closed"
    /\ IF state # "connected"
       THEN UNCHANGED <<state, timers, announced>>
       ELSE /\ announced' = announced - 1
            /\ state' = "disconnected"
            /\ timers' = timers + 1
    /\ UNCHANGED <<hello, promises, responses, requests, answers, connections,
                   breaks>>

\* Mutant: every 'close' event dispatches a disconnect event.
CloseAnnounces ==
    /\ Idle
    /\ socket = "closing"
    /\ socket' = "closed"
    /\ announced' = announced - 1
    /\ state' = "disconnected"
    /\ timers' = timers + 1
    /\ UNCHANGED <<hello, promises, responses, requests, answers, connections,
                   breaks>>

\* The 'close' event: onClose().
Close ==
    /\ Idle
    /\ socket = "closing"
    /\ socket' = "closed"
    /\ IF state = "disconnected"
       THEN UNCHANGED <<state, timers, announced>>
       ELSE /\ announced' = IF state = "connected" THEN announced - 1
                            ELSE announced
            /\ state' = "disconnected"
            /\ timers' = timers + 1
    /\ UNCHANGED <<hello, promises, responses, requests, answers, connections,
                   breaks>>

Next ==
    \/ Connect \/ Open \/ Greet \/ Break \/ Close
    \/ \E m \in Messages : Send(m)
    \/ \E r \in Requests : Answer(r) \/ Message(r)

Spec == Init /\ [][Next]_vars

\* Timers fire, connections are accepted or refused, the hub answers every
\* request, and a connection that has ended is noticed.  Nothing makes the
\* panel send.
FairSpec ==
    /\ Spec
    /\ WF_vars(Connect)
    /\ WF_vars(Open)
    /\ WF_vars(Greet)
    /\ WF_vars(Close)
    /\ \A r \in Requests : WF_vars(Answer(r)) /\ WF_vars(Message(r))

-----------------------------------------------------------------------------
Outcome == {"unsent", "pending", "answered", "abandoned"}

TypeOK ==
    /\ state \in {"disconnected", "connecting", "connected"}
    /\ socket \in {"none", "connecting", "open", "closing", "closed"}
    /\ timers \in Nat
    /\ hello \in Outcome
    /\ promises \in [Messages -> Outcome]
    /\ responses \subseteq Requests
    /\ requests \subseteq Requests
    /\ answers \subseteq Requests
    /\ announced \in Nat
    /\ connections \in 0 .. MaxBreaks + 1
    /\ breaks \in 0 .. MaxBreaks

\* A disconnected panel has one timer that will reconnect it, and no other
\* panel has any: connect() is never called in another state, and there are
\* never two sockets whose events change the same state.
OneReconnection ==
    connections > 0 =>
        /\ timers = IF state = "disconnected" THEN 1 ELSE 0
        /\ state = "disconnected" <=> socket = "closed"

\* The panel only takes itself for connected on a socket that has opened and
\* has carried the answer to its hello message, although the continuation of
\* an old hello promise can run while the next connection is being made.
ConnectedMeansGreeted ==
    state = "connected" =>
        /\ socket \in {"open", "closing"}
        /\ Hello \in responses
        /\ Hello \notin requests \cup answers

\* The controller hears connect and disconnect events in turns, and has heard
\* of the state that the connection is in.
EventsAlternate == announced = IF state = "connected" THEN 1 ELSE 0

\* The connection implements the abstract session.
Session == INSTANCE ControlSession
            WITH online <- (state = "connected"), outcome <- promises

KeepsSession == Session!Spec

\* Whoever awaits send() gets to go on, however the connection breaks.
EverySendSettles ==
    \A m \in Messages : (promises[m] = "pending") ~> (promises[m] # "pending")

\* Once connections no longer break, the panel is connected for good.
Reconnects == <>[](state = "connected")
=============================================================================
