---------------------- MODULE ControlConnectionProofs -----------------------
(***************************************************************************)
(* Proofs about ControlConnection: its safety invariants for any messages  *)
(* and any number of broken connections, and that it implements            *)
(* ControlSession.                                                         *)
(***************************************************************************)
EXTENDS ControlConnection, TLAPS

\* The socket that belongs to each state; none has been created at first.
SocketOfState ==
    /\ connections = 0 <=> socket = "none"
    /\ connections = 0 => state = "disconnected" /\ timers = 0
    /\ state = "connecting" => socket \in {"connecting", "open", "closing"}

\* Every break ends one connection.
BreaksCounted ==
    breaks = IF connections = 0 THEN 0
             ELSE IF socket \in {"closing", "closed"} THEN connections
             ELSE connections - 1

\* Nothing is on its way but on an open socket, and hello at most once.
NothingInFlight ==
    /\ socket # "open" => requests = {} /\ answers = {}
    /\ ~(Hello \in requests /\ Hello \in answers)

\* A hello promise that was answered, on the socket that was just opened.
HelloAnswered ==
    hello = "answered" =>
        /\ socket \in {"open", "closing"}
        /\ Hello \in responses
        /\ Hello \notin requests \cup answers

\* connect() finds every promise that is pending among the responses, and
\* leaves none.
PendingRegistered ==
    \A m \in Messages :
        promises[m] = "pending" => m \in responses /\ state # "connecting"

\* The inductive invariant.
IInv ==
    /\ TypeOK
    /\ OneReconnection
    /\ ConnectedMeansGreeted
    /\ EventsAlternate
    /\ SocketOfState
    /\ BreaksCounted
    /\ NothingInFlight
    /\ HelloAnswered
    /\ PendingRegistered

USE ControlConnectionAssumption

LEMMA InitIInv == Init => IInv
  BY DEF Init, IInv, TypeOK, OneReconnection, ConnectedMeansGreeted,
         EventsAlternate, SocketOfState, BreaksCounted, NothingInFlight,
         HelloAnswered, PendingRegistered, Outcome, Hello

\* The parts of the invariant that speak of the connection.
Connection ==
    /\ OneReconnection
    /\ ConnectedMeansGreeted
    /\ EventsAlternate
    /\ SocketOfState
    /\ BreaksCounted
    /\ NothingInFlight
    /\ HelloAnswered

LEMMA ConnectIInv == ASSUME IInv, Connect PROVE IInv'
<1> USE DEF IInv, Idle
<1>1. CASE state # "disconnected"
  BY <1>1 DEF Connect, OneReconnection, SocketOfState, TypeOK
<1>2. CASE state = "disconnected"
  <2>1. /\ state' = "connecting"
        /\ socket' = "connecting"
        /\ responses' = {}
        /\ connections' = connections + 1
        /\ timers' = 0
        /\ UNCHANGED <<requests, answers, announced, breaks>>
    BY <1>2 DEF Connect, OneReconnection, SocketOfState, TypeOK
  <2>2. connections + 1 = breaks + 1
    BY <1>2 DEF BreaksCounted, OneReconnection, TypeOK
  <2>3. /\ hello' \in {"unsent", "pending", "abandoned"}
        /\ promises' \in [Messages -> Outcome]
        /\ \A m \in Messages : promises'[m] # "pending"
    BY <1>2 DEF Connect, Settled, TypeOK, Outcome, PendingRegistered
  <2>4. TypeOK'
    BY <2>1, <2>2, <2>3 DEF TypeOK, Outcome
  <2>5. requests = {} /\ answers = {}
    BY <1>2 DEF NothingInFlight, OneReconnection, SocketOfState, TypeOK
  <2>6. Connection'
    BY <1>2, <2>1, <2>2, <2>3, <2>5
       DEF Connection, OneReconnection, ConnectedMeansGreeted, EventsAlternate,
           SocketOfState, BreaksCounted, NothingInFlight, HelloAnswered, TypeOK
  <2>7. PendingRegistered'
    BY <2>3 DEF PendingRegistered
  <2> QED
    BY <2>4, <2>6, <2>7 DEF Connection
<1> QED
  BY <1>1, <1>2

LEMMA OpenIInv == ASSUME IInv, Open PROVE IInv'
<1> USE DEF IInv
<1>1. TypeOK'
  BY DEF Open, TypeOK, Requests, Outcome
<1>2. state = "connecting" /\ connections > 0
  BY DEF Open, OneReconnection, ConnectedMeansGreeted, SocketOfState, TypeOK
<1>3. Connection'
  BY <1>2 DEF Open, Connection, OneReconnection, ConnectedMeansGreeted,
              EventsAlternate, SocketOfState, BreaksCounted, NothingInFlight,
              HelloAnswered, TypeOK
<1>4. PendingRegistered'
  BY DEF Open, PendingRegistered
<1> QED
  BY <1>1, <1>3, <1>4 DEF Connection

LEMMA GreetIInv == ASSUME IInv, Greet PROVE IInv'
<1> USE DEF IInv
<1>1. TypeOK'
  BY DEF Greet, TypeOK, Outcome
<1>2. Connection'
  BY DEF Greet, Connection, OneReconnection, ConnectedMeansGreeted,
         EventsAlternate, SocketOfState, BreaksCounted, NothingInFlight,
         HelloAnswered, TypeOK
<1>3. PendingRegistered'
  BY DEF Greet, PendingRegistered
<1> QED
  BY <1>1, <1>2, <1>3 DEF Connection

LEMMA SendIInv == ASSUME IInv, NEW m \in Messages, Send(m) PROVE IInv'
<1> USE DEF IInv
<1>1. TypeOK'
  BY DEF Send, TypeOK, Requests, Outcome
<1>2. m # Hello
  BY DEF Hello
<1>3. Connection'
  BY <1>2 DEF Send, Connection, OneReconnection, ConnectedMeansGreeted,
              EventsAlternate, SocketOfState, BreaksCounted, NothingInFlight,
              HelloAnswered, TypeOK
<1>4. PendingRegistered'
  BY DEF Send, PendingRegistered, TypeOK
<1> QED
  BY <1>1, <1>3, <1>4 DEF Connection

LEMMA AnswerIInv == ASSUME IInv, NEW r \in Requests, Answer(r) PROVE IInv'
<1> USE DEF IInv
<1>1. TypeOK'
  BY DEF Answer, TypeOK
<1>2. Connection'
  BY DEF Answer, Connection, OneReconnection, ConnectedMeansGreeted,
         EventsAlternate, SocketOfState, BreaksCounted, NothingInFlight,
         HelloAnswered, TypeOK
<1>3. PendingRegistered'
  BY DEF Answer, PendingRegistered
<1> QED
  BY <1>1, <1>2, <1>3 DEF Connection

LEMMA MessageIInv == ASSUME IInv, NEW r \in Requests, Message(r) PROVE IInv'
<1> USE DEF IInv
<1>1. /\ hello' \in Outcome
      /\ promises' \in [Messages -> Outcome]
      /\ \A m \in Messages : promises'[m] = "pending" => promises[m] = "pending"
      /\ hello' = "answered" =>
            hello = "answered" \/ (r = Hello /\ Hello \in responses)
  BY DEF Message, Settled, TypeOK, Outcome, Requests
<1>2. TypeOK'
  BY <1>1 DEF Message, TypeOK
<1>3. Connection'
  BY <1>1 DEF Message, Connection, OneReconnection, ConnectedMeansGreeted,
              EventsAlternate, SocketOfState, BreaksCounted, NothingInFlight,
              HelloAnswered, TypeOK
<1>4. PendingRegistered'
  BY <1>1 DEF Message, PendingRegistered
<1> QED
  BY <1>2, <1>3, <1>4 DEF Connection

LEMMA BreakIInv == ASSUME IInv, Break PROVE IInv'
<1> USE DEF IInv
<1>1. TypeOK'
  BY DEF Break, TypeOK
<1>2. Connection'
  BY DEF Break, Connection, OneReconnection, ConnectedMeansGreeted,
         EventsAlternate, SocketOfState, BreaksCounted, NothingInFlight,
         HelloAnswered, Idle, TypeOK
<1>3. PendingRegistered'
  BY DEF Break, PendingRegistered
<1> QED
  BY <1>1, <1>2, <1>3 DEF Connection

LEMMA CloseIInv == ASSUME IInv, Close PROVE IInv'
<1> USE DEF IInv
<1>1. connections > 0 /\ state # "disconnected"
  BY DEF Close, SocketOfState, OneReconnection, TypeOK
<1>2. TypeOK'
  BY <1>1 DEF Close, TypeOK, EventsAlternate
<1>3. Connection'
  BY <1>1 DEF Close, Connection, OneReconnection, ConnectedMeansGreeted,
              EventsAlternate, SocketOfState, BreaksCounted, NothingInFlight,
              HelloAnswered, Idle, TypeOK
<1>4. PendingRegistered'
  BY <1>1 DEF Close, PendingRegistered
<1> QED
  BY <1>2, <1>3, <1>4 DEF Connection

LEMMA NextIInv == IInv /\ [Next]_vars => IInv'
<1> SUFFICES ASSUME IInv, [Next]_vars PROVE IInv'
  OBVIOUS
<1>1. CASE UNCHANGED vars
  BY <1>1 DEF vars, IInv, TypeOK, OneReconnection, ConnectedMeansGreeted,
              EventsAlternate, SocketOfState, BreaksCounted, NothingInFlight,
              HelloAnswered, PendingRegistered
<1>2. CASE Next
  BY <1>2, ConnectIInv, OpenIInv, GreetIInv, SendIInv, AnswerIInv, MessageIInv,
     BreakIInv, CloseIInv DEF Next
<1> QED
  BY <1>1, <1>2

LEMMA Inductive == Spec => []IInv
  BY InitIInv, NextIInv, PTL DEF Spec

\* Every variable keeps its type; there are as many connections as breaks
\* allow for.
THEOREM TypeCorrect == Spec => []TypeOK
<1>1. IInv => TypeOK
  BY DEF IInv
<1> QED
  BY <1>1, Inductive, PTL

\* A disconnected panel has one reconnection coming, and no other has any.
THEOREM ReconnectsOnce == Spec => []OneReconnection
<1>1. IInv => OneReconnection
  BY DEF IInv
<1> QED
  BY <1>1, Inductive, PTL

\* An old hello promise never makes the panel connected.
THEOREM GreetedFirst == Spec => []ConnectedMeansGreeted
<1>1. IInv => ConnectedMeansGreeted
  BY DEF IInv
<1> QED
  BY <1>1, Inductive, PTL

\* Connect and disconnect events alternate.
THEOREM EventsInTurns == Spec => []EventsAlternate
<1>1. IInv => EventsAlternate
  BY DEF IInv
<1> QED
  BY <1>1, Inductive, PTL

-----------------------------------------------------------------------------
\* Refinement: every step is a step of ControlSession or invisible to it.
LEMMA SessionInit == Init => Session!Init
  BY DEF Init, Session!Init

LEMMA SessionStep ==
    ASSUME IInv, [Next]_vars
    PROVE  [Session!Next]_(Session!vars)
<1> USE DEF IInv, Session!vars
<1>1. CASE UNCHANGED <<state, promises>>
  BY <1>1
<1>2. CASE Connect
  <2>1. CASE state # "disconnected"
    BY <1>1, <1>2, <2>1 DEF Connect
  <2>2. CASE state = "disconnected"
    <3>1. promises' = [m \in Messages |->
                        IF promises[m] = "pending" THEN "abandoned"
                        ELSE promises[m]]
      BY <1>2, <2>2 DEF Connect, Settled, PendingRegistered, TypeOK
    <3>2. Session!GiveUp
      BY <1>2, <2>2, <3>1 DEF Connect, Session!GiveUp
    <3> QED
      BY <3>2 DEF Session!Next
  <2> QED
    BY <2>1, <2>2
<1>3. CASE Greet
  <2>1. CASE state = "connecting" /\ hello = "answered"
    <3>1. Session!GoOnline
      BY <1>3, <2>1 DEF Greet, Session!GoOnline, PendingRegistered
    <3> QED
      BY <3>1 DEF Session!Next
  <2>2. CASE ~(state = "connecting" /\ hello = "answered")
    BY <1>1, <1>3, <2>2 DEF Greet
  <2> QED
    BY <2>1, <2>2
<1>4. ASSUME NEW m \in Messages, Send(m)
      PROVE  Session!Send(m)
  BY <1>4 DEF Send, Session!Send
<1>5. ASSUME NEW r \in Requests, Message(r)
      PROVE  \/ UNCHANGED <<state, promises>>
             \/ \E m \in Messages : Session!Answer(m)
  <2>1. CASE r = Hello \/ r \notin responses
    BY <1>5, <2>1 DEF Message
  <2>2. CASE r # Hello /\ r \in responses
    <3>1. r \in Messages
      BY <2>2 DEF Requests
    <3>2. /\ promises' = [promises EXCEPT ![r] = Settled(promises[r], "answered")]
          /\ state' = state
          /\ socket = "open"
      BY <1>5, <2>2 DEF Message
    <3>3. CASE promises[r] = "pending"
      <4>1. state = "connected"
        BY <3>1, <3>2, <3>3
           DEF PendingRegistered, OneReconnection, SocketOfState, TypeOK
      <4>2. Session!Answer(r)
        BY <3>1, <3>2, <3>3, <4>1 DEF Session!Answer, Settled
      <4> QED
        BY <3>1, <4>2
    <3>4. CASE promises[r] # "pending"
      BY <3>1, <3>2, <3>4 DEF Settled, TypeOK
    <3> QED
      BY <3>3, <3>4
  <2> QED
    BY <2>1, <2>2
<1>6. CASE Close
  <2>1. CASE state = "connected"
    <3>1. Session!GoOffline
      BY <1>6, <2>1 DEF Close, Session!GoOffline
    <3> QED
      BY <3>1 DEF Session!Next
  <2>2. CASE state # "connected"
    <3>1. state' # "connected" /\ promises' = promises
      BY <1>6, <2>2 DEF Close
    <3> QED
      BY <2>2, <3>1
  <2> QED
    BY <2>1, <2>2
<1>7. ASSUME NEW r \in Requests, Answer(r)
      PROVE  UNCHANGED <<state, promises>>
  BY <1>7 DEF Answer
<1>8. CASE Open \/ Break \/ UNCHANGED vars
  BY <1>1, <1>8 DEF Open, Break, vars
<1> HIDE DEF Session!vars
<1> QED
  BY <1>1, <1>2, <1>3, <1>4, <1>5, <1>6, <1>7, <1>8 DEF Next, Session!Next

\* What a session leaves unanswered is given up as a whole before the next
\* one, and nothing is answered in between.
THEOREM SessionImplemented == Spec => KeepsSession
<1>1. Init => Session!Init
  BY SessionInit
<1>2. IInv /\ [Next]_vars => [Session!Next]_(Session!vars)
  BY SessionStep
<1> QED
  BY <1>1, <1>2, Inductive, PTL DEF Spec, KeepsSession, Session!Spec
=============================================================================
