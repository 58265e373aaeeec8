------------------------ MODULE ServiceManagerProofs ------------------------
(***************************************************************************)
(* Proofs about ServiceManager: its safety invariants for any clients,     *)
(* topics and message ids, and that it implements TopicBroadcast.          *)
(***************************************************************************)
EXTENDS ServiceManager, FiniteSetTheorems, TLAPS

\* The message handlers that can still subscribe their client belong to a
\* connection that has not closed.
HandlersConnected ==
    \A r \in handling :
        Immediate(r.command) => socket[r.client] \in {"open", "closing"}

\* A subscriber that can be sent a broadcast has been sent the state.
SubscribersInformed ==
    \A i \in DOMAIN subscriptions : \A c \in subscriptions[i].clients :
        socket[c] = "open" =>
            \E p \in replies :
                /\ p.result = "ok"
                /\ p.request.client = c
                /\ p.request.command =
                        [kind |-> "state", topic |-> subscriptions[i].topic]

\* The inductive invariant.
IInv ==
    /\ TypeOK
    /\ UniqueTopics
    /\ SubscribersObserved
    /\ NoClosedSubscriber
    /\ HandlersConnected
    /\ SubscribersInformed
    /\ NoUpdateBeforeState

-----------------------------------------------------------------------------
\* A topic with a subscription has one, and FirstMatch finds it.
LEMMA FirstMatchFinds ==
    ASSUME TypeOK, UniqueTopics, NEW t, Matching(t) # {}
    PROVE  /\ FirstMatch(t) \in DOMAIN subscriptions
           /\ subscriptions[FirstMatch(t)].topic = t
           /\ Matching(t) = {FirstMatch(t)}
<1>1. PICK i \in DOMAIN subscriptions : subscriptions[i].topic = t
  BY DEF Matching
<1>2. Matching(t) = {i}
  BY <1>1 DEF Matching, UniqueTopics
<1>3. i <= i
  BY <1>1 DEF TypeOK
<1>4. FirstMatch(t) = i
  BY <1>2, <1>3 DEF FirstMatch
<1> QED
  BY <1>1, <1>2, <1>4

\* One call of distribute() sends a subscriber one message and others none.
LEMMA CopiesAreOne ==
    ASSUME TypeOK, UniqueTopics, NEW c, NEW t
    PROVE  Copies(c, t) = IF Subscribed(c, t) THEN 1 ELSE 0
<1> DEFINE S == {i \in Matching(t) : c \in subscriptions[i].clients}
<1>1. CASE Subscribed(c, t)
  <2>1. PICK i \in Matching(t) : c \in subscriptions[i].clients
    BY <1>1 DEF Subscribed
  <2>2. S = {i}
    BY <2>1 DEF Matching, UniqueTopics
  <2> QED
    BY <1>1, <2>2, FS_Singleton DEF Copies
<1>2. CASE ~Subscribed(c, t)
  <2>1. S = {}
    BY <1>2 DEF Subscribed
  <2> QED
    BY <1>2, <2>1, FS_EmptySet DEF Copies
<1> QED
  BY <1>1, <1>2

-----------------------------------------------------------------------------
LEMMA InitIInv == Init => IInv
  BY DEF Init, IInv, TypeOK, UniqueTopics, SubscribersObserved,
         NoClosedSubscriber, HandlersConnected, SubscribersInformed,
         NoUpdateBeforeState, Subscription, AnsweredOnce

\* The effect of Subscribe: one more pair, and the list stays well formed.
LEMMA SubscribeEffect ==
    ASSUME TypeOK, UniqueTopics, SubscribersObserved,
           NEW c \in Clients, NEW t \in Topics, Subscribe(c, t)
    PROVE  /\ subscriptions' \in Seq(Subscription)
           /\ observing' \subseteq Clients
           /\ observing \subseteq observing'
           /\ UniqueTopics'
           /\ SubscribersObserved'
           /\ \A i \in DOMAIN subscriptions' : \A d \in subscriptions'[i].clients :
                \/ d = c /\ subscriptions'[i].topic = t
                \/ /\ i \in DOMAIN subscriptions
                   /\ d \in subscriptions[i].clients
                   /\ subscriptions'[i].topic = subscriptions[i].topic
           /\ \A i \in DOMAIN subscriptions :
                /\ i \in DOMAIN subscriptions'
                /\ subscriptions'[i].topic = subscriptions[i].topic
                /\ subscriptions[i].clients \subseteq subscriptions'[i].clients
           /\ \E i \in DOMAIN subscriptions' :
                c \in subscriptions'[i].clients /\ subscriptions'[i].topic = t
<1>0. \A i \in DOMAIN subscriptions : subscriptions[i] \in Subscription
  BY DEF TypeOK
<1> USE DEF TypeOK, Subscription
<1>1. CASE Matching(t) = {}
  <2> DEFINE new == [topic |-> t, clients |-> {c}]
  <2>1. /\ subscriptions' = Append(subscriptions, new)
        /\ observing' = observing \cup {c}
    BY <1>1 DEF Subscribe
  <2>2. /\ new \in Subscription
        /\ DOMAIN subscriptions = 1 .. Len(subscriptions)
        /\ DOMAIN subscriptions' = 1 .. Len(subscriptions) + 1
        /\ subscriptions'[Len(subscriptions) + 1] = new
        /\ \A i \in DOMAIN subscriptions : subscriptions'[i] = subscriptions[i]
    BY <2>1
  <2>3. UniqueTopics'
    <3> SUFFICES ASSUME NEW i \in DOMAIN subscriptions',
                        NEW j \in DOMAIN subscriptions',
                        subscriptions'[i].topic = subscriptions'[j].topic
                 PROVE  i = j
      BY DEF UniqueTopics
    <3>1. \A k \in DOMAIN subscriptions : subscriptions[k].topic # t
      BY <1>1 DEF Matching
    <3>2. \A k \in DOMAIN subscriptions' :
            k \in DOMAIN subscriptions \/ k = Len(subscriptions) + 1
      BY <2>2
    <3>3. subscriptions'[Len(subscriptions) + 1].topic = t
      BY <2>2
    <3> QED
      BY <2>2, <3>1, <3>2, <3>3 DEF UniqueTopics
  <2>4. SubscribersObserved'
    BY <2>1, <2>2 DEF SubscribersObserved
  <2>5. \E i \in DOMAIN subscriptions' :
            c \in subscriptions'[i].clients /\ subscriptions'[i].topic = t
    <3>1. Len(subscriptions) + 1 \in DOMAIN subscriptions'
      BY <2>2
    <3>2. /\ c \in subscriptions'[Len(subscriptions) + 1].clients
          /\ subscriptions'[Len(subscriptions) + 1].topic = t
      BY <2>2
    <3> QED
      BY <3>1, <3>2
  <2>6. \A i \in DOMAIN subscriptions' : \A d \in subscriptions'[i].clients :
            \/ d = c /\ subscriptions'[i].topic = t
            \/ /\ i \in DOMAIN subscriptions
               /\ d \in subscriptions[i].clients
               /\ subscriptions'[i].topic = subscriptions[i].topic
    <3> SUFFICES ASSUME NEW i \in DOMAIN subscriptions',
                        NEW d \in subscriptions'[i].clients
                 PROVE  \/ d = c /\ subscriptions'[i].topic = t
                        \/ /\ i \in DOMAIN subscriptions
                           /\ d \in subscriptions[i].clients
                           /\ subscriptions'[i].topic = subscriptions[i].topic
      OBVIOUS
    <3>1. CASE i \in DOMAIN subscriptions
      BY <2>2, <3>1
    <3>2. CASE i = Len(subscriptions) + 1
      BY <2>2, <3>2
    <3> QED
      BY <2>2, <3>1, <3>2
  <2>7. /\ subscriptions' \in Seq(Subscription)
        /\ observing' \subseteq Clients /\ observing \subseteq observing'
    BY <2>1, <2>2
  <2>8. \A i \in DOMAIN subscriptions :
            /\ i \in DOMAIN subscriptions'
            /\ subscriptions'[i].topic = subscriptions[i].topic
            /\ subscriptions[i].clients \subseteq subscriptions'[i].clients
    BY <2>2
  <2> HIDE DEF TypeOK, Subscription, new
  <2> QED
    BY <2>3, <2>4, <2>5, <2>6, <2>7, <2>8
<1>2. CASE Matching(t) # {} /\ c \in subscriptions[FirstMatch(t)].clients
  <2>1. UNCHANGED <<subscriptions, observing>>
    BY <1>2 DEF Subscribe
  <2> QED
    BY <1>2, <2>1, FirstMatchFinds DEF UniqueTopics, SubscribersObserved
<1>3. CASE Matching(t) # {} /\ c \notin subscriptions[FirstMatch(t)].clients
  <2>0. PICK k \in DOMAIN subscriptions :
            k = FirstMatch(t) /\ subscriptions[k].topic = t
    BY <1>3, FirstMatchFinds
  <2> DEFINE joined ==
        [topic |-> t, clients |-> subscriptions[k].clients \cup {c}]
  <2>1. /\ subscriptions' = [subscriptions EXCEPT ![k] =
                [topic |-> t, clients |-> subscriptions[k].clients \cup {c}]]
        /\ observing' = observing \cup {c}
    BY <1>3, <2>0 DEF Subscribe, JoinFirst
  <2>a. subscriptions[k] \in Subscription
    BY <1>0, <2>0
  <2>2. joined \in Subscription
    BY <2>0, <2>a
  <2>b. subscriptions' = [subscriptions EXCEPT ![k] = joined]
    BY <2>0, <2>1
  <2> HIDE DEF joined
  <2>c. /\ joined.topic = t
        /\ joined.clients = subscriptions[k].clients \cup {c}
    BY DEF joined
  <2>3. /\ DOMAIN subscriptions' = DOMAIN subscriptions
        /\ \A i \in DOMAIN subscriptions :
              subscriptions'[i].topic = subscriptions[i].topic
        /\ \A i \in DOMAIN subscriptions :
              i # k => subscriptions'[i].clients = subscriptions[i].clients
        /\ subscriptions'[k].clients = subscriptions[k].clients \cup {c}
    BY <2>0, <2>b, <2>c
  <2>4. subscriptions' \in Seq(Subscription)
    BY <2>0, <2>2, <2>b
  <2>5. UniqueTopics'
    BY <2>3 DEF UniqueTopics
  <2>6. SubscribersObserved'
    BY <2>0, <2>1, <2>3 DEF SubscribersObserved
  <2> QED
    BY <2>0, <2>1, <2>3, <2>4, <2>5, <2>6
<1> QED
  BY <1>1, <1>2, <1>3

\* The effect of Unsubscribe: every list loses the client, no list is lost.
LEMMA UnsubscribeEffect ==
    ASSUME TypeOK, NEW c \in Clients, Unsubscribe(c)
    PROVE  /\ subscriptions' \in Seq(Subscription)
           /\ DOMAIN subscriptions' = DOMAIN subscriptions
           /\ \A i \in DOMAIN subscriptions :
                /\ subscriptions'[i].topic = subscriptions[i].topic
                /\ subscriptions'[i].clients = subscriptions[i].clients \ {c}
<1>1. /\ DOMAIN subscriptions = 1 .. Len(subscriptions)
      /\ Len(subscriptions) \in Nat
      /\ \A i \in DOMAIN subscriptions : subscriptions[i] \in Subscription
  BY DEF TypeOK
<1>2. /\ DOMAIN subscriptions' = 1 .. Len(subscriptions)
      /\ \A i \in 1 .. Len(subscriptions) : subscriptions'[i] =
                [subscriptions[i] EXCEPT !.clients = @ \ {c}]
  BY <1>1 DEF Unsubscribe
<1>3. \A i \in 1 .. Len(subscriptions) : subscriptions'[i] \in Subscription
  BY <1>1, <1>2 DEF Subscription
<1>4. subscriptions' = [i \in 1 .. Len(subscriptions) |->
                [subscriptions[i] EXCEPT !.clients = @ \ {c}]]
  BY <1>1 DEF Unsubscribe
<1>5. subscriptions' \in Seq(Subscription)
  BY <1>1, <1>2, <1>3, <1>4
<1> QED
  BY <1>1, <1>2, <1>5 DEF Subscription

-----------------------------------------------------------------------------
\* A reply only adds to the history, records what was sent and is the only
\* one to its request.
LEMMA RespondEffect ==
    ASSUME TypeOK, NEW r \in handling, NEW result \in {"ok", "error"},
           Respond(r, result)
    PROVE  /\ handling' \subseteq handling
           /\ replies \subseteq replies'
           /\ replies' \subseteq Reply
           /\ running' \in BOOLEAN
           /\ AnsweredOnce'
           /\ socket[r.client] = "open" =>
                [request |-> r, result |-> result] \in replies'
<1>1. r \in Request
  BY DEF TypeOK
<1>2. \A res \in {"ok", "error", "dropped"} :
        [request |-> r, result |-> res] \in Reply
  BY <1>1 DEF Reply
<1>3. running' \in BOOLEAN
  BY ServiceManagerAssumption DEF Respond, Rejected, TypeOK
<1> DEFINE new == [request |-> r, result |->
                      IF socket[r.client] = "open" THEN result ELSE "dropped"]
<1>4. /\ handling' = handling \ {r}
      /\ replies' = replies \cup {new}
      /\ new.request = r
  BY DEF Respond
<1>5. AnsweredOnce'
  <2> HIDE DEF new
  <2>1. AnsweredOnce
    BY DEF TypeOK
  <2> QED
    BY <1>4, <2>1 DEF AnsweredOnce
<1> QED
  BY <1>2, <1>3, <1>5 DEF Respond, TypeOK

\* More replies and no more broadcasts keep NoUpdateBeforeState.
LEMMA HistoryGrows ==
    ASSUME NoUpdateBeforeState, heard' = heard, replies \subseteq replies'
    PROVE  NoUpdateBeforeState'
<1> SUFFICES ASSUME NEW c \in Clients, NEW t \in Topics, heard'[c][t] > 0
             PROVE  \E p \in replies' :
                      /\ p.result = "ok"
                      /\ p.request.client = c
                      /\ p.request.command = [kind |-> "state", topic |-> t]
  BY ZenonT(30) DEF NoUpdateBeforeState
<1>1. PICK p \in replies :
            /\ p.result = "ok"
            /\ p.request.client = c
            /\ p.request.command = [kind |-> "state", topic |-> t]
  BY DEF NoUpdateBeforeState
<1> QED
  BY <1>1

\* Steps that leave the subscriptions, handlers, replies and counters alone
\* keep the invariant as long as connections only wear down.
LEMMA SocketStep ==
    ASSUME IInv, NEW c \in Clients, NEW state \in {"open", "closing"},
           \/ socket[c] = "none" /\ state = "open"
           \/ socket[c] \in {"open", "closing"} /\ state = "closing",
           socket' = [socket EXCEPT ![c] = state],
           UNCHANGED <<observing, subscriptions, handling, replies, heard,
                       broadcasts, running>>
    PROVE  IInv'
<1> USE DEF IInv
<1>1. \A d \in Clients : socket'[d] = IF d = c THEN state ELSE socket[d]
  BY DEF TypeOK
<1>2. TypeOK'
  BY DEF TypeOK, AnsweredOnce
<1>3. \A i \in DOMAIN subscriptions : subscriptions[i].clients \subseteq Clients
  BY DEF TypeOK, SubscribersObserved
<1>4. \A r \in handling : r.client \in Clients
  BY DEF TypeOK, Request
<1>5. UniqueTopics' /\ SubscribersObserved'
  BY DEF UniqueTopics, SubscribersObserved
<1>6. NoClosedSubscriber'
  BY <1>1, <1>3 DEF NoClosedSubscriber
<1>7. HandlersConnected'
  BY <1>1, <1>4 DEF HandlersConnected, Immediate
<1>8. SubscribersInformed'
  BY <1>1, <1>3 DEF SubscribersInformed, NoClosedSubscriber
<1>9. NoUpdateBeforeState'
  BY HistoryGrows
<1> QED
  BY <1>2, <1>5, <1>6, <1>7, <1>8, <1>9

LEMMA ReceiveIInv ==
    ASSUME IInv, NEW c \in Clients, NEW id \in Requests,
           NEW command \in Command, Receive(c, id, command)
    PROVE  IInv'
<1> USE DEF IInv
<1> DEFINE new == [id |-> id, client |-> c, command |-> command]
<1>1. /\ handling' = handling \cup {new}
      /\ socket[c] \in {"open", "closing"}
      /\ UNCHANGED <<socket, observing, subscriptions, replies, heard,
                     broadcasts, running>>
  BY DEF Receive, Delivers
<1>2. new \in Request /\ new.client = c /\ new.id = id
  BY DEF Request
<1>3. id \notin UsedIds
  BY DEF Receive
<1> HIDE DEF new
<1>4. AnsweredOnce'
  BY <1>1, <1>2, <1>3 DEF TypeOK, AnsweredOnce, UsedIds
<1>5. TypeOK'
  BY <1>1, <1>2, <1>4 DEF TypeOK
<1>6. HandlersConnected'
  BY <1>1, <1>2 DEF HandlersConnected, Immediate
<1>7. UniqueTopics' /\ SubscribersObserved' /\ NoClosedSubscriber'
  BY <1>1 DEF UniqueTopics, SubscribersObserved, NoClosedSubscriber
<1>8. SubscribersInformed' /\ NoUpdateBeforeState'
  BY <1>1 DEF SubscribersInformed, NoUpdateBeforeState
<1> QED
  BY <1>5, <1>6, <1>7, <1>8

\* A reply that leaves the subscriptions alone: failures, and the success of
\* commands that nobody can subscribe to.
LEMMA PlainReplyIInv ==
    ASSUME IInv, NEW r \in handling, NEW result \in {"ok", "error"},
           Respond(r, result),
           UNCHANGED <<socket, observing, subscriptions, heard, broadcasts>>
    PROVE  IInv'
<1> USE DEF IInv
<1>1. /\ handling' \subseteq handling
      /\ replies \subseteq replies'
      /\ replies' \subseteq Reply
      /\ running' \in BOOLEAN
      /\ AnsweredOnce'
  BY RespondEffect
<1>2. TypeOK'
  BY <1>1 DEF TypeOK
<1>3. HandlersConnected'
  BY <1>1 DEF HandlersConnected, Immediate
<1>4. UniqueTopics' /\ SubscribersObserved' /\ NoClosedSubscriber'
  BY DEF UniqueTopics, SubscribersObserved, NoClosedSubscriber
<1>5. SubscribersInformed'
  BY <1>1 DEF SubscribersInformed
<1>6. NoUpdateBeforeState'
  BY <1>1, HistoryGrows
<1> QED
  BY <1>2, <1>3, <1>4, <1>5, <1>6

LEMMA SubscribingReplyIInv ==
    ASSUME IInv, NEW r \in handling, r.command.kind = "state", Succeed(r)
    PROVE  IInv'
<1> USE DEF IInv
<1> DEFINE c == r.client
           t == r.command.topic
<1>1. /\ Subscribe(c, t)
      /\ Respond(r, "ok")
      /\ UNCHANGED <<socket, heard, broadcasts>>
  BY DEF Succeed
<1>2. /\ c \in Clients
      /\ t \in Topics
      /\ r.command = [kind |-> "state", topic |-> t]
  <2>1. r.command \in Command /\ c \in Clients
    BY DEF TypeOK, Request
  <2>2. r.command \in [kind : {"state"}, topic : Topics]
    BY <2>1 DEF Command
  <2> QED
    BY <2>1, <2>2
<1>3. socket[c] \in {"open", "closing"}
  BY DEF HandlersConnected, Immediate
<1>4. /\ handling' \subseteq handling
      /\ replies \subseteq replies'
      /\ replies' \subseteq Reply
      /\ running' \in BOOLEAN
      /\ AnsweredOnce'
      /\ socket[c] = "open" => [request |-> r, result |-> "ok"] \in replies'
  BY <1>1, RespondEffect
<1>5. /\ subscriptions' \in Seq(Subscription)
      /\ observing' \subseteq Clients
      /\ UniqueTopics'
      /\ SubscribersObserved'
      /\ \A i \in DOMAIN subscriptions' : \A d \in subscriptions'[i].clients :
            \/ d = c /\ subscriptions'[i].topic = t
            \/ /\ i \in DOMAIN subscriptions
               /\ d \in subscriptions[i].clients
               /\ subscriptions'[i].topic = subscriptions[i].topic
  BY <1>1, <1>2, SubscribeEffect
<1>6. socket[c] = "open" =>
        \E p \in replies' : /\ p.result = "ok"
                            /\ p.request.client = c
                            /\ p.request.command = [kind |-> "state", topic |-> t]
  BY <1>2, <1>4
<1>7. r.command = [kind |-> "state", topic |-> t]
  BY <1>2
<1> HIDE DEF c, t
<1>8. TypeOK'
  BY <1>1, <1>4, <1>5 DEF TypeOK
<1>9. NoClosedSubscriber'
  BY <1>1, <1>3, <1>5 DEF NoClosedSubscriber
<1>10. HandlersConnected'
  BY <1>1, <1>4 DEF HandlersConnected, Immediate
<1>11. SubscribersInformed'
  <2> SUFFICES ASSUME NEW i \in DOMAIN subscriptions',
                      NEW d \in subscriptions'[i].clients,
                      socket[d] = "open"
               PROVE  \E p \in replies' :
                        /\ p.result = "ok"
                        /\ p.request.client = d
                        /\ p.request.command =
                              [kind |-> "state", topic |-> subscriptions'[i].topic]
    BY <1>1 DEF SubscribersInformed
  <2>1. CASE d = c /\ subscriptions'[i].topic = t
    BY <1>6, <2>1
  <2>2. CASE /\ i \in DOMAIN subscriptions
             /\ d \in subscriptions[i].clients
             /\ subscriptions'[i].topic = subscriptions[i].topic
    BY <1>4, <2>2 DEF SubscribersInformed
  <2> QED
    BY <1>5, <2>1, <2>2
<1>12. NoUpdateBeforeState'
  BY <1>1, <1>4, HistoryGrows
<1> QED
  BY <1>5, <1>8, <1>9, <1>10, <1>11, <1>12

LEMMA CloseIInv ==
    ASSUME IInv, NEW c \in Clients, Close(c)
    PROVE  IInv'
<1> USE DEF IInv
<1>1. /\ EventLoopIdle
      /\ socket' = [socket EXCEPT ![c] = "closed"]
      /\ UNCHANGED <<observing, handling, replies, heard, broadcasts, running>>
  BY DEF Close
<1>2. \A d \in Clients : socket'[d] = IF d = c THEN "closed" ELSE socket[d]
  BY <1>1 DEF TypeOK
<1>3. /\ subscriptions' \in Seq(Subscription)
      /\ DOMAIN subscriptions' = DOMAIN subscriptions
      /\ \A i \in DOMAIN subscriptions :
            /\ subscriptions'[i].topic = subscriptions[i].topic
            /\ subscriptions'[i].clients = subscriptions[i].clients \ {c}
  <2>1. CASE c \in observing
    BY <2>1, UnsubscribeEffect DEF Close
  <2>2. CASE c \notin observing
    <3>1. \A i \in DOMAIN subscriptions : c \notin subscriptions[i].clients
      BY <2>2 DEF SubscribersObserved
    <3> QED
      BY <2>2, <3>1 DEF Close, TypeOK
  <2> QED
    BY <2>1, <2>2
<1>4. \A i \in DOMAIN subscriptions : subscriptions[i].clients \subseteq Clients
  BY DEF TypeOK, SubscribersObserved
<1>5. TypeOK'
  BY <1>1, <1>3 DEF TypeOK, AnsweredOnce
<1>6. UniqueTopics' /\ SubscribersObserved'
  BY <1>1, <1>3 DEF UniqueTopics, SubscribersObserved
<1>7. NoClosedSubscriber'
  BY <1>2, <1>3, <1>4 DEF NoClosedSubscriber
<1>8. HandlersConnected'
  BY <1>1 DEF HandlersConnected, EventLoopIdle, Immediate
<1>9. SubscribersInformed'
  BY <1>1, <1>2, <1>3, <1>4 DEF SubscribersInformed
<1>10. NoUpdateBeforeState'
  BY <1>1, HistoryGrows
<1> QED
  BY <1>5, <1>6, <1>7, <1>8, <1>9, <1>10

LEMMA DistributeIInv ==
    ASSUME IInv, NEW t \in Topics, Distribute(t)
    PROVE  IInv'
<1> USE DEF IInv
<1>1. /\ broadcasts' = [broadcasts EXCEPT ![t] = @ + 1]
      /\ UNCHANGED <<socket, observing, subscriptions, handling, replies>>
  BY DEF Distribute
<1>2. running' \in BOOLEAN
  BY ServiceManagerAssumption DEF Distribute, Rejected, TypeOK
<1>3. \A c \in Clients : Copies(c, t) = IF Subscribed(c, t) THEN 1 ELSE 0
  BY CopiesAreOne
<1>4. /\ heard' \in [Clients -> [Topics -> Nat]]
      /\ \A c \in Clients, s \in Topics :
            heard'[c][s] # heard[c][s] =>
                s = t /\ socket[c] = "open" /\ Subscribed(c, t)
  <2>1. heard \in [Clients -> [Topics -> Nat]]
    BY DEF TypeOK
  <2>2. heard' = [c \in Clients |->
                    IF socket[c] = "open"
                    THEN [heard[c] EXCEPT ![t] = @ + Copies(c, t)]
                    ELSE heard[c]]
    BY DEF Distribute
  <2> QED
    BY <1>3, <2>1, <2>2
<1>5. TypeOK'
  <2>1. broadcasts' \in [Topics -> Nat]
    BY <1>1 DEF TypeOK
  <2>2. AnsweredOnce'
    BY <1>1 DEF TypeOK, AnsweredOnce
  <2> QED
    BY <1>1, <1>2, <1>4, <2>1, <2>2 DEF TypeOK
<1>6. /\ UniqueTopics' /\ SubscribersObserved' /\ NoClosedSubscriber'
      /\ HandlersConnected' /\ SubscribersInformed'
  BY <1>1 DEF UniqueTopics, SubscribersObserved, NoClosedSubscriber,
              HandlersConnected, SubscribersInformed, Immediate
<1>7. NoUpdateBeforeState'
  <2> SUFFICES ASSUME NEW c \in Clients, NEW s \in Topics, heard'[c][s] > 0
               PROVE  \E p \in replies :
                        /\ p.result = "ok"
                        /\ p.request.client = c
                        /\ p.request.command = [kind |-> "state", topic |-> s]
    BY <1>1 DEF NoUpdateBeforeState
  <2>1. CASE heard'[c][s] = heard[c][s]
    BY <2>1 DEF NoUpdateBeforeState
  <2>2. CASE heard'[c][s] # heard[c][s]
    BY <1>4, <2>2 DEF SubscribersInformed, Subscribed, Matching
  <2> QED
    BY <2>1, <2>2
<1> QED
  BY <1>5, <1>6, <1>7

LEMMA NextIInv == IInv /\ [Next]_vars => IInv'
<1> SUFFICES ASSUME IInv, [Next]_vars
             PROVE  IInv'
  OBVIOUS
<1>1. ASSUME NEW c \in Clients, Connect(c)
      PROVE  IInv'
  BY <1>1, SocketStep DEF Connect
<1>2. ASSUME NEW c \in Clients, ReceiveMalformed(c)
      PROVE  IInv'
  BY <1>2, SocketStep DEF ReceiveMalformed, Delivers
<1>3. ASSUME NEW c \in Clients, StartClosing(c)
      PROVE  IInv'
  BY <1>3, SocketStep DEF StartClosing
<1>4. ASSUME NEW c \in Clients, Close(c)
      PROVE  IInv'
  BY <1>4, CloseIInv
<1>5. ASSUME NEW c \in Clients, NEW id \in Requests, NEW command \in Command,
             Receive(c, id, command)
      PROVE  IInv'
  BY <1>5, ReceiveIInv
<1>6. ASSUME NEW r \in handling, Succeed(r)
      PROVE  IInv'
  <2>1. CASE r.command.kind = "state"
    BY <1>6, <2>1, SubscribingReplyIInv
  <2>2. CASE r.command.kind # "state"
    BY <1>6, <2>2, PlainReplyIInv DEF Succeed
  <2> QED
    BY <2>1, <2>2
<1>7. ASSUME NEW r \in handling, Fail(r)
      PROVE  IInv'
  BY <1>7, PlainReplyIInv DEF Fail
<1>8. ASSUME NEW t \in Topics, Distribute(t)
      PROVE  IInv'
  BY <1>8, DistributeIInv
<1>9. CASE UNCHANGED vars
  BY <1>9 DEF vars, IInv, TypeOK, UniqueTopics, SubscribersObserved,
      NoClosedSubscriber, HandlersConnected, SubscribersInformed,
      NoUpdateBeforeState, Immediate, AnsweredOnce
<1> QED
  BY <1>1, <1>2, <1>3, <1>4, <1>5, <1>6, <1>7, <1>8, <1>9 DEF Next

LEMMA Inductive == Spec => []IInv
  BY InitIInv, NextIInv, PTL DEF Spec

\* Every variable keeps its type.
THEOREM TypeCorrect == Spec => []TypeOK
<1>1. IInv => TypeOK
  BY DEF IInv
<1> QED
  BY <1>1, Inductive, PTL

\* One subscription per topic, whatever the interleaving of the requests.
THEOREM SubscriptionsUnique == Spec => []UniqueTopics
<1>1. IInv => UniqueTopics
  BY DEF IInv
<1> QED
  BY <1>1, Inductive, PTL

\* Every subscriber whose connection is not closed is observed: the manager
\* will hear of its disconnection.
THEOREM SubscribersAreObserved == Spec => []SubscribersObserved
<1>1. IInv => SubscribersObserved
  BY DEF IInv
<1> QED
  BY <1>1, Inductive, PTL

\* A closed connection has left every subscription and never comes back.
THEOREM ClosedAreForgotten == Spec => []NoClosedSubscriber
<1>1. IInv => NoClosedSubscriber
  BY DEF IInv
<1> QED
  BY <1>1, Inductive, PTL

\* A broadcast is only ever heard after the full state.
THEOREM StateComesFirst == Spec => []NoUpdateBeforeState
<1>1. IInv => NoUpdateBeforeState
  BY DEF IInv
<1> QED
  BY <1>1, Inductive, PTL

-----------------------------------------------------------------------------
(***************************************************************************)
(* Refinement: every step of ServiceManager is a step of TopicBroadcast,   *)
(* through the mapping that Abstract is instantiated with, or changes none *)
(* of its variables.                                                       *)
(***************************************************************************)
USE DEF Abstract!vars

LEMMA AbstractInit == Init => Abstract!Init
<1> SUFFICES ASSUME Init PROVE Abstract!Init
  OBVIOUS
<1>1. Presence = [c \in Clients |-> "absent"]
  BY DEF Init, Presence
<1>2. Members = {}
  BY DEF Init, Members, Subscribed, Matching
<1> QED
  BY <1>1, <1>2 DEF Init, Abstract!Init

\* Presence follows the state of one socket.
LEMMA PresenceStep ==
    ASSUME TypeOK, NEW c \in Clients,
           NEW state \in {"none", "open", "closing", "closed"},
           socket' = [socket EXCEPT ![c] = state]
    PROVE  Presence' = [Presence EXCEPT ![c] =
                CASE state = "none" -> "absent"
                  [] state = "open" -> "present"
                  [] state = "closing" -> "fading"
                  [] OTHER -> "gone"]
  BY DEF Presence, TypeOK

\* Members depends on the subscriptions only.
LEMMA MembersSame ==
    ASSUME UNCHANGED subscriptions
    PROVE  Members' = Members
  BY DEF Members, Subscribed, Matching

\* Succeeding with philips-hue-state adds one pair: the client joins.
LEMMA SubscribeJoins ==
    ASSUME IInv, NEW c \in Clients, NEW t \in Topics, Subscribe(c, t)
    PROVE  Members' = Members \cup {<<c, t>>}
<1>1. /\ \A i \in DOMAIN subscriptions' : \A d \in subscriptions'[i].clients :
            \/ d = c /\ subscriptions'[i].topic = t
            \/ /\ i \in DOMAIN subscriptions
               /\ d \in subscriptions[i].clients
               /\ subscriptions'[i].topic = subscriptions[i].topic
      /\ \A i \in DOMAIN subscriptions :
            /\ i \in DOMAIN subscriptions'
            /\ subscriptions'[i].topic = subscriptions[i].topic
            /\ subscriptions[i].clients \subseteq subscriptions'[i].clients
      /\ \E i \in DOMAIN subscriptions' :
            c \in subscriptions'[i].clients /\ subscriptions'[i].topic = t
  BY SubscribeEffect DEF IInv
<1>2. \A d \in Clients, s \in Topics :
        Subscribed(d, s)' <=> Subscribed(d, s) \/ (d = c /\ s = t)
  <2> SUFFICES ASSUME NEW d \in Clients, NEW s \in Topics
               PROVE  Subscribed(d, s)' <=> Subscribed(d, s) \/ (d = c /\ s = t)
    OBVIOUS
  <2>1. Subscribed(d, s)' => Subscribed(d, s) \/ (d = c /\ s = t)
    BY <1>1 DEF Subscribed, Matching
  <2>2. Subscribed(d, s) => Subscribed(d, s)'
    BY <1>1 DEF Subscribed, Matching
  <2>3. d = c /\ s = t => Subscribed(d, s)'
    BY <1>1 DEF Subscribed, Matching
  <2> QED
    BY <2>1, <2>2, <2>3
<1>3. Members' = {m \in Clients \X Topics : Subscribed(m[1], m[2])'}
  BY DEF Members
<1>4. \A m \in Clients \X Topics :
        /\ m = <<m[1], m[2]>>
        /\ m[1] \in Clients
        /\ m[2] \in Topics
  OBVIOUS
<1>5. \A m \in Clients \X Topics :
        Subscribed(m[1], m[2])' <=> Subscribed(m[1], m[2]) \/ m = <<c, t>>
  BY <1>2, <1>4
<1> QED
  BY <1>3, <1>5 DEF Members

\* The 'close' event takes the client out of every pair.
LEMMA CloseLeaves ==
    ASSUME IInv, NEW c \in Clients, Close(c)
    PROVE  Members' = {m \in Members : m[1] # c}
<1>1. CASE c \in observing
  <2>1. /\ DOMAIN subscriptions' = DOMAIN subscriptions
        /\ \A i \in DOMAIN subscriptions :
              /\ subscriptions'[i].topic = subscriptions[i].topic
              /\ subscriptions'[i].clients = subscriptions[i].clients \ {c}
    BY <1>1, UnsubscribeEffect DEF Close, IInv
  <2>2. \A d, s : Subscribed(d, s)' <=> Subscribed(d, s) /\ d # c
    BY <2>1 DEF Subscribed, Matching
  <2> QED
    BY <2>2 DEF Members
<1>2. CASE c \notin observing
  <2>1. UNCHANGED subscriptions
    BY <1>2 DEF Close
  <2>2. \A s : ~Subscribed(c, s)
    BY <1>2 DEF IInv, SubscribersObserved, Subscribed, Matching
  <2> QED
    BY <2>1, <2>2, MembersSame DEF Members
<1> QED
  BY <1>1, <1>2

\* Every step is a step of the abstract specification, or invisible to it.
LEMMA AbstractStep ==
    ASSUME IInv, [Next]_vars
    PROVE  [Abstract!Next]_(Abstract!vars)
<1> USE DEF IInv
<1>1. ASSUME NEW c \in Clients, Connect(c)
      PROVE  Abstract!Arrive(c)
  <2>1. Members' = Members
    BY <1>1, MembersSame DEF Connect
  <2>2. Presence' = [Presence EXCEPT ![c] = "present"]
    BY <1>1, PresenceStep DEF Connect
  <2>3. Presence[c] = "absent"
    BY <1>1 DEF Presence, Connect
  <2> QED
    BY <1>1, <2>1, <2>2, <2>3 DEF Connect, Abstract!Arrive
<1>2. ASSUME NEW c \in Clients, socket[c] = "open",
             socket' = [socket EXCEPT ![c] = "closing"],
             UNCHANGED <<subscriptions, heard, broadcasts>>
      PROVE  Abstract!Fade(c)
  <2>1. Members' = Members
    BY <1>2, MembersSame
  <2>2. Presence' = [Presence EXCEPT ![c] = "fading"]
    BY <1>2, PresenceStep
  <2>3. Presence[c] = "present"
    BY <1>2 DEF Presence
  <2> QED
    BY <1>2, <2>1, <2>2, <2>3 DEF Abstract!Fade
<1>3. ASSUME NEW c \in Clients, ReceiveMalformed(c)
      PROVE  Abstract!Fade(c) \/ UNCHANGED Abstract!vars
  <2>1. CASE socket[c] = "open"
    BY <1>2, <1>3, <2>1 DEF ReceiveMalformed
  <2>2. CASE socket[c] = "closing"
    <3>1. UNCHANGED <<socket, subscriptions, heard, broadcasts>>
      BY <1>3, <2>2 DEF ReceiveMalformed, TypeOK
    <3> QED
      BY <3>1, MembersSame DEF Presence
  <2> QED
    BY <1>3, <2>1, <2>2 DEF ReceiveMalformed, Delivers
<1>4. ASSUME NEW c \in Clients, StartClosing(c)
      PROVE  Abstract!Fade(c)
  BY <1>2, <1>4 DEF StartClosing
<1>5. ASSUME NEW c \in Clients, Close(c)
      PROVE  Abstract!Leave(c)
  <2>1. Members' = {m \in Members : m[1] # c}
    BY <1>5, CloseLeaves
  <2>2. Presence' = [Presence EXCEPT ![c] = "gone"]
    BY <1>5, PresenceStep DEF Close
  <2>3. Presence[c] \in {"present", "fading"}
    BY <1>5 DEF Presence, Close
  <2> QED
    BY <1>5, <2>1, <2>2, <2>3 DEF Close, Abstract!Leave
<1>6. ASSUME UNCHANGED <<socket, subscriptions, heard, broadcasts>>
      PROVE  UNCHANGED Abstract!vars
  BY <1>6, MembersSame DEF Presence
<1>7. ASSUME NEW r \in handling, Succeed(r)
      PROVE  \/ UNCHANGED Abstract!vars
             \/ \E c \in Clients, t \in Topics : Abstract!Join(c, t)
  <2>1. CASE r.command.kind # "state"
    BY <1>6, <1>7, <2>1 DEF Succeed
  <2>2. CASE r.command.kind = "state"
    <3> DEFINE c == r.client
               t == r.command.topic
    <3>1. r.command \in Command /\ c \in Clients
      BY DEF TypeOK, Request
    <3>2. t \in Topics
      BY <2>2, <3>1 DEF Command
    <3>3. Members' = Members \cup {<<c, t>>}
      BY <1>7, <2>2, <3>1, <3>2, SubscribeJoins DEF Succeed
    <3>4. UNCHANGED <<Presence, heard, broadcasts>>
      BY <1>7 DEF Succeed, Presence
    <3>5. Presence[c] \in {"present", "fading"}
      BY <2>2, <3>1 DEF HandlersConnected, Immediate, Presence
    <3>6. Abstract!Join(c, t)
      BY <3>3, <3>4, <3>5 DEF Abstract!Join
    <3> QED
      BY <3>1, <3>2, <3>6
  <2> QED
    BY <2>1, <2>2
<1>8. ASSUME NEW t \in Topics, Distribute(t)
      PROVE  Abstract!Publish(t)
  <2>1. \A c \in Clients : Copies(c, t) = IF Subscribed(c, t) THEN 1 ELSE 0
    BY CopiesAreOne
  <2>2. \A c \in Clients : <<c, t>> \in Members <=> Subscribed(c, t)
    BY DEF Members
  <2>3. \A c \in Clients : Presence[c] = "present" <=> socket[c] = "open"
    BY DEF Presence, TypeOK
  <2>4. \A c \in Clients :
            (IF socket[c] = "open"
             THEN [heard[c] EXCEPT ![t] = @ + Copies(c, t)]
             ELSE heard[c])
            = (IF Presence[c] = "present" /\ <<c, t>> \in Members
               THEN [heard[c] EXCEPT ![t] = @ + 1]
               ELSE heard[c])
    <3> SUFFICES ASSUME NEW c \in Clients, socket[c] = "open",
                        ~Subscribed(c, t)
                 PROVE  [heard[c] EXCEPT ![t] = @ + Copies(c, t)] = heard[c]
      BY <2>1, <2>2, <2>3
    <3>1. heard[c] \in [Topics -> Nat] /\ Copies(c, t) = 0
      BY <2>1 DEF TypeOK
    <3> QED
      BY <3>1
  <2>5. heard' = [c \in Clients |->
                    IF Presence[c] = "present" /\ <<c, t>> \in Members
                    THEN [heard[c] EXCEPT ![t] = @ + 1]
                    ELSE heard[c]]
    BY <1>8, <2>4 DEF Distribute
  <2>6. Presence' = Presence /\ Members' = Members
    BY <1>8, MembersSame DEF Distribute, Presence
  <2>7. broadcasts' = [broadcasts EXCEPT ![t] = @ + 1]
    BY <1>8 DEF Distribute
  <2> QED
    BY <2>5, <2>6, <2>7 DEF Abstract!Publish
<1>9. ASSUME NEW c \in Clients, NEW id \in Requests, NEW command \in Command,
             Receive(c, id, command)
      PROVE  UNCHANGED Abstract!vars
  BY <1>6, <1>9 DEF Receive
<1>10. ASSUME NEW r \in handling, Fail(r)
       PROVE  UNCHANGED Abstract!vars
  BY <1>6, <1>10 DEF Fail
<1>11. CASE UNCHANGED vars
  BY <1>6, <1>11 DEF vars
<1> HIDE DEF Abstract!vars
<1> QED
  BY <1>1, <1>3, <1>4, <1>5, <1>7, <1>8, <1>9, <1>10, <1>11
     DEF Next, Abstract!Next

\* A client that asked for a topic hears every broadcast on it once while its
\* connection is open, and is forgotten with it: the service manager
\* implements the abstract promise.
THEOREM BroadcastsImplemented == Spec => BroadcastsAsPromised
<1>1. Init => Abstract!Init
  BY AbstractInit
<1>2. IInv /\ [Next]_vars => [Abstract!Next]_(Abstract!vars)
  BY AbstractStep
<1> QED
  BY <1>1, <1>2, Inductive, PTL
     DEF Spec, BroadcastsAsPromised, Abstract!Spec
=============================================================================
