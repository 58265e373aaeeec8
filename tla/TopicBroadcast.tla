--------------------------- MODULE TopicBroadcast ---------------------------
(***************************************************************************)
(* What the server promises about broadcasts, without saying how: a client *)
(* that asked for a topic hears every broadcast on that topic exactly once *)
(* for as long as its connection is open, hears nothing it did not ask for *)
(* and is forgotten when its connection has gone away.                     *)
(*                                                                         *)
(* A topic is a pair of a command and its parameters, such as the command  *)
(* philips-hue-state for one light group (src/service.ts, the interfaces   *)
(* ServiceBroadcaster and ServiceCommand).                                 *)
(***************************************************************************)
EXTENDS Naturals

CONSTANTS Clients,  \* connections that controllers make over time
          Topics    \* what a client can subscribe to

VARIABLES presence,    \* presence[c]: how much of the connection of c is left
          members,     \* the <<client, topic>> pairs that are subscribed
          heard,       \* heard[c][t]: the broadcasts on t that c was sent
          broadcasts   \* broadcasts[t]: published on t so far

vars == <<presence, members, heard, broadcasts>>

Init ==
    /\ presence = [c \in Clients |-> "absent"]
    /\ members = {}
    /\ heard = [c \in Clients |-> [t \in Topics |-> 0]]
    /\ broadcasts = [t \in Topics |-> 0]

Arrive(c) ==
    /\ presence[c] = "absent"
    /\ presence' = [presence EXCEPT ![c] = "present"]
    /\ UNCHANGED <<members, heard, broadcasts>>

\* A client can join while any of its connection is left.
Join(c, t) ==
    /\ presence[c] \in {"present", "fading"}
    /\ members' = members \cup {<<c, t>>}
    /\ UNCHANGED <<presence, heard, broadcasts>>

\* The connection is being torn down: nothing can be sent to it any more.
Fade(c) ==
    /\ presence[c] = "present"
    /\ presence' = [presence EXCEPT ![c] = "fading"]
    /\ UNCHANGED <<members, heard, broadcasts>>

Leave(c) ==
    /\ presence[c] \in {"present", "fading"}
    /\ presence' = [presence EXCEPT ![c] = "gone"]
    /\ members' = {m \in members : m[1] # c}
    /\ UNCHANGED <<heard, broadcasts>>

\* No broadcast is lost on a client that can be sent anything, whatever
\* happens to the other clients.
Publish(t) ==
    /\ broadcasts' = [broadcasts EXCEPT ![t] = @ + 1]
    /\ heard' = [c \in Clients |->
                    IF presence[c] = "present" /\ <<c, t>> \in members
                    THEN [heard[c] EXCEPT ![t] = @ + 1]
                    ELSE heard[c]]
    /\ UNCHANGED <<presence, members>>

Next ==
    \/ \E c \in Clients : Arrive(c) \/ Fade(c) \/ Leave(c)
    \/ \E c \in Clients, t \in Topics : Join(c, t)
    \/ \E t \in Topics : Publish(t)

Spec == Init /\ [][Next]_vars
=============================================================================
