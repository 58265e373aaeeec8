--------------------------- MODULE ControlSession ---------------------------
(***************************************************************************)
(* What the control connection promises to the panel, without saying how:  *)
(* messages are sent and answered while the session is online; when it has *)
(* gone offline nothing is answered any more, and what is left unanswered  *)
(* is given up as a whole before the session is online again.              *)
(***************************************************************************)
CONSTANT Messages

VARIABLES online,    \* messages can be sent
          outcome    \* outcome[m]: what became of message m

vars == <<online, outcome>>

Init ==
    /\ online = FALSE
    /\ outcome = [m \in Messages |-> "unsent"]

GoOnline ==
    /\ ~online
    /\ \A m \in Messages : outcome[m] # "pending"
    /\ online' = TRUE
    /\ UNCHANGED outcome

Send(m) ==
    /\ online
    /\ outcome[m] = "unsent"
    /\ outcome' = [outcome EXCEPT ![m] = "pending"]
    /\ UNCHANGED online

Answer(m) ==
    /\ online
    /\ outcome[m] = "pending"
    /\ outcome' = [outcome EXCEPT ![m] = "answered"]
    /\ UNCHANGED online

GoOffline ==
    /\ online
    /\ online' = FALSE
    /\ UNCHANGED outcome

GiveUp ==
    /\ ~online
    /\ outcome' = [m \in Messages |->
                    IF outcome[m] = "pending" THEN "abandoned" ELSE outcome[m]]
    /\ UNCHANGED online

Next ==
    \/ GoOnline
    \/ GoOffline
    \/ GiveUp
    \/ \E m \in Messages : Send(m) \/ Answer(m)

Spec == Init /\ [][Next]_vars
=============================================================================
