-------------------------- MODULE MCServiceManager --------------------------
(***************************************************************************)
(* Instances of ServiceManager for TLC.  Clients, topics and message ids   *)
(* are model values.  They are interchangeable, but no symmetry is used:   *)
(* the runs check liveness as well.                                        *)
(***************************************************************************)
EXTENDS ServiceManager

\* The controllers and the debugging page only ever send valid messages.
ControllersOnly ==
    Init /\ [][Next /\ \A c \in Clients : ~ReceiveMalformed(c)]_vars
=============================================================================
