---------------------------- MODULE MCController ----------------------------
(***************************************************************************)
(* Instances of Controller for TLC: two rooms, one of which can have a     *)
(* service that the panel does not recognise, and can be gone; and a       *)
(* configuration without any room.                                         *)
(***************************************************************************)
EXTENDS Controller

MCEnvironments ==
    {[kitchen |-> <<"Philips Hue">>, office |-> <<"Philips Hue">>],
     [kitchen |-> <<"Philips Hue", "Radio">>],
     <<>>}
=============================================================================
