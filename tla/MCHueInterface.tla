--------------------------- MODULE MCHueInterface ---------------------------
(***************************************************************************)
(* Instances of HueInterface for TLC: a bridge that holds two groups when  *)
(* the server starts, one of them with a scene.                            *)
(***************************************************************************)
EXTENDS HueInterface, TLC

CONSTANTS g1, g2, kitchen, bedroom, l1, l2, s1

TwoGroups ==
    [groups |-> g1 :> [name |-> kitchen, lights |-> {l1}]
             @@ g2 :> [name |-> bedroom, lights |-> {l1, l2}],
     lights |-> l1 :> 254 @@ l2 :> 0,
     scenes |-> s1 :> g1]

Houses == {TwoGroups}
=============================================================================
