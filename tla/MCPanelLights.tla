---------------------------- MODULE MCPanelLights ---------------------------
(***************************************************************************)
(* Instance of PanelLights for TLC, with the configurations of the hub     *)
(* that MCController has.                                                  *)
(***************************************************************************)
EXTENDS PanelLights, MCController
=============================================================================
