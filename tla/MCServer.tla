------------------------------ MODULE MCServer ------------------------------
(***************************************************************************)
(* An instance of Server for TLC: Philips Hue and a second service with a  *)
(* command of its own, and files that use both, one of them, or neither.   *)
(***************************************************************************)
EXTENDS Server

MCServices == <<"Philips Hue", "Radio">>

MCCommands ==
    [s \in Range(MCServices) |->
        IF s = "Radio" THEN {Command("radio-volume", <<>>)}
        ELSE PhilipsHueCommands]

MCConfigurations ==
    {[kitchen |-> <<"Philips Hue">>],
     [kitchen |-> <<"Philips Hue", "Radio">>, office |-> <<>>]}

Value(type, truthy) == [type |-> type, truthy |-> truthy]
Text == Value("string", TRUE)

\* Complete, lacking the group, and of another type; with "optional" true and
\* false, and without it.
MCMessages ==
    {[group |-> Text, on |-> Value("boolean", FALSE)],
     [group |-> Text, brightness |-> Text],
     [brightness |-> Value("number", TRUE), optional |-> Value("boolean", TRUE)],
     [group |-> Text, optional |-> Value("boolean", FALSE)],
     [group |-> Text, optional |-> Value("boolean", TRUE)]}
=============================================================================
