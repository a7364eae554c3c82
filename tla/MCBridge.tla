------------------------------ MODULE MCBridge ------------------------------
(* The bridge and the command line over one repository of one file, which  *)
(* a request to the bridge may name twice.                                 *)
EXTENDS Bridge

CONSTANT Weights

Asked == [p \in Proc |-> IF p = Bridge THEN {<<Weights, Weights>>} ELSE {<<Weights>>}]

Hosts ==
    {<<"add", "removeFiles">>, <<"removeRepo", "run">>, <<"start", "stop">>,
     <<"install", "removeAgent">>, <<"install", "install">>, <<"removeConfig", "initConfig">>,
     <<"initialize", "notification", "listTools">>, <<"malformed", "listServers">>,
     <<"listAgents", "setDefaults">>, <<"listConfigs", "checkConfig">>,
     <<"listModels", "showModel">>}
=============================================================================
