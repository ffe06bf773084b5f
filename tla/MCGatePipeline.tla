---------------------------- MODULE MCGatePipeline ----------------------------
(***************************************************************************)
(* GatePipeline for TLC: a plan of two tasks, a then b, whose scopes are a *)
(* subnet and one host in it, and commands that break each check in turn.  *)
(***************************************************************************)
EXTENDS GatePipeline

MCNetwork == [inside |-> {1}, subnet |-> {1, 2}, outside |-> {3}]

MCForbiddenPhrases == {<<"rm", "-rf">>}

Task(scope, approved) ==
    [target_scope |-> scope, techniques |-> {"T1046"}, operator_approved |-> approved,
     phase |-> "recon"]

Plan(approved) ==
    [nodes |-> [a |-> Task({"subnet", "web.example"}, TRUE), b |-> Task({"inside"}, approved)],
     edges |-> {Edge("a", "b")}]

MCContexts ==
    {NoContext} \cup
    [plan : {Plan(TRUE), Plan(FALSE)}, completed : {{}, {"a"}}]

MCCommands ==
    [adapter_name : {"nmap", "msf-aux"},
     argv : {<<>>, <<"nmap", "inside">>, <<"nmap", "-sV", "subnet">>, <<"nmap", "outside">>,
             <<"nmap", "web.example">>, <<"nmap", "rm", "-rf">>, <<"nmap", "$(">>},
     target_scope : {{}, {"inside"}, {"web.example"}},
     tactics : {{"discovery"}, {"discovery", IMPACT}, {"persistence"}},
     techniques : {{"T1046"}, {"T1046", "T1018"}},
     runtime : {1800, 1801},
     task_id : {"a", "b", "ghost", NoTask}]

\* evaluate's callers pass no pipeline at run time; tests pass the bare one.
MCPipelines == {RuntimePipeline, DEFAULT_PIPELINE}
=============================================================================
