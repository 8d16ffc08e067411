------------------------------ MODULE MCServices ------------------------------
(* Small instances of Services: two of everything that can meet another of *)
(* its kind, limits that are reached, one or two kills.                    *)
EXTENDS Services

NoAlias == [c \in PluginCommands |-> {}]
MCOwnAliases == [c \in PluginCommands |-> IF c = "/h" THEN "/help" ELSE ""]
MCManifests ==
  {[commands |-> <<"/c">>, aliases |-> [NoAlias EXCEPT !["/c"] = {"/k"}],
    mayCommand |-> PluginCommands, events |-> <<"*", "other">>, mayEvent |-> {"job_started"},
    hooks |-> <<"job_started", "job_started">>, executions |-> 1],
   [commands |-> <<"/d", "/c", "/help">>, aliases |-> NoAlias,
    mayCommand |-> {"/c", "/help"}, events |-> <<"job_started", "job_started">>,
    mayEvent |-> {"job_started"}, hooks |-> <<"job_started">>, executions |-> 1],
   [commands |-> <<"/k", "/d">>, aliases |-> [NoAlias EXCEPT !["/k"] = {"/help"}],
    mayCommand |-> PluginCommands, events |-> <<"job_started", "*", "job_started">>,
    mayEvent |-> {"job_started"}, hooks |-> <<>>, executions |-> 2]}

MCModels     == <<"qwen", "local">>
MCAppModes   == <<"chat", "diff">>
MCSwarmModes == <<"parallel", "debate">>

File(name, hooks, commands, entry) ==
  [name |-> name, hooks |-> hooks, commands |-> commands, entry |-> entry]
MCDirs  == <<"a", "b">>
MCFiles == {File("a", {"before_run"}, {"/x"}, "runs"), File("a", {"after_run"}, {}, "runs"),
            File("b", {"before_run"}, {"/x"}, "raises"), File("a", {"before_run"}, {"/x"}, "missing")}

MCDefaultPolicies ==
  [kind \in {"model_error", "auth"} |->
     IF kind = "auth" THEN [strategy |-> "fixed_interval", retries |-> 1]
     ELSE [strategy |-> "exponential_backoff", retries |-> 2]]
MCBreakerPolicy == [strategy |-> "circuit_breaker", retries |-> 1]
MCHealNodes == <<"c", "b", "a">>
MCHealDeps  == [n \in {"a", "b", "c"} |->
                  CASE n = "a" -> {} [] n = "b" -> {"a"} [] n = "c" -> {"a", "b"}]

MCVersions == << <<1, 0>>, <<1, 0, 1>>, <<>>, <<1, 1>> >>
=============================================================================
