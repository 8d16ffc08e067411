------------------------------ MODULE MCSwarm ------------------------------
(* Values of the constants for TLC. *)
EXTENDS Swarm

MCKinds == {[caps |-> <<"coder">>, max |-> 1], [caps |-> <<"tester", "coder">>, max |-> 2]}
MCJobRole == [j \in FabricJobs |-> "coder"]
MCJobToken == [j1 |-> Token("coder", NoExpiry), j2 |-> Token("coder", 0)]
MCJobBonus == [j \in FabricJobs |-> 5]
MCTriggersOn == [type \in {"job.queued"} |-> <<"onQueued">>]
MCTexts == {<<>>, <<"a">>, <<"b">>, <<"a", "b">>}
=============================================================================
