---------------------------- MODULE MCEngineSwarm ----------------------------
(* Small instances of EngineSwarm: the first worker can stream.            *)
EXTENDS EngineSwarm

FirstStreams == [w \in Workers |-> IF w = 1 THEN {"stream"} ELSE {}]
Requests     == {{}, {"stream"}}
=============================================================================
