----------------------------- MODULE MCPipeline -----------------------------
(* A small library for Pipeline.tla.                                       *)
EXTENDS Pipeline, TLC

CONSTANT f1

MCTagsOf == [r \in Revs |-> IF r = 1 THEN {"a", "b"} ELSE {"b"}]
=============================================================================
