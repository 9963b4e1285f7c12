----------------------------- MODULE MCPipeline -----------------------------
(* A driver and two stages; prompts of as many micro-batches as may be in  *)
(* flight, and two calls, so that answers of the first may come in the      *)
(* second.                                                                  *)
EXTENDS Pipeline
=============================================================================
