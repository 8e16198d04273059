----------------------------- MODULE MCPipeline -----------------------------
(* A small instance of Pipeline, given by the cfg file.                      *)
EXTENDS Pipeline
=============================================================================
