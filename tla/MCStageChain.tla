---------------------------- MODULE MCStageChain ----------------------------
(* A small instance of StageChain, given by the cfg file.                    *)
EXTENDS StageChain
=============================================================================
