--------------------------- MODULE MCLineProtocol ---------------------------
(* LineProtocol with the sizes of pr_9, given in the cfg file.               *)
EXTENDS LineProtocol
=============================================================================
