------------------------------ MODULE MCChatMq ------------------------------
(* Small instances of ChatMq for TLC.  No symmetry, since temporal           *)
(* properties are checked.                                                   *)
EXTENDS ChatMq

CONSTANTS u1, u2, u3
=============================================================================
