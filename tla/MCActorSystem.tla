--------------------------- MODULE MCActorSystem ----------------------------
(* Small instances of ActorSystem.                                         *)
EXTENDS ActorSystem
=============================================================================
