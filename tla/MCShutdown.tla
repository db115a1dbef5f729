----------------------------- MODULE MCShutdown -----------------------------
(* Instances of Shutdown small enough for TLC. *)
EXTENDS Shutdown

CONSTANT b1

OneChannel == <<b1>>
=============================================================================
