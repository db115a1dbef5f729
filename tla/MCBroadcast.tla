---------------------------- MODULE MCBroadcast ----------------------------
(* Instances of Broadcast small enough for TLC. *)
EXTENDS Broadcast

(* Three directories, the first with an empty file between two others.      *)
ThreeDirs == <<<<1, 0, 2>>, <<1>>, <<1>>>>

(* One directory, with an empty file between two others, and its first one. *)
OneDir == <<<<2, 0, 1>>>>
FirstFile == {[dir |-> 1, pos |-> 0]}
=============================================================================
