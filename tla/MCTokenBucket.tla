---------------------------- MODULE MCTokenBucket ----------------------------
(* Instances of TokenBucket small enough for TLC. *)
EXTENDS TokenBucket

(* Any thread takes the alarm, as the code has it.                          *)
AnyThread == Thread
=============================================================================
