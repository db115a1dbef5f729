---------------------------- MODULE MCRingBuffer ----------------------------
(* Instances of RingBuffer small enough for TLC. *)
EXTENDS RingBuffer

(* Every non-empty packet of up to two bytes over Byte, one of three. *)
SomePackets == {<<a>> : a \in Byte} \cup {<<a, b>> : a, b \in Byte} \cup {<<1, 0, 1>>}
=============================================================================
