------------------------------ MODULE MCClient ------------------------------
(* Instances of Client small enough for TLC.  The values of the bytes are   *)
(* those of RingBuffer's own run; here only their number matters.           *)
EXTENDS Client

(* Descriptions of one and of two bytes.                                    *)
TwoChannels == <<[chnid |-> 1, desc |-> <<65>>], [chnid |-> 3, desc |-> <<66, 67>>]>>

OneByte == {0}

(* Packets of one and of two bytes.                                         *)
TwoSizes == {<<0>>, <<0, 0>>}
OneSize  == {<<0, 0>>}

EverySeq == 0 .. SeqMod - 1
SeqZero  == {0}
=============================================================================
