----------------------------- MODULE SeqTracker -----------------------------
(***************************************************************************)
(* How the client's receiver thread follows the sequence numbers of the    *)
(* channel it plays: the globals expected_seq, first_packet and            *)
(* packet_loss_count of client/recv_thr.c.  A sequence number is a         *)
(* uint32_t, the loss count an int to which unsigned gaps are added.       *)
(***************************************************************************)
EXTENDS Integers

CONSTANT SeqMod   \* 2^32: the values of a uint32_t are 0 .. SeqMod-1

ASSUME SeqModAssumption == SeqMod \in Nat \ {0} /\ SeqMod % 2 = 0

SeqNum == 0 .. SeqMod - 1

(* The values of an int as wide as a sequence number.                       *)
SeqInt == -(SeqMod \div 2) .. (SeqMod \div 2) - 1

(* An unsigned value converted to int.                                      *)
ToInt(x) == IF x < SeqMod \div 2 THEN x ELSE x - SeqMod

Tracker == [first_packet : BOOLEAN, expected_seq : SeqNum, packet_loss_count : SeqInt]

NewTracker == [first_packet |-> TRUE, expected_seq |-> 0, packet_loss_count |-> 0]

(* msg_channel->seq - expected_seq, unsigned.                               *)
Gap(t, seq) == (seq - t.expected_seq) % SeqMod

(* Mutant of Tracked: a gap moves expected_seq on by one packet only.       *)
TrackedByOne(t, seq) ==
  [first_packet      |-> FALSE,
   expected_seq      |-> IF t.first_packet THEN (seq + 1) % SeqMod
                         ELSE (t.expected_seq + 1) % SeqMod,
   packet_loss_count |-> IF t.first_packet THEN t.packet_loss_count
                         ELSE ToInt((t.packet_loss_count + Gap(t, seq)) % SeqMod)]

(* The tracker after a packet of the chosen channel.                        *)
Tracked(t, seq) ==
  [first_packet      |-> FALSE,
   expected_seq      |-> (seq + 1) % SeqMod,
   packet_loss_count |-> IF t.first_packet THEN t.packet_loss_count
                         ELSE ToInt((t.packet_loss_count + Gap(t, seq)) % SeqMod)]
=============================================================================
