---------------------------- MODULE ChannelList ----------------------------
(***************************************************************************)
(* The list of channels: how the server's list thread encodes it           *)
(* (server/thr_list.c) and how main() of the client takes and shows it,    *)
(* until the user has chosen a channel (client/client.c).                  *)
(*                                                                         *)
(* The list and the channels share one multicast address.  Their packets   *)
(* are the structures of include/proto.h: a list begins with LISTCHNID, a  *)
(* packet of a channel with its sequence number, lowest byte first.        *)
(***************************************************************************)
EXTENDS Integers, Sequences

CONSTANTS
  List,        \* the channels: chnid, and desc, a sequence of bytes but 0
  ListSeqs,    \* sequence numbers of the packets that may come before the choice
  ListMax,     \* bytes of the buffer for the list
  Garbage      \* what malloc may leave in the buffer: this byte, all over it

LISTCHNID == 0
CharByte == 1 .. 255
Entry == [chnid : CharByte, desc : Seq(CharByte)]

ASSUME ListAssumption == List \in Seq(Entry) /\ List # <<>>
ASSUME ListSeqsAssumption == ListSeqs \subseteq Nat
ASSUME GarbageAssumption == Garbage \subseteq 0 .. 255

-----------------------------------------------------------------------------
(* The packets *)

HeaderSize == 3      \* chnid and len; desc follows
SizeofEntry == 4     \* struct msg_listentry_st, with desc[1]
SizeofList == 5      \* struct msg_list_st, with one entry

(* Mutant of EntrySize: the byte that ends the description is left out.     *)
EntrySizeNoEnd(e) == HeaderSize + Len(e.desc)

EntrySize(e) == SizeofEntry + Len(e.desc)

(* An entry; len, of 16 bits, is in network order.                          *)
EntryBytes(e) ==
  <<e.chnid, (EntrySize(e) \div 256) % 256, EntrySize(e) % 256>> \o e.desc \o <<0>>

(* The offset in the packet behind the i-th entry.                          *)
Offset[i \in 0 .. Len(List)] ==
  IF i = 0 THEN 1 ELSE Offset[i - 1] + EntrySize(List[i])

(* The packet after i entries: each is laid where the one before it ends by *)
(* its size.                                                                *)
Laid[i \in 0 .. Len(List)] ==
  IF i = 0 THEN <<LISTCHNID>>
           ELSE SubSeq(Laid[i - 1], 1, Offset[i - 1]) \o EntryBytes(List[i])

ListPacket == SubSeq(Laid[Len(List)], 1, Offset[Len(List)])

(* A packet of a channel; seq is in the order of the host.                  *)
ChannelPacket(seq, chnid, data) ==
  [k \in 1 .. 4 |-> (seq \div 256 ^ (k - 1)) % 256] \o <<chnid>> \o data

(* What may arrive: the list once a second, packets of the channels, with   *)
(* data or without, and packets that are too short.                         *)
Packet ==
  {ListPacket, <<>>, <<LISTCHNID>>}
    \cup {ChannelPacket(seq, List[i].chnid, data) :
            seq \in ListSeqs, i \in 1 .. Len(List), data \in {<<>>, <<1>>}}

(* The buffer is at most MSG_LIST_MAX bytes long; a header that begins      *)
(* within a packet lies within it.                                          *)
ASSUME ListMaxAssumption ==
  /\ ListMax \in Nat /\ ListMax <= 65536 - 20 - 8
  /\ \A p \in Packet : Len(p) + HeaderSize <= ListMax

-----------------------------------------------------------------------------
VARIABLES
  process,     \* "running", "exited" or "killed" by a signal
  mpc,         \* where the thread of main() is
  msg_list,    \* the buffer, or <<>> once it is freed
  len,         \* the result of recvfrom
  entry,       \* pos: the offset of the entry to show
  shown        \* (history) the entries shown

listVars == <<msg_list, len, entry, shown>>

ListInit ==
  /\ process = "running" /\ mpc = "recv_list"
  /\ \E g \in Garbage : msg_list = [i \in 0 .. ListMax - 1 |-> g]
  /\ len = 0 /\ entry = 0 /\ shown = <<>>

Running == process = "running"

(* len < sizeof(struct msg_list_st) compares without sign: -1 is not short. *)
TooShort(n) == n \in 0 .. SizeofList - 1

(* What main() does with what recvfrom has left: it goes round its loop, or *)
(* takes it for the list.                                                   *)
Judge(buffer, n) ==
  IF TooShort(n) \/ buffer[0] # LISTCHNID
    THEN UNCHANGED <<mpc, entry>>
    ELSE mpc' = "show" /\ entry' = 1

RecvList(p) ==
  /\ Running /\ mpc = "recv_list"
  /\ msg_list' = [i \in 0 .. ListMax - 1 |-> IF i < Len(p) THEN p[i + 1] ELSE msg_list[i]]
  /\ len' = Len(p)
  /\ Judge(msg_list', len')
  /\ UNCHANGED <<process, shown>>

(* recvfrom fails, and nobody looks at its result.                          *)
RecvListError ==
  /\ Running /\ mpc = "recv_list"
  /\ len' = -1
  /\ Judge(msg_list, -1)
  /\ UNCHANGED <<process, msg_list, shown>>

(* The entry at offset i; a description without an end is cut at the end of *)
(* the buffer.                                                              *)
SizeAt(i) == 256 * msg_list[i + 1] + msg_list[i + 2]
DescAt(i) ==
  LET first == i + HeaderSize
      end == CHOOSE j \in first .. ListMax :
               /\ j = ListMax \/ msg_list[j] = 0
               /\ \A k \in first .. j - 1 : msg_list[k] # 0
  IN  [k \in 1 .. end - first |-> msg_list[first + k - 1]]

(* An entry is shown, and the next one is where its len says.  A len of 0   *)
(* leads back to the same entry, over and over again.                       *)
ShowEntry ==
  /\ Running /\ mpc = "show" /\ entry < len
  /\ SizeAt(entry) > 0
  /\ shown' = Append(shown, [chnid |-> msg_list[entry], desc |-> DescAt(entry)])
  /\ entry' = entry + SizeAt(entry)
  /\ UNCHANGED <<process, mpc, msg_list, len>>

ShowDone ==
  /\ Running /\ mpc = "show" /\ entry >= len
  /\ mpc' = "choose"
  /\ UNCHANGED <<process, listVars>>

(* The user enters the number of a channel, and the buffer is freed ...     *)
Choose ==
  /\ Running /\ mpc = "choose"
  /\ mpc' = "fork"
  /\ msg_list' = <<>> /\ len' = 0 /\ entry' = 0 /\ shown' = <<>>
  /\ UNCHANGED process

(* ... or a number no channel can have: exit(1).                            *)
ChooseOutside ==
  /\ Running /\ mpc = "choose"
  /\ process' = "exited"
  /\ UNCHANGED <<mpc, listVars>>

ListPhase ==
  \/ \E p \in Packet : RecvList(p)
  \/ RecvListError \/ ShowEntry \/ ShowDone \/ Choose \/ ChooseOutside

-----------------------------------------------------------------------------
ListTypeOK ==
  /\ msg_list \in [0 .. ListMax - 1 -> 0 .. 255] \cup {<<>>}
  /\ len \in -1 .. ListMax
  /\ entry \in Nat
  /\ shown \in Seq([chnid : 0 .. 255, desc : Seq(CharByte)])

(* The buffer holds the list the server has sent.                           *)
HoldsList == len = Len(ListPacket) /\ \A i \in 0 .. len - 1 : msg_list[i] = ListPacket[i + 1]

(* The client shows the channels of a list it has received one by one as    *)
(* the server has them, and when it asks for a choice it has shown all of   *)
(* them and nothing else, whatever was in the buffer before                 *)
(* (thr_list.c:29-54, client.c:183-186).                                    *)
ListDecoded ==
  mpc \in {"show", "choose"} /\ HoldsList =>
    /\ shown = SubSeq(List, 1, Len(shown))
    /\ mpc = "choose" => Len(shown) = Len(List) /\ entry = len

(* What the comments of proto.h say of the first field, and client.c:178    *)
(* reports: a packet taken for the list is one.                             *)
OnlyListTaken == mpc \in {"show", "choose"} /\ len >= 0 => HoldsList
=============================================================================
