----------------------------- MODULE Broadcast -----------------------------
(***************************************************************************)
(* The server from the scan of the media directory on (server/server.c,    *)
(* server/thr_channel.c), with the media library it reads from and a       *)
(* client that listens to one channel (client/recv_thr.c).                 *)
(*                                                                         *)
(* A channel thread numbers its packets and sends each once.  The network  *)
(* may lose any of them; here it neither reorders nor duplicates (Client   *)
(* has a network that does), and what it does not lose is seen by the      *)
(* client at once, for only the order of the packets matters.              *)
(***************************************************************************)
EXTENDS MediaLib, SeqTracker

CONSTANTS
  Chosen,      \* the channel the client listens to, or 0: there is no client
  Good         \* the files that can, sooner or later, be opened and read

ASSUME ChosenAssumption == Chosen \in ChnId \cup {0}
ASSUME GoodAssumption == Good \subseteq File

VARIABLES
  created,     \* main: channel threads created so far
  seq,         \* identifier -> sequence_number of its thread
  tracker,     \* the client's expected_seq, first_packet, packet_loss_count
  gap,         \* (history) packets the client has not accepted since the last one
  missed,      \* (history) packets it has not accepted between the first and the last
  lossy        \* (history) the network has lost a packet of the channel

clientVars == <<tracker, gap, missed, lossy>>
vars == <<mediaVars, created, seq, clientVars>>

Init ==
  /\ MediaInit
  /\ created = 0
  /\ seq = [c \in ChnId |-> 0]
  /\ tracker = NewTracker /\ gap = 0 /\ missed = 0 /\ lossy = FALSE

-----------------------------------------------------------------------------
(* main() *)

(* thr_list_create looks at the first entry of the list, which without a    *)
(* channel does not exist: realloc to 0 bytes has returned NULL.  Its       *)
(* result is not looked at.                                                 *)
CreateList ==
  /\ Running /\ mpc = "list"
  /\ IF chnlist = <<>> THEN process' = "crashed" /\ UNCHANGED mpc
                       ELSE mpc' = "create" /\ UNCHANGED process
  /\ UNCHANGED <<scanVars, channel, fds, pc, readVars, created, seq, clientVars>>

CreateChannel ==
  /\ Running /\ mpc = "create" /\ created < Len(chnlist)
  /\ created' = created + 1
  /\ pc' = [pc EXCEPT ![chnlist[created + 1]] = "start"]
  /\ UNCHANGED <<process, mpc, scanVars, channel, fds, readVars, seq, clientVars>>

(* pthread_create fails: exit(1).                                           *)
CreateFails ==
  /\ Running /\ mpc = "create"
  /\ process' = "exited"
  /\ UNCHANGED <<mpc, scanVars, channel, fds, pc, readVars, created, seq, clientVars>>

CreateDone ==
  /\ Running /\ mpc = "create" /\ created = Len(chnlist)
  /\ mpc' = "pause"
  /\ UNCHANGED <<process, scanVars, channel, fds, pc, readVars, created, seq, clientVars>>

Main == (Scan /\ UNCHANGED <<created, seq, clientVars>>)
        \/ CreateList \/ CreateChannel \/ CreateDone

-----------------------------------------------------------------------------
(* thr_channel_snder *)

(* malloc gives the thread its packet, or fails and the process exits.      *)
SenderStart(c) ==
  /\ Running /\ pc[c] = "start"
  /\ pc' = [pc EXCEPT ![c] = "fetch"]
  /\ UNCHANGED <<process, mpc, scanVars, channel, fds, readVars, created, seq, clientVars>>

SenderNoMemory(c) ==
  /\ Running /\ pc[c] = "start"
  /\ process' = "exited"
  /\ UNCHANGED <<mpc, scanVars, channel, fds, pc, readVars, created, seq, clientVars>>

(* The client accepts a packet with at least one byte of data and ignores a *)
(* shorter one (recv_thr.c:106-109).                                        *)
Accepted(c) ==
  /\ tracker' = Tracked(tracker, seq[c])
  /\ missed' = (missed + gap) % SeqMod
  /\ gap' = 0
  /\ UNCHANGED lossy

NotAccepted ==
  /\ gap' = IF tracker.first_packet THEN 0 ELSE (gap + 1) % SeqMod
  /\ UNCHANGED <<tracker, missed>>

(* Mutant of Send: a packet without data is sent without a new number.      *)
SendNumbersData(c) ==
  /\ Running /\ pc[c] = "send"
  /\ seq' = [seq EXCEPT ![c] = IF len[c] = 0 THEN @ ELSE (@ + 1) % SeqMod]
  /\ pc' = [pc EXCEPT ![c] = "fetch"]
  /\ CASE c # Chosen -> UNCHANGED clientVars
       [] c = Chosen /\ len[c] = 0 -> NotAccepted /\ lossy' \in {lossy, TRUE}
       [] c = Chosen /\ len[c] > 0 -> Accepted(c) \/ (NotAccepted /\ lossy' = TRUE)
  /\ UNCHANGED <<process, mpc, scanVars, channel, fds, readVars, created>>

(* sendto: the packet is sent, and lost or not, whatever len is.            *)
Send(c) ==
  /\ Running /\ pc[c] = "send"
  /\ seq' = [seq EXCEPT ![c] = (@ + 1) % SeqMod]
  /\ pc' = [pc EXCEPT ![c] = "fetch"]
  /\ CASE c # Chosen -> UNCHANGED clientVars
       [] c = Chosen /\ len[c] = 0 -> NotAccepted /\ lossy' \in {lossy, TRUE}
       [] c = Chosen /\ len[c] > 0 -> Accepted(c) \/ (NotAccepted /\ lossy' = TRUE)
  /\ UNCHANGED <<process, mpc, scanVars, channel, fds, readVars, created>>

(* sendto fails: the thread ends; nothing else does.                        *)
SendFails(c) ==
  /\ Running /\ pc[c] = "send"
  /\ pc' = [pc EXCEPT ![c] = "ended"]
  /\ UNCHANGED <<process, mpc, scanVars, channel, fds, readVars, created, seq, clientVars>>

Read(c) == ReadChannel(c) /\ UNCHANGED <<created, seq, clientVars>>
Sender(c) == SenderStart(c) \/ Read(c) \/ Send(c) \/ SendFails(c)

Next == Main \/ CreateFails \/ \E c \in ChnId : Sender(c) \/ SenderNoMemory(c)

SafetySpec == Init /\ [][Next]_vars

(* main() goes on and so does every channel thread; tokens come (the        *)
(* WaiterServed of Shutdown).                                               *)
ThreadFairness == WF_vars(Main) /\ \A c \in ChnId : WF_vars(Sender(c))

(* A good file that is opened, or read, again and again is at some time     *)
(* opened, or read, with success.  The others may fail for ever.            *)
AtFile(c, f) == channel[c].dir = f.dir /\ channel[c].pos = f.pos

FileFairness ==
  \A c \in ChnId, f \in Good :
    /\ SF_vars(Read(c) /\ OpenOk(c) /\ AtFile(c, f))
    /\ SF_vars(Read(c) /\ (ReadData(c) \/ ReadEnd(c)) /\ AtFile(c, f))

Spec == SafetySpec /\ ThreadFairness /\ FileFairness

-----------------------------------------------------------------------------
BroadcastTypeOK ==
  /\ MediaTypeOK
  /\ created \in 0 .. Len(chnlist)
  /\ seq \in [ChnId -> SeqNum]
  /\ tracker \in Tracker
  /\ gap \in SeqNum /\ missed \in SeqNum
  /\ lossy \in BOOLEAN

(* Every packet of the channel takes a number, and the client's count of    *)
(* losses is the number of packets it did not accept between the first and  *)
(* the last it did, modulo 2^32, also when the numbers wrap                 *)
(* (thr_channel.c:46,66, recv_thr.c:112-127).                               *)
LossExact ==
  /\ tracker.packet_loss_count = ToInt(missed)
  /\ ~ tracker.first_packet => seq[Chosen] = (tracker.expected_seq + gap) % SeqMod

HasGoodFile(d) == \E f \in Good : f.dir = d /\ FileLength(f) > 0

(* A channel with one good file that is not empty goes on sending data,     *)
(* though its other files can never be opened or read, until its thread     *)
(* ends or the process does; and that crashes only where a channel has      *)
(* fewer files than its identifier says (medialib.c:161-184,195-224,        *)
(* thr_channel.c:44-79).                                                    *)
KeepsPlaying ==
  \A c \in ChnId :
    pc[c] = "fetch" /\ HasGoodFile(channel[c].dir)
      ~> \/ pc[c] = "send" /\ len[c] > 0
         \/ pc[c] = "ended"
         \/ process = "exited"
         \/ process = "crashed" /\ \E d \in ChnId : Used(d) /\ WildPath(d)

(* A packet counts as lost (recv_thr.c:116-121) only if the network lost    *)
(* one.                                                                     *)
CountsOnlyLosses == ~ lossy => tracker.packet_loss_count = 0
=============================================================================
