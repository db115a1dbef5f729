------------------------------- MODULE Client -------------------------------
(***************************************************************************)
(* The client process: main() takes the list of channels (ChannelList),    *)
(* forks the player and starts the receiver thread (client/recv_thr.c),    *)
(* the writer thread (client/writer_thr.c) and the statistics thread       *)
(* (client/stat_thr.c); with the pipe and the player.                      *)
(*                                                                         *)
(* The receiver and the writer share the ring buffer: their steps inside   *)
(* ring_buffer_write and ring_buffer_read are the actions of RingBuffer.   *)
(* stop_flag is only ever set by the writer thread itself, so that its     *)
(* test and the call after it can be one step of the writer; for the       *)
(* receiver they are two, because recvfrom may block in between.           *)
(***************************************************************************)
EXTENDS RingBuffer, SeqTracker, ChannelList

CONSTANTS
  Seqs,             \* sequence numbers the datagrams of the channel may carry
  PipeCapacity,     \* bytes the pipe to the player holds
  MaxPackets,       \* bound on packets_received
  SigpipeIgnored    \* whether SIGPIPE was ignored when the client was started

(* A datagram's payload, at most MSG_CHANNEL_MAX-5 bytes, fits the writer's *)
(* buffer of 64 KB.                                                         *)
ASSUME ChunkAssumption == \A p \in Packets : Len(p) <= MaxRead
ASSUME SeqsAssumption == Seqs \subseteq SeqNum
ASSUME PipeAssumption == PipeCapacity \in Nat \ {0}
ASSUME MaxPacketsAssumption == MaxPackets \in Nat
ASSUME SigpipeAssumption == SigpipeIgnored \in BOOLEAN

VARIABLES
  rpc, wpc, spc,    \* where the receiver, writer and statistics threads are
  receiver_ready, stop_flag,
  packets_received, packets_written, packets_dropped,
  bytes_received, bytes_written,
  tracker,          \* expected_seq, first_packet, packet_loss_count
  first_seq,        \* (history) seq of the first packet of the channel
  pos,              \* writer_thread: bytes of buffer already in the pipe
  pipe,             \* number of bytes in the pipe
  player            \* "none" yet, "playing" or "gone"

counters == <<packets_received, packets_written, packets_dropped,
              bytes_received, bytes_written>>
flags == <<receiver_ready, stop_flag>>
seqVars == <<tracker, first_seq>>
pipeVars == <<pos, pipe, player>>
clientVars == <<ringVars, process, mpc, listVars, rpc, wpc, spc, flags, counters, seqVars, pipeVars>>

ClientInit ==
  /\ RingInit /\ ListInit
  /\ rpc = "none" /\ wpc = "none" /\ spc = "none"
  /\ receiver_ready = FALSE /\ stop_flag = FALSE
  /\ packets_received = 0 /\ packets_written = 0 /\ packets_dropped = 0
  /\ bytes_received = 0 /\ bytes_written = 0
  /\ tracker = NewTracker /\ first_seq = 0
  /\ pos = 0 /\ pipe = 0 /\ player = "none"

-----------------------------------------------------------------------------
(* main() from the fork on *)

(* fork gives the player its process; the shared data is initialised.       *)
Fork ==
  /\ Running /\ mpc = "fork"
  /\ mpc' = "create_receiver" /\ player' = "playing"
  /\ UNCHANGED <<ringVars, process, rpc, wpc, spc, flags, counters, seqVars, pos, pipe>>

ForkFails ==
  /\ Running /\ mpc = "fork"
  /\ process' = "exited"
  /\ UNCHANGED <<ringVars, mpc, rpc, wpc, spc, flags, counters, seqVars, pipeVars>>

CreateReceiver ==
  /\ Running /\ mpc = "create_receiver"
  /\ mpc' = "create_writer" /\ rpc' = "start"
  /\ UNCHANGED <<ringVars, process, wpc, spc, flags, counters, seqVars, pipeVars>>

CreateWriter ==
  /\ Running /\ mpc = "create_writer"
  /\ mpc' = "create_stats" /\ wpc' = "await"
  /\ UNCHANGED <<ringVars, process, rpc, spc, flags, counters, seqVars, pipeVars>>

CreateStats ==
  /\ Running /\ mpc = "create_stats"
  /\ mpc' = "join_receiver" /\ spc' = "test"
  /\ UNCHANGED <<ringVars, process, rpc, wpc, flags, counters, seqVars, pipeVars>>

(* pthread_create fails: exit(1) ends every thread.                         *)
CreateFails ==
  /\ Running /\ mpc \in {"create_receiver", "create_writer", "create_stats"}
  /\ process' = "exited"
  /\ UNCHANGED <<ringVars, mpc, rpc, wpc, spc, flags, counters, seqVars, pipeVars>>

JoinReceiver ==
  /\ Running /\ mpc = "join_receiver" /\ rpc = "done"
  /\ mpc' = "join_writer"
  /\ UNCHANGED <<ringVars, process, rpc, wpc, spc, flags, counters, seqVars, pipeVars>>

JoinWriter ==
  /\ Running /\ mpc = "join_writer" /\ wpc = "done"
  /\ mpc' = "join_stats"
  /\ UNCHANGED <<ringVars, process, rpc, wpc, spc, flags, counters, seqVars, pipeVars>>

(* The last join; main() closes its descriptors and returns.                *)
JoinStats ==
  /\ Running /\ mpc = "join_stats" /\ spc = "done"
  /\ process' = "exited"
  /\ UNCHANGED <<ringVars, mpc, rpc, wpc, spc, flags, counters, seqVars, pipeVars>>

(* The user presses Ctrl+C: no handler is installed.                        *)
Interrupt ==
  /\ Running
  /\ process' = "killed"
  /\ UNCHANGED <<ringVars, mpc, rpc, wpc, spc, flags, counters, seqVars, pipeVars>>

Main == Fork \/ ForkFails
        \/ CreateReceiver \/ CreateWriter \/ CreateStats \/ CreateFails
        \/ JoinReceiver \/ JoinWriter \/ JoinStats

-----------------------------------------------------------------------------
(* receiver_thread *)

ReceiverStart ==
  /\ Running /\ rpc = "start"
  /\ receiver_ready' = TRUE /\ rpc' = "test"
  /\ UNCHANGED <<ringVars, process, mpc, wpc, spc, stop_flag, counters, seqVars, pipeVars>>

(* malloc fails: the thread ends before it is ready.                        *)
ReceiverNoMemory ==
  /\ Running /\ rpc = "start"
  /\ rpc' = "done"
  /\ UNCHANGED <<ringVars, process, mpc, wpc, spc, flags, counters, seqVars, pipeVars>>

(* Mutant of ReceiverTest: the thread does not look at stop_flag.           *)
ReceiverTestForever ==
  /\ Running /\ rpc = "test"
  /\ rpc' = "recv"
  /\ UNCHANGED <<ringVars, process, mpc, wpc, spc, flags, counters, seqVars, pipeVars>>

ReceiverTest ==
  /\ Running /\ rpc = "test"
  /\ rpc' = IF stop_flag THEN "done" ELSE "recv"
  /\ UNCHANGED <<ringVars, process, mpc, wpc, spc, flags, counters, seqVars, pipeVars>>

(* recvfrom returns a datagram that is not from the server, too short or    *)
(* not of the chosen channel, or it is interrupted (EINTR).                 *)
Ignore ==
  /\ Running /\ rpc = "recv"
  /\ rpc' = "test"
  /\ UNCHANGED <<ringVars, process, mpc, wpc, spc, flags, counters, seqVars, pipeVars>>

(* recvfrom fails: the thread leaves its loop and ends; nobody is told.     *)
RecvError ==
  /\ Running /\ rpc = "recv"
  /\ rpc' = "done"
  /\ UNCHANGED <<ringVars, process, mpc, wpc, spc, flags, counters, seqVars, pipeVars>>

(* A datagram of the chosen channel with payload p: it is counted, its      *)
(* sequence number is checked, and ring_buffer_write is called.             *)
Receive(p, seq) ==
  /\ Running /\ rpc = "recv"
  /\ packets_received < MaxPackets
  /\ packets_received' = packets_received + 1
  /\ tracker' = Tracked(tracker, seq)
  /\ first_seq' = IF tracker.first_packet THEN seq ELSE first_seq
  /\ WriteCall(p)
  /\ rpc' = "ring"
  /\ UNCHANGED <<process, mpc, wpc, spc, flags, packets_written, packets_dropped,
                 bytes_received, bytes_written, pipeVars>>

(* The steps of ring_buffer_write.                                          *)
RingWrite ==
  /\ Running /\ rpc = "ring"
  /\ \/ Write /\ rpc' = "stored"
     \/ WriteTimeout /\ rpc' = "refused"
     \/ (WriteWait \/ WriteExpire \/ WriteSpurious) /\ UNCHANGED rpc
  /\ UNCHANGED <<process, mpc, wpc, spc, flags, counters, seqVars, pipeVars>>

(* bytes_received is updated after the mutex has been released.             *)
CountBytes ==
  /\ Running /\ rpc = "stored"
  /\ bytes_received' = bytes_received + Len(pending)
  /\ rpc' = "test"
  /\ UNCHANGED <<ringVars, process, mpc, wpc, spc, flags, packets_received,
                 packets_written, packets_dropped, bytes_written, seqVars, pipeVars>>

(* Mutant of CountDrop: the bytes of a dropped packet are counted too.      *)
CountDropBytes ==
  /\ Running /\ rpc = "refused"
  /\ packets_dropped' = packets_dropped + 1
  /\ bytes_received' = bytes_received + Len(pending)
  /\ rpc' = "test"
  /\ UNCHANGED <<ringVars, process, mpc, wpc, spc, flags, packets_received,
                 packets_written, bytes_written, seqVars, pipeVars>>

CountDrop ==
  /\ Running /\ rpc = "refused"
  /\ packets_dropped' = packets_dropped + 1
  /\ rpc' = "test"
  /\ UNCHANGED <<ringVars, process, mpc, wpc, spc, flags, packets_received,
                 packets_written, bytes_received, bytes_written, seqVars, pipeVars>>

(* What the network and the socket may do to a blocked recvfrom.            *)
Datagram == Ignore \/ \E p \in Packets, seq \in Seqs : Receive(p, seq)

Receiver == ReceiverStart \/ ReceiverTest \/ RingWrite \/ CountBytes \/ CountDrop

-----------------------------------------------------------------------------
(* writer_thread *)

(* The loop that waits for the receiver thread.                             *)
WriterAwait ==
  /\ Running /\ wpc = "await"
  /\ receiver_ready \/ stop_flag
  /\ wpc' = "test"
  /\ UNCHANGED <<ringVars, process, mpc, rpc, spc, flags, counters, seqVars, pipeVars>>

WriterTest ==
  /\ Running /\ wpc = "test"
  /\ IF stop_flag THEN wpc' = "done" /\ UNCHANGED ringVars
                  ELSE wpc' = "ring" /\ ReadCall
  /\ UNCHANGED <<process, mpc, rpc, spc, flags, counters, seqVars, pipeVars>>

(* The steps of ring_buffer_read.                                           *)
RingRead ==
  /\ Running /\ wpc = "ring"
  /\ \/ Read /\ wpc' = "write" /\ pos' = 0
     \/ (ReadWait \/ ReadSpurious) /\ UNCHANGED <<wpc, pos>>
  /\ UNCHANGED <<process, mpc, rpc, spc, flags, counters, seqVars, pipe, player>>

(* Mutant of PipeWrite: every write() offers the whole chunk, from pos on.  *)
PipeWriteWholeChunk ==
  /\ Running /\ wpc = "write" /\ ~ stop_flag /\ player = "playing"
  /\ pos < Len(buffer)
  /\ \E n \in 1 .. Len(buffer) :
       /\ pipe + n <= PipeCapacity
       /\ pipe' = pipe + n
       /\ pos' = pos + n
       /\ bytes_written' = bytes_written + n
  /\ UNCHANGED <<ringVars, process, mpc, rpc, wpc, spc, flags, packets_received,
                 packets_written, packets_dropped, bytes_received, seqVars, player>>

(* Mutant of PipeWrite: every write() counts as a packet.                   *)
PipeWriteCounts ==
  /\ Running /\ wpc = "write" /\ ~ stop_flag /\ player = "playing"
  /\ \E n \in 1 .. Len(buffer) - pos :
       /\ pipe + n <= PipeCapacity
       /\ pipe' = pipe + n
       /\ pos' = pos + n
       /\ bytes_written' = bytes_written + n
  /\ packets_written' = packets_written + 1
  /\ UNCHANGED <<ringVars, process, mpc, rpc, wpc, spc, flags, packets_received,
                 packets_dropped, bytes_received, seqVars, player>>

(* write() takes some of the bytes.  EINTR, and EAGAIN of a full pipe, lead *)
(* back to the same state.                                                  *)
PipeWrite ==
  /\ Running /\ wpc = "write" /\ ~ stop_flag /\ player = "playing"
  /\ \E n \in 1 .. Len(buffer) - pos :
       /\ pipe + n <= PipeCapacity
       /\ pipe' = pipe + n
       /\ pos' = pos + n
       /\ bytes_written' = bytes_written + n
  /\ UNCHANGED <<ringVars, process, mpc, rpc, wpc, spc, flags, packets_received,
                 packets_written, packets_dropped, bytes_received, seqVars, player>>

(* write() to a pipe nobody reads: SIGPIPE kills the process, unless it is  *)
(* ignored and write() fails with EPIPE.                                    *)
PipeBroken ==
  /\ Running /\ wpc = "write" /\ ~ stop_flag /\ player = "gone"
  /\ pos < Len(buffer)
  /\ IF SigpipeIgnored THEN stop_flag' = TRUE /\ UNCHANGED process
                       ELSE process' = "killed" /\ UNCHANGED stop_flag
  /\ UNCHANGED <<ringVars, mpc, rpc, wpc, spc, receiver_ready, counters, seqVars, pipeVars>>

(* The loop over the chunk ends.                                            *)
ChunkDone ==
  /\ Running /\ wpc = "write"
  /\ pos = Len(buffer) \/ stop_flag
  /\ packets_written' = packets_written + 1
  /\ wpc' = "test"
  /\ UNCHANGED <<ringVars, process, mpc, rpc, spc, flags, packets_received,
                 packets_dropped, bytes_received, bytes_written, seqVars, pipeVars>>

Writer == WriterAwait \/ WriterTest \/ RingRead \/ PipeWrite \/ PipeBroken \/ ChunkDone

-----------------------------------------------------------------------------
(* stats_thread: sleep(5) between two tests of stop_flag.  What it then     *)
(* reads and prints is left out: it reads packets_received, later           *)
(* packets_written and the other counters one by one and without a lock, so *)
(* that what it shows together need never have been true together (it may   *)
(* show more packets written than received); no thread uses what it read.   *)
StatsTest ==
  /\ Running /\ spc = "test"
  /\ spc' = IF stop_flag THEN "done" ELSE "sleep"
  /\ UNCHANGED <<ringVars, process, mpc, rpc, wpc, flags, counters, seqVars, pipeVars>>

StatsWake ==
  /\ Running /\ spc = "sleep"
  /\ spc' = "test"
  /\ UNCHANGED <<ringVars, process, mpc, rpc, wpc, flags, counters, seqVars, pipeVars>>

Stats == StatsTest \/ StatsWake

-----------------------------------------------------------------------------
(* The player: it reads its standard input until it ends.                   *)
PlayerRead ==
  /\ player = "playing" /\ pipe > 0
  /\ \E n \in 1 .. pipe : pipe' = pipe - n
  /\ UNCHANGED <<ringVars, process, mpc, rpc, wpc, spc, flags, counters, seqVars, pos, player>>

PlayerExit ==
  /\ player = "playing"
  /\ player' = "gone"
  /\ UNCHANGED <<ringVars, process, mpc, rpc, wpc, spc, flags, counters, seqVars, pos, pipe>>

-----------------------------------------------------------------------------
ThreadStep ==
  \/ Main \/ Interrupt
  \/ Receiver \/ ReceiverNoMemory \/ RecvError \/ Datagram
  \/ Writer \/ Stats
  \/ PlayerRead \/ PlayerExit

ClientNext ==
  \/ ListPhase /\ UNCHANGED <<ringVars, rpc, wpc, spc, flags, counters, seqVars, pipeVars>>
  \/ ThreadStep /\ UNCHANGED listVars

ClientSafety == ClientInit /\ [][ClientNext]_clientVars

(* The receiver thread runs.  The deadline of its timed wait is absolute    *)
(* (recv_thr.c:26-32), so no sequence of wake-ups can put it off for ever.  *)
ReceiverFairness ==
  /\ WF_clientVars(Receiver /\ ~ WriteSpurious /\ UNCHANGED listVars)
  /\ SF_clientVars(RingWrite /\ WriteExpire /\ UNCHANGED listVars)

(* The other threads run; main() has no wait but its joins.                 *)
ThreadFairness ==
  /\ ReceiverFairness
  /\ WF_clientVars(Writer /\ ~ ReadSpurious /\ UNCHANGED listVars)
  /\ WF_clientVars(Main /\ UNCHANGED listVars)
  /\ WF_clientVars(Stats /\ UNCHANGED listVars)

(* A player that is there reads its input.  No specification assumes it.    *)
PlayerFairness == WF_clientVars(PlayerRead /\ UNCHANGED listVars)

(* Datagrams keep arriving, of any kind: the server multicasts its list     *)
(* once a second (server/thr_list.c).                                       *)
NetworkFairness == WF_clientVars(Datagram /\ UNCHANGED listVars)

QuietSpec  == ClientSafety /\ ThreadFairness
ClientSpec == QuietSpec /\ NetworkFairness

-----------------------------------------------------------------------------
ClientTypeOK ==
  /\ RingTypeOK /\ ListTypeOK
  /\ process \in {"running", "exited", "killed"}
  /\ mpc \in {"recv_list", "show", "choose", "fork", "create_receiver", "create_writer",
              "create_stats", "join_receiver", "join_writer", "join_stats"}
  /\ rpc \in {"none", "start", "test", "recv", "ring", "stored", "refused", "done"}
  /\ wpc \in {"none", "await", "test", "ring", "write", "done"}
  /\ spc \in {"none", "test", "sleep", "done"}
  /\ receiver_ready \in BOOLEAN /\ stop_flag \in BOOLEAN
  /\ packets_received \in Nat /\ packets_written \in Nat /\ packets_dropped \in Nat
  /\ bytes_received \in Nat /\ bytes_written \in Nat
  /\ tracker \in Tracker /\ first_seq \in SeqNum
  /\ pos \in 0 .. Len(buffer)
  /\ pipe \in 0 .. PipeCapacity
  /\ player \in {"none", "playing", "gone"}

(* Every byte is accounted for: what bytes_received counts, with the packet *)
(* stored but not yet counted, is what bytes_written counts, what is left   *)
(* of the writer's chunk and what is in the ring - whatever was dropped,    *)
(* and wherever the writer was stopped (recv_thr.c:131-132,                 *)
(* writer_thr.c:53-74).                                                     *)
BytesConserved ==
  bytes_received + (IF rpc = "stored" THEN Len(pending) ELSE 0)
    = bytes_written + (Len(buffer) - pos) + rb.count

(* Chunks the writer has taken and packets the ring has accepted, so far.   *)
Chunks == packets_written + (IF wpc = "write" THEN 1 ELSE 0)
Accepted == packets_received - packets_dropped
              - (IF rpc \in {"ring", "refused"} THEN 1 ELSE 0)

(* The writer never takes more chunks than the receiver has stored packets: *)
(* at any moment packets_written, with the chunk in hand, is at most        *)
(* packets_received less packets_dropped and the packet that is not in the  *)
(* ring yet (recv_thr.c:113-134, writer_thr.c:53-75).  It rests on the size *)
(* of the writer's buffer, which no packet exceeds.  It says nothing of     *)
(* what stats_thread shows, which reads the counters at different moments.  *)
ChunksWithinPackets == Chunks <= Accepted

(* However packets are lost, duplicated and reordered, the loss count and   *)
(* the packets counted add up to the distance, modulo 2^32, between the     *)
(* first packet and the last (recv_thr.c:112-127).                          *)
LossTelescopes ==
  ~ tracker.first_packet =>
    (tracker.packet_loss_count + packets_received) % SeqMod
      = (tracker.expected_seq - first_seq) % SeqMod

(* A player that stalls, and with it the writer and a full ring, does not   *)
(* hold the receiver: each call of ring_buffer_write returns                *)
(* (recv_thr.c:25-44).                                                      *)
ReceiverNotHeld == rpc = "ring" ~> (rpc # "ring" \/ ~ Running)

(* While the player reads, every byte the client has accepted reaches the   *)
(* pipe (recv_thr.c:59, writer_thr.c:52-77).                                *)
AcceptedBytesPiped ==
  PlayerFairness => \A n \in 1 .. MaxPackets * Size :
    bytes_received >= n ~> (bytes_written >= n \/ player = "gone" \/ ~ Running)

(* stop_flag ends every thread and then the process, while datagrams keep   *)
(* arriving (writer_thr.c:67, recv_thr.c:83, stat_thr.c:11,                 *)
(* client.c:253-255).                                                       *)
StopEndsProcess == stop_flag ~> ~ Running
=============================================================================
