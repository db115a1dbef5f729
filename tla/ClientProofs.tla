---------------------------- MODULE ClientProofs ----------------------------
(***************************************************************************)
(* Proofs about the client, for any ring and pipe capacity, any packets    *)
(* and sequence numbers.  What the two threads do to the ring buffer in    *)
(* the client they may do in RingBuffer, so that what RingProofs shows of  *)
(* the ring holds in the client; and its counters are right: every byte    *)
(* and every chunk is accounted for, and the losses add up.                *)
(***************************************************************************)
EXTENDS Client, RingProofs, SeqProofs, ListProofs

LEMMA ClientStepIsRingStep ==
  ASSUME ClientNext
  PROVE  RingNext \/ UNCHANGED ringVars
<1>0. CASE UNCHANGED <<ringVars, rpc, wpc, spc, flags, counters, seqVars, pipeVars>>
  BY <1>0
<1>1. CASE Main \/ Interrupt
  BY <1>1 DEF Main, Fork, ForkFails, CreateReceiver, CreateWriter, CreateStats, CreateFails, JoinReceiver,
              JoinWriter, JoinStats, Interrupt
<1>2. CASE Receiver \/ ReceiverNoMemory \/ RecvError
  BY <1>2 DEF Receiver, ReceiverStart, ReceiverTest, RingWrite, CountBytes, CountDrop,
              ReceiverNoMemory, RecvError, RingNext
<1>3. CASE Datagram
  BY <1>3 DEF Datagram, Ignore, Receive, RingNext
<1>4. CASE Writer
  BY <1>4 DEF Writer, WriterAwait, WriterTest, RingRead, PipeWrite, PipeBroken, ChunkDone, RingNext
<1>5. CASE Stats \/ PlayerRead \/ PlayerExit
  BY <1>5 DEF Stats, StatsTest, StatsWake, PlayerRead, PlayerExit
<1>6. QED
  BY <1>0, <1>1, <1>2, <1>3, <1>4, <1>5 DEF ClientNext, ThreadStep

(* The client uses its ring buffer as RingBuffer describes: every step of   *)
(* any thread is a step of ring_buffer_write, of ring_buffer_read or none   *)
(* of the ring's concern, however receiver_thread and writer_thread test    *)
(* stop_flag and fail in between (recv_thr.c:65-143, writer_thr.c:40-81).   *)
LEMMA ClientUsesRing == ClientSafety => RingSafety
<1>1. ClientInit => RingInit
  BY DEF ClientInit
<1>2. [ClientNext]_clientVars => [RingNext]_ringVars
  BY ClientStepIsRingStep DEF clientVars
<1>3. QED
  BY <1>1, <1>2, PTL DEF ClientSafety, RingSafety

(* No thread of the client ever sleeps on a condition variable while what   *)
(* it waits for is there (recv_thr.c:34-45,59; writer_thr.c:15-17,34).      *)
THEOREM ClientLosesNoWakeup == ClientSafety => []NoLostWakeup
BY ClientUsesRing, RingLosesNoWakeup, PTL

(* In the client, too, the ring buffer is a bounded queue of bytes          *)
(* (recv_thr.c:22-62, writer_thr.c:11-37).                                  *)
THEOREM ClientImplementsQueue == ClientSafety => QueueSafety
BY ClientUsesRing, RingImplementsQueue, PTL

(***************************************************************************)
(* Bytes and chunks                                                        *)
(***************************************************************************)

(* Beside BytesConserved: the writer enters ring_buffer_read only with its  *)
(* chunk written, and the ring holds at most a buffer full for each packet  *)
(* accepted and not yet matched by a chunk.                                 *)
CountTypes ==
  /\ packets_received \in Nat /\ packets_written \in Nat /\ packets_dropped \in Nat
  /\ bytes_received \in Nat /\ bytes_written \in Nat
  /\ pos \in Nat /\ pos <= Len(buffer)

WriterChunk ==
  /\ wpc = "ring" => ~ stop_flag
  /\ wpc # "write" => pos = Len(buffer) \/ stop_flag

RingWithinPackets == rb.count <= MaxRead * (Accepted - Chunks)

CountInv == CountTypes /\ WriterChunk /\ BytesConserved /\ RingWithinPackets

LEMMA RingSizes ==
  ASSUME RingInv
  PROVE  /\ Len(pending) \in Nat /\ Len(pending) <= MaxRead
         /\ Len(buffer) \in Nat /\ rb.count \in Nat /\ MaxRead \in Nat \ {0}
<1>1. Len(pending) \in Nat
  BY PendingType DEF RingInv
<1>2. Len(pending) <= MaxRead
  <2>1. CASE pending \in Packets
    BY <2>1, ChunkAssumption
  <2>2. CASE pending = <<>>
    BY <2>2, MaxReadAssumption
  <2>3. QED
    BY <2>1, <2>2 DEF RingInv, RingTypeOK
<1>3. Len(buffer) \in Nat /\ rb.count \in Nat
  BY SizeAssumption DEF RingInv, RingTypeOK, Ring
<1>4. QED
  BY <1>1, <1>2, <1>3, MaxReadAssumption

(* A step that moves the threads but counts and copies nothing.             *)
LEMMA CountFrame ==
  ASSUME CountInv, UNCHANGED <<rb, buffer, counters, pos, stop_flag>>,
         rpc = "stored" \/ rpc' = "stored" => pending' = pending,
         rpc' = "stored" <=> rpc = "stored",
         rpc' \in {"ring", "refused"} <=> rpc \in {"ring", "refused"},
         wpc' = "write" <=> wpc = "write",
         wpc' = "ring" => wpc = "ring" \/ ~ stop_flag
  PROVE  CountInv'
<1>1. UNCHANGED <<packets_received, packets_written, packets_dropped, bytes_received,
                  bytes_written>>
  BY DEF counters
<1>2. CountTypes' /\ WriterChunk'
  BY <1>1 DEF CountInv, CountTypes, WriterChunk
<1>3. BytesConserved'
  BY <1>1 DEF CountInv, BytesConserved
<1>4. Accepted' = Accepted /\ Chunks' = Chunks
  BY <1>1 DEF Accepted, Chunks
<1>5. RingWithinPackets'
  BY <1>4 DEF CountInv, RingWithinPackets
<1>6. QED
  BY <1>2, <1>3, <1>5 DEF CountInv

(* The steps that touch neither the ring nor a counter.                     *)
QuietStep ==
  \/ Main \/ Interrupt \/ ReceiverStart \/ ReceiverTest \/ ReceiverNoMemory \/ RecvError \/ Ignore
  \/ WriterAwait \/ Stats \/ PlayerRead \/ PlayerExit

LEMMA QuietUnchanged ==
  ASSUME QuietStep
  PROVE  /\ UNCHANGED <<ringVars, stop_flag, counters, seqVars, pos>>
         /\ rpc' = rpc \/ (rpc \in {"none", "start", "test", "recv"}
                            /\ rpc' \in {"start", "test", "recv", "done"})
            \/ (mpc = "create_receiver" /\ rpc' = "start")
         /\ wpc' = wpc \/ (mpc = "create_writer" /\ wpc' = "await")
            \/ (wpc = "await" /\ wpc' = "test")
<1>1. CASE Main \/ Interrupt
  BY <1>1 DEF Main, Fork, ForkFails, CreateReceiver, CreateWriter, CreateStats, CreateFails,
              JoinReceiver, JoinWriter, JoinStats, Interrupt, flags, pipeVars
<1>2. CASE ReceiverStart \/ ReceiverTest \/ ReceiverNoMemory \/ RecvError \/ Ignore
  BY <1>2 DEF ReceiverStart, ReceiverTest, ReceiverNoMemory, RecvError, Ignore, flags, pipeVars
<1>3. CASE WriterAwait \/ Stats \/ PlayerRead \/ PlayerExit
  BY <1>3 DEF WriterAwait, Stats, StatsTest, StatsWake, PlayerRead, PlayerExit, flags, pipeVars
<1>4. QED
  BY <1>1, <1>2, <1>3 DEF QuietStep

LEMMA StepSplit ==
  ThreadStep <=> \/ QuietStep
                 \/ RingWrite \/ CountBytes \/ CountDrop
                 \/ \E p \in Packets, seq \in Seqs : Receive(p, seq)
                 \/ WriterTest \/ RingRead \/ PipeWrite \/ PipeBroken \/ ChunkDone
BY DEF ThreadStep, QuietStep, Receiver, Datagram, Writer

(* A thread that main() has not created yet is nowhere.                     *)
NotCreated ==
  /\ mpc = "create_receiver" => rpc = "none"
  /\ mpc \in {"create_receiver", "create_writer"} => wpc = "none"
  /\ mpc \in {"recv_list", "show", "choose", "fork"} => rpc = "none" /\ wpc = "none"

LEMMA NotCreatedStep ==
  ASSUME NotCreated, ClientNext
  PROVE  NotCreated'
<1>1. CASE ListPhase /\ UNCHANGED <<ringVars, rpc, wpc, spc, flags, counters, seqVars, pipeVars>>
  <2>1. /\ mpc \in {"recv_list", "show", "choose"}
        /\ mpc' \in {"recv_list", "show", "choose", "fork"}
        /\ UNCHANGED <<rpc, wpc>>
    BY <1>1 DEF ListPhase, RecvList, RecvListError, ShowEntry, ShowDone, Choose, ChooseOutside,
                Judge
  <2>2. QED
    BY <2>1 DEF NotCreated
<1>2. CASE Main \/ Interrupt
  BY <1>2 DEF NotCreated, Main, Fork, ForkFails, CreateReceiver, CreateWriter, CreateStats,
              CreateFails, JoinReceiver, JoinWriter, JoinStats, Interrupt
<1>3. CASE ThreadStep /\ ~ (Main \/ Interrupt)
  <2>1. /\ mpc' = mpc
        /\ rpc' = rpc \/ rpc # "none"
        /\ wpc' = wpc \/ wpc # "none"
    <3>1. CASE \/ ReceiverStart \/ ReceiverTest \/ ReceiverNoMemory \/ RecvError \/ Ignore
               \/ WriterAwait \/ Stats \/ PlayerRead \/ PlayerExit
      BY <3>1 DEF ReceiverStart, ReceiverTest, ReceiverNoMemory, RecvError, Ignore, WriterAwait,
                  Stats, StatsTest, StatsWake, PlayerRead, PlayerExit
    <3>2. CASE \/ RingWrite \/ CountBytes \/ CountDrop
               \/ \E p \in Packets, seq \in Seqs : Receive(p, seq)
      BY <3>2 DEF RingWrite, CountBytes, CountDrop, Receive
    <3>3. CASE WriterTest \/ RingRead \/ PipeWrite \/ PipeBroken \/ ChunkDone
      BY <3>3 DEF WriterTest, RingRead, PipeWrite, PipeBroken, ChunkDone
    <3>4. QED
      BY <1>3, <3>1, <3>2, <3>3, StepSplit DEF QuietStep
  <2>2. QED
    BY <2>1 DEF NotCreated
<1>4. QED
  BY <1>1, <1>2, <1>3 DEF ClientNext

LEMMA QuietCount ==
  ASSUME NotCreated, CountInv, QuietStep
  PROVE  CountInv'
<1>1. UNCHANGED <<rb, buffer, pending, counters, pos, stop_flag>>
  BY QuietUnchanged DEF ringVars
<1>2. /\ rpc' = "stored" <=> rpc = "stored"
      /\ rpc' \in {"ring", "refused"} <=> rpc \in {"ring", "refused"}
  BY QuietUnchanged DEF NotCreated
<1>3. (wpc' = "write" <=> wpc = "write") /\ (wpc' = "ring" => wpc = "ring")
  BY QuietUnchanged DEF NotCreated
<1>4. QED
  BY <1>1, <1>2, <1>3, CountFrame

(* The receiver counts a packet and calls ring_buffer_write.                *)
LEMMA ReceiveCount ==
  ASSUME RingInv, CountInv, NEW p \in Packets, NEW seq \in Seqs, Receive(p, seq)
  PROVE  CountInv'
<1>1. /\ rpc = "recv" /\ rpc' = "ring" /\ packets_received' = packets_received + 1
      /\ UNCHANGED <<rb, buffer, wpc, stop_flag, pos, packets_written, packets_dropped,
                     bytes_received, bytes_written>>
  BY DEF Receive, WriteCall, flags, pipeVars
<1>2. CountTypes' /\ WriterChunk'
  BY <1>1 DEF CountInv, CountTypes, WriterChunk
<1>3. BytesConserved'
  BY <1>1 DEF CountInv, BytesConserved
<1>4. Accepted' = Accepted /\ Chunks' = Chunks
  BY <1>1 DEF CountInv, CountTypes, Accepted, Chunks
<1>5. RingWithinPackets'
  BY <1>1, <1>4 DEF CountInv, RingWithinPackets
<1>6. QED
  BY <1>2, <1>3, <1>5 DEF CountInv

LEMMA DistNat ==
  ASSUME NEW m \in Nat, NEW d \in Int
  PROVE  m * (d + 1) = m * d + m /\ m * (d - 1) = m * d - m /\ m * d \in Int
OBVIOUS

LEMMA CountersInt ==
  ASSUME CountTypes
  PROVE  Accepted \in Int /\ Chunks \in Int
BY DEF CountTypes, Accepted, Chunks

LEMMA RingWriteCount ==
  ASSUME RingInv, CountInv, RingWrite
  PROVE  CountInv'
<1>1. /\ rpc = "ring"
      /\ UNCHANGED <<wpc, stop_flag, pos, packets_received, packets_written, packets_dropped,
                     bytes_received, bytes_written>>
  BY DEF RingWrite, flags, pipeVars, counters
<1>2. CASE Write /\ rpc' = "stored"
  <2>1. UNCHANGED <<pending, buffer>>
    BY <1>2 DEF Write
  <2>2. rb'.count = rb.count + Len(pending)
    <3>1. rb' \in Ring /\ Contents(rb') = Contents(rb) \o pending /\ rb \in Ring
      BY <1>2, WriteStep DEF RingInv, RingTypeOK
    <3>2. Len(Contents(rb')) = rb'.count /\ Len(Contents(rb)) = rb.count
      BY <3>1, ContentsType
    <3>3. Contents(rb) \in Seq(Byte) /\ pending \in Seq(Byte)
      BY <3>1, ContentsType, PendingType DEF RingInv
    <3>4. QED
      BY <3>1, <3>2, <3>3, ConcatProperties
  <2>3. CountTypes' /\ WriterChunk'
    BY <1>1, <2>1 DEF CountInv, CountTypes, WriterChunk
  <2>4. BytesConserved'
    BY <1>1, <1>2, <2>1, <2>2, RingSizes DEF CountInv, CountTypes, BytesConserved
  <2>5. Accepted' - Chunks' = (Accepted - Chunks) + 1
    BY <1>1, <1>2 DEF CountInv, CountTypes, Accepted, Chunks
  <2>6. RingWithinPackets'
    <3>1. Accepted - Chunks \in Int
      BY CountersInt DEF CountInv
    <3>2. MaxRead * (Accepted' - Chunks') = MaxRead * (Accepted - Chunks) + MaxRead
      BY <2>5, <3>1, RingSizes, DistNat
    <3>3. MaxRead * (Accepted - Chunks) \in Int
      BY <3>1, RingSizes, DistNat
    <3>4. QED
      BY <2>2, <3>2, <3>3, RingSizes DEF CountInv, RingWithinPackets
  <2>7. QED
    BY <2>3, <2>4, <2>6 DEF CountInv
<1>3. CASE \/ WriteTimeout /\ rpc' = "refused"
           \/ (WriteWait \/ WriteExpire \/ WriteSpurious) /\ rpc' = rpc
  <2>1. UNCHANGED <<rb, buffer, pending>> /\ rpc' \in {"ring", "refused"}
    BY <1>1, <1>3 DEF WriteTimeout, WriteWait, WriteExpire, WriteSpurious
  <2>2. QED
    BY <1>1, <2>1, CountFrame DEF counters
<1>4. QED
  BY <1>2, <1>3 DEF RingWrite

LEMMA CountBytesCount ==
  ASSUME RingInv, CountInv, CountBytes \/ CountDrop
  PROVE  CountInv'
<1>1. /\ UNCHANGED <<rb, pending, buffer, wpc, stop_flag, pos, packets_received,
                     packets_written, bytes_written>>
      /\ rpc' = "test"
  BY DEF CountBytes, CountDrop, ringVars, flags, pipeVars
<1>2. \/ /\ rpc = "stored" /\ bytes_received' = bytes_received + Len(pending)
         /\ packets_dropped' = packets_dropped
      \/ /\ rpc = "refused" /\ bytes_received' = bytes_received
         /\ packets_dropped' = packets_dropped + 1
  BY DEF CountBytes, CountDrop
<1>3. CountTypes' /\ WriterChunk'
  BY <1>1, <1>2, RingSizes DEF CountInv, CountTypes, WriterChunk
<1>4. BytesConserved'
  BY <1>1, <1>2, RingSizes DEF CountInv, CountTypes, BytesConserved
<1>5. Accepted' = Accepted /\ Chunks' = Chunks
  BY <1>1, <1>2 DEF CountInv, CountTypes, Accepted, Chunks
<1>6. RingWithinPackets'
  BY <1>1, <1>5 DEF CountInv, RingWithinPackets
<1>7. QED
  BY <1>3, <1>4, <1>6 DEF CountInv

(* The writer takes a chunk.                                                *)
LEMMA ReadCount ==
  ASSUME RingInv, CountInv, RingRead
  PROVE  CountInv'
<1>1. /\ wpc = "ring"
      /\ UNCHANGED <<rpc, stop_flag, packets_received, packets_written, packets_dropped,
                     bytes_received, bytes_written, counters>>
  BY DEF RingRead, flags, counters
<1>2. CASE Read /\ wpc' = "write" /\ pos' = 0
  <2> DEFINE n == ReadLen(rb, MaxRead)
  <2>1. pending' = pending /\ pos = Len(buffer)
    BY <1>1, <1>2 DEF Read, CountInv, WriterChunk
  <2>2. /\ n \in 1 .. rb.count /\ Len(buffer') = n /\ rb'.count = rb.count - n
    <3>1. /\ n \in 1 .. rb.count /\ rb' \in Ring /\ rb \in Ring
          /\ buffer' = SubSeq(Contents(rb), 1, n)
          /\ Contents(rb') = SubSeq(Contents(rb), n + 1, rb.count)
      BY <1>2, ReadStep DEF RingInv, RingTypeOK
    <3>2. /\ Len(Contents(rb')) = rb'.count /\ Len(Contents(rb)) = rb.count
          /\ Contents(rb) \in Seq(Byte)
      BY <3>1, ContentsType
    <3> HIDE DEF n
    <3>3. Len(SubSeq(Contents(rb), 1, n)) = n
      BY <3>1, <3>2, RingSizes
    <3>4. Len(SubSeq(Contents(rb), n + 1, rb.count)) = rb.count - n
      BY <3>1, <3>2, RingSizes
    <3>5. QED
      BY <3>1, <3>2, <3>3, <3>4
  <2>3. n = IF rb.count < MaxRead THEN rb.count ELSE MaxRead
    BY DEF ReadLen
  <2> HIDE DEF n
  <2>4. CountTypes' /\ WriterChunk'
    BY <1>1, <1>2, <2>2 DEF CountInv, CountTypes, WriterChunk
  <2>5. BytesConserved'
    BY <1>1, <1>2, <2>1, <2>2, RingSizes DEF CountInv, CountTypes, BytesConserved
  <2> DEFINE d == Accepted - Chunks
  <2>6. d \in Int /\ d' = d - 1
    BY <1>1, <1>2 DEF CountInv, CountTypes, Accepted, Chunks
  <2>7. rb.count <= MaxRead * d
    BY DEF CountInv, RingWithinPackets
  <2> HIDE DEF d
  <2>8. rb'.count <= MaxRead * d'
    <3>1. MaxRead * d' = MaxRead * d - MaxRead /\ MaxRead * d \in Int
      BY <2>6, RingSizes, DistNat
    <3>2. CASE rb.count < MaxRead
      <4>1. rb'.count = 0 /\ rb.count > 0
        BY <2>2, <2>3, <3>2, RingSizes
      <4>2. d >= 1
        <5>1. ASSUME d <= 0 PROVE FALSE
          <6>1. MaxRead * d <= 0
            BY <2>6, <5>1, RingSizes
          <6>2. QED
            BY <2>7, <3>1, <4>1, <6>1, RingSizes
        <5>2. QED
          BY <2>6, <5>1
      <4>3. MaxRead * (d - 1) >= 0
        BY <2>6, <4>2, RingSizes
      <4>4. QED
        BY <2>6, <4>1, <4>3
    <3>3. CASE rb.count >= MaxRead
      BY <2>2, <2>3, <2>7, <3>1, <3>3, RingSizes
    <3>4. QED
      BY <3>2, <3>3, RingSizes
  <2>9. RingWithinPackets'
    BY <2>8 DEF RingWithinPackets, d
  <2>10. QED
    BY <2>4, <2>5, <2>9 DEF CountInv
<1>3. CASE (ReadWait \/ ReadSpurious) /\ UNCHANGED <<wpc, pos>>
  <2>1. UNCHANGED <<rb, buffer, pending>>
    BY <1>3 DEF ReadWait, ReadSpurious
  <2>2. QED
    BY <1>1, <1>3, <2>1, CountFrame
<1>4. QED
  BY <1>2, <1>3 DEF RingRead

LEMMA WriterCount ==
  ASSUME RingInv, CountInv, WriterTest \/ PipeWrite \/ PipeBroken \/ ChunkDone
  PROVE  CountInv'
<1>1. CASE WriterTest
  <2>1. /\ UNCHANGED <<rb, buffer, pending, rpc, counters, pos, stop_flag>>
        /\ wpc = "test" /\ (wpc' = "done" \/ (wpc' = "ring" /\ ~ stop_flag))
    BY <1>1 DEF WriterTest, ReadCall, ringVars, flags, pipeVars
  <2>2. QED
    BY <2>1, CountFrame
<1>2. CASE PipeWrite
  <2>1. PICK n \in 1 .. Len(buffer) - pos : pos' = pos + n /\ bytes_written' = bytes_written + n
    BY <1>2 DEF PipeWrite
  <2>2. /\ UNCHANGED <<rb, buffer, pending, rpc, wpc, stop_flag, packets_received,
                       packets_written, packets_dropped, bytes_received>>
        /\ wpc = "write"
    BY <1>2 DEF PipeWrite, ringVars, flags
  <2>3. n \in Nat /\ pos + n <= Len(buffer)
    BY <2>1, RingSizes DEF CountInv, CountTypes
  <2>4. CountTypes' /\ WriterChunk'
    BY <2>1, <2>2, <2>3 DEF CountInv, CountTypes, WriterChunk
  <2>5. BytesConserved'
    BY <2>1, <2>2, <2>3, RingSizes DEF CountInv, CountTypes, BytesConserved
  <2>6. RingWithinPackets'
    BY <2>2 DEF CountInv, RingWithinPackets, Accepted, Chunks
  <2>7. QED
    BY <2>4, <2>5, <2>6 DEF CountInv
<1>3. CASE PipeBroken
  <2>1. /\ UNCHANGED <<rb, buffer, pending, rpc, wpc, pos, packets_received, packets_written,
                       packets_dropped, bytes_received, bytes_written>>
        /\ wpc = "write"
    BY <1>3 DEF PipeBroken, ringVars, counters, pipeVars
  <2>2. QED
    BY <2>1 DEF CountInv, CountTypes, WriterChunk, BytesConserved, RingWithinPackets, Accepted,
                Chunks
<1>4. CASE ChunkDone
  <2>1. /\ UNCHANGED <<rb, buffer, pending, rpc, pos, stop_flag, packets_received,
                       packets_dropped, bytes_received, bytes_written>>
        /\ wpc = "write" /\ wpc' = "test" /\ packets_written' = packets_written + 1
        /\ pos = Len(buffer) \/ stop_flag
    BY <1>4 DEF ChunkDone, ringVars, flags, pipeVars
  <2>2. CountTypes' /\ WriterChunk'
    BY <2>1 DEF CountInv, CountTypes, WriterChunk
  <2>3. BytesConserved'
    BY <2>1 DEF CountInv, BytesConserved
  <2>4. Accepted' = Accepted /\ Chunks' = Chunks
    BY <2>1 DEF CountInv, CountTypes, Accepted, Chunks
  <2>5. RingWithinPackets'
    BY <2>1, <2>4 DEF CountInv, RingWithinPackets
  <2>6. QED
    BY <2>2, <2>3, <2>5 DEF CountInv
<1>5. QED
  BY <1>1, <1>2, <1>3, <1>4

LEMMA CountNext ==
  RingInv /\ NotCreated /\ CountInv /\ [ClientNext]_clientVars => CountInv' /\ NotCreated'
<1> SUFFICES ASSUME RingInv, NotCreated, CountInv, [ClientNext]_clientVars
             PROVE  CountInv' /\ NotCreated'
  OBVIOUS
<1>1. CASE UNCHANGED clientVars
  <2>1. UNCHANGED <<rb, buffer, pending, counters, pos, stop_flag, rpc, wpc, mpc>>
    BY <1>1 DEF clientVars, ringVars, flags, pipeVars
  <2>2. CountInv'
    BY <2>1, CountFrame
  <2>3. QED
    BY <2>1, <2>2 DEF NotCreated
<1>2. CASE ListPhase /\ UNCHANGED <<ringVars, rpc, wpc, spc, flags, counters, seqVars, pipeVars>>
  <2>1. UNCHANGED <<rb, buffer, pending, counters, pos, stop_flag, rpc, wpc>>
    BY <1>2 DEF ringVars, flags, pipeVars
  <2>2. ClientNext
    BY <1>2 DEF ClientNext
  <2>3. QED
    BY <2>1, <2>2, CountFrame, NotCreatedStep
<1>3. CASE ThreadStep /\ UNCHANGED listVars
  <2>1. CountInv'
    BY <1>3, StepSplit, QuietCount, ReceiveCount, RingWriteCount, CountBytesCount, ReadCount,
       WriterCount
  <2>2. ClientNext
    BY <1>3 DEF ClientNext
  <2>3. QED
    BY <2>1, <2>2, NotCreatedStep
<1>4. QED
  BY <1>1, <1>2, <1>3 DEF ClientNext

LEMMA CountInit == ClientInit => CountInv /\ NotCreated
<1> SUFFICES ASSUME ClientInit
             PROVE  CountInv /\ NotCreated
  OBVIOUS
<1>1. /\ rb.count = 0 /\ buffer = <<>> /\ pos = 0 /\ rpc = "none" /\ wpc = "none"
      /\ packets_received = 0 /\ packets_written = 0 /\ packets_dropped = 0
      /\ bytes_received = 0 /\ bytes_written = 0 /\ mpc = "recv_list"
  BY DEF ClientInit, RingInit, ListInit, EmptyRing
<1>2. Len(buffer) = 0
  BY <1>1, EmptySeq
<1>3. CountTypes /\ WriterChunk /\ BytesConserved
  BY <1>1, <1>2 DEF CountTypes, WriterChunk, BytesConserved
<1>4. RingWithinPackets
  <2>1. Accepted - Chunks = 0
    <3>1. Accepted = 0
      <4>1. rpc \notin {"ring", "refused"}
        BY <1>1
      <4>2. packets_received = 0 /\ packets_dropped = 0
        BY <1>1
      <4>3. Accepted = 0 - 0 - 0
        BY <4>1, <4>2, Zenon DEF Accepted
      <4>4. 0 - 0 - 0 = 0
        OBVIOUS
      <4>5. QED
        BY <4>3, <4>4
    <3>2. Chunks = 0
      <4>1. wpc # "write" /\ packets_written = 0
        BY <1>1
      <4>2. QED
        BY <4>1 DEF Chunks
    <3>3. QED
      BY <3>1, <3>2
  <2>2. MaxRead * 0 = 0
    BY MaxReadAssumption
  <2>3. QED
    BY <1>1, <2>1, <2>2 DEF RingWithinPackets
<1>5. QED
  BY <1>1, <1>3, <1>4 DEF CountInv, NotCreated

LEMMA CountInvariance == ClientSafety => []CountInv /\ []RingInv
<1>1. ClientSafety => []RingInv
  BY ClientUsesRing, RingInvariance, PTL
<1>2. QED
  BY <1>1, CountInit, CountNext, PTL DEF ClientSafety

(* No byte is lost or invented between recvfrom and the pipe: what          *)
(* bytes_received counts is in bytes_written, in the writer's chunk or in   *)
(* the ring, however writes are cut short, packets dropped and the threads  *)
(* interleaved (recv_thr.c:131-132, writer_thr.c:53-74).                    *)
THEOREM BytesAreConserved == ClientSafety => []BytesConserved
<1>1. CountInv => BytesConserved
  BY DEF CountInv
<1>2. QED
  BY <1>1, CountInvariance, PTL

(* The writer never counts more chunks than the receiver has kept packets,  *)
(* because no packet exceeds the writer's buffer (stat_thr.c:14-26).        *)
THEOREM ChunksStayWithinPackets == ClientSafety => []ChunksWithinPackets
<1>1. RingInv /\ CountInv => ChunksWithinPackets
  <2> SUFFICES ASSUME RingInv, CountInv
               PROVE  ChunksWithinPackets
    OBVIOUS
  <2> DEFINE d == Accepted - Chunks
  <2>1. d \in Int /\ Accepted \in Int /\ Chunks \in Int
    BY CountersInt DEF CountInv
  <2>2. rb.count <= MaxRead * d
    BY DEF CountInv, RingWithinPackets
  <2>3. d < 0 => MaxRead * d < 0
    <3> HIDE DEF d
    <3>1. ASSUME d < 0 PROVE MaxRead * d < 0
      <4>1. MaxRead * (-d) > 0
        BY <2>1, <3>1, RingSizes
      <4>2. QED
        BY <2>1, <4>1, RingSizes
    <3>2. QED
      BY <3>1
  <2>4. MaxRead * d \in Int
    BY <2>1, RingSizes, DistNat
  <2> HIDE DEF d
  <2>5. d >= 0
    BY <2>1, <2>2, <2>3, <2>4, RingSizes
  <2>6. QED
    BY <2>1, <2>5 DEF ChunksWithinPackets, d
<1>2. QED
  BY <1>1, CountInvariance, PTL

(***************************************************************************)
(* Losses                                                                  *)
(***************************************************************************)
TelescopeInv ==
  /\ tracker \in Tracker /\ first_seq \in SeqNum /\ packets_received \in Nat
  /\ tracker.first_packet => packets_received = 0 /\ tracker.packet_loss_count = 0
  /\ LossTelescopes

LEMMA SeqNumInt ==
  /\ SeqMod \in Nat /\ SeqMod > 0 /\ SeqNum \subseteq Int /\ SeqInt \subseteq Int
  /\ 0 \in SeqNum /\ 0 \in SeqInt
<1> DEFINE h == SeqMod \div 2
<1>1. SeqMod \in Nat /\ SeqMod > 0 /\ h \in Nat /\ SeqMod = 2 * h
  BY SeqModAssumption
<1>2. SeqInt = -h .. h - 1
  BY DEF SeqInt
<1> HIDE DEF h
<1>3. QED
  BY <1>1, <1>2 DEF SeqNum

(* One packet: what the loss count and the packets counted gain is what     *)
(* expected_seq does.                                                       *)
LEMMA TelescopeStep ==
  ASSUME NEW l \in Int, NEW n \in Int, NEW e \in Int, NEW f \in Int, NEW s \in Int,
         (l + n) % SeqMod = (e - f) % SeqMod
  PROVE  (ToInt((l + ((s - e) % SeqMod)) % SeqMod) + (n + 1)) % SeqMod
           = (((s + 1) % SeqMod) - f) % SeqMod
<1> DEFINE g == (s - e) % SeqMod
           m == (l + g) % SeqMod
           t == ToInt(m)
           q == (s + 1) % SeqMod
<1>1. s - e \in Int /\ s + 1 \in Int /\ l + n \in Int /\ e - f \in Int /\ -f \in Int
  OBVIOUS
<1>2. g \in SeqNum /\ g \in Int /\ Cong(g, s - e)
  BY <1>1, ModDivision, ModCong, SeqNumInt
<1>3. q \in Int /\ Cong(q, s + 1)
  BY <1>1, ModDivision, ModCong, SeqNumInt
<1> HIDE DEF g, q
<1>4. m \in SeqNum /\ m \in Int /\ Cong(m, l + g)
  <2>1. l + g \in Int
    BY <1>2
  <2>2. QED
    BY <2>1, ModDivision, ModCong, SeqNumInt
<1> HIDE DEF m
<1>5. t \in Int /\ Cong(t, m)
  BY <1>4, ToIntFacts
<1> HIDE DEF t
<1>6. PICK a \in Int : g = (s - e) + a * SeqMod
  BY <1>2 DEF Cong
<1>7. PICK b \in Int : q = (s + 1) + b * SeqMod
  BY <1>3 DEF Cong
<1>8. PICK c \in Int : m = (l + g) + c * SeqMod
  BY <1>4 DEF Cong
<1>9. PICK d \in Int : t = m + d * SeqMod
  BY <1>5 DEF Cong
<1>10. PICK k \in Int : l + n = (e - f) + k * SeqMod
  BY <1>1, CongOfMod DEF Cong
<1>11. t + (n + 1) = (q - f) + (a - b + c + d + k) * SeqMod
  <2>1. t = l + (s - e) + a * SeqMod + c * SeqMod + d * SeqMod
    BY <1>2, <1>6, <1>8, <1>9, SeqNumInt
  <2>2. q = (s + 1) + b * SeqMod
    BY <1>7
  <2>3. (a - b + c + d + k) * SeqMod
          = a * SeqMod - b * SeqMod + c * SeqMod + d * SeqMod + k * SeqMod
    BY SeqNumInt
  <2>4. n = (e - f) + k * SeqMod - l
    BY <1>10, SeqNumInt
  <2>5. /\ a * SeqMod \in Int /\ b * SeqMod \in Int /\ c * SeqMod \in Int
        /\ d * SeqMod \in Int /\ k * SeqMod \in Int
    BY SeqNumInt
  <2>6. QED
    BY <2>1, <2>2, <2>3, <2>4, <2>5
<1>12. t + (n + 1) \in Int /\ q - f \in Int /\ Cong(t + (n + 1), q - f)
  BY <1>3, <1>5, <1>11 DEF Cong
<1>13. (t + (n + 1)) % SeqMod = (q - f) % SeqMod
  BY <1>12, CongMod
<1>14. QED
  BY <1>13 DEF g, m, t, q

LEMMA ReceiveTelescope ==
  ASSUME TelescopeInv, NEW p \in Packets, NEW seq \in Seqs, Receive(p, seq)
  PROVE  TelescopeInv'
<1>1. /\ packets_received' = packets_received + 1
      /\ tracker' = Tracked(tracker, seq)
      /\ first_seq' = IF tracker.first_packet THEN seq ELSE first_seq
  BY DEF Receive
<1>2. /\ tracker \in Tracker /\ first_seq \in SeqNum /\ packets_received \in Nat
      /\ seq \in SeqNum
  BY SeqsAssumption DEF TelescopeInv
<1>3. /\ tracker' \in Tracker /\ tracker'.first_packet = FALSE
      /\ tracker'.expected_seq = (seq + 1) % SeqMod
      /\ tracker'.packet_loss_count =
           IF tracker.first_packet THEN tracker.packet_loss_count
           ELSE ToInt((tracker.packet_loss_count + Gap(tracker, seq)) % SeqMod)
  BY <1>1, <1>2, TrackedType
<1>4. /\ tracker.packet_loss_count \in Int /\ tracker.expected_seq \in Int
      /\ seq \in Int /\ first_seq \in Int /\ packets_received \in Int
  <2>1. /\ tracker.packet_loss_count \in SeqInt
        /\ tracker.expected_seq \in SeqNum
    BY <1>2 DEF Tracker
  <2>2. tracker.packet_loss_count \in Int /\ tracker.expected_seq \in Int
    BY <2>1, SeqNumInt
  <2>3. seq \in Int /\ first_seq \in Int
    BY <1>2, SeqNumInt
  <2>4. packets_received \in Int
    BY <1>2
  <2>5. QED
    BY <2>2, <2>3, <2>4
<1>5. (tracker'.packet_loss_count + packets_received') % SeqMod
        = (tracker'.expected_seq - first_seq') % SeqMod
  <2>1. CASE tracker.first_packet
    <3>1. tracker'.packet_loss_count = 0 /\ packets_received' = 1 /\ first_seq' = seq
      BY <1>1, <1>3, <2>1 DEF TelescopeInv
    <3>2. Cong((seq + 1) % SeqMod, seq + 1) /\ (seq + 1) % SeqMod \in Int
      BY <1>4, ModCong, ModDivision, SeqNumInt
    <3>3. PICK k \in Int : (seq + 1) % SeqMod = (seq + 1) + k * SeqMod
      BY <3>2 DEF Cong
    <3>4. ((seq + 1) % SeqMod) - seq = 1 + k * SeqMod /\ ((seq + 1) % SeqMod) - seq \in Int
      BY <1>4, <3>2, <3>3, SeqNumInt
    <3>5. (((seq + 1) % SeqMod) - seq) % SeqMod = 1 % SeqMod
      BY <3>4, CongMod DEF Cong
    <3>6. QED
      BY <1>3, <3>1, <3>5
  <2>2. CASE ~ tracker.first_packet
    <3>1. (tracker.packet_loss_count + packets_received) % SeqMod
            = (tracker.expected_seq - first_seq) % SeqMod
      BY <2>2 DEF TelescopeInv, LossTelescopes
    <3>2. /\ tracker'.packet_loss_count =
                ToInt((tracker.packet_loss_count + ((seq - tracker.expected_seq) % SeqMod)) % SeqMod)
          /\ first_seq' = first_seq
      BY <1>1, <1>3, <2>2 DEF Gap
    <3>3. QED
      BY <1>1, <1>3, <1>4, <3>1, <3>2, TelescopeStep
  <2>3. QED
    BY <2>1, <2>2
<1>6. first_seq' \in SeqNum /\ packets_received' \in Nat
  BY <1>1, <1>2
<1>7. QED
  BY <1>3, <1>5, <1>6 DEF TelescopeInv, LossTelescopes

LEMMA TelescopeInvariance == ClientSafety => []TelescopeInv
<1>1. ClientInit => TelescopeInv
  <2> SUFFICES ASSUME ClientInit
               PROVE  TelescopeInv
    OBVIOUS
  <2>1. /\ tracker = [first_packet |-> TRUE, expected_seq |-> 0, packet_loss_count |-> 0]
        /\ first_seq = 0 /\ packets_received = 0
    BY DEF ClientInit, NewTracker
  <2>2. tracker \in Tracker
    BY <2>1, SeqNumInt DEF Tracker
  <2>3. QED
    BY <2>1, <2>2, SeqNumInt DEF TelescopeInv, LossTelescopes
<1>2. TelescopeInv /\ [ClientNext]_clientVars => TelescopeInv'
  <2> SUFFICES ASSUME TelescopeInv, [ClientNext]_clientVars
               PROVE  TelescopeInv'
    OBVIOUS
  <2>1. ASSUME UNCHANGED <<tracker, first_seq, packets_received>>
        PROVE  TelescopeInv'
    BY <2>1 DEF TelescopeInv, LossTelescopes
  <2>2. CASE UNCHANGED clientVars
    BY <2>1, <2>2 DEF clientVars, counters, seqVars
  <2>3. CASE UNCHANGED <<ringVars, rpc, wpc, spc, flags, counters, seqVars, pipeVars>>
    BY <2>1, <2>3 DEF counters, seqVars
  <2>4. CASE QuietStep
    BY <2>1, <2>4, QuietUnchanged DEF counters, seqVars
  <2>5. CASE RingWrite \/ CountBytes \/ CountDrop
    BY <2>1, <2>5 DEF RingWrite, CountBytes, CountDrop, counters, seqVars
  <2>6. CASE WriterTest \/ RingRead \/ PipeWrite \/ PipeBroken \/ ChunkDone
    BY <2>1, <2>6 DEF WriterTest, RingRead, PipeWrite, PipeBroken, ChunkDone, counters, seqVars
  <2>7. QED
    BY <2>2, <2>3, <2>4, <2>5, <2>6, StepSplit, ReceiveTelescope DEF ClientNext
<1>3. QED
  BY <1>1, <1>2, PTL DEF ClientSafety

(* However packets are lost, duplicated and reordered on their way, and     *)
(* however often the numbers wrap, the losses and the packets counted add   *)
(* up to the distance between the first packet and the last                 *)
(* (recv_thr.c:112-127).                                                    *)
THEOREM LossesTelescope == ClientSafety => []LossTelescopes
<1>1. TelescopeInv => LossTelescopes
  BY DEF TelescopeInv
<1>2. QED
  BY <1>1, TelescopeInvariance, PTL

(***************************************************************************)
(* The list, and types                                                     *)
(***************************************************************************)

(* The threads leave the list's variables alone, and main() is past the     *)
(* choice when there are any.                                               *)
LEMMA ThreadsLeaveList ==
  ASSUME ThreadStep
  PROVE  mpc' = mpc \/ mpc' \notin {"recv_list", "show", "choose"}
<1>1. CASE Main \/ Interrupt
  BY <1>1 DEF Main, Fork, ForkFails, CreateReceiver, CreateWriter, CreateStats, CreateFails,
              JoinReceiver, JoinWriter, JoinStats, Interrupt
<1>2. CASE Receiver \/ ReceiverNoMemory \/ RecvError \/ Datagram
  BY <1>2 DEF Receiver, ReceiverStart, ReceiverTest, RingWrite, CountBytes, CountDrop,
              ReceiverNoMemory, RecvError, Datagram, Ignore, Receive
<1>3. CASE Writer
  BY <1>3 DEF Writer, WriterAwait, WriterTest, RingRead, PipeWrite, PipeBroken, ChunkDone
<1>4. CASE Stats \/ PlayerRead \/ PlayerExit
  BY <1>4 DEF Stats, StatsTest, StatsWake, PlayerRead, PlayerExit
<1>5. QED
  BY <1>1, <1>2, <1>3, <1>4 DEF ThreadStep

LEMMA ListInvariance == ClientSafety => []ListInv
<1>1. ClientInit => ListInv
  BY ListInvInit DEF ClientInit
<1>2. ListInv /\ [ClientNext]_clientVars => ListInv'
  <2> SUFFICES ASSUME ListInv, [ClientNext]_clientVars
               PROVE  ListInv'
    OBVIOUS
  <2>1. CASE UNCHANGED clientVars
    <3>1. UNCHANGED listVars /\ mpc' = mpc
      BY <2>1 DEF clientVars
    <3>2. QED
      BY <3>1, ListFrame
  <2>2. CASE ListPhase
    BY <2>2, ListInvStep
  <2>3. CASE ThreadStep /\ UNCHANGED listVars
    BY <2>3, ThreadsLeaveList, ListFrame
  <2>4. QED
    BY <2>1, <2>2, <2>3 DEF ClientNext
<1>3. QED
  BY <1>1, <1>2, PTL DEF ClientSafety

(* Whatever list the server has, of any number of channels and with any     *)
(* descriptions that fit into a datagram, and whatever was in the buffer    *)
(* before: a client that has received it shows these channels, in this      *)
(* order, and when it asks for a choice, all of them and nothing behind     *)
(* them (thr_list.c:29-54, client.c:183-186).                               *)
THEOREM ListIsDecoded == ClientSafety => []ListDecoded
BY ListInvDecoded, ListInvariance, PTL

(* The client takes the list for a list, whatever was in the buffer before, *)
(* and has all of it (client.c:161-177): what ListDecoded speaks of happens *)
(* whenever the list arrives before the choice.                             *)
ListTaken == RecvList(ListPacket) => mpc' = "show" /\ HoldsList'

THEOREM ListIsTaken == ClientSafety => [][ListTaken]_clientVars
<1>1. ListInv /\ [ClientNext]_clientVars => [ListTaken]_clientVars
  <2> SUFFICES ASSUME ListInv, RecvList(ListPacket)
               PROVE  mpc' = "show" /\ HoldsList'
    BY DEF ListTaken
  <2>1. /\ ListPacket[1] = LISTCHNID /\ Len(ListPacket) \in Nat
        /\ Len(ListPacket) >= SizeofList /\ Len(ListPacket) <= ListMax /\ ListMax \in Nat
    BY ListPacketLong, PacketFacts DEF Packet, HeaderSize
  <2>2. /\ msg_list' = [i \in 0 .. ListMax - 1 |->
                         IF i < Len(ListPacket) THEN ListPacket[i + 1] ELSE msg_list[i]]
        /\ len' = Len(ListPacket)
        /\ Judge(msg_list', len')
    BY DEF RecvList
  <2>3. \A i \in 0 .. len' - 1 : msg_list'[i] = ListPacket[i + 1]
    BY <2>1, <2>2
  <2>4. msg_list'[0] = LISTCHNID /\ ~ TooShort(len')
    BY <2>1, <2>2, <2>3 DEF SizeofList, TooShort
  <2>5. mpc' = "show"
    BY <2>2, <2>4 DEF Judge
  <2>6. QED
    BY <2>2, <2>3, <2>5 DEF HoldsList
<1>2. QED
  BY <1>1, ListInvariance, PTL DEF ClientSafety

(* The walk through a list of the server neither stays at an entry nor      *)
(* steps beyond the packet (client.c:184-187): with what a channel's packet *)
(* or an error has left in the buffer it may do either.                     *)
WalkGoesOn ==
  mpc = "show" /\ HoldsList /\ entry < len =>
    SizeAt(entry) > 0 /\ entry + SizeAt(entry) <= len

THEOREM ListWalkGoesOn == ClientSafety => []WalkGoesOn
<1>1. ListInv => WalkGoesOn
  BY ListInvWalks DEF WalkGoesOn
<1>2. QED
  BY <1>1, ListInvariance, PTL

(* Where the threads and the player are.                                    *)
ThreadTypes ==
  /\ process \in {"running", "exited", "killed"}
  /\ mpc \in {"recv_list", "show", "choose", "fork", "create_receiver", "create_writer",
              "create_stats", "join_receiver", "join_writer", "join_stats"}
  /\ rpc \in {"none", "start", "test", "recv", "ring", "stored", "refused", "done"}
  /\ wpc \in {"none", "await", "test", "ring", "write", "done"}
  /\ spc \in {"none", "test", "sleep", "done"}
  /\ receiver_ready \in BOOLEAN /\ stop_flag \in BOOLEAN
  /\ pipe \in 0 .. PipeCapacity
  /\ player \in {"none", "playing", "gone"}

LEMMA ThreadTypesInit == ClientInit => ThreadTypes
<1>1. 0 \in 0 .. PipeCapacity
  BY PipeAssumption
<1>2. QED
  BY <1>1 DEF ClientInit, ListInit, ThreadTypes

LEMMA ThreadTypesNext ==
  ThreadTypes /\ CountTypes /\ [ClientNext]_clientVars => ThreadTypes'
<1> SUFFICES ASSUME ThreadTypes, CountTypes, [ClientNext]_clientVars
             PROVE  ThreadTypes'
  OBVIOUS
<1>1. CASE UNCHANGED clientVars
  BY <1>1 DEF ThreadTypes, clientVars, flags, pipeVars
<1>2. CASE ListPhase /\ UNCHANGED <<ringVars, rpc, wpc, spc, flags, counters, seqVars, pipeVars>>
  BY <1>2 DEF ThreadTypes, flags, pipeVars, ListPhase, RecvList, RecvListError, Judge, ShowEntry,
              ShowDone, Choose, ChooseOutside
<1>3. CASE Main \/ Interrupt
  BY <1>3 DEF ThreadTypes, flags, pipeVars, Main, Fork, ForkFails, CreateReceiver, CreateWriter,
              CreateStats, CreateFails, JoinReceiver, JoinWriter, JoinStats, Interrupt
<1>4. CASE Receiver \/ ReceiverNoMemory \/ RecvError
  BY <1>4 DEF ThreadTypes, flags, pipeVars, Receiver, ReceiverStart, ReceiverTest, RingWrite,
              CountBytes, CountDrop, ReceiverNoMemory, RecvError
<1>5. CASE Datagram
  BY <1>5 DEF ThreadTypes, flags, pipeVars, Datagram, Ignore, Receive
<1>6. CASE Writer
  <2>1. CASE WriterAwait \/ WriterTest \/ RingRead \/ PipeBroken \/ ChunkDone
    BY <2>1 DEF ThreadTypes, flags, pipeVars, WriterAwait, WriterTest, RingRead, PipeBroken,
                ChunkDone
  <2>2. CASE PipeWrite
    <3>1. PICK n \in 1 .. Len(buffer) - pos : pipe + n <= PipeCapacity /\ pipe' = pipe + n
      BY <2>2 DEF PipeWrite
    <3>2. pipe' \in 0 .. PipeCapacity
      BY <3>1, PipeAssumption DEF ThreadTypes
    <3>3. QED
      BY <2>2, <3>2 DEF ThreadTypes, flags, PipeWrite
  <2>3. QED
    BY <1>6, <2>1, <2>2 DEF Writer
<1>7. CASE Stats \/ PlayerExit
  BY <1>7 DEF ThreadTypes, flags, pipeVars, Stats, StatsTest, StatsWake, PlayerExit
<1>8. CASE PlayerRead
  <2>1. pipe' \in 0 .. PipeCapacity
    BY <1>8, PipeAssumption DEF PlayerRead, ThreadTypes
  <2>2. QED
    BY <1>8, <2>1 DEF ThreadTypes, flags, PlayerRead
<1>9. QED
  BY <1>1, <1>2, <1>3, <1>4, <1>5, <1>6, <1>7, <1>8 DEF ClientNext, ThreadStep

(* Type correctness of the client: its threads, its ring, its counters, the *)
(* pipe, which never holds more than its capacity, and the list of channels *)
(* it shows, whatever packet it takes for one (client.h:60-86).             *)
THEOREM ClientTypeCorrect == ClientSafety => []ClientTypeOK
<1>1. CountInv => CountTypes
  BY DEF CountInv
<1>2. ClientSafety => []ThreadTypes
  BY <1>1, CountInvariance, ThreadTypesInit, ThreadTypesNext, PTL DEF ClientSafety
<1>3. RingInv /\ CountInv /\ TelescopeInv /\ ListInv /\ ThreadTypes => ClientTypeOK
  <2> SUFFICES ASSUME RingInv, CountInv, TelescopeInv, ListInv, ThreadTypes
               PROVE  ClientTypeOK
    OBVIOUS
  <2>1. RingTypeOK /\ ListTypeOK
    BY ListTypesOK DEF RingInv
  <2>2. pos \in 0 .. Len(buffer)
    BY RingSizes DEF CountInv, CountTypes
  <2>3. QED
    BY <2>1, <2>2 DEF ClientTypeOK, ThreadTypes, CountInv, CountTypes, TelescopeInv
<1>4. QED
  BY <1>2, <1>3, CountInvariance, TelescopeInvariance, ListInvariance, PTL
=============================================================================
