----------------------------- MODULE RingBuffer -----------------------------
(***************************************************************************)
(* The client's ring buffer with the two threads that share it: the        *)
(* receiver thread, which calls ring_buffer_write (client/recv_thr.c), and *)
(* the writer thread, which calls ring_buffer_read (client/writer_thr.c).  *)
(*                                                                         *)
(* Both functions do all their work under rb->mutex and give it up only in *)
(* a wait on a condition variable or at the end, so the step from taking   *)
(* the mutex to releasing it is one action.  A thread is                   *)
(*   "out"      not in a call                                              *)
(*   "test"     in a call, about to take the mutex (first time, or again   *)
(*              after a wait that returned 0) and test the loop condition  *)
(*   "wait"     asleep on its condition variable, the mutex released       *)
(*   "expired"  (producer) its pthread_cond_timedwait has timed out; it is *)
(*              no longer among the sleepers and is about to take the      *)
(*              mutex again and return                                     *)
(***************************************************************************)
EXTENDS Ring

CONSTANTS
  Packets,   \* payloads the receiver may write, sequences of Byte
  MaxRead    \* max_len of ring_buffer_read: sizeof(buffer) of writer_thread

(* recv_thr.c drops datagrams without payload, and no datagram exceeds      *)
(* MSG_CHANNEL_MAX (64 KB), which is below RING_BUFFER_SIZE (2 MB).         *)
ASSUME PacketsAssumption ==
  /\ Packets \subseteq Seq(Byte)
  /\ \A p \in Packets : Len(p) \in 1 .. Size
ASSUME MaxReadAssumption == MaxRead \in Nat \ {0}

VARIABLES
  rb,         \* struct ring_buffer: data, head, tail, count
  producer,   \* where the receiver thread is in ring_buffer_write
  pending,    \* the data argument of the call it is in, or of the last one
  consumer,   \* where the writer thread is in ring_buffer_read
  buffer      \* the bytes the last ring_buffer_read returned

ringVars == <<rb, producer, pending, consumer, buffer>>

RingInit ==
  /\ rb = EmptyRing
  /\ producer = "out" /\ pending = <<>>
  /\ consumer = "out" /\ buffer = <<>>

-----------------------------------------------------------------------------
(* ring_buffer_write *)

(* The call begins; the deadline of 10 ms is set before the loop. *)
WriteCall(p) ==
  /\ producer = "out"
  /\ producer' = "test" /\ pending' = p
  /\ UNCHANGED <<rb, consumer, buffer>>

(* Mutant of Write: not_empty is not signalled.                             *)
WriteNoSignal ==
  /\ producer = "test"
  /\ Fits(rb, Len(pending))
  /\ rb' = Written(rb, pending)
  /\ producer' = "out"
  /\ UNCHANGED <<pending, consumer, buffer>>

(* The packet fits: copy it, signal not_empty, return 0.  The signal is     *)
(* lost unless the consumer is asleep.                                      *)
Write ==
  /\ producer = "test"
  /\ Fits(rb, Len(pending))
  /\ rb' = Written(rb, pending)
  /\ consumer' = IF consumer = "wait" THEN "test" ELSE consumer
  /\ producer' = "out"
  /\ UNCHANGED <<pending, buffer>>

WriteWait ==
  /\ producer = "test"
  /\ ~ Fits(rb, Len(pending))
  /\ producer' = "wait"
  /\ UNCHANGED <<rb, pending, consumer, buffer>>

(* Mutant of WriteExpire: a timeout leads back to the loop like a signal.   *)
WriteExpireRetries ==
  /\ producer = "wait"
  /\ producer' = "test"
  /\ UNCHANGED <<rb, pending, consumer, buffer>>

(* The deadline passes while the producer sleeps. *)
WriteExpire ==
  /\ producer = "wait"
  /\ producer' = "expired"
  /\ UNCHANGED <<rb, pending, consumer, buffer>>

(* pthread_cond_timedwait has the mutex again and returns ETIMEDOUT: the    *)
(* call returns -1 without testing the loop condition once more.            *)
WriteTimeout ==
  /\ producer = "expired"
  /\ producer' = "out"
  /\ UNCHANGED <<rb, pending, consumer, buffer>>

(* POSIX lets pthread_cond_timedwait return 0 without a signal. *)
WriteSpurious ==
  /\ producer = "wait"
  /\ producer' = "test"
  /\ UNCHANGED <<rb, pending, consumer, buffer>>

-----------------------------------------------------------------------------
(* ring_buffer_read *)

ReadCall ==
  /\ consumer = "out"
  /\ consumer' = "test"
  /\ UNCHANGED <<rb, producer, pending, buffer>>

ReadWait ==
  /\ consumer = "test"
  /\ rb.count = 0
  /\ consumer' = "wait"
  /\ UNCHANGED <<rb, producer, pending, buffer>>

(* There are bytes: copy them out, signal not_full, return their number. *)
Read ==
  LET len == ReadLen(rb, MaxRead)
  IN /\ consumer = "test"
     /\ rb.count # 0
     /\ buffer' = ReadBytes(rb, len)
     /\ rb' = AfterRead(rb, len)
     /\ producer' = IF producer = "wait" THEN "test" ELSE producer
     /\ consumer' = "out"
     /\ UNCHANGED pending

ReadSpurious ==
  /\ consumer = "wait"
  /\ consumer' = "test"
  /\ UNCHANGED <<rb, producer, pending, buffer>>

-----------------------------------------------------------------------------
RingNext ==
  \/ \E p \in Packets : WriteCall(p)
  \/ Write \/ WriteWait \/ WriteExpire \/ WriteTimeout \/ WriteSpurious
  \/ ReadCall \/ Read \/ ReadWait \/ ReadSpurious

RingSafety == RingInit /\ [][RingNext]_ringVars

(* The writer thread keeps running.  Nothing is asked of the receiver       *)
(* thread: queued bytes are taken even if it never runs again.              *)
RingFairness == WF_ringVars(ReadCall) /\ WF_ringVars(Read \/ ReadWait)

RingSpec == RingSafety /\ RingFairness

-----------------------------------------------------------------------------
RingTypeOK ==
  /\ rb \in Ring
  /\ producer \in {"out", "test", "wait", "expired"}
  /\ pending \in Packets \cup {<<>>}
  /\ consumer \in {"out", "test", "wait"}
  /\ buffer \in Seq(Byte)

(* The indices of the ring agree with its count after any sequence of       *)
(* wrapped and unwrapped writes and reads (recv_thr.c:47-58,                *)
(* writer_thr.c:19-33).                                                     *)
RingCoherent == Coherent(rb)

(* No wakeup is lost: the writer thread sleeps on not_empty only while the  *)
(* ring is empty, and the receiver thread on not_full only while its packet *)
(* does not fit (recv_thr.c:34-45,59; writer_thr.c:15-17,34).               *)
NoLostWakeup ==
  /\ consumer = "wait" => rb.count = 0
  /\ producer = "wait" => ~ Fits(rb, Len(pending))

(* The ring buffer implements the byte queue. *)
Queue == INSTANCE ByteQueue
           WITH Capacity <- Size, queue <- Contents(rb), chunk <- buffer

QueueSafety == Queue!Safety
QueueSpec == Queue!Spec
=============================================================================
