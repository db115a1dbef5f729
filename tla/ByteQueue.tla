------------------------------ MODULE ByteQueue ------------------------------
(***************************************************************************)
(* What the client's ring buffer promises the two threads that share it: a *)
(* bounded first-in first-out queue of bytes.  A packet is queued as a     *)
(* whole, and only when all of it fits; a read takes the oldest bytes, as  *)
(* many as there are up to MaxRead; queued bytes are eventually taken.     *)
(***************************************************************************)
EXTENDS Integers, Sequences

CONSTANTS
  Capacity,   \* the most bytes the queue holds
  MaxRead,    \* the most bytes one read takes
  Packets     \* the packets the producer may offer

VARIABLES
  queue,      \* the bytes accepted and not yet taken, oldest first
  chunk       \* the bytes the last read took

vars == <<queue, chunk>>

Init == queue = <<>> /\ chunk = <<>>

(* A packet is accepted.  A packet that is refused leaves no trace. *)
Accept(p) ==
  /\ Len(queue) + Len(p) <= Capacity
  /\ queue' = queue \o p
  /\ UNCHANGED chunk

(* The consumer takes the oldest bytes. *)
Take ==
  LET len == IF Len(queue) < MaxRead THEN Len(queue) ELSE MaxRead
  IN /\ queue # <<>>
     /\ chunk' = SubSeq(queue, 1, len)
     /\ queue' = SubSeq(queue, len + 1, Len(queue))

Next == Take \/ \E p \in Packets : Accept(p)

Safety == Init /\ [][Next]_vars

Spec == Safety /\ WF_vars(Take)
=============================================================================
