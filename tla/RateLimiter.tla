---------------------------- MODULE RateLimiter ----------------------------
(***************************************************************************)
(* What the server's token buckets promise, whatever their threads, locks  *)
(* and signals do: every second is worth Cps tokens to a bucket, once at   *)
(* most; a bucket holds Burst of them at most; a channel takes what is     *)
(* there, a read at a time, spends some on bytes and gives back the rest.  *)
(***************************************************************************)
EXTENDS Integers

CONSTANTS
  Buckets,    \* the buckets, one per channel
  Cps,        \* tokens a second is worth
  Burst,      \* most tokens a bucket holds
  ReadSize    \* most tokens taken at a time

VARIABLES
  seconds,    \* seconds that have passed
  token,      \* bucket -> tokens
  credited,   \* bucket -> seconds it has had its tokens for
  hand,       \* bucket -> tokens taken and neither spent nor given back
  used        \* bucket -> tokens spent

vars == <<seconds, token, credited, hand, used>>

Nothing == [b \in Buckets |-> 0]

AtMost(n) == IF n > Burst THEN Burst ELSE n

Init ==
  /\ seconds = 0 /\ token = Nothing /\ credited = Nothing
  /\ hand = Nothing /\ used = Nothing

Second ==
  /\ seconds' = seconds + 1
  /\ UNCHANGED <<token, credited, hand, used>>

(* A bucket is made, or made anew: it is empty.                             *)
Make(b) ==
  /\ hand[b] = 0
  /\ token' = [token EXCEPT ![b] = 0]
  /\ UNCHANGED <<seconds, credited, hand, used>>

Credit(b) ==
  /\ credited[b] < seconds
  /\ credited' = [credited EXCEPT ![b] = @ + 1]
  /\ token' = [token EXCEPT ![b] = AtMost(@ + Cps)]
  /\ UNCHANGED <<seconds, hand, used>>

Take(b) ==
  /\ hand[b] = 0
  /\ \E n \in 1 .. ReadSize :
       /\ n <= token[b]
       /\ token' = [token EXCEPT ![b] = @ - n]
       /\ hand' = [hand EXCEPT ![b] = n]
  /\ UNCHANGED <<seconds, credited, used>>

Spend(b) ==
  /\ \E n \in 1 .. hand[b] :
       /\ hand' = [hand EXCEPT ![b] = @ - n]
       /\ used' = [used EXCEPT ![b] = @ + n]
  /\ UNCHANGED <<seconds, token, credited>>

GiveBack(b) ==
  /\ token' = [token EXCEPT ![b] = AtMost(@ + hand[b])]
  /\ hand' = [hand EXCEPT ![b] = 0]
  /\ UNCHANGED <<seconds, credited, used>>

Next ==
  \/ Second
  \/ \E b \in Buckets : Make(b) \/ Credit(b) \/ Take(b) \/ Spend(b) \/ GiveBack(b)

Safety == Init /\ [][Next]_vars
=============================================================================
