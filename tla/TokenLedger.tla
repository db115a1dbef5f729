----------------------------- MODULE TokenLedger -----------------------------
(***************************************************************************)
(* TokenBucket with the history that tells how fast a channel may go: the  *)
(* seconds the alarm has rung, the scans of job[] its handlers have begun, *)
(* the additions made to each bucket and the bytes each channel has read.  *)
(* mytbf_init starts a timer thread more than it should, and every one of  *)
(* them sets the timer; yet a channel reads no more than Cps bytes per     *)
(* second.                                                                 *)
(***************************************************************************)
EXTENDS TokenBucket

CONSTANT MaxSeconds   \* bound on seconds

ASSUME MaxSecondsAssumption == MaxSeconds \in Nat

VARIABLES
  seconds,   \* times the alarm has rung
  scans,     \* times a handler has taken mut_job
  added,     \* bucket -> times a handler has added tokens to it
  used       \* bucket -> bytes its channel has read

ledger == <<seconds, scans, added, used>>
ledgerVars == <<vars, ledger>>

LedgerInit ==
  /\ Init
  /\ seconds = 0 /\ scans = 0
  /\ added = [b \in Buckets |-> 0]
  /\ used = [b \in Buckets |-> 0]

TickSecond ==
  /\ seconds < MaxSeconds
  /\ Tick
  /\ seconds' = seconds + 1
  /\ UNCHANGED <<scans, added, used>>

BeginScan(t) ==
  /\ HandlerLock(t)
  /\ scans' = scans + 1
  /\ UNCHANGED <<seconds, added, used>>

Add(t) ==
  /\ HandlerAdd(t)
  /\ added' = [added EXCEPT ![job[hpos[t]]] = @ + 1]
  /\ UNCHANGED <<seconds, scans, used>>

Consume(b) ==
  /\ ReadFile(b)
  /\ used' = [used EXCEPT ![b] = @ + (got[b] - got'[b])]
  /\ UNCHANGED <<seconds, scans, added>>

(* The steps of TokenBucket the ledger takes no note of.                    *)
OtherUserStep(b) ==
  \/ FetchCall(b) \/ FetchLock(b) \/ FetchWait(b) \/ FetchSpurious(b) \/ Fetch(b)
  \/ CheckLock(b) \/ Check(b) \/ ReturnLock(b) \/ ReturnToken(b) \/ UserExit(b)

OtherHandlerStep(t) == HandlerSkip(t) \/ HandlerLockBucket(t) \/ HandlerEnd(t)

LedgerNext ==
  \/ TickSecond
  \/ \E t \in Thread : BeginScan(t) \/ Add(t)
  \/ \E b \in Buckets : Consume(b)
  \/ /\ \/ MainStep
        \/ \E t \in Timers : TimerStart(t)
        \/ \E b \in Buckets : OtherUserStep(b)
        \/ \E t \in Thread : Deliver(t) \/ OtherHandlerStep(t)
     /\ UNCHANGED ledger

LedgerSafety == LedgerInit /\ [][LedgerNext]_ledgerVars

-----------------------------------------------------------------------------
LedgerTypeOK ==
  /\ TypeOK
  /\ seconds \in Nat /\ scans \in Nat
  /\ added \in [Buckets -> Nat] /\ used \in [Buckets -> Nat]

(* The bytes a channel has read, the tokens in its thread's hand and those  *)
(* in its bucket were all added by the handler: a return never makes        *)
(* tokens, whatever it races with (mytbf.c:38-52,137-158,                   *)
(* medialib.c:192,226-227).                                                 *)
TokensConserved == \A b \in Buckets : used[b] + got[b] + token[b] <= Cps * added[b]

(* A channel never reads more than Cps bytes per second, with any number of *)
(* timer threads and on whatever threads the handler runs                   *)
(* (mytbf.c:38-69,104-108).                                                 *)
RateBound == \A b \in Buckets : used[b] <= Cps * seconds

-----------------------------------------------------------------------------
(* Refinement: a second is credited to a bucket when a handler adds to it.  *)
Limiter == INSTANCE RateLimiter WITH credited <- added, hand <- got

(* The buckets, with their threads, locks and alarms, are a rate limiter:   *)
(* however many timer threads and handlers there are, a second is worth one *)
(* addition to a bucket, a fetch takes what is there, and a return gives    *)
(* back what is left (mytbf.c:38-52,137-158).                               *)
LimiterSafety == Limiter!Safety

-----------------------------------------------------------------------------
(* The parts of the inductive invariant.                                    *)

Scanning(t) == hpc[t] \in {"scan", "add"}

(* Tokens are in hand only between a fetch and the end of its read.         *)
HandEmpty ==
  \A b \in Buckets : pc[b] \notin {"check", "look", "read", "return", "give"} => got[b] = 0

(* mut_job belongs to the handler that scans, or to the main thread between *)
(* its lock and its unlock, and then no handler scans.                      *)
JobExclusive ==
  /\ \A t \in Thread : Scanning(t) => mut_job = t /\ ~ (t = Main /\ pc[Main] \in {"register", "unregister"})
  /\ pc[Main] \in {"register", "unregister"} => mut_job = Main

(* A bucket is in one slot at most; the one the main thread is about to     *)
(* register is in none.                                                     *)
SlotsDistinct ==
  /\ \A i, k \in Slots : job[i] # Null /\ job[i] = job[k] => i = k
  /\ \A i \in Slots : job[i] # Null => job[i] \in allocated
  /\ pc[Main] \in {"lock", "register"} => me \in allocated /\ \A i \in Slots : job[i] # me
  /\ pc[Main] \in {"destroy", "unregister", "free"} => me # Null
  /\ pc[Main] = "free" => \A i \in Slots : job[i] # me

(* The handler that adds is at a slot with a bucket.                        *)
AddsToBucket ==
  \A t \in Thread : hpc[t] = "add" => hpos[t] \in Slots /\ job[hpos[t]] # Null

(* Every scan adds to a bucket once at most, and the scan under way has not *)
(* yet added to the buckets it has not passed.                              *)
AddedOncePerScan ==
  \A b \in Buckets :
    /\ added[b] <= scans
    /\ \A t \in Thread, i \in Slots :
         Scanning(t) /\ job[i] = b /\ hpos[t] <= i => added[b] < scans

(* Alarms that have not led to a scan yet: the handlers that wait for       *)
(* mut_job, and the pending signal.                                         *)
AlarmsScanned ==
  scans + Cardinality({t \in Thread : hpc[t] = "lock"}) + (IF alarm THEN 1 ELSE 0) <= seconds

LedgerInv ==
  /\ LedgerTypeOK /\ HandEmpty /\ JobExclusive /\ SlotsDistinct /\ AddsToBucket
  /\ TokensConserved /\ AddedOncePerScan /\ AlarmsScanned
=============================================================================
