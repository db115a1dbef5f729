---------------------------- MODULE TokenProofs ----------------------------
(***************************************************************************)
(* Proofs about the token buckets, for any number of buckets, timer        *)
(* threads and slots, any rate, and whatever threads the alarm handler     *)
(* runs on: LedgerInv is an invariant, hence no channel reads more than    *)
(* Cps bytes per second; the buckets implement RateLimiter; no channel     *)
(* thread sleeps on a bucket that has tokens, and no thread uses a bucket  *)
(* that has been freed.                                                    *)
(***************************************************************************)
EXTENDS TokenLedger, FiniteSetTheorems, TLAPS

(* What does not count tokens, scans or seconds.                            *)
Structure == LedgerTypeOK /\ HandEmpty /\ JobExclusive /\ SlotsDistinct /\ AddsToBucket

LEMMA ThreadFacts ==
  /\ Main \in Thread /\ Timers \subseteq Thread /\ Buckets \subseteq Thread
  /\ Null \notin Thread /\ Null \notin Buckets
  /\ Main \notin Buckets /\ Main \notin Timers /\ Timers \cap Buckets = {}
BY ThreadAssumption DEF Thread

LEMMA ThreadFinite == IsFiniteSet(Thread)
<1>1. IsFiniteSet({Main}) /\ IsFiniteSet(Timers) /\ IsFiniteSet(Buckets)
  BY FiniteAssumption, FS_Singleton
<1>2. IsFiniteSet(Timers \cup Buckets)
  BY <1>1, FS_Union
<1>3. IsFiniteSet({Main} \cup (Timers \cup Buckets))
  BY <1>1, <1>2, FS_Union
<1>4. {Main} \cup (Timers \cup Buckets) = Thread
  BY DEF Thread
<1>5. QED
  BY <1>3, <1>4

(* A timer thread is created: what the two calls of module_load do to pc.   *)
LEMMA ModuleLoadEffect ==
  ASSUME TypeOK, NEW t \in Timers, ModuleLoad(t)
  PROVE  /\ pc' \in [Thread -> Location]
         /\ pc'[Main] \in {"once", "malloc"}
         /\ \A b \in Buckets : pc'[b] = pc[b]
BY ThreadFacts DEF TypeOK, Location, ModuleLoad, FreshTimers

LEMMA ClippedBounds ==
  ASSUME NEW n \in Nat
  PROVE  Clipped(n) \in 0 .. Burst /\ Clipped(n) \in Nat /\ Clipped(n) <= n
BY RateAssumption DEF Clipped

(* Steps that leave the slots, or mut_job, alone.                           *)
LEMMA SlotsFrame ==
  ASSUME SlotsDistinct, UNCHANGED <<job, allocated, me>>, pc'[Main] = pc[Main]
  PROVE  SlotsDistinct'
BY DEF SlotsDistinct

LEMMA JobFrame ==
  ASSUME JobExclusive, mut_job' = mut_job, pc'[Main] = pc[Main],
         \A u \in Thread : hpc'[u] \in {"scan", "add"} => hpc[u] \in {"scan", "add"}
  PROVE  JobExclusive'
BY DEF JobExclusive, Scanning

(* The handler adds to one bucket, and wakes its thread if it waits.        *)
LEMMA AddEffect ==
  ASSUME Structure, NEW t \in Thread, Add(t)
  PROVE  LET b == job[hpos[t]]
         IN  /\ b \in Buckets /\ hpos[t] \in Slots /\ hpc[t] = "add"
             /\ token' \in [Buckets -> 0 .. Burst] /\ token'[b] <= token[b] + Cps
             /\ \A c \in Buckets \ {b} : token'[c] = token[c]
             /\ added' \in [Buckets -> Nat] /\ added'[b] = added[b] + 1
             /\ \A c \in Buckets \ {b} : added'[c] = added[c]
             /\ hpos' \in [Thread -> 0 .. MYTBF_MAX] /\ hpos' = [hpos EXCEPT ![t] = hpos[t] + 1]
             /\ hpc' = [hpc EXCEPT ![t] = "scan"] /\ mut' = [mut EXCEPT ![b] = Null]
             /\ pc' \in [Thread -> Location] /\ pc'[Main] = pc[Main]
             /\ \A c \in Buckets : pc'[c] = pc[c] \/ (pc[c] = "wait" /\ pc'[c] = "fetch")
             /\ UNCHANGED <<job, allocated, once_done, mut_job, me, got, alarm,
                            seconds, scans, used>>
<1> DEFINE b == job[hpos[t]]
<1>1. hpc[t] = "add"
  BY DEF Add, HandlerAdd
<1>2. b \in Buckets /\ hpos[t] \in Slots
  BY <1>1 DEF Structure, LedgerTypeOK, TypeOK, AddsToBucket
<1>3. /\ token' = [token EXCEPT ![b] = Clipped(token[b] + Cps)]
      /\ added' = [added EXCEPT ![b] = added[b] + 1]
      /\ hpos' = [hpos EXCEPT ![t] = hpos[t] + 1]
      /\ hpc' = [hpc EXCEPT ![t] = "scan"] /\ mut' = [mut EXCEPT ![b] = Null]
      /\ pc' = IF pc[b] = "wait" THEN [pc EXCEPT ![b] = "fetch"] ELSE pc
      /\ UNCHANGED <<job, allocated, once_done, mut_job, me, got, alarm,
                     seconds, scans, used>>
  BY DEF Add, HandlerAdd, Unlock, Woken
<1>4. /\ token \in [Buckets -> 0 .. Burst] /\ added \in [Buckets -> Nat]
      /\ hpos \in [Thread -> 0 .. MYTBF_MAX]
  BY DEF Structure, LedgerTypeOK, TypeOK
<1> HIDE DEF b
<1>5. token[b] \in Nat /\ token[b] + Cps \in Nat /\ added[b] + 1 \in Nat
  BY <1>2, <1>4, RateAssumption
<1>6. /\ Clipped(token[b] + Cps) \in 0 .. Burst
      /\ Clipped(token[b] + Cps) <= token[b] + Cps
  BY <1>5, ClippedBounds
<1>7. hpos[t] + 1 \in 0 .. MYTBF_MAX
  BY <1>2, MaxAssumption DEF Slots
<1>8. /\ token' \in [Buckets -> 0 .. Burst] /\ token'[b] <= token[b] + Cps
      /\ \A c \in Buckets \ {b} : token'[c] = token[c]
  BY <1>2, <1>3, <1>4, <1>6
<1>9. /\ added' \in [Buckets -> Nat] /\ added'[b] = added[b] + 1
      /\ \A c \in Buckets \ {b} : added'[c] = added[c]
  BY <1>2, <1>3, <1>4, <1>5
<1>10. hpos' \in [Thread -> 0 .. MYTBF_MAX]
  BY <1>3, <1>4, <1>7
<1>11. /\ pc' \in [Thread -> Location] /\ pc'[Main] = pc[Main]
       /\ \A c \in Buckets : pc'[c] = pc[c] \/ (pc[c] = "wait" /\ pc'[c] = "fetch")
  <2>1. pc \in [Thread -> Location]
    BY DEF Structure, LedgerTypeOK, TypeOK
  <2>2. CASE pc[b] = "wait"
    BY <1>2, <1>3, <2>1, <2>2, ThreadFacts DEF Location
  <2>3. CASE pc[b] # "wait"
    BY <1>3, <2>1, <2>3
  <2>4. QED
    BY <2>2, <2>3
<1>12. QED
  BY <1>1, <1>2, <1>3, <1>8, <1>9, <1>10, <1>11 DEF b

(* What a read takes from the hand it adds to used.                         *)
LEMMA ConsumeEffect ==
  ASSUME Structure, NEW b \in Buckets, Consume(b)
  PROVE  /\ got' \in [Buckets -> 0 .. ReadSize] /\ used' \in [Buckets -> Nat]
         /\ \A c \in Buckets : used'[c] + got'[c] = used[c] + got[c]
         /\ \A c \in Buckets \ {b} : got'[c] = got[c]
         /\ \/ pc' = [pc EXCEPT ![b] = "return"]
            \/ pc' = [pc EXCEPT ![b] = "idle"] /\ got'[b] = 0
         /\ pc' \in [Thread -> Location] /\ pc[b] = "read"
         /\ UNCHANGED <<job, allocated, token, once_done, mut, mut_job, me, alarm, hpc,
                        hpos, seconds, scans, added>>
<1>1. PICK len \in 0 .. got[b] :
        /\ got' = [got EXCEPT ![b] = got[b] - len]
        /\ pc' = [pc EXCEPT ![b] = IF got[b] - len > 0 THEN "return" ELSE "idle"]
  BY DEF Consume, ReadFile, Goto
<1>2. /\ UNCHANGED <<job, allocated, token, once_done, mut, mut_job, me, alarm, hpc,
                     hpos, seconds, scans, added>>
      /\ used' = [used EXCEPT ![b] = used[b] + (got[b] - got'[b])] /\ pc[b] = "read"
  BY DEF Consume, ReadFile, bucketVars, handlerVars, At
<1>3. got \in [Buckets -> 0 .. ReadSize] /\ used \in [Buckets -> Nat]
  BY DEF Structure, LedgerTypeOK, TypeOK
<1>4. got[b] \in 0 .. ReadSize /\ ReadSize \in Nat /\ used[b] \in Nat
  BY <1>3, RateAssumption
<1>5. got'[b] = got[b] - len /\ got[b] - len \in 0 .. ReadSize /\ len \in Nat
  BY <1>1, <1>3, <1>4
<1>6. used'[b] = used[b] + len /\ used[b] + len \in Nat
  BY <1>2, <1>3, <1>4, <1>5
<1>7. \A c \in Buckets \ {b} : got'[c] = got[c] /\ used'[c] = used[c]
  BY <1>1, <1>2, <1>3
<1>8. got' \in [Buckets -> 0 .. ReadSize]
  BY <1>1, <1>3, <1>5
<1>9. used' \in [Buckets -> Nat]
  <2>1. got[b] - got'[b] = len
    BY <1>4, <1>5
  <2>2. used' = [used EXCEPT ![b] = used[b] + len]
    BY <1>2, <2>1
  <2>3. QED
    BY <1>3, <1>6, <2>2
<1>10. \A c \in Buckets : used'[c] + got'[c] = used[c] + got[c]
  <2>1. used'[b] + got'[b] = used[b] + got[b]
    BY <1>4, <1>5, <1>6
  <2>2. QED
    BY <1>7, <2>1
<1>11. got[b] - len > 0 \/ got'[b] = 0
  BY <1>4, <1>5
<1>12. pc' \in [Thread -> Location]
  <2>1. pc \in [Thread -> Location]
    BY DEF Structure, LedgerTypeOK, TypeOK
  <2>2. QED
    BY <1>1, <2>1, ThreadFacts DEF Location
<1>13. QED
  BY <1>1, <1>2, <1>7, <1>8, <1>9, <1>10, <1>11, <1>12

LEMMA ConsumeHands ==
  ASSUME Structure, NEW b \in Buckets, Consume(b)
  PROVE  HandEmpty'
<1>1. /\ \A c \in Buckets \ {b} : got'[c] = got[c]
      /\ \/ pc' = [pc EXCEPT ![b] = "return"]
         \/ pc' = [pc EXCEPT ![b] = "idle"] /\ got'[b] = 0
  BY ConsumeEffect
<1>2. pc \in [Thread -> Location] /\ Buckets \subseteq Thread
  BY ThreadFacts DEF Structure, LedgerTypeOK, TypeOK
<1>3. /\ \A c \in Buckets \ {b} : pc'[c] = pc[c]
      /\ pc'[b] = "return" \/ got'[b] = 0
  BY <1>1, <1>2
<1>4. QED
  BY <1>1, <1>3 DEF Structure, HandEmpty

(***************************************************************************)
(* Structure is preserved.                                                 *)
(***************************************************************************)
(* The main thread's steps.                                               *)
LEMMA MainStructure ==
  ASSUME Structure, MainStep, UNCHANGED ledger
  PROVE  Structure'
<1> USE ThreadFacts, MaxAssumption, RateAssumption
    DEF Structure, LedgerTypeOK, TypeOK, HandEmpty, JobExclusive,
           SlotsDistinct, AddsToBucket, Scanning, Slots, Location, At, Goto, Exited,
           bucketVars, threadVars, handlerVars, ledger
<1>1. CASE InitCall
  BY <1>1 DEF InitCall
<1>2. CASE Load
  <2>1. PICK t \in Timers : ModuleLoad(t)
    BY <1>2 DEF Load
  <2>2. TypeOK
    OBVIOUS
  <2>3. /\ pc' \in [Thread -> Location]
        /\ pc'[Main] \in {"once", "malloc"}
        /\ \A b \in Buckets : pc'[b] = pc[b]
    BY <2>1, <2>2, ModuleLoadEffect
  <2>4. LedgerTypeOK'
    BY <1>2, <2>3 DEF Load
  <2>5. HandEmpty'
    BY <1>2, <2>3 DEF Load
  <2>6. JobExclusive'
    BY <1>2, <2>3 DEF Load
  <2>7. SlotsDistinct'
    BY <1>2, <2>3 DEF Load
  <2>8. AddsToBucket'
    BY <1>2, <2>3 DEF Load
  <2>9. QED
    BY <2>4, <2>5, <2>6, <2>7, <2>8
<1>3. CASE LoadOnce
  <2>1. CASE once_done
    <3>1. /\ pc' = [pc EXCEPT ![Main] = "malloc"] /\ once_done' = TRUE
          /\ UNCHANGED <<job, allocated, token, mut, mut_job, me, got, handlerVars>>
      BY <1>3, <2>1 DEF LoadOnce
    <3>2. LedgerTypeOK'
      BY <1>3, <3>1
    <3>3. HandEmpty'
      BY <1>3, <3>1
    <3>4. JobExclusive'
      BY <1>3, <3>1
    <3>5. SlotsDistinct'
      BY <1>3, <3>1
    <3>6. AddsToBucket'
      BY <1>3, <3>1
    <3>7. QED
      BY <3>2, <3>3, <3>4, <3>5, <3>6
  <2>2. CASE ~ once_done
    <3>1. PICK t \in Timers : ModuleLoad(t)
      BY <1>3, <2>2 DEF LoadOnce
    <3>2. TypeOK
      OBVIOUS
    <3>3. /\ pc' \in [Thread -> Location]
          /\ pc'[Main] \in {"once", "malloc"}
          /\ \A b \in Buckets : pc'[b] = pc[b]
      BY <3>1, <3>2, ModuleLoadEffect
    <3>4. LedgerTypeOK'
      BY <1>3, <3>3 DEF LoadOnce
    <3>5. HandEmpty'
      BY <1>3, <3>3 DEF LoadOnce
    <3>6. JobExclusive'
      BY <1>3, <3>3 DEF LoadOnce
    <3>7. SlotsDistinct'
      BY <1>3, <3>3 DEF LoadOnce
    <3>8. AddsToBucket'
      BY <1>3, <3>3 DEF LoadOnce
    <3>9. QED
      BY <3>4, <3>5, <3>6, <3>7, <3>8
  <2>3. QED
    BY <2>1, <2>2
<1>4. CASE LoadFails
  BY <1>4 DEF LoadFails
<1>5. ASSUME NEW b \in Buckets, Malloc(b)
      PROVE  Structure'
  <2>1. LedgerTypeOK'
    BY <1>5, SMTT(30) DEF Malloc
  <2>2. HandEmpty'
    BY <1>5 DEF Malloc
  <2>3. JobExclusive'
    BY <1>5 DEF Malloc
  <2>4. SlotsDistinct'
    BY <1>5 DEF Malloc
  <2>5. AddsToBucket'
    BY <1>5 DEF Malloc
  <2>6. QED
    BY <2>1, <2>2, <2>3, <2>4, <2>5
<1>6. CASE NoMemory
  BY <1>6 DEF NoMemory
<1>7. CASE InitLock
  <2>1. LedgerTypeOK'
    BY <1>7 DEF InitLock, LockJob
  <2>2. HandEmpty'
    BY <1>7 DEF InitLock, LockJob
  <2>3. JobExclusive'
    BY <1>7 DEF InitLock, LockJob
  <2>4. SlotsDistinct'
    BY <1>7 DEF InitLock, LockJob
  <2>5. AddsToBucket'
    BY <1>7 DEF InitLock, LockJob
  <2>6. QED
    BY <2>1, <2>2, <2>3, <2>4, <2>5
<1>8. CASE Register
  <2>1. LedgerTypeOK'
    BY <1>8, SMTT(30) DEF Register, FreeSlots
  <2>2. HandEmpty'
    BY <1>8 DEF Register, FreeSlots
  <2>3. JobExclusive'
    BY <1>8 DEF Register, FreeSlots
  <2>4. SlotsDistinct'
    BY <1>8 DEF Register, FreeSlots
  <2>5. AddsToBucket'
    BY <1>8 DEF Register, FreeSlots
  <2>6. QED
    BY <2>1, <2>2, <2>3, <2>4, <2>5
<1>9. CASE NoFreePos
  <2>1. LedgerTypeOK'
    BY <1>9 DEF NoFreePos, FreeSlots
  <2>2. HandEmpty'
    BY <1>9 DEF NoFreePos, FreeSlots
  <2>3. JobExclusive'
    BY <1>9 DEF NoFreePos, FreeSlots
  <2>4. SlotsDistinct'
    BY <1>9 DEF NoFreePos, FreeSlots
  <2>5. AddsToBucket'
    BY <1>9 DEF NoFreePos, FreeSlots
  <2>6. QED
    BY <2>1, <2>2, <2>3, <2>4, <2>5
<1>10. ASSUME NEW b \in Buckets, CreateUser(b)
      PROVE  Structure'
  <2>1. LedgerTypeOK'
    BY <1>10 DEF CreateUser, Registered
  <2>2. HandEmpty'
    BY <1>10 DEF CreateUser, Registered
  <2>3. JobExclusive'
    BY <1>10 DEF CreateUser, Registered
  <2>4. SlotsDistinct'
    BY <1>10 DEF CreateUser, Registered
  <2>5. AddsToBucket'
    BY <1>10 DEF CreateUser, Registered
  <2>6. QED
    BY <2>1, <2>2, <2>3, <2>4, <2>5
<1>11. ASSUME NEW b \in Buckets, DestroyCall(b)
      PROVE  Structure'
  <2>1. LedgerTypeOK'
    BY <1>11 DEF DestroyCall, Registered
  <2>2. HandEmpty'
    BY <1>11 DEF DestroyCall, Registered
  <2>3. JobExclusive'
    BY <1>11 DEF DestroyCall, Registered
  <2>4. SlotsDistinct'
    BY <1>11 DEF DestroyCall, Registered
  <2>5. AddsToBucket'
    BY <1>11 DEF DestroyCall, Registered
  <2>6. QED
    BY <2>1, <2>2, <2>3, <2>4, <2>5
<1>12. CASE DestroyLock
  <2>1. LedgerTypeOK'
    BY <1>12 DEF DestroyLock, LockJob
  <2>2. HandEmpty'
    BY <1>12 DEF DestroyLock, LockJob
  <2>3. JobExclusive'
    BY <1>12 DEF DestroyLock, LockJob
  <2>4. SlotsDistinct'
    BY <1>12 DEF DestroyLock, LockJob
  <2>5. AddsToBucket'
    BY <1>12 DEF DestroyLock, LockJob
  <2>6. QED
    BY <2>1, <2>2, <2>3, <2>4, <2>5
<1>13. CASE Unregister
  <2>1. me \in Buckets \cup {Null} /\ \A i \in Slots : job'[i] = IF job[i] = me THEN Null ELSE job[i]
    BY <1>13 DEF Unregister
  <2>2. mut_job = Main /\ mut_job' = Null /\ pc'[Main] = "free" /\ hpc' = hpc
    BY <1>13 DEF Unregister
  <2>3. \A t \in Thread : ~ Scanning(t)
    BY <1>13, <2>2 DEF Unregister
  <2>4. LedgerTypeOK'
    BY <1>13 DEF Unregister
  <2>5. HandEmpty'
    BY <1>13 DEF Unregister
  <2>6. JobExclusive'
    BY <1>13 DEF Unregister
  <2>7. SlotsDistinct'
    <3>1. me # Null
      BY <1>13, <2>1 DEF Unregister
    <3>2. QED
      BY <1>13, <2>1, <2>2, <3>1 DEF Unregister
  <2>8. AddsToBucket'
    BY <1>13, <2>3 DEF Unregister
  <2>9. QED
    BY <2>4, <2>5, <2>6, <2>7, <2>8
<1>14. CASE Free
  <2>1. LedgerTypeOK'
    BY <1>14 DEF Free
  <2>2. HandEmpty'
    BY <1>14 DEF Free
  <2>3. JobExclusive'
    BY <1>14 DEF Free
  <2>4. SlotsDistinct'
    BY <1>14 DEF Free
  <2>5. AddsToBucket'
    BY <1>14 DEF Free
  <2>6. QED
    BY <2>1, <2>2, <2>3, <2>4, <2>5
<1>15. QED
  BY <1>1, <1>2, <1>3, <1>4, <1>5, <1>6, <1>7, <1>8, <1>9, <1>10, <1>11, <1>12, <1>13, <1>14 DEF MainStep

(* The steps of a channel thread the ledger takes no note of.             *)
LEMMA UserStructure ==
  ASSUME Structure, NEW b \in Buckets, OtherUserStep(b), UNCHANGED ledger
  PROVE  Structure'
<1> USE ThreadFacts, MaxAssumption, RateAssumption
    DEF Structure, LedgerTypeOK, TypeOK, HandEmpty, JobExclusive,
           SlotsDistinct, AddsToBucket, Scanning, Slots, Location, At, Goto, Exited,
           bucketVars, threadVars, handlerVars, ledger
<1>1. CASE FetchCall(b)
  <2>1. LedgerTypeOK'
    BY <1>1 DEF FetchCall
  <2>2. HandEmpty'
    BY <1>1 DEF FetchCall
  <2>3. JobExclusive'
    BY <1>1 DEF FetchCall
  <2>4. SlotsDistinct'
    BY <1>1 DEF FetchCall
  <2>5. AddsToBucket'
    BY <1>1 DEF FetchCall
  <2>6. QED
    BY <2>1, <2>2, <2>3, <2>4, <2>5
<1>2. CASE FetchLock(b)
  <2>1. LedgerTypeOK'
    BY <1>2 DEF FetchLock, Lock
  <2>2. HandEmpty'
    BY <1>2 DEF FetchLock, Lock
  <2>3. JobExclusive'
    BY <1>2 DEF FetchLock, Lock
  <2>4. SlotsDistinct'
    BY <1>2 DEF FetchLock, Lock
  <2>5. AddsToBucket'
    BY <1>2 DEF FetchLock, Lock
  <2>6. QED
    BY <2>1, <2>2, <2>3, <2>4, <2>5
<1>3. CASE FetchWait(b)
  <2>1. LedgerTypeOK'
    BY <1>3 DEF FetchWait, Unlock
  <2>2. HandEmpty'
    BY <1>3 DEF FetchWait, Unlock
  <2>3. JobExclusive'
    BY <1>3 DEF FetchWait, Unlock
  <2>4. SlotsDistinct'
    BY <1>3 DEF FetchWait, Unlock
  <2>5. AddsToBucket'
    BY <1>3 DEF FetchWait, Unlock
  <2>6. QED
    BY <2>1, <2>2, <2>3, <2>4, <2>5
<1>4. CASE FetchSpurious(b)
  <2>1. LedgerTypeOK'
    BY <1>4 DEF FetchSpurious
  <2>2. HandEmpty'
    BY <1>4 DEF FetchSpurious
  <2>3. JobExclusive'
    BY <1>4 DEF FetchSpurious
  <2>4. SlotsDistinct'
    BY <1>4 DEF FetchSpurious
  <2>5. AddsToBucket'
    BY <1>4 DEF FetchSpurious
  <2>6. QED
    BY <2>1, <2>2, <2>3, <2>4, <2>5
<1>5. CASE Fetch(b)
  <2> DEFINE n == IF token[b] < ReadSize THEN token[b] ELSE ReadSize
  <2>1. token[b] - n \in 0 .. Burst /\ n \in 0 .. ReadSize
    BY <1>5 DEF Fetch
  <2>2. /\ token' = [token EXCEPT ![b] = @ - n] /\ got' = [got EXCEPT ![b] = n]
        /\ pc' = [pc EXCEPT ![b] = "check"] /\ mut' = [mut EXCEPT ![b] = Null]
        /\ UNCHANGED <<job, allocated, once_done, mut_job, me, handlerVars>>
    BY <1>5 DEF Fetch, Unlock
  <2> HIDE DEF n
  <2>3. token' \in [Buckets -> 0 .. Burst] /\ got' \in [Buckets -> 0 .. ReadSize]
    BY <2>1, <2>2
  <2>4. LedgerTypeOK'
    BY <1>5, <2>2, <2>3
  <2>5. HandEmpty'
    BY <1>5, <2>2
  <2>6. JobExclusive'
    BY <1>5, <2>2
  <2>7. SlotsDistinct'
    BY <1>5, <2>2
  <2>8. AddsToBucket'
    BY <1>5, <2>2
  <2>9. QED
    BY <2>4, <2>5, <2>6, <2>7, <2>8
<1>6. CASE CheckLock(b)
  <2>1. LedgerTypeOK'
    BY <1>6 DEF CheckLock, Lock
  <2>2. HandEmpty'
    BY <1>6 DEF CheckLock, Lock
  <2>3. JobExclusive'
    BY <1>6 DEF CheckLock, Lock
  <2>4. SlotsDistinct'
    BY <1>6 DEF CheckLock, Lock
  <2>5. AddsToBucket'
    BY <1>6 DEF CheckLock, Lock
  <2>6. QED
    BY <2>1, <2>2, <2>3, <2>4, <2>5
<1>7. CASE Check(b)
  <2>1. LedgerTypeOK'
    BY <1>7 DEF Check, Unlock
  <2>2. HandEmpty'
    BY <1>7 DEF Check, Unlock
  <2>3. JobExclusive'
    BY <1>7 DEF Check, Unlock
  <2>4. SlotsDistinct'
    BY <1>7 DEF Check, Unlock
  <2>5. AddsToBucket'
    BY <1>7 DEF Check, Unlock
  <2>6. QED
    BY <2>1, <2>2, <2>3, <2>4, <2>5
<1>8. CASE ReturnLock(b)
  <2>1. LedgerTypeOK'
    BY <1>8 DEF ReturnLock, Lock
  <2>2. HandEmpty'
    BY <1>8 DEF ReturnLock, Lock
  <2>3. JobExclusive'
    BY <1>8 DEF ReturnLock, Lock
  <2>4. SlotsDistinct'
    BY <1>8 DEF ReturnLock, Lock
  <2>5. AddsToBucket'
    BY <1>8 DEF ReturnLock, Lock
  <2>6. QED
    BY <2>1, <2>2, <2>3, <2>4, <2>5
<1>9. CASE ReturnToken(b)
  <2>1. Clipped(token[b] + got[b]) \in 0 .. Burst
    BY <1>9 DEF ReturnToken, Clipped
  <2>2. token' \in [Buckets -> 0 .. Burst] /\ got' \in [Buckets -> 0 .. ReadSize]
    BY <1>9, <2>1 DEF ReturnToken
  <2>3. LedgerTypeOK'
    BY <1>9, <2>2 DEF ReturnToken, Unlock
  <2>4. HandEmpty'
    BY <1>9 DEF ReturnToken
  <2>5. JobExclusive'
    BY <1>9 DEF ReturnToken
  <2>6. SlotsDistinct'
    BY <1>9 DEF ReturnToken
  <2>7. AddsToBucket'
    BY <1>9 DEF ReturnToken
  <2>8. QED
    BY <2>3, <2>4, <2>5, <2>6, <2>7
<1>10. CASE UserExit(b)
  <2>1. LedgerTypeOK'
    BY <1>10 DEF UserExit
  <2>2. HandEmpty'
    BY <1>10 DEF UserExit
  <2>3. JobExclusive'
    BY <1>10 DEF UserExit
  <2>4. SlotsDistinct'
    BY <1>10 DEF UserExit
  <2>5. AddsToBucket'
    BY <1>10 DEF UserExit
  <2>6. QED
    BY <2>1, <2>2, <2>3, <2>4, <2>5
<1>11. QED
  BY <1>1, <1>2, <1>3, <1>4, <1>5, <1>6, <1>7, <1>8, <1>9, <1>10 DEF OtherUserStep

(* The handler's steps, the alarm and a read.                             *)
LEMMA HandlerStructure ==
  ASSUME Structure, TickSecond \/ (\E t \in Thread : BeginScan(t) \/ Add(t)
             \/ ((Deliver(t) \/ OtherHandlerStep(t)) /\ UNCHANGED ledger))
         \/ (\E b \in Buckets : Consume(b))
         \/ ((\E t \in Timers : TimerStart(t)) /\ UNCHANGED ledger)
  PROVE  Structure'
<1> USE ThreadFacts, MaxAssumption, RateAssumption
    DEF Structure, LedgerTypeOK, TypeOK, HandEmpty, JobExclusive,
           SlotsDistinct, AddsToBucket, Scanning, Slots, Location, At, Goto, Exited,
           bucketVars, threadVars, handlerVars, ledger
<1>1. CASE TickSecond
  <2>1. LedgerTypeOK'
    BY <1>1 DEF TickSecond, Tick
  <2>2. HandEmpty'
    BY <1>1 DEF TickSecond, Tick
  <2>3. JobExclusive'
    BY <1>1 DEF TickSecond, Tick
  <2>4. SlotsDistinct'
    BY <1>1 DEF TickSecond, Tick
  <2>5. AddsToBucket'
    BY <1>1 DEF TickSecond, Tick
  <2>6. QED
    BY <2>1, <2>2, <2>3, <2>4, <2>5
<1>2. ASSUME NEW t \in Thread, BeginScan(t)
      PROVE  Structure'
  <2>1. LedgerTypeOK'
    BY <1>2 DEF BeginScan, HandlerLock, LockJob
  <2>2. HandEmpty'
    BY <1>2 DEF BeginScan, HandlerLock, LockJob
  <2>3. JobExclusive'
    BY <1>2 DEF BeginScan, HandlerLock, LockJob
  <2>4. SlotsDistinct'
    BY <1>2 DEF BeginScan, HandlerLock, LockJob
  <2>5. AddsToBucket'
    BY <1>2 DEF BeginScan, HandlerLock, LockJob
  <2>6. QED
    BY <2>1, <2>2, <2>3, <2>4, <2>5
<1>3. ASSUME NEW t \in Thread, Add(t)
      PROVE  Structure'
  <2> DEFINE b == job[hpos[t]]
  <2>1. /\ b \in Buckets /\ hpos[t] \in Slots /\ hpc[t] = "add"
        /\ token' \in [Buckets -> 0 .. Burst] /\ added' \in [Buckets -> Nat]
        /\ hpos' \in [Thread -> 0 .. MYTBF_MAX]
        /\ hpc' = [hpc EXCEPT ![t] = "scan"] /\ mut' = [mut EXCEPT ![b] = Null]
        /\ pc' \in [Thread -> Location] /\ pc'[Main] = pc[Main]
        /\ \A c \in Buckets : pc'[c] = pc[c] \/ (pc[c] = "wait" /\ pc'[c] = "fetch")
        /\ UNCHANGED <<job, allocated, once_done, mut_job, me, got, alarm,
                       seconds, scans, used>>
    BY <1>3, AddEffect
  <2> HIDE DEF b
  <2>2. LedgerTypeOK'
    BY <2>1
  <2>3. HandEmpty'
    BY <2>1
  <2>4. JobExclusive'
    <3>1. hpc \in [Thread -> {"out", "lock", "scan", "add"}]
      OBVIOUS
    <3>2. \A u \in Thread : hpc'[u] \in {"scan", "add"} => hpc[u] \in {"scan", "add"}
      BY <2>1, <3>1
    <3>3. QED
      BY <2>1, <3>2, JobFrame
  <2>5. SlotsDistinct'
    BY <2>1, SlotsFrame
  <2>6. AddsToBucket'
    BY <2>1
  <2>7. QED
    BY <2>2, <2>3, <2>4, <2>5, <2>6
<1>4. ASSUME NEW b \in Buckets, Consume(b)
      PROVE  Structure'
  <2>1. /\ got' \in [Buckets -> 0 .. ReadSize] /\ used' \in [Buckets -> Nat]
        /\ \A c \in Buckets \ {b} : got'[c] = got[c]
        /\ \/ pc' = [pc EXCEPT ![b] = "return"]
           \/ pc' = [pc EXCEPT ![b] = "idle"] /\ got'[b] = 0
        /\ pc' \in [Thread -> Location] /\ pc[b] = "read"
        /\ UNCHANGED <<job, allocated, token, once_done, mut, mut_job, me, alarm, hpc,
                       hpos, seconds, scans, added>>
    BY <1>4, ConsumeEffect
  <2>2. LedgerTypeOK'
    BY <2>1
  <2>3. HandEmpty'
    BY <1>4, ConsumeHands
  <2>4. pc'[Main] = pc[Main]
    BY <2>1
  <2>5. JobExclusive'
    BY <2>1, <2>4, JobFrame
  <2>6. SlotsDistinct'
    BY <2>1, <2>4, SlotsFrame
  <2>7. AddsToBucket'
    BY <2>1
  <2>8. QED
    BY <2>2, <2>3, <2>5, <2>6, <2>7
<1>5. ASSUME NEW t \in Timers, TimerStart(t), UNCHANGED ledger
      PROVE  Structure'
  <2>1. LedgerTypeOK'
    BY <1>5 DEF TimerStart
  <2>2. HandEmpty'
    BY <1>5 DEF TimerStart
  <2>3. JobExclusive'
    BY <1>5 DEF TimerStart
  <2>4. SlotsDistinct'
    BY <1>5 DEF TimerStart
  <2>5. AddsToBucket'
    BY <1>5 DEF TimerStart
  <2>6. QED
    BY <2>1, <2>2, <2>3, <2>4, <2>5
<1>6. ASSUME NEW t \in Thread, Deliver(t), UNCHANGED ledger
      PROVE  Structure'
  <2>1. LedgerTypeOK'
    BY <1>6 DEF Deliver
  <2>2. HandEmpty'
    BY <1>6 DEF Deliver
  <2>3. JobExclusive'
    BY <1>6 DEF Deliver
  <2>4. SlotsDistinct'
    BY <1>6 DEF Deliver
  <2>5. AddsToBucket'
    BY <1>6 DEF Deliver
  <2>6. QED
    BY <2>1, <2>2, <2>3, <2>4, <2>5
<1>7. ASSUME NEW t \in Thread, HandlerSkip(t), UNCHANGED ledger
      PROVE  Structure'
  <2>1. LedgerTypeOK'
    BY <1>7, SMTT(30) DEF HandlerSkip
  <2>2. HandEmpty'
    BY <1>7 DEF HandlerSkip
  <2>3. JobExclusive'
    BY <1>7 DEF HandlerSkip
  <2>4. SlotsDistinct'
    BY <1>7 DEF HandlerSkip
  <2>5. AddsToBucket'
    BY <1>7 DEF HandlerSkip
  <2>6. QED
    BY <2>1, <2>2, <2>3, <2>4, <2>5
<1>8. ASSUME NEW t \in Thread, HandlerLockBucket(t), UNCHANGED ledger
      PROVE  Structure'
  <2>1. LedgerTypeOK'
    BY <1>8 DEF HandlerLockBucket, Lock
  <2>2. HandEmpty'
    BY <1>8 DEF HandlerLockBucket, Lock
  <2>3. JobExclusive'
    BY <1>8 DEF HandlerLockBucket, Lock
  <2>4. SlotsDistinct'
    BY <1>8 DEF HandlerLockBucket, Lock
  <2>5. AddsToBucket'
    BY <1>8 DEF HandlerLockBucket, Lock
  <2>6. QED
    BY <2>1, <2>2, <2>3, <2>4, <2>5
<1>9. ASSUME NEW t \in Thread, HandlerEnd(t), UNCHANGED ledger
      PROVE  Structure'
  <2>1. LedgerTypeOK'
    BY <1>9 DEF HandlerEnd
  <2>2. HandEmpty'
    BY <1>9 DEF HandlerEnd
  <2>3. JobExclusive'
    BY <1>9 DEF HandlerEnd
  <2>4. SlotsDistinct'
    BY <1>9 DEF HandlerEnd
  <2>5. AddsToBucket'
    BY <1>9 DEF HandlerEnd
  <2>6. QED
    BY <2>1, <2>2, <2>3, <2>4, <2>5
<1>10. QED
  BY <1>1, <1>2, <1>3, <1>4, <1>5, <1>6, <1>7, <1>8, <1>9 DEF OtherHandlerStep

LEMMA StructureNext ==
  ASSUME Structure, LedgerNext
  PROVE  Structure'
BY MainStructure, UserStructure, HandlerStructure DEF LedgerNext

LEMMA StructureStutter ==
  ASSUME Structure, UNCHANGED ledgerVars
  PROVE  Structure'
BY DEF Structure, LedgerTypeOK, TypeOK, HandEmpty, JobExclusive, SlotsDistinct, AddsToBucket,
       Scanning, ledgerVars, ledger, vars, bucketVars, threadVars, handlerVars

(***************************************************************************)
(* No token is made by a return: TokensConserved is preserved.             *)
(***************************************************************************)
LEMMA TimesNext ==
  ASSUME NEW c \in Nat, NEW a \in Nat
  PROVE  c * (a + 1) = c * a + c /\ c * a \in Nat
OBVIOUS

LEMMA ConservedFrame ==
  ASSUME TokensConserved, UNCHANGED <<token, got, used, added>>
  PROVE  TokensConserved'
BY DEF TokensConserved

LEMMA AddConserves ==
  ASSUME Structure, TokensConserved, NEW t \in Thread, Add(t)
  PROVE  TokensConserved'
<1> DEFINE b == job[hpos[t]]
<1>1. /\ b \in Buckets
      /\ token' \in [Buckets -> 0 .. Burst] /\ token'[b] <= token[b] + Cps
      /\ \A c \in Buckets \ {b} : token'[c] = token[c]
      /\ added'[b] = added[b] + 1
      /\ \A c \in Buckets \ {b} : added'[c] = added[c]
      /\ UNCHANGED <<got, used>>
  BY AddEffect
<1> HIDE DEF b
<1>2. SUFFICES ASSUME NEW c \in Buckets
               PROVE  used'[c] + got'[c] + token'[c] <= Cps * added'[c]
  BY DEF TokensConserved
<1>3. /\ used[c] \in Nat /\ got[c] \in Nat /\ token[c] \in Nat /\ added[c] \in Nat
      /\ token'[c] \in Nat /\ Cps \in Nat
  BY <1>1, RateAssumption DEF Structure, LedgerTypeOK, TypeOK
<1>4. used[c] + got[c] + token[c] <= Cps * added[c]
  BY DEF TokensConserved
<1>5. CASE c = b
  <2>1. Cps * added'[c] = Cps * added[c] + Cps /\ Cps * added[c] \in Nat
    BY <1>1, <1>3, <1>5, TimesNext
  <2>2. used'[c] = used[c] /\ got'[c] = got[c] /\ token'[c] <= token[c] + Cps
    BY <1>1, <1>5
  <2>3. QED
    BY <1>3, <1>4, <2>1, <2>2
<1>6. CASE c # b
  BY <1>1, <1>4, <1>6
<1>7. QED
  BY <1>5, <1>6

LEMMA ConsumeConserves ==
  ASSUME Structure, TokensConserved, NEW b \in Buckets, Consume(b)
  PROVE  TokensConserved'
<1>1. /\ \A c \in Buckets : used'[c] + got'[c] = used[c] + got[c]
      /\ UNCHANGED <<token, added>>
  BY ConsumeEffect
<1>2. QED
  BY <1>1 DEF TokensConserved

LEMMA FetchConserves ==
  ASSUME Structure, TokensConserved, NEW b \in Buckets, Fetch(b), UNCHANGED ledger
  PROVE  TokensConserved'
<1> DEFINE n == IF token[b] < ReadSize THEN token[b] ELSE ReadSize
<1>1. /\ token' = [token EXCEPT ![b] = @ - n] /\ got' = [got EXCEPT ![b] = n]
      /\ UNCHANGED <<used, added>> /\ pc[b] = "test"
  BY DEF Fetch, ledger, At
<1>2. /\ token \in [Buckets -> 0 .. Burst] /\ got \in [Buckets -> 0 .. ReadSize]
      /\ used \in [Buckets -> Nat] /\ got[b] = 0
  BY <1>1 DEF Structure, LedgerTypeOK, TypeOK, HandEmpty
<1>3. n \in Nat
  BY <1>2, RateAssumption
<1> HIDE DEF n
<1>4. /\ token'[b] = token[b] - n /\ got'[b] = n
      /\ \A c \in Buckets \ {b} : token'[c] = token[c] /\ got'[c] = got[c]
  BY <1>1, <1>2
<1>5. token[b] \in Nat /\ used[b] \in Nat
  BY <1>2, RateAssumption
<1>6. used'[b] + got'[b] + token'[b] = used[b] + got[b] + token[b]
  BY <1>1, <1>2, <1>3, <1>4, <1>5
<1>7. QED
  BY <1>1, <1>4, <1>6 DEF TokensConserved

LEMMA ReturnConserves ==
  ASSUME Structure, TokensConserved, NEW b \in Buckets, ReturnToken(b), UNCHANGED ledger
  PROVE  TokensConserved'
<1>1. /\ token' = [token EXCEPT ![b] = Clipped(token[b] + got[b])]
      /\ got' = [got EXCEPT ![b] = 0]
      /\ UNCHANGED <<used, added>>
  BY DEF ReturnToken, ledger
<1>2. /\ token \in [Buckets -> 0 .. Burst] /\ got \in [Buckets -> 0 .. ReadSize]
      /\ used \in [Buckets -> Nat] /\ added \in [Buckets -> Nat] /\ Cps \in Nat
  BY RateAssumption DEF Structure, LedgerTypeOK, TypeOK
<1>3. token[b] \in Nat /\ got[b] \in Nat /\ used[b] \in Nat /\ Cps * added[b] \in Nat
  BY <1>2, TimesNext
<1>4. Clipped(token[b] + got[b]) \in Nat /\ Clipped(token[b] + got[b]) <= token[b] + got[b]
  BY <1>3, ClippedBounds
<1>5. /\ token'[b] = Clipped(token[b] + got[b]) /\ got'[b] = 0
      /\ \A c \in Buckets \ {b} : token'[c] = token[c] /\ got'[c] = got[c]
  BY <1>1, <1>2
<1>6. used[b] + got[b] + token[b] <= Cps * added[b]
  BY DEF TokensConserved
<1>7. used'[b] + got'[b] + token'[b] <= Cps * added'[b]
  BY <1>1, <1>3, <1>4, <1>5, <1>6
<1>8. QED
  BY <1>1, <1>5, <1>7 DEF TokensConserved

LEMMA MallocConserves ==
  ASSUME Structure, TokensConserved, NEW b \in Buckets, Malloc(b), UNCHANGED ledger
  PROVE  TokensConserved'
<1>1. /\ token' = [token EXCEPT ![b] = 0] /\ UNCHANGED <<got, used, added>>
  BY DEF Malloc, ledger
<1>2. /\ token \in [Buckets -> 0 .. Burst] /\ got \in [Buckets -> 0 .. ReadSize]
      /\ used \in [Buckets -> Nat] /\ added \in [Buckets -> Nat] /\ Cps \in Nat
  BY RateAssumption DEF Structure, LedgerTypeOK, TypeOK
<1>3. token[b] \in Nat /\ got[b] \in Nat /\ used[b] \in Nat /\ Cps * added[b] \in Nat
  BY <1>2, TimesNext
<1>4. token'[b] = 0 /\ \A c \in Buckets \ {b} : token'[c] = token[c]
  BY <1>1, <1>2
<1>5. used[b] + got[b] + token[b] <= Cps * added[b]
  BY DEF TokensConserved
<1>6. used'[b] + got'[b] + token'[b] <= Cps * added'[b]
  BY <1>1, <1>3, <1>4, <1>5
<1>7. QED
  BY <1>1, <1>4, <1>6 DEF TokensConserved

LEMMA ConservedNext ==
  ASSUME Structure, TokensConserved, LedgerNext
  PROVE  TokensConserved'
<1>1. CASE TickSecond
  BY <1>1, ConservedFrame DEF TickSecond, Tick, bucketVars, threadVars
<1>2. ASSUME NEW t \in Thread, BeginScan(t)
      PROVE  TokensConserved'
  BY <1>2, ConservedFrame DEF BeginScan, HandlerLock, bucketVars, threadVars
<1>3. CASE MainStep /\ UNCHANGED ledger
  <2>1. ASSUME NEW b \in Buckets, Malloc(b)
        PROVE  TokensConserved'
    BY <1>3, <2>1, MallocConserves
  <2>2. CASE \/ InitCall \/ Load \/ LoadOnce \/ LoadFails \/ NoMemory \/ InitLock \/ Register
             \/ NoFreePos \/ (\E b \in Buckets : CreateUser(b) \/ DestroyCall(b))
             \/ DestroyLock \/ Unregister \/ Free
    <3>1. UNCHANGED <<token, got>>
      BY <2>2 DEF InitCall, Load, LoadOnce, LoadFails, NoMemory, InitLock, Register, NoFreePos,
                  CreateUser, DestroyCall, DestroyLock, Unregister, Free, bucketVars
    <3>2. QED
      BY <1>3, <3>1, ConservedFrame DEF ledger
  <2>3. QED
    BY <1>3, <2>1, <2>2 DEF MainStep
<1>4. ASSUME NEW b \in Buckets, OtherUserStep(b), UNCHANGED ledger
      PROVE  TokensConserved'
  <2>1. CASE Fetch(b)
    BY <1>4, <2>1, FetchConserves
  <2>2. CASE ReturnToken(b)
    BY <1>4, <2>2, ReturnConserves
  <2>3. CASE \/ FetchCall(b) \/ FetchLock(b) \/ FetchWait(b) \/ FetchSpurious(b) \/ CheckLock(b)
             \/ Check(b) \/ ReturnLock(b) \/ UserExit(b)
    BY <1>4, <2>3, ConservedFrame DEF FetchCall, FetchLock, FetchWait, FetchSpurious, CheckLock,
       Check, ReturnLock, UserExit, bucketVars, ledger
  <2>4. QED
    BY <1>4, <2>1, <2>2, <2>3 DEF OtherUserStep
<1>5. ASSUME NEW t \in Thread, Deliver(t) \/ OtherHandlerStep(t), UNCHANGED ledger
      PROVE  TokensConserved'
  BY <1>5, ConservedFrame DEF Deliver, OtherHandlerStep, HandlerSkip, HandlerLockBucket,
     HandlerEnd, bucketVars, threadVars, ledger
<1>6. ASSUME NEW t \in Timers, TimerStart(t), UNCHANGED ledger
      PROVE  TokensConserved'
  BY <1>6, ConservedFrame DEF TimerStart, bucketVars, ledger
<1>7. QED
  BY <1>1, <1>2, <1>3, <1>4, <1>5, <1>6, AddConserves, ConsumeConserves DEF LedgerNext

(***************************************************************************)
(* A scan adds to a bucket once at most: AddedOncePerScan is preserved.    *)
(***************************************************************************)
(* Steps that only end a scan or move it on.                               *)
LEMMA OnceFrame ==
  ASSUME Structure, AddedOncePerScan, UNCHANGED <<job, added, scans>>, hpos' \in [Thread -> Int],
         \A u \in Thread : hpc'[u] \in {"scan", "add"} =>
                             hpc[u] \in {"scan", "add"} /\ hpos[u] <= hpos'[u]
  PROVE  AddedOncePerScan'
<1>1. hpos \in [Thread -> Int] /\ Slots \subseteq Int
  BY MaxAssumption DEF Structure, LedgerTypeOK, TypeOK, Slots
<1>2. SUFFICES ASSUME NEW b \in Buckets
               PROVE  /\ added'[b] <= scans'
                      /\ \A t \in Thread, i \in Slots :
                           (hpc'[t] \in {"scan", "add"} /\ job'[i] = b /\ hpos'[t] <= i)
                             => added'[b] < scans'
  BY DEF AddedOncePerScan, Scanning
<1>3. added'[b] <= scans'
  BY DEF AddedOncePerScan
<1>4. ASSUME NEW t \in Thread, NEW i \in Slots,
             hpc'[t] \in {"scan", "add"}, job'[i] = b, hpos'[t] <= i
      PROVE  added'[b] < scans'
  <2>1. hpc[t] \in {"scan", "add"} /\ hpos[t] <= hpos'[t]
    BY <1>4
  <2>2. hpos[t] <= i
    BY <1>1, <1>4, <2>1
  <2>3. QED
    BY <1>4, <2>1, <2>2 DEF AddedOncePerScan, Scanning
<1>5. QED
  BY <1>3, <1>4

(* Steps after which no handler scans: the main thread holds mut_job.      *)
LEMMA OnceNoScan ==
  ASSUME AddedOncePerScan, UNCHANGED <<added, scans>>,
         \A u \in Thread : hpc'[u] \notin {"scan", "add"}
  PROVE  AddedOncePerScan'
BY DEF AddedOncePerScan, Scanning

LEMMA BeginOnce ==
  ASSUME Structure, AddedOncePerScan, NEW t \in Thread, BeginScan(t)
  PROVE  AddedOncePerScan'
<1>1. scans' = scans + 1 /\ added' = added
  BY DEF BeginScan
<1>2. scans \in Nat /\ added \in [Buckets -> Nat]
  BY DEF Structure, LedgerTypeOK
<1>3. ASSUME NEW b \in Buckets
      PROVE  added'[b] < scans' /\ added'[b] <= scans'
  <2>1. added[b] <= scans /\ added[b] \in Nat
    BY <1>2 DEF AddedOncePerScan
  <2>2. QED
    BY <1>1, <1>2, <2>1
<1>4. QED
  BY <1>3 DEF AddedOncePerScan

LEMMA AddOnce ==
  ASSUME Structure, AddedOncePerScan, NEW t \in Thread, Add(t)
  PROVE  AddedOncePerScan'
<1> DEFINE b == job[hpos[t]]
<1>1. /\ b \in Buckets /\ hpos[t] \in Slots /\ hpc[t] = "add"
      /\ added'[b] = added[b] + 1
      /\ \A c \in Buckets \ {b} : added'[c] = added[c]
      /\ hpos' = [hpos EXCEPT ![t] = hpos[t] + 1] /\ hpc' = [hpc EXCEPT ![t] = "scan"]
      /\ UNCHANGED <<job, mut_job, scans>>
  BY AddEffect
<1>2. /\ hpos \in [Thread -> Int] /\ Slots \subseteq Int /\ scans \in Nat
      /\ added \in [Buckets -> Nat] /\ hpc \in [Thread -> {"out", "lock", "scan", "add"}]
  BY MaxAssumption DEF Structure, LedgerTypeOK, TypeOK, Slots
<1>3. b # Null
  BY <1>1, ThreadFacts
<1>4. added[b] < scans
  BY <1>1, <1>2 DEF AddedOncePerScan, Scanning
<1>5. \A u \in Thread : hpc'[u] \in {"scan", "add"} => u = t
  <2>1. \A u \in Thread : hpc'[u] \in {"scan", "add"} => hpc[u] \in {"scan", "add"}
    BY <1>1, <1>2
  <2>2. QED
    BY <1>1, <2>1 DEF Structure, JobExclusive, Scanning
<1>6. hpos'[t] = hpos[t] + 1
  BY <1>1, <1>2
<1>7. \A i \in Slots : job[i] = b => i = hpos[t]
  BY <1>1, <1>3 DEF Structure, SlotsDistinct
<1> HIDE DEF b
<1>8. SUFFICES ASSUME NEW c \in Buckets
               PROVE  /\ added'[c] <= scans'
                      /\ \A u \in Thread, i \in Slots :
                           (hpc'[u] \in {"scan", "add"} /\ job'[i] = c /\ hpos'[u] <= i)
                             => added'[c] < scans'
  BY DEF AddedOncePerScan, Scanning
<1>9. CASE c = b
  <2>1. added'[c] <= scans'
    BY <1>1, <1>2, <1>4, <1>9
  <2>2. ASSUME NEW i \in Slots, job'[i] = c, hpos'[t] <= i
        PROVE  FALSE
    <3>1. i = hpos[t]
      BY <1>1, <1>7, <1>9, <2>2
    <3>2. QED
      BY <1>2, <1>6, <2>2, <3>1
  <2>3. QED
    BY <1>5, <2>1, <2>2
<1>10. CASE c # b
  <2>1. added'[c] = added[c] /\ scans' = scans
    BY <1>1, <1>10
  <2>2. added[c] <= scans
    BY DEF AddedOncePerScan
  <2>3. ASSUME NEW i \in Slots, job'[i] = c, hpos'[t] <= i
        PROVE  added[c] < scans
    <3>1. hpos[t] <= i
      BY <1>2, <1>6, <2>3
    <3>2. QED
      BY <1>1, <2>3, <3>1 DEF AddedOncePerScan, Scanning
  <2>4. QED
    BY <1>5, <2>1, <2>2, <2>3
<1>11. QED
  BY <1>9, <1>10

LEMMA OnceNext ==
  ASSUME Structure, AddedOncePerScan, LedgerNext
  PROVE  AddedOncePerScan'
<1>1. /\ hpos \in [Thread -> Int] /\ hpc \in [Thread -> {"out", "lock", "scan", "add"}]
      /\ \A u \in Thread : hpos[u] <= hpos[u]
  BY MaxAssumption DEF Structure, LedgerTypeOK, TypeOK
<1>2. CASE TickSecond
  <2>1. UNCHANGED <<job, added, scans, hpc, hpos>>
    BY <1>2 DEF TickSecond, Tick, bucketVars
  <2>2. QED
    BY <1>1, <2>1, OnceFrame
<1>3. CASE MainStep /\ UNCHANGED ledger
  <2>1. UNCHANGED <<added, scans, hpc, hpos>>
    BY <1>3 DEF MainStep, InitCall, Load, LoadOnce, LoadFails, Malloc, NoMemory, InitLock, Register,
       NoFreePos, CreateUser, DestroyCall, DestroyLock, Unregister, Free, handlerVars, ledger
  <2>2. CASE Register \/ Unregister
    <3>1. pc[Main] \in {"register", "unregister"}
      BY <2>2 DEF Register, Unregister, At
    <3>2. \A u \in Thread : hpc[u] \notin {"scan", "add"}
      BY <3>1 DEF Structure, JobExclusive, Scanning
    <3>3. QED
      BY <2>1, <3>2, OnceNoScan
  <2>3. CASE \/ InitCall \/ Load \/ LoadOnce \/ LoadFails \/ NoMemory \/ InitLock \/ NoFreePos
             \/ (\E b \in Buckets : Malloc(b) \/ CreateUser(b) \/ DestroyCall(b))
             \/ DestroyLock \/ Free
    <3>1. job' = job
      BY <2>3 DEF InitCall, Load, LoadOnce, LoadFails, NoMemory, InitLock, NoFreePos, Malloc,
                  CreateUser, DestroyCall, DestroyLock, Free, bucketVars
    <3>2. QED
      BY <1>1, <2>1, <3>1, OnceFrame
  <2>4. QED
    BY <1>3, <2>2, <2>3 DEF MainStep
<1>4. ASSUME NEW b \in Buckets, (OtherUserStep(b) /\ UNCHANGED ledger) \/ Consume(b)
      PROVE  AddedOncePerScan'
  <2>1. UNCHANGED <<job, added, scans, hpc, hpos>>
    BY <1>4 DEF OtherUserStep, FetchCall, FetchLock, FetchWait, FetchSpurious, Fetch, CheckLock,
       Check, ReturnLock, ReturnToken, UserExit, Consume, ReadFile, bucketVars, handlerVars, ledger
  <2>2. QED
    BY <1>1, <2>1, OnceFrame
<1>5. ASSUME NEW t \in Timers, TimerStart(t), UNCHANGED ledger
      PROVE  AddedOncePerScan'
  <2>1. UNCHANGED <<job, added, scans, hpc, hpos>>
    BY <1>5 DEF TimerStart, bucketVars, handlerVars, ledger
  <2>2. QED
    BY <1>1, <2>1, OnceFrame
<1>6. ASSUME NEW t \in Thread,
             Deliver(t) \/ HandlerLockBucket(t) \/ HandlerEnd(t), UNCHANGED ledger
      PROVE  AddedOncePerScan'
  <2>1. /\ UNCHANGED <<job, added, scans, hpos>>
        /\ \/ hpc' = [hpc EXCEPT ![t] = "lock"]
           \/ hpc' = [hpc EXCEPT ![t] = "add"] /\ hpc[t] = "scan"
           \/ hpc' = [hpc EXCEPT ![t] = "out"]
    BY <1>6 DEF Deliver, HandlerLockBucket, HandlerEnd, bucketVars, ledger
  <2>2. \A u \in Thread : hpc'[u] \in {"scan", "add"} => hpc[u] \in {"scan", "add"}
    BY <1>1, <2>1
  <2>3. QED
    BY <1>1, <2>1, <2>2, OnceFrame
<1>7. ASSUME NEW t \in Thread, HandlerSkip(t), UNCHANGED ledger
      PROVE  AddedOncePerScan'
  <2>1. UNCHANGED <<job, added, scans, hpc>> /\ hpos' = [hpos EXCEPT ![t] = @ + 1]
    BY <1>7 DEF HandlerSkip, bucketVars, ledger
  <2>2. hpos' \in [Thread -> Int] /\ \A u \in Thread : hpos[u] <= hpos'[u]
    BY <1>1, <2>1
  <2>3. QED
    BY <2>1, <2>2, OnceFrame
<1>8. QED
  BY <1>2, <1>3, <1>4, <1>5, <1>6, <1>7, BeginOnce, AddOnce DEF LedgerNext, OtherHandlerStep

(***************************************************************************)
(* Every scan stems from an alarm of its own: AlarmsScanned is preserved.  *)
(***************************************************************************)
Locking == {t \in Thread : hpc[t] = "lock"}

LEMMA LockingFinite == IsFiniteSet(Locking) /\ Cardinality(Locking) \in Nat
<1>1. Locking \subseteq Thread
  BY DEF Locking
<1>2. QED
  BY <1>1, ThreadFinite, FS_Subset, FS_CardinalityType

LEMMA AlarmsFrame ==
  ASSUME AlarmsScanned, UNCHANGED <<scans, seconds, alarm>>,
         \A u \in Thread : hpc'[u] = "lock" <=> hpc[u] = "lock"
  PROVE  AlarmsScanned'
<1>1. {t \in Thread : hpc'[t] = "lock"} = {t \in Thread : hpc[t] = "lock"}
  OBVIOUS
<1>2. QED
  BY <1>1 DEF AlarmsScanned

LEMMA TickAlarms ==
  ASSUME Structure, AlarmsScanned, TickSecond
  PROVE  AlarmsScanned'
<1>1. ~ alarm /\ alarm' = TRUE /\ seconds' = seconds + 1 /\ UNCHANGED <<scans, hpc>>
  BY DEF TickSecond, Tick
<1>2. seconds \in Nat /\ scans \in Nat
  BY DEF Structure, LedgerTypeOK
<1>3. Locking' = Locking
  BY <1>1 DEF Locking
<1>4. scans + Cardinality(Locking) + 0 <= seconds
  BY <1>1 DEF AlarmsScanned, Locking
<1>5. scans' + Cardinality(Locking') + 1 <= seconds'
  BY <1>1, <1>2, <1>3, <1>4, LockingFinite
<1>6. QED
  BY <1>1, <1>5 DEF AlarmsScanned, Locking

LEMMA DeliverAlarms ==
  ASSUME Structure, AlarmsScanned, NEW t \in Thread, Deliver(t), UNCHANGED ledger
  PROVE  AlarmsScanned'
<1>1. /\ alarm = TRUE /\ alarm' = FALSE /\ hpc[t] = "out"
      /\ hpc' = [hpc EXCEPT ![t] = "lock"] /\ UNCHANGED <<scans, seconds>>
  BY DEF Deliver, ledger, Structure, LedgerTypeOK, TypeOK
<1>2. seconds \in Nat /\ scans \in Nat /\ hpc \in [Thread -> {"out", "lock", "scan", "add"}]
  BY DEF Structure, LedgerTypeOK, TypeOK
<1>3. Locking' = Locking \cup {t} /\ t \notin Locking
  BY <1>1, <1>2 DEF Locking
<1>4. Cardinality(Locking') = Cardinality(Locking) + 1
  BY <1>3, LockingFinite, FS_AddElement
<1>5. scans + Cardinality(Locking) + 1 <= seconds
  BY <1>1 DEF AlarmsScanned, Locking
<1>6. scans' + Cardinality(Locking') + 0 <= seconds'
  BY <1>1, <1>2, <1>4, <1>5, LockingFinite
<1>7. QED
  BY <1>1, <1>6 DEF AlarmsScanned, Locking

LEMMA BeginAlarms ==
  ASSUME Structure, AlarmsScanned, NEW t \in Thread, BeginScan(t)
  PROVE  AlarmsScanned'
<1>1. /\ hpc[t] = "lock" /\ hpc' = [hpc EXCEPT ![t] = "scan"]
      /\ scans' = scans + 1 /\ UNCHANGED <<seconds, alarm>>
  BY DEF BeginScan, HandlerLock
<1>2. seconds \in Nat /\ scans \in Nat /\ hpc \in [Thread -> {"out", "lock", "scan", "add"}]
  BY DEF Structure, LedgerTypeOK, TypeOK
<1>3. Locking' = Locking \ {t} /\ t \in Locking
  BY <1>1, <1>2 DEF Locking
<1>4. Cardinality(Locking') = Cardinality(Locking) - 1
  BY <1>3, LockingFinite, FS_RemoveElement
<1> DEFINE a == IF alarm THEN 1 ELSE 0
<1>5. scans + Cardinality(Locking) + a <= seconds /\ a \in Nat /\ a' = a
  BY <1>1 DEF AlarmsScanned, Locking
<1> HIDE DEF a
<1>6. scans' + Cardinality(Locking') + a' <= seconds'
  BY <1>1, <1>2, <1>4, <1>5, LockingFinite
<1>7. QED
  BY <1>6 DEF AlarmsScanned, Locking, a

LEMMA AlarmsNext ==
  ASSUME Structure, AlarmsScanned, LedgerNext
  PROVE  AlarmsScanned'
<1>1. hpc \in [Thread -> {"out", "lock", "scan", "add"}]
  BY DEF Structure, LedgerTypeOK, TypeOK
<1>2. CASE MainStep /\ UNCHANGED ledger
  <2>1. UNCHANGED <<scans, seconds, alarm, hpc>>
    BY <1>2 DEF MainStep, InitCall, Load, LoadOnce, LoadFails, Malloc, NoMemory, InitLock, Register,
       NoFreePos, CreateUser, DestroyCall, DestroyLock, Unregister, Free, handlerVars, ledger
  <2>2. QED
    BY <2>1, AlarmsFrame
<1>3. ASSUME NEW b \in Buckets, (OtherUserStep(b) /\ UNCHANGED ledger) \/ Consume(b)
      PROVE  AlarmsScanned'
  <2>1. UNCHANGED <<scans, seconds, alarm, hpc>>
    BY <1>3 DEF OtherUserStep, FetchCall, FetchLock, FetchWait, FetchSpurious, Fetch, CheckLock,
       Check, ReturnLock, ReturnToken, UserExit, Consume, ReadFile, handlerVars, ledger
  <2>2. QED
    BY <2>1, AlarmsFrame
<1>4. ASSUME NEW t \in Timers, TimerStart(t), UNCHANGED ledger
      PROVE  AlarmsScanned'
  <2>1. UNCHANGED <<scans, seconds, alarm, hpc>>
    BY <1>4 DEF TimerStart, handlerVars, ledger
  <2>2. QED
    BY <2>1, AlarmsFrame
<1>5. ASSUME NEW t \in Thread, Add(t) \/ (OtherHandlerStep(t) /\ UNCHANGED ledger)
      PROVE  AlarmsScanned'
  <2>1. /\ UNCHANGED <<scans, seconds, alarm>>
        /\ \/ hpc' = [hpc EXCEPT ![t] = "scan"] /\ hpc[t] = "add"
           \/ hpc' = hpc
           \/ hpc' = [hpc EXCEPT ![t] = "add"] /\ hpc[t] = "scan"
           \/ hpc' = [hpc EXCEPT ![t] = "out"] /\ hpc[t] = "scan"
    BY <1>5 DEF Add, HandlerAdd, OtherHandlerStep, HandlerSkip, HandlerLockBucket, HandlerEnd, ledger
  <2>2. \A u \in Thread : hpc'[u] = "lock" <=> hpc[u] = "lock"
    BY <1>1, <2>1
  <2>3. QED
    BY <2>1, <2>2, AlarmsFrame
<1>6. QED
  BY <1>2, <1>3, <1>4, <1>5, TickAlarms, DeliverAlarms, BeginAlarms DEF LedgerNext

(***************************************************************************)
(* The theorems.                                                           *)
(***************************************************************************)
LEMMA LedgerInvInit == LedgerInit => LedgerInv
<1>1. SUFFICES ASSUME LedgerInit PROVE LedgerInv
  OBVIOUS
<1>0. scans = 0 /\ seconds = 0 /\ alarm = FALSE /\ {t \in Thread : hpc[t] = "lock"} = {}
  BY <1>1 DEF LedgerInit, Init
<1>8. AlarmsScanned
  <2>1. Cardinality({t \in Thread : hpc[t] = "lock"}) = 0
    BY <1>0, FS_EmptySet
  <2>2. QED
    BY <1>0, <2>1 DEF AlarmsScanned
<1> USE <1>1, ThreadFacts, MaxAssumption, RateAssumption DEF LedgerInit, Init
<1>2. TypeOK
  <2>1. job \in [Slots -> Buckets \cup {Null}] /\ allocated \subseteq Buckets
    OBVIOUS
  <2>2. /\ token \in [Buckets -> 0 .. Burst] /\ got \in [Buckets -> 0 .. ReadSize]
        /\ hpos \in [Thread -> 0 .. MYTBF_MAX]
    OBVIOUS
  <2>3. mut \in [Buckets -> Thread \cup {Null}] /\ mut_job \in Thread \cup {Null}
    OBVIOUS
  <2>4. pc \in [Thread -> Location] /\ hpc \in [Thread -> {"out", "lock", "scan", "add"}]
    BY DEF Location
  <2>5. QED
    BY <2>1, <2>2, <2>3, <2>4 DEF TypeOK
<1>3. LedgerTypeOK
  BY <1>2 DEF LedgerTypeOK
<1>4. HandEmpty /\ JobExclusive /\ AddsToBucket
  BY DEF HandEmpty, JobExclusive, AddsToBucket, Scanning
<1>5. SlotsDistinct
  BY DEF SlotsDistinct
<1>6. TokensConserved
  BY DEF TokensConserved
<1>7. AddedOncePerScan
  BY DEF AddedOncePerScan, Scanning
<1>9. QED
  BY <1>3, <1>4, <1>5, <1>6, <1>7, <1>8 DEF LedgerInv

LEMMA LedgerInvNext == LedgerInv /\ [LedgerNext]_ledgerVars => LedgerInv'
<1>1. SUFFICES ASSUME LedgerInv, [LedgerNext]_ledgerVars PROVE LedgerInv'
  OBVIOUS
<1>2. Structure /\ TokensConserved /\ AddedOncePerScan /\ AlarmsScanned
  BY <1>1 DEF LedgerInv, Structure
<1>3. CASE LedgerNext
  BY <1>2, <1>3, StructureNext, ConservedNext, OnceNext, AlarmsNext DEF LedgerInv, Structure
<1>4. CASE UNCHANGED ledgerVars
  <2>1. UNCHANGED <<job, token, got, alarm, hpc, hpos, seconds, scans, added, used>>
    BY <1>4 DEF ledgerVars, ledger, vars, bucketVars, threadVars, handlerVars
  <2>2. Structure'
    BY <1>2, <1>4, StructureStutter
  <2>3. TokensConserved'
    BY <1>2, <2>1, ConservedFrame
  <2>4. AddedOncePerScan'
    BY <1>2, <2>1 DEF AddedOncePerScan, Scanning
  <2>5. AlarmsScanned'
    BY <1>2, <2>1, AlarmsFrame
  <2>6. QED
    BY <2>2, <2>3, <2>4, <2>5 DEF LedgerInv, Structure
<1>5. QED
  BY <1>1, <1>3, <1>4

(* LedgerInv, the inductive invariant of the paced server: its type, who    *)
(* holds mut_job, which slot a bucket is in, and the three counting         *)
(* inequalities, whatever thread the alarm handler runs on                  *)
(* (mytbf.c:38-69,94-170).                                                  *)
THEOREM LedgerInvariance == LedgerSafety => []LedgerInv
BY LedgerInvInit, LedgerInvNext, PTL DEF LedgerSafety

(* The bytes read, the tokens in hand and those in the bucket were all      *)
(* added by the handler: neither a fetch nor a return that races with an    *)
(* addition ever makes a token (mytbf.c:38-52,137-158).                     *)
THEOREM NoTokenIsMade == LedgerSafety => []TokensConserved
<1>1. LedgerInv => TokensConserved
  BY DEF LedgerInv
<1>2. QED
  BY <1>1, LedgerInvariance, PTL

LEMMA TimesMonotone ==
  ASSUME NEW c \in Nat, NEW a \in Nat, NEW d \in Nat, a <= d
  PROVE  c * a <= c * d
OBVIOUS

(* No handler scans without an alarm of its own.                            *)
LEMMA ScansWithinSeconds == ASSUME LedgerInv PROVE scans <= seconds
<1> DEFINE a == IF alarm THEN 1 ELSE 0
<1>1. scans + Cardinality(Locking) + a <= seconds
  BY DEF LedgerInv, AlarmsScanned, Locking
<1>2. a \in Nat /\ scans \in Nat /\ seconds \in Nat
  BY DEF LedgerInv, LedgerTypeOK
<1> HIDE DEF a
<1>3. QED
  BY <1>1, <1>2, LockingFinite

LEMMA InvImpliesRate == LedgerInv => RateBound
<1>1. SUFFICES ASSUME LedgerInv, NEW b \in Buckets
               PROVE  used[b] <= Cps * seconds
  BY DEF RateBound
<1>2. /\ used[b] \in Nat /\ got[b] \in Nat /\ token[b] \in Nat /\ added[b] \in Nat
      /\ scans \in Nat /\ seconds \in Nat /\ Cps \in Nat
  BY <1>1, RateAssumption DEF LedgerInv, LedgerTypeOK, TypeOK
<1>3. added[b] <= scans
  BY <1>1 DEF LedgerInv, AddedOncePerScan
<1>4. scans <= seconds
  BY <1>1, ScansWithinSeconds
<1>5. Cps * added[b] <= Cps * seconds
  <2>1. added[b] <= seconds
    BY <1>2, <1>3, <1>4
  <2>2. QED
    BY <1>2, <2>1, TimesMonotone
<1>6. used[b] + got[b] + token[b] <= Cps * added[b]
  BY <1>1 DEF LedgerInv, TokensConserved
<1>7. Cps * added[b] \in Nat /\ Cps * seconds \in Nat
  BY <1>2, TimesNext
<1>8. QED
  BY <1>2, <1>5, <1>6, <1>7

(* No channel reads more than Cps bytes per second of the alarm, with any   *)
(* number of buckets, timer threads and slots and on whatever threads the   *)
(* handler runs (mytbf.c:38-69,104-108).                                    *)
THEOREM ChannelsArePaced == LedgerSafety => []RateBound
BY LedgerInvariance, InvImpliesRate, PTL

(***************************************************************************)
(* The buckets are a rate limiter.                                         *)
(***************************************************************************)
LimiterFrame == UNCHANGED <<seconds, token, added, got, used>>

LEMMA LimiterStutter ==
  ASSUME LimiterFrame
  PROVE  UNCHANGED Limiter!vars
BY DEF LimiterFrame, Limiter!vars

(* An addition credits a bucket with a second it has not had yet.           *)
LEMMA AddCredits ==
  ASSUME LedgerInv, NEW t \in Thread, Add(t)
  PROVE  \E b \in Buckets : Limiter!Credit(b)
<1> DEFINE b == job[hpos[t]]
<1>1. Structure /\ AddedOncePerScan
  BY DEF LedgerInv, Structure
<1>2. b \in Buckets /\ hpos[t] \in Slots /\ hpc[t] = "add"
  BY <1>1, AddEffect
<1>3. /\ token' = [token EXCEPT ![b] = Clipped(token[b] + Cps)]
      /\ added' = [added EXCEPT ![b] = added[b] + 1]
      /\ UNCHANGED <<seconds, got, used>>
  BY DEF Add, HandlerAdd
<1>4. hpos[t] \in Int
  BY <1>2, MaxAssumption DEF Slots
<1> HIDE DEF b
<1>5. added[b] < scans
  <2>1. job[hpos[t]] = b /\ hpos[t] <= hpos[t]
    BY <1>4 DEF b
  <2>2. QED
    BY <1>1, <1>2, <2>1 DEF AddedOncePerScan, Scanning
<1>6. added[b] < seconds
  <2>1. scans <= seconds /\ scans \in Nat /\ seconds \in Nat /\ added[b] \in Nat
    BY <1>1, <1>2, ScansWithinSeconds DEF Structure, LedgerTypeOK
  <2>2. QED
    BY <1>5, <2>1
<1>7. Limiter!Credit(b)
  BY <1>3, <1>6 DEF Limiter!Credit, Limiter!AtMost, Clipped
<1>8. QED
  BY <1>2, <1>7

LEMMA FetchTakes ==
  ASSUME LedgerInv, NEW b \in Buckets, Fetch(b), UNCHANGED ledger
  PROVE  Limiter!Take(b)
<1> DEFINE n == IF token[b] < ReadSize THEN token[b] ELSE ReadSize
<1>1. /\ token' = [token EXCEPT ![b] = token[b] - n] /\ got' = [got EXCEPT ![b] = n]
      /\ UNCHANGED <<seconds, added, used>> /\ pc[b] = "test" /\ token[b] > 0
  BY DEF Fetch, ledger, At
<1>2. got[b] = 0 /\ token[b] \in Nat /\ ReadSize \in Nat /\ ReadSize > 0
  BY <1>1, RateAssumption DEF LedgerInv, LedgerTypeOK, TypeOK, HandEmpty
<1>3. n \in 1 .. ReadSize /\ n <= token[b]
  BY <1>1, <1>2
<1> HIDE DEF n
<1>4. QED
  BY <1>1, <1>2, <1>3 DEF Limiter!Take

LEMMA ConsumeSpends ==
  ASSUME LedgerInv, NEW b \in Buckets, Consume(b)
  PROVE  Limiter!Spend(b) \/ LimiterFrame
<1>1. PICK len \in 0 .. got[b] : got' = [got EXCEPT ![b] = got[b] - len]
  BY DEF Consume, ReadFile
<1>2. /\ UNCHANGED <<token, seconds, added>>
      /\ used' = [used EXCEPT ![b] = used[b] + (got[b] - got'[b])]
  BY DEF Consume, ReadFile, bucketVars
<1>3. got \in [Buckets -> 0 .. ReadSize] /\ used \in [Buckets -> Nat]
  BY DEF LedgerInv, LedgerTypeOK, TypeOK
<1>4. got[b] \in Nat /\ len \in Nat /\ got'[b] = got[b] - len /\ used[b] \in Nat
  BY <1>1, <1>3, RateAssumption
<1>5. got[b] - got'[b] = len
  BY <1>4
<1>6. used' = [used EXCEPT ![b] = used[b] + len]
  BY <1>2, <1>5
<1>7. CASE len = 0
  <2>1. got[b] - len = got[b] /\ used[b] + len = used[b]
    BY <1>4, <1>7
  <2>2. got' = got /\ used' = used
    BY <1>1, <1>3, <1>6, <2>1
  <2>3. QED
    BY <1>2, <2>2 DEF LimiterFrame
<1>8. CASE len # 0
  <2>1. len \in 1 .. got[b]
    BY <1>4, <1>8
  <2>2. QED
    BY <1>1, <1>2, <1>6, <2>1 DEF Limiter!Spend
<1>9. QED
  BY <1>7, <1>8

LEMMA MallocMakes ==
  ASSUME LedgerInv, NEW b \in Buckets, Malloc(b), UNCHANGED ledger
  PROVE  Limiter!Make(b)
<1>1. token' = [token EXCEPT ![b] = 0] /\ UNCHANGED <<seconds, added, got, used>> /\ pc[b] = "none"
  BY DEF Malloc, ledger
<1>2. got[b] = 0
  BY <1>1 DEF LedgerInv, HandEmpty
<1>3. QED
  BY <1>1, <1>2 DEF Limiter!Make

LEMMA LimiterStep ==
  ASSUME LedgerInv, [LedgerNext]_ledgerVars
  PROVE  [Limiter!Next]_(Limiter!vars)
<1>1. CASE UNCHANGED ledgerVars
  <2>1. LimiterFrame
    BY <1>1 DEF LimiterFrame, ledgerVars, ledger, vars, bucketVars, threadVars
  <2>2. QED
    BY <2>1, LimiterStutter
<1>2. CASE TickSecond
  <2>1. Limiter!Second
    BY <1>2 DEF TickSecond, Tick, bucketVars, threadVars, Limiter!Second
  <2>2. QED
    BY <2>1 DEF Limiter!Next
<1>3. ASSUME NEW t \in Thread, Add(t)
      PROVE  Limiter!Next
  BY <1>3, AddCredits DEF Limiter!Next
<1>4. ASSUME NEW b \in Buckets, Consume(b)
      PROVE  [Limiter!Next]_(Limiter!vars)
  BY <1>4, ConsumeSpends, LimiterStutter DEF Limiter!Next
<1>5. CASE MainStep /\ UNCHANGED ledger
  <2>1. ASSUME NEW b \in Buckets, Malloc(b)
        PROVE  Limiter!Next
    BY <1>5, <2>1, MallocMakes DEF Limiter!Next
  <2>2. CASE \/ InitCall \/ Load \/ LoadOnce \/ LoadFails \/ NoMemory \/ InitLock \/ Register
             \/ NoFreePos \/ (\E b \in Buckets : CreateUser(b) \/ DestroyCall(b))
             \/ DestroyLock \/ Unregister \/ Free
    <3>1. UNCHANGED <<token, got>>
      BY <2>2 DEF InitCall, Load, LoadOnce, LoadFails, NoMemory, InitLock, Register, NoFreePos,
                  CreateUser, DestroyCall, DestroyLock, Unregister, Free, bucketVars
    <3>2. LimiterFrame
      BY <1>5, <3>1 DEF LimiterFrame, ledger
    <3>3. QED
      BY <3>2, LimiterStutter
  <2>3. QED
    BY <1>5, <2>1, <2>2 DEF MainStep
<1>6. ASSUME NEW b \in Buckets, OtherUserStep(b), UNCHANGED ledger
      PROVE  [Limiter!Next]_(Limiter!vars)
  <2>1. CASE Fetch(b)
    BY <1>6, <2>1, FetchTakes DEF Limiter!Next
  <2>2. CASE ReturnToken(b)
    <3>1. Limiter!GiveBack(b)
      BY <1>6, <2>2 DEF ReturnToken, ledger, Limiter!GiveBack, Limiter!AtMost, Clipped
    <3>2. QED
      BY <3>1 DEF Limiter!Next
  <2>3. CASE \/ FetchCall(b) \/ FetchLock(b) \/ FetchWait(b) \/ FetchSpurious(b) \/ CheckLock(b)
             \/ Check(b) \/ ReturnLock(b) \/ UserExit(b)
    <3>1. LimiterFrame
      BY <1>6, <2>3 DEF FetchCall, FetchLock, FetchWait, FetchSpurious, CheckLock, Check, ReturnLock,
         UserExit, bucketVars, ledger, LimiterFrame
    <3>2. QED
      BY <3>1, LimiterStutter
  <2>4. QED
    BY <1>6, <2>1, <2>2, <2>3 DEF OtherUserStep
<1>7. CASE \/ \E t \in Thread : BeginScan(t)
           \/ /\ \E t \in Thread : Deliver(t) \/ OtherHandlerStep(t)
              /\ UNCHANGED ledger
           \/ (\E t \in Timers : TimerStart(t)) /\ UNCHANGED ledger
  <2>1. LimiterFrame
    BY <1>7 DEF LimiterFrame, BeginScan, HandlerLock, Deliver, OtherHandlerStep, HandlerSkip,
       HandlerLockBucket, HandlerEnd, TimerStart, bucketVars, threadVars, ledger
  <2>2. QED
    BY <2>1, LimiterStutter
<1>8. QED
  BY <1>1, <1>2, <1>3, <1>4, <1>5, <1>6, <1>7 DEF LedgerNext

(* The buckets of the server, with all their threads, mutexes and signal    *)
(* handlers, implement the rate limiter: an addition is a credit for a      *)
(* second the bucket has not had, a fetch takes at most what is there and   *)
(* what was asked for, and nothing else changes what a channel may read     *)
(* (mytbf.c:38-52,137-158).                                                 *)
THEOREM BucketsImplementLimiter == LedgerSafety => LimiterSafety
<1>1. LedgerInit => Limiter!Init
  BY DEF LedgerInit, Init, Limiter!Init, Limiter!Nothing
<1>2. LedgerInv /\ [LedgerNext]_ledgerVars => [Limiter!Next]_(Limiter!vars)
  BY LimiterStep
<1>3. QED
  BY <1>1, <1>2, LedgerInvariance, PTL DEF LedgerSafety, LimiterSafety, Limiter!Safety

(* What the promise of the limiter alone amounts to.                        *)
Paced ==
  /\ seconds \in Nat
  /\ token \in [Buckets -> Nat] /\ added \in [Buckets -> Nat]
  /\ got \in [Buckets -> Nat] /\ used \in [Buckets -> Nat]
  /\ \A b \in Buckets : added[b] <= seconds /\ used[b] + got[b] + token[b] <= Cps * added[b]

LEMMA PacedRate == Paced => RateBound
<1>1. SUFFICES ASSUME Paced, NEW b \in Buckets
               PROVE  used[b] <= Cps * seconds
  BY DEF RateBound
<1>2. /\ used[b] \in Nat /\ got[b] \in Nat /\ token[b] \in Nat /\ added[b] \in Nat
      /\ seconds \in Nat /\ Cps \in Nat
      /\ added[b] <= seconds /\ used[b] + got[b] + token[b] <= Cps * added[b]
  BY <1>1, RateAssumption DEF Paced
<1>3. Cps * added[b] <= Cps * seconds /\ Cps * added[b] \in Nat /\ Cps * seconds \in Nat
  BY <1>2, TimesMonotone, TimesNext
<1>4. QED
  BY <1>2, <1>3

LEMMA AtMostBounds ==
  ASSUME NEW n \in Nat
  PROVE  Limiter!AtMost(n) \in Nat /\ Limiter!AtMost(n) <= n
BY RateAssumption DEF Limiter!AtMost

LEMMA PacedNext == Paced /\ [Limiter!Next]_(Limiter!vars) => Paced'
<1> SUFFICES ASSUME Paced, [Limiter!Next]_(Limiter!vars)
             PROVE  Paced'
  OBVIOUS
<1>0. /\ seconds \in Nat /\ Cps \in Nat
      /\ token \in [Buckets -> Nat] /\ added \in [Buckets -> Nat]
      /\ got \in [Buckets -> Nat] /\ used \in [Buckets -> Nat]
  BY RateAssumption DEF Paced
<1>a. ASSUME NEW b \in Buckets
      PROVE  /\ added[b] <= seconds /\ used[b] + got[b] + token[b] <= Cps * added[b]
             /\ token[b] \in Nat /\ added[b] \in Nat /\ got[b] \in Nat /\ used[b] \in Nat
             /\ Cps * added[b] \in Nat /\ Cps * (added[b] + 1) = Cps * added[b] + Cps
  BY <1>0, TimesNext DEF Paced
<1>1. CASE UNCHANGED Limiter!vars
  BY <1>1 DEF Limiter!vars, Paced
<1>2. CASE Limiter!Second
  <2>1. seconds' = seconds + 1 /\ UNCHANGED <<token, added, got, used>>
    BY <1>2 DEF Limiter!Second
  <2>2. \A b \in Buckets : added[b] <= seconds'
    BY <1>0, <1>a, <2>1
  <2>3. QED
    BY <1>0, <2>1, <2>2 DEF Paced
<1>3. ASSUME NEW b \in Buckets, NEW n \in Nat, NEW c \in Nat, NEW h \in Nat, NEW u \in Nat,
             c <= seconds, u + h + n <= Cps * c, seconds' = seconds,
             token' = [token EXCEPT ![b] = n], added' = [added EXCEPT ![b] = c],
             got' = [got EXCEPT ![b] = h], used' = [used EXCEPT ![b] = u]
      PROVE  Paced'
  <2>1. /\ token' \in [Buckets -> Nat] /\ added' \in [Buckets -> Nat]
        /\ got' \in [Buckets -> Nat] /\ used' \in [Buckets -> Nat]
    BY <1>0, <1>3
  <2>2. token'[b] = n /\ added'[b] = c /\ got'[b] = h /\ used'[b] = u
    BY <1>0, <1>3
  <2>3. \A d \in Buckets \ {b} : /\ token'[d] = token[d] /\ added'[d] = added[d]
                                 /\ got'[d] = got[d] /\ used'[d] = used[d]
    BY <1>0, <1>3
  <2>4. ASSUME NEW d \in Buckets
        PROVE  added'[d] <= seconds' /\ used'[d] + got'[d] + token'[d] <= Cps * added'[d]
    <3>1. CASE d = b
      BY <1>3, <2>2, <3>1
    <3>2. CASE d # b
      BY <1>3, <1>a, <2>3, <3>2
    <3>3. QED
      BY <3>1, <3>2
  <2>5. QED
    BY <1>0, <1>3, <2>1, <2>4 DEF Paced
<1>4. \A b \in Buckets : /\ token = [token EXCEPT ![b] = token[b]]
                         /\ added = [added EXCEPT ![b] = added[b]]
                         /\ got = [got EXCEPT ![b] = got[b]]
                         /\ used = [used EXCEPT ![b] = used[b]]
  BY <1>0
<1>5. ASSUME NEW b \in Buckets, Limiter!Make(b)
      PROVE  Paced'
  <2>1. /\ token' = [token EXCEPT ![b] = 0]
        /\ UNCHANGED <<seconds, added, got, used>>
    BY <1>5 DEF Limiter!Make
  <2>2. /\ added' = [added EXCEPT ![b] = added[b]] /\ got' = [got EXCEPT ![b] = got[b]]
        /\ used' = [used EXCEPT ![b] = used[b]]
    BY <1>4, <2>1
  <2>3. /\ used[b] + got[b] + 0 <= Cps * added[b] /\ added[b] <= seconds /\ 0 \in Nat
        /\ added[b] \in Nat /\ got[b] \in Nat /\ used[b] \in Nat
    BY <1>a
  <2>4. QED
    BY <1>3, <2>1, <2>2, <2>3
<1>6. ASSUME NEW b \in Buckets, Limiter!Credit(b)
      PROVE  Paced'
  <2> DEFINE n == Limiter!AtMost(token[b] + Cps)
             c == added[b] + 1
  <2>1. /\ token' = [token EXCEPT ![b] = n] /\ added' = [added EXCEPT ![b] = c]
        /\ UNCHANGED <<seconds, got, used>> /\ added[b] < seconds
    BY <1>6 DEF Limiter!Credit
  <2>2. got' = [got EXCEPT ![b] = got[b]] /\ used' = [used EXCEPT ![b] = used[b]]
    BY <1>4, <2>1
  <2>3. n \in Nat /\ n <= token[b] + Cps
    BY <1>0, <1>a, AtMostBounds
  <2> HIDE DEF n
  <2>4. /\ used[b] + got[b] + n <= Cps * c /\ c <= seconds /\ c \in Nat
        /\ got[b] \in Nat /\ used[b] \in Nat
    BY <1>0, <1>a, <2>1, <2>3
  <2> HIDE DEF c
  <2>5. QED
    BY <1>3, <2>1, <2>2, <2>3, <2>4
<1>7. ASSUME NEW b \in Buckets, Limiter!Take(b)
      PROVE  Paced'
  <2>1. PICK n \in 1 .. ReadSize :
          n <= token[b] /\ token' = [token EXCEPT ![b] = token[b] - n]
          /\ got' = [got EXCEPT ![b] = n]
    BY <1>7 DEF Limiter!Take
  <2>2. UNCHANGED <<seconds, added, used>> /\ got[b] = 0
    BY <1>7 DEF Limiter!Take
  <2>3. added' = [added EXCEPT ![b] = added[b]] /\ used' = [used EXCEPT ![b] = used[b]]
    BY <1>4, <2>2
  <2> DEFINE left == token[b] - n
  <2>4. /\ left \in Nat /\ n \in Nat /\ used[b] + n + left <= Cps * added[b]
        /\ added[b] \in Nat /\ used[b] \in Nat /\ added[b] <= seconds
    BY <1>a, <2>1, <2>2
  <2>5. token' = [token EXCEPT ![b] = left] /\ got' = [got EXCEPT ![b] = n] /\ seconds' = seconds
    BY <2>1, <2>2
  <2> HIDE DEF left
  <2>6. QED
    BY <1>3, <2>3, <2>4, <2>5
<1>8. ASSUME NEW b \in Buckets, Limiter!Spend(b)
      PROVE  Paced'
  <2>1. PICK n \in 1 .. got[b] :
          got' = [got EXCEPT ![b] = got[b] - n] /\ used' = [used EXCEPT ![b] = used[b] + n]
    BY <1>8 DEF Limiter!Spend
  <2>2. UNCHANGED <<seconds, token, added>>
    BY <1>8 DEF Limiter!Spend
  <2>3. token' = [token EXCEPT ![b] = token[b]] /\ added' = [added EXCEPT ![b] = added[b]]
    BY <1>4, <2>2
  <2> DEFINE left == got[b] - n
             sum == used[b] + n
  <2>4. /\ left \in Nat /\ sum \in Nat /\ sum + left + token[b] <= Cps * added[b]
        /\ added[b] \in Nat /\ token[b] \in Nat /\ added[b] <= seconds
    BY <1>a, <2>1
  <2>5. got' = [got EXCEPT ![b] = left] /\ used' = [used EXCEPT ![b] = sum] /\ seconds' = seconds
    BY <2>1, <2>2
  <2> HIDE DEF left, sum
  <2>6. QED
    BY <1>3, <2>3, <2>4, <2>5
<1>9. ASSUME NEW b \in Buckets, Limiter!GiveBack(b)
      PROVE  Paced'
  <2> DEFINE n == Limiter!AtMost(token[b] + got[b])
  <2>1. /\ token' = [token EXCEPT ![b] = n] /\ got' = [got EXCEPT ![b] = 0]
        /\ UNCHANGED <<seconds, added, used>>
    BY <1>9 DEF Limiter!GiveBack
  <2>2. added' = [added EXCEPT ![b] = added[b]] /\ used' = [used EXCEPT ![b] = used[b]]
    BY <1>4, <2>1
  <2>3. n \in Nat /\ n <= token[b] + got[b]
    BY <1>a, AtMostBounds
  <2> HIDE DEF n
  <2>4. /\ used[b] + 0 + n <= Cps * added[b] /\ 0 \in Nat
        /\ added[b] \in Nat /\ used[b] \in Nat /\ added[b] <= seconds
    BY <1>a, <2>3
  <2>5. QED
    BY <1>3, <2>1, <2>2, <2>3, <2>4
<1>10. QED
  BY <1>1, <1>2, <1>5, <1>6, <1>7, <1>8, <1>9 DEF Limiter!Next

(* The rate is what the limiter promises, and nothing of its implementation *)
(* is needed for it: whoever keeps to that promise reads no more than Cps   *)
(* bytes per second (mytbf.c:38-52,137-158).                                *)
THEOREM LimiterKeepsRate == LimiterSafety => []RateBound
<1>1. Limiter!Init => Paced
  <2> SUFFICES ASSUME Limiter!Init
               PROVE  Paced
    OBVIOUS
  <2>1. seconds = 0 /\ token = Limiter!Nothing /\ added = Limiter!Nothing
        /\ got = Limiter!Nothing /\ used = Limiter!Nothing
    BY DEF Limiter!Init
  <2>2. Limiter!Nothing \in [Buckets -> Nat] /\ \A b \in Buckets : Limiter!Nothing[b] = 0
    BY DEF Limiter!Nothing
  <2>3. Cps * 0 = 0
    BY RateAssumption
  <2>4. QED
    BY <2>1, <2>2, <2>3 DEF Paced
<1>2. QED
  BY <1>1, PacedNext, PacedRate, PTL DEF LimiterSafety, Limiter!Safety

(***************************************************************************)
(* Wake-ups, and the buckets that are freed.                               *)
(***************************************************************************)
(* The steps of the main thread that only move it, or take mut_job.         *)
MainQuiet ==
  \/ InitCall \/ Load \/ LoadOnce \/ LoadFails \/ NoMemory \/ InitLock \/ DestroyLock

LEMMA QuietEffect ==
  ASSUME Structure, MainQuiet
  PROVE  /\ UNCHANGED <<job, allocated, token, mut, me, hpc, hpos>>
         /\ \A b \in Buckets : pc'[b] = pc[b]
         /\ pc'[Main] \in {"lock", "register", "destroy", "unregister", "free"}
              => pc[Main] \in {"lock", "register", "destroy", "unregister", "free"}
<1>0. TypeOK
  BY DEF Structure, LedgerTypeOK
<1>1. UNCHANGED <<job, allocated, token, mut, me, hpc, hpos>>
  BY DEF MainQuiet, InitCall, Load, LoadOnce, LoadFails, NoMemory, InitLock, DestroyLock,
         bucketVars, handlerVars
<1>2. CASE InitCall \/ LoadFails \/ NoMemory \/ InitLock \/ DestroyLock
  <2>1. pc \in [Thread -> Location]
    BY <1>0 DEF TypeOK
  <2>2. \E l \in Location : pc' = [pc EXCEPT ![Main] = l]
    BY <1>2 DEF InitCall, LoadFails, NoMemory, InitLock, DestroyLock, Goto, Location
  <2>3. \A b \in Buckets : pc'[b] = pc[b]
    BY <2>1, <2>2, ThreadFacts
  <2>4. pc'[Main] \in {"load", "exited", "idle"} \/ pc[Main] \in {"lock", "destroy"}
    BY <1>2, <2>1, ThreadFacts DEF InitCall, LoadFails, NoMemory, InitLock, DestroyLock, Goto, At
  <2>5. QED
    BY <1>1, <2>3, <2>4
<1>3. CASE Load \/ LoadOnce
  <2>1. \/ \E t \in Timers : ModuleLoad(t)
        \/ pc' = [pc EXCEPT ![Main] = "malloc"]
    BY <1>3 DEF Load, LoadOnce, Goto
  <2>2. pc'[Main] \in {"once", "malloc"} /\ \A b \in Buckets : pc'[b] = pc[b]
    BY <1>0, <2>1, ModuleLoadEffect, ThreadFacts DEF TypeOK
  <2>3. QED
    BY <1>1, <2>2
<1>4. QED
  BY <1>2, <1>3 DEF MainQuiet

LEMMA MainSplit ==
  MainStep <=> \/ MainQuiet \/ Register \/ NoFreePos \/ Unregister \/ Free
               \/ \E b \in Buckets : Malloc(b) \/ CreateUser(b) \/ DestroyCall(b)
BY DEF MainStep, MainQuiet

(***************************************************************************)
(* No addition of tokens is missed.                                        *)
(***************************************************************************)
LEMMA MissedFrame ==
  ASSUME NoMissedTokens, token' = token,
         \A b \in Buckets : pc'[b] = "wait" => pc[b] = "wait"
  PROVE  NoMissedTokens'
BY DEF NoMissedTokens

LEMMA MissedMain ==
  ASSUME Structure, NoMissedTokens, MainStep
  PROVE  NoMissedTokens'
<1>1. pc \in [Thread -> Location] /\ token \in [Buckets -> 0 .. Burst]
  BY DEF Structure, LedgerTypeOK, TypeOK
<1>2. CASE MainQuiet
  BY <1>2, QuietEffect, MissedFrame
<1>3. CASE Register \/ NoFreePos \/ Unregister \/ Free \/ \E b \in Buckets : DestroyCall(b)
  <2>1. token' = token /\ \E l \in Location : pc' = [pc EXCEPT ![Main] = l]
    BY <1>3 DEF Register, NoFreePos, Unregister, Free, DestroyCall, Goto, bucketVars, Location
  <2>2. QED
    BY <1>1, <2>1, MissedFrame, ThreadFacts
<1>4. ASSUME NEW b \in Buckets, CreateUser(b)
      PROVE  NoMissedTokens'
  <2>1. token' = token /\ pc' = [pc EXCEPT ![b] = "idle"]
    BY <1>4 DEF CreateUser, bucketVars
  <2>2. QED
    BY <1>1, <2>1, MissedFrame, ThreadFacts
<1>5. ASSUME NEW b \in Buckets, Malloc(b)
      PROVE  NoMissedTokens'
  <2>1. token' = [token EXCEPT ![b] = 0] /\ pc' = [pc EXCEPT ![Main] = "lock"]
    BY <1>5 DEF Malloc, Goto
  <2>2. QED
    BY <1>1, <2>1, ThreadFacts DEF NoMissedTokens
<1>6. QED
  BY <1>2, <1>3, <1>4, <1>5, MainSplit

LEMMA MissedUser ==
  ASSUME Structure, NoMissedTokens, NEW b \in Buckets, OtherUserStep(b) \/ Consume(b)
  PROVE  NoMissedTokens'
<1>1. pc \in [Thread -> Location] /\ token \in [Buckets -> 0 .. Burst]
  BY DEF Structure, LedgerTypeOK, TypeOK
<1>2. CASE FetchWait(b)
  <2>1. token' = token /\ token[b] <= 0 /\ pc' = [pc EXCEPT ![b] = "wait"]
    BY <1>2 DEF FetchWait, Goto, bucketVars
  <2>2. token[b] \in 0 .. Burst
    BY <1>1
  <2>3. token[b] = 0
    BY <2>1, <2>2, RateAssumption
  <2>4. QED
    BY <1>1, <2>1, <2>3, ThreadFacts DEF NoMissedTokens
<1>3. CASE Fetch(b) \/ ReturnToken(b)
  <2>1. /\ \E n : token' = [token EXCEPT ![b] = n]
        /\ pc' = [pc EXCEPT ![b] = "check"] \/ pc' = [pc EXCEPT ![b] = "idle"]
    BY <1>3 DEF Fetch, ReturnToken, Goto
  <2>2. QED
    BY <1>1, <2>1, ThreadFacts DEF NoMissedTokens
<1>4. CASE \/ FetchCall(b) \/ FetchLock(b) \/ FetchSpurious(b) \/ CheckLock(b) \/ Check(b)
           \/ ReturnLock(b) \/ UserExit(b)
  <2>1. /\ token' = token
        /\ \E l \in Location \ {"wait"} : pc' = [pc EXCEPT ![b] = l]
    BY <1>4 DEF FetchCall, FetchLock, FetchSpurious, CheckLock, Check, ReturnLock, UserExit,
                Goto, Location, bucketVars
  <2>2. QED
    BY <1>1, <2>1, MissedFrame, ThreadFacts
<1>5. CASE Consume(b)
  <2>1. token' = token /\ \/ pc' = [pc EXCEPT ![b] = "return"]
                          \/ pc' = [pc EXCEPT ![b] = "idle"]
    BY <1>5, ConsumeEffect
  <2>2. QED
    BY <1>1, <2>1, MissedFrame, ThreadFacts
<1>6. QED
  BY <1>2, <1>3, <1>4, <1>5 DEF OtherUserStep

LEMMA MissedAdd ==
  ASSUME Structure, NoMissedTokens, NEW t \in Thread, Add(t)
  PROVE  NoMissedTokens'
<1> DEFINE b == job[hpos[t]]
<1>1. /\ b \in Buckets /\ \A c \in Buckets \ {b} : token'[c] = token[c]
      /\ \A c \in Buckets : pc'[c] = pc[c] \/ (pc[c] = "wait" /\ pc'[c] = "fetch")
  BY AddEffect
<1>2. pc'[b] # "wait"
  <2>1. pc' = IF pc[b] = "wait" THEN [pc EXCEPT ![b] = "fetch"] ELSE pc
    BY DEF Add, HandlerAdd, Woken
  <2>2. pc \in [Thread -> Location]
    BY DEF Structure, LedgerTypeOK, TypeOK
  <2> HIDE DEF b
  <2>3. QED
    BY <1>1, <2>1, <2>2, ThreadFacts
<1> HIDE DEF b
<1>3. QED
  BY <1>1, <1>2 DEF NoMissedTokens

LEMMA MissedNext ==
  ASSUME Structure, NoMissedTokens, LedgerNext
  PROVE  NoMissedTokens'
<1>1. ASSUME NEW t \in Timers, TimerStart(t)
      PROVE  NoMissedTokens'
  <2>1. token' = token /\ pc' = [pc EXCEPT ![t] = "pause"]
    BY <1>1 DEF TimerStart, Goto, bucketVars
  <2>2. pc \in [Thread -> Location]
    BY DEF Structure, LedgerTypeOK, TypeOK
  <2>3. QED
    BY <2>1, <2>2, MissedFrame, ThreadFacts
<1>2. ASSUME TickSecond \/ \E t \in Thread : BeginScan(t) \/ Deliver(t) \/ OtherHandlerStep(t)
      PROVE  NoMissedTokens'
  <2>1. token' = token /\ pc' = pc
    BY <1>2 DEF TickSecond, Tick, BeginScan, HandlerLock, Deliver, OtherHandlerStep, HandlerSkip,
                HandlerLockBucket, HandlerEnd, bucketVars, threadVars
  <2>2. QED
    BY <2>1, MissedFrame
<1>3. QED
  BY <1>1, <1>2, MissedMain, MissedUser, MissedAdd DEF LedgerNext

(* A channel thread sleeps only while its bucket is empty: nothing is added *)
(* between its test and its sleep, and every addition wakes it              *)
(* (mytbf.c:42-48,140-142).                                                 *)
THEOREM NoAdditionIsMissed == LedgerSafety => []NoMissedTokens
<1>1. LedgerInit => NoMissedTokens
  BY ThreadFacts DEF LedgerInit, Init, NoMissedTokens
<1>2. LedgerInv /\ NoMissedTokens /\ [LedgerNext]_ledgerVars => NoMissedTokens'
  <2>1. SUFFICES ASSUME LedgerInv, NoMissedTokens, [LedgerNext]_ledgerVars
                 PROVE  NoMissedTokens'
    OBVIOUS
  <2>2. CASE LedgerNext
    BY <2>1, <2>2, MissedNext DEF LedgerInv, Structure
  <2>3. CASE UNCHANGED ledgerVars
    <3>1. token' = token /\ pc' = pc
      BY <2>3 DEF ledgerVars, vars, bucketVars, threadVars
    <3>2. QED
      BY <2>1, <3>1, MissedFrame
  <2>4. QED
    BY <2>1, <2>2, <2>3
<1>3. QED
  BY <1>1, <1>2, LedgerInvariance, PTL DEF LedgerSafety

(***************************************************************************)
(* No bucket is used after free.                                           *)
(***************************************************************************)

(* A bucket's mutex is held by its own thread, between a lock and the       *)
(* unlock, or by the handler that adds to it.                               *)
MutexHeld ==
  \A b \in Buckets : mut[b] # Null =>
    \/ pc[b] \in {"test", "look", "give"}
    \/ \E t \in Thread : hpc[t] = "add" /\ job[hpos[t]] = b

(* The bucket of a channel thread is allocated.                             *)
UsersAllocated == \A b \in Buckets : pc[b] # "none" => b \in allocated

(* The bucket that the main thread creates or destroys has no thread.       *)
MeUnused ==
  pc[Main] \in {"lock", "register", "destroy", "unregister", "free"} =>
    me \in Buckets /\ pc[me] = "none"

Ownership == MutexHeld /\ UsersAllocated /\ MeUnused

LEMMA OwnershipFrame ==
  ASSUME Ownership, UNCHANGED <<job, allocated, me>>,
         \A b \in Buckets : mut'[b] # Null => mut[b] # Null,
         \A b \in Buckets : /\ pc'[b] = "none" <=> pc[b] = "none"
                            /\ pc[b] \in {"test", "look", "give"} =>
                                 mut'[b] = Null \/ pc'[b] \in {"test", "look", "give"},
         \A t \in Thread : hpc[t] = "add" =>
            (hpc'[t] = "add" /\ hpos'[t] = hpos[t]) \/ mut'[job[hpos[t]]] = Null,
         pc'[Main] \in {"lock", "register", "destroy", "unregister", "free"}
           => pc[Main] \in {"lock", "register", "destroy", "unregister", "free"}
  PROVE  Ownership'
<1>1. MutexHeld'
  <2>1. SUFFICES ASSUME NEW b \in Buckets, mut'[b] # Null
                 PROVE  \/ pc'[b] \in {"test", "look", "give"}
                        \/ \E t \in Thread : hpc'[t] = "add" /\ job'[hpos'[t]] = b
    BY DEF MutexHeld
  <2>2. CASE pc[b] \in {"test", "look", "give"}
    BY <2>1, <2>2
  <2>3. CASE \E t \in Thread : hpc[t] = "add" /\ job[hpos[t]] = b
    BY <2>1, <2>3
  <2>4. QED
    BY <2>1, <2>2, <2>3 DEF Ownership, MutexHeld
<1>2. UsersAllocated'
  BY DEF Ownership, UsersAllocated
<1>3. MeUnused'
  BY DEF Ownership, MeUnused
<1>4. QED
  BY <1>1, <1>2, <1>3 DEF Ownership

LEMMA OwnershipMain ==
  ASSUME Structure, Ownership, MainStep
  PROVE  Ownership'
<1>1. /\ pc \in [Thread -> Location] /\ me \in Buckets \cup {Null}
      /\ job \in [Slots -> Buckets \cup {Null}] /\ allocated \subseteq Buckets
  BY DEF Structure, LedgerTypeOK, TypeOK
<1>2. CASE MainQuiet
  BY <1>2, QuietEffect, OwnershipFrame
<1>3. CASE Register
  <2>1. PICK i \in Slots : job[i] = Null /\ job' = [job EXCEPT ![i] = me]
    BY <1>3 DEF Register, FreeSlots
  <2>2. /\ pc' = [pc EXCEPT ![Main] = "idle"] /\ UNCHANGED <<mut, allocated, hpc, hpos>>
        /\ pc[Main] = "register"
    BY <1>3 DEF Register, Goto, At, handlerVars
  <2>3. \A t \in Thread : hpc[t] # "add"
    BY <2>2 DEF Structure, JobExclusive, Scanning
  <2>4. \A b \in Buckets : pc'[b] = pc[b]
    BY <1>1, <2>2, ThreadFacts
  <2>5. MutexHeld'
    BY <2>2, <2>3, <2>4 DEF Ownership, MutexHeld
  <2>6. UsersAllocated'
    BY <2>2, <2>4 DEF Ownership, UsersAllocated
  <2>7. MeUnused'
    BY <1>1, <2>2, ThreadFacts DEF MeUnused
  <2>8. QED
    BY <2>5, <2>6, <2>7 DEF Ownership
<1>4. CASE Unregister
  <2>1. /\ pc' = [pc EXCEPT ![Main] = "free"] /\ UNCHANGED <<mut, allocated, me, hpc, hpos>>
        /\ pc[Main] = "unregister"
    BY <1>4 DEF Unregister, Goto, At, handlerVars
  <2>2. \A t \in Thread : hpc[t] # "add"
    BY <2>1 DEF Structure, JobExclusive, Scanning
  <2>3. \A b \in Buckets : pc'[b] = pc[b]
    BY <1>1, <2>1, ThreadFacts
  <2>4. MutexHeld'
    BY <2>1, <2>2, <2>3 DEF Ownership, MutexHeld
  <2>5. UsersAllocated'
    BY <2>1, <2>3 DEF Ownership, UsersAllocated
  <2>6. MeUnused'
    BY <2>1, <2>3 DEF Ownership, MeUnused
  <2>7. QED
    BY <2>4, <2>5, <2>6 DEF Ownership
<1>5. CASE Free \/ NoFreePos
  <2>1. /\ pc[Main] \in {"free", "register"} /\ allocated' = allocated \ {me}
        /\ UNCHANGED <<job, mut, hpc, hpos>>
        /\ pc' = [pc EXCEPT ![Main] = "idle"] \/ pc' = [pc EXCEPT ![Main] = "exited"]
    BY <1>5 DEF Free, NoFreePos, Goto, At, handlerVars
  <2>2. \A b \in Buckets : pc'[b] = pc[b]
    BY <1>1, <2>1, ThreadFacts
  <2>3. me \in Buckets /\ pc[me] = "none"
    BY <2>1 DEF Ownership, MeUnused
  <2>4. MutexHeld'
    BY <2>1, <2>2 DEF Ownership, MutexHeld
  <2>5. UsersAllocated'
    BY <2>1, <2>2, <2>3 DEF Ownership, UsersAllocated
  <2>6. MeUnused'
    BY <1>1, <2>1, ThreadFacts DEF MeUnused
  <2>7. QED
    BY <2>4, <2>5, <2>6 DEF Ownership
<1>6. ASSUME NEW b \in Buckets, Malloc(b) \/ DestroyCall(b)
      PROVE  Ownership'
  <2>1. /\ pc[b] = "none" /\ me' = b /\ UNCHANGED <<job, mut, hpc, hpos>>
        /\ allocated \subseteq allocated'
        /\ pc' = [pc EXCEPT ![Main] = "lock"] \/ pc' = [pc EXCEPT ![Main] = "destroy"]
    BY <1>6 DEF Malloc, DestroyCall, Goto, bucketVars, handlerVars
  <2>2. \A c \in Buckets : pc'[c] = pc[c]
    BY <1>1, <2>1, ThreadFacts
  <2>3. MutexHeld'
    BY <2>1, <2>2 DEF Ownership, MutexHeld
  <2>4. UsersAllocated'
    BY <2>1, <2>2 DEF Ownership, UsersAllocated
  <2>5. MeUnused'
    BY <2>1, <2>2 DEF MeUnused
  <2>6. QED
    BY <2>3, <2>4, <2>5 DEF Ownership
<1>7. ASSUME NEW b \in Buckets, CreateUser(b)
      PROVE  Ownership'
  <2>1. /\ pc[Main] = "idle" /\ pc[b] = "none" /\ pc' = [pc EXCEPT ![b] = "idle"]
        /\ UNCHANGED <<job, allocated, mut, hpc, hpos, me>>
    BY <1>7 DEF CreateUser, At, bucketVars, handlerVars
  <2>2. b \in allocated
    BY <1>7, ThreadFacts DEF CreateUser, Registered, Structure, SlotsDistinct
  <2>3. /\ pc'[b] = "idle" /\ pc'[Main] = "idle"
        /\ \A c \in Buckets \ {b} : pc'[c] = pc[c]
    BY <1>1, <2>1, ThreadFacts
  <2>4. MutexHeld'
    BY <2>1, <2>3 DEF Ownership, MutexHeld
  <2>5. UsersAllocated'
    BY <2>1, <2>2, <2>3 DEF Ownership, UsersAllocated
  <2>6. MeUnused'
    BY <2>3 DEF MeUnused
  <2>7. QED
    BY <2>4, <2>5, <2>6 DEF Ownership
<1>8. QED
  BY <1>2, <1>3, <1>4, <1>5, <1>6, <1>7, MainSplit

LEMMA OwnershipUser ==
  ASSUME Structure, Ownership, NEW b \in Buckets, OtherUserStep(b) \/ Consume(b)
  PROVE  Ownership'
<1>1. pc \in [Thread -> Location] /\ mut \in [Buckets -> Thread \cup {Null}]
  BY DEF Structure, LedgerTypeOK, TypeOK
<1>2. UNCHANGED <<job, allocated, me, hpc, hpos>> /\ pc[b] # "none"
  BY DEF OtherUserStep, FetchCall, FetchLock, FetchWait, FetchSpurious, Fetch, CheckLock, Check,
         ReturnLock, ReturnToken, UserExit, Consume, ReadFile, At, bucketVars, handlerVars
<1>3. \E l \in Location \ {"none"} : pc' = [pc EXCEPT ![b] = l]
  <2>1. CASE OtherUserStep(b)
    BY <2>1 DEF OtherUserStep, FetchCall, FetchLock, FetchWait, FetchSpurious, Fetch, CheckLock,
                Check, ReturnLock, ReturnToken, UserExit, Goto, Location
  <2>2. CASE Consume(b)
    BY <2>2, ConsumeEffect DEF Location
  <2>3. QED
    BY <2>1, <2>2
<1>4. /\ pc'[Main] = pc[Main] /\ pc'[b] # "none"
      /\ \A c \in Buckets \ {b} : pc'[c] = pc[c]
  BY <1>1, <1>3, ThreadFacts
<1>5. CASE FetchLock(b) \/ CheckLock(b) \/ ReturnLock(b)
  <2>1. pc'[b] \in {"test", "look", "give"}
    BY <1>1, <1>5, ThreadFacts DEF FetchLock, CheckLock, ReturnLock, Goto
  <2>2. \A c \in Buckets \ {b} : mut'[c] = mut[c]
    BY <1>1, <1>5 DEF FetchLock, CheckLock, ReturnLock, Lock
  <2>3. MutexHeld'
    BY <1>2, <1>4, <2>1, <2>2 DEF Ownership, MutexHeld
  <2>4. UsersAllocated'
    BY <1>2, <1>4 DEF Ownership, UsersAllocated
  <2>5. MeUnused'
    BY <1>2, <1>4 DEF Ownership, MeUnused
  <2>6. QED
    BY <2>3, <2>4, <2>5 DEF Ownership
<1>6. CASE FetchWait(b) \/ Fetch(b) \/ Check(b) \/ ReturnToken(b)
  <2>1. mut' = [mut EXCEPT ![b] = Null]
    BY <1>6 DEF FetchWait, Fetch, Check, ReturnToken, Unlock
  <2>2. mut'[b] = Null /\ \A c \in Buckets \ {b} : mut'[c] = mut[c]
    BY <1>1, <2>1
  <2>3. MutexHeld'
    BY <1>2, <1>4, <2>2 DEF Ownership, MutexHeld
  <2>4. UsersAllocated'
    BY <1>2, <1>4 DEF Ownership, UsersAllocated
  <2>5. MeUnused'
    BY <1>2, <1>4 DEF Ownership, MeUnused
  <2>6. QED
    BY <2>3, <2>4, <2>5 DEF Ownership
<1>7. CASE FetchCall(b) \/ FetchSpurious(b) \/ UserExit(b) \/ Consume(b)
  <2>1. mut' = mut /\ pc[b] \notin {"test", "look", "give"}
    BY <1>7 DEF FetchCall, FetchSpurious, UserExit, Consume, ReadFile, At
  <2>2. MutexHeld'
    BY <1>2, <1>4, <2>1 DEF Ownership, MutexHeld
  <2>3. UsersAllocated'
    BY <1>2, <1>4 DEF Ownership, UsersAllocated
  <2>4. MeUnused'
    BY <1>2, <1>4 DEF Ownership, MeUnused
  <2>5. QED
    BY <2>2, <2>3, <2>4 DEF Ownership
<1>8. QED
  BY <1>5, <1>6, <1>7 DEF OtherUserStep

LEMMA OwnershipHandler ==
  ASSUME Structure, Ownership, NEW t \in Thread,
         BeginScan(t) \/ Add(t) \/ Deliver(t) \/ OtherHandlerStep(t)
  PROVE  Ownership'
<1>1. /\ hpc \in [Thread -> {"out", "lock", "scan", "add"}]
      /\ hpos \in [Thread -> 0 .. MYTBF_MAX] /\ mut \in [Buckets -> Thread \cup {Null}]
      /\ job \in [Slots -> Buckets \cup {Null}]
  BY DEF Structure, LedgerTypeOK, TypeOK
<1>2. CASE BeginScan(t) \/ Deliver(t) \/ HandlerSkip(t) \/ HandlerEnd(t)
  <2>1. /\ UNCHANGED <<job, allocated, me, mut, pc>> /\ hpc[t] # "add"
        /\ \A u \in Thread \ {t} : hpc'[u] = hpc[u] /\ hpos'[u] = hpos[u]
    BY <1>1, <1>2 DEF BeginScan, HandlerLock, Deliver, HandlerSkip, HandlerEnd, bucketVars,
                      threadVars
  <2>2. QED
    BY <2>1, OwnershipFrame
<1>3. CASE HandlerLockBucket(t)
  <2>1. /\ UNCHANGED <<job, allocated, me, pc, hpos>> /\ hpc' = [hpc EXCEPT ![t] = "add"]
        /\ mut' = [mut EXCEPT ![job[hpos[t]]] = t]
    BY <1>3 DEF HandlerLockBucket, Lock, bucketVars, threadVars
  <2>2. hpc'[t] = "add" /\ \A u \in Thread : hpc[u] = "add" => hpc'[u] = "add"
    BY <1>1, <2>1
  <2>3. \A b \in Buckets : b # job[hpos[t]] => mut'[b] = mut[b]
    BY <1>1, <2>1
  <2>4. MutexHeld'
    BY <2>1, <2>2, <2>3 DEF Ownership, MutexHeld
  <2>5. UsersAllocated'
    BY <2>1 DEF Ownership, UsersAllocated
  <2>6. MeUnused'
    BY <2>1 DEF Ownership, MeUnused
  <2>7. QED
    BY <2>4, <2>5, <2>6 DEF Ownership
<1>4. CASE Add(t)
  <2> DEFINE b == job[hpos[t]]
  <2>1. /\ b \in Buckets /\ mut' = [mut EXCEPT ![b] = Null]
        /\ hpos' = [hpos EXCEPT ![t] = hpos[t] + 1] /\ hpc' = [hpc EXCEPT ![t] = "scan"]
        /\ pc'[Main] = pc[Main]
        /\ \A c \in Buckets : pc'[c] = pc[c] \/ (pc[c] = "wait" /\ pc'[c] = "fetch")
        /\ UNCHANGED <<job, allocated, me>>
    BY <1>4, AddEffect
  <2>2. \A u \in Thread \ {t} : hpc'[u] = hpc[u] /\ hpos'[u] = hpos[u]
    BY <1>1, <2>1
  <2>3. mut'[b] = Null /\ \A c \in Buckets : mut'[c] # Null => mut[c] # Null
    BY <1>1, <2>1
  <2>4. \A u \in Thread : hpc[u] = "add" =>
          (hpc'[u] = "add" /\ hpos'[u] = hpos[u]) \/ mut'[job[hpos[u]]] = Null
    BY <2>2, <2>3
  <2> HIDE DEF b
  <2>5. \A c \in Buckets : /\ pc'[c] = "none" <=> pc[c] = "none"
                           /\ pc[c] \in {"test", "look", "give"} =>
                                mut'[c] = Null \/ pc'[c] \in {"test", "look", "give"}
    BY <2>1
  <2>6. QED
    BY <2>1, <2>3, <2>4, <2>5, OwnershipFrame
<1>5. QED
  BY <1>2, <1>3, <1>4 DEF OtherHandlerStep

LEMMA OwnershipNext ==
  ASSUME Structure, Ownership, LedgerNext
  PROVE  Ownership'
<1>1. ASSUME NEW t \in Timers, TimerStart(t)
      PROVE  Ownership'
  <2>1. /\ pc' = [pc EXCEPT ![t] = "pause"]
        /\ UNCHANGED <<job, allocated, me, mut, hpc, hpos>>
    BY <1>1 DEF TimerStart, Goto, bucketVars, handlerVars
  <2>2. pc \in [Thread -> Location]
    BY DEF Structure, LedgerTypeOK, TypeOK
  <2>3. pc'[Main] = pc[Main] /\ \A b \in Buckets : pc'[b] = pc[b]
    BY <2>1, <2>2, ThreadFacts
  <2>4. QED
    BY <2>1, <2>3, OwnershipFrame
<1>2. CASE TickSecond
  <2>1. UNCHANGED <<job, allocated, me, mut, pc, hpc, hpos>>
    BY <1>2 DEF TickSecond, Tick, bucketVars, threadVars
  <2>2. QED
    BY <2>1, OwnershipFrame
<1>3. QED
  BY <1>1, <1>2, OwnershipMain, OwnershipUser, OwnershipHandler DEF LedgerNext

LEMMA OwnershipImplies == Structure /\ Ownership => NoUseAfterFree
<1>1. SUFFICES ASSUME Structure, Ownership PROVE NoUseAfterFree
  OBVIOUS
<1>2. \A i \in Slots : job[i] # Null => job[i] \in allocated
  BY <1>1 DEF Structure, SlotsDistinct
<1>3. \A t \in Thread : hpc[t] = "add" => job[hpos[t]] \in allocated
  BY <1>1, <1>2 DEF Structure, AddsToBucket
<1>4. \A b \in Buckets : pc[b] # "none" => b \in allocated
  BY <1>1 DEF Ownership, UsersAllocated
<1>5. \A b \in Buckets : mut[b] # Null => b \in allocated
  BY <1>1, <1>3, <1>4 DEF Ownership, MutexHeld
<1>6. QED
  BY <1>2, <1>3, <1>4, <1>5 DEF NoUseAfterFree

(* Neither the handler, which finds a bucket through job[], nor a channel   *)
(* thread, nor anyone that holds a bucket's mutex ever uses a bucket that   *)
(* has been freed (mytbf.c:39-51,160-170).                                  *)
THEOREM BucketsOutliveUse == LedgerSafety => []NoUseAfterFree
<1>1. LedgerInit => Ownership
  BY ThreadFacts DEF LedgerInit, Init, Ownership, MutexHeld, UsersAllocated, MeUnused
<1>2. LedgerInv /\ Ownership /\ [LedgerNext]_ledgerVars => Ownership'
  <2>1. SUFFICES ASSUME LedgerInv, Ownership, [LedgerNext]_ledgerVars
                 PROVE  Ownership'
    OBVIOUS
  <2>2. CASE LedgerNext
    BY <2>1, <2>2, OwnershipNext DEF LedgerInv, Structure
  <2>3. CASE UNCHANGED ledgerVars
    <3>1. UNCHANGED <<job, allocated, me, mut, pc, hpc, hpos>>
      BY <2>3 DEF ledgerVars, vars, bucketVars, threadVars, handlerVars
    <3>2. QED
      BY <2>1, <3>1, OwnershipFrame
  <2>4. QED
    BY <2>1, <2>2, <2>3
<1>3. LedgerInv /\ Ownership => NoUseAfterFree
  BY OwnershipImplies DEF LedgerInv, Structure
<1>4. QED
  BY <1>1, <1>2, <1>3, LedgerInvariance, PTL DEF LedgerSafety
=============================================================================
