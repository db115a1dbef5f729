----------------------------- MODULE TokenBucket -----------------------------
(***************************************************************************)
(* The token buckets that pace the server's channels (server/mytbf.c): the *)
(* main thread, which creates and destroys buckets, the timer threads,     *)
(* which mytbf_init starts, one channel thread per bucket, which takes     *)
(* tokens, reads that many bytes and returns what it did not use           *)
(* (mlib_readchn in server/medialib.c), and the SIGALRM handler, which     *)
(* adds the tokens of a second to every bucket.                            *)
(*                                                                         *)
(* The alarm belongs to the process: its handler runs on top of whichever  *)
(* thread the signal is delivered to, and that thread does nothing else    *)
(* until the handler returns.  Handlers is the set of threads that may     *)
(* receive it; the code blocks SIGALRM in none of them.  A mutex is        *)
(* locked in one step and released in the step that does the work done     *)
(* under it, so that a signal can arrive in between.                       *)
(***************************************************************************)
EXTENDS Integers, FiniteSets

CONSTANTS
  Main,        \* the thread that calls mytbf_init and mytbf_destroy
  Timers,      \* the timer threads it can start (bound on the calls)
  Buckets,     \* the buckets; the thread of its channel has the same name
  Handlers,    \* the threads SIGALRM may be delivered to
  Null,        \* NULL: no bucket in a slot, no thread in a mutex
  MYTBF_MAX,   \* number of slots
  Cps,         \* tokens added per second
  Burst,       \* most tokens a bucket holds
  ReadSize     \* bytes a channel thread asks for

Thread == {Main} \cup Timers \cup Buckets

ASSUME ThreadAssumption ==
  /\ Null \notin Thread /\ Main \notin Timers \cup Buckets
  /\ Timers \cap Buckets = {} /\ Handlers \subseteq Thread
ASSUME FiniteAssumption == IsFiniteSet(Timers) /\ IsFiniteSet(Buckets)
ASSUME MaxAssumption == MYTBF_MAX \in Nat \ {0}
ASSUME RateAssumption ==
  Cps \in Nat \ {0} /\ Burst \in Nat \ {0} /\ ReadSize \in Nat \ {0}

Slots == 0 .. MYTBF_MAX - 1

VARIABLES
  job,         \* slot -> the bucket in it, or Null
  allocated,   \* the buckets that malloc has returned and free has not taken
  token,       \* bucket -> tokens
  mut,         \* bucket -> the thread that holds its mutex, or Null
  mut_job,     \* the thread that holds mut_job, or Null
  once_done,   \* pthread_once has called module_load
  pc,          \* thread -> where it is
  me,          \* the bucket the main thread is working on, or Null
  got,         \* bucket -> tokens its thread has in hand (tbfsize)
  alarm,       \* a SIGALRM is pending
  hpc,         \* thread -> where the handler that runs on it is
  hpos         \* thread -> i, the loop variable of that handler

threadVars == <<pc, me, got>>
handlerVars == <<alarm, hpc, hpos>>
bucketVars == <<job, allocated, token, once_done>>
vars == <<bucketVars, mut, mut_job, threadVars, handlerVars>>

Init ==
  /\ job = [i \in Slots |-> Null]
  /\ allocated = {}
  /\ token = [b \in Buckets |-> 0]
  /\ mut = [b \in Buckets |-> Null] /\ mut_job = Null
  /\ once_done = FALSE
  /\ pc = [t \in Thread |-> IF t = Main THEN "idle" ELSE "none"]
  /\ me = Null
  /\ got = [b \in Buckets |-> 0]
  /\ alarm = FALSE
  /\ hpc = [t \in Thread |-> "out"]
  /\ hpos = [t \in Thread |-> 0]

Exited == pc[Main] = "exited"

(* t runs its own code, which is at l.                                      *)
At(t, l) == ~ Exited /\ hpc[t] = "out" /\ pc[t] = l

Goto(t, l) == pc' = [pc EXCEPT ![t] = l]

(* pthread_mutex_lock and the matching unlock of a bucket's mutex.          *)
Lock(t, b)   == mut[b] = Null /\ mut' = [mut EXCEPT ![b] = t]
Unlock(t, b) == mut' = [mut EXCEPT ![b] = Null]

LockJob(t) == mut_job = Null /\ mut_job' = t

(* Mutant of Woken: the broadcast is missing.                               *)
NotWoken(p, b) == p

(* pthread_cond_broadcast: the thread that sleeps on the bucket's condition *)
(* variable is about to take the mutex again and test token.                *)
Woken(p, b) == IF p[b] = "wait" THEN [p EXCEPT ![b] = "fetch"] ELSE p

Clipped(n) == IF n > Burst THEN Burst ELSE n

-----------------------------------------------------------------------------
(* The main thread: mytbf_init *)

FreshTimers == {t \in Timers : pc[t] = "none"}

(* path2entry calls mytbf_init; the guard keeps enough timer threads for it. *)
InitCall ==
  /\ At(Main, "idle")
  /\ Cardinality(FreshTimers) >= IF once_done THEN 1 ELSE 2
  /\ Goto(Main, "load")
  /\ UNCHANGED <<bucketVars, mut, mut_job, me, got, handlerVars>>

(* module_load: the thread is created and the unload function registered.   *)
ModuleLoad(t) ==
  /\ t \in FreshTimers
  /\ pc' = [pc EXCEPT ![t] = "start",
                      ![Main] = IF pc[Main] = "load" THEN "once" ELSE "malloc"]

(* The direct call.                                                         *)
Load ==
  /\ At(Main, "load")
  /\ \E t \in Timers : ModuleLoad(t)
  /\ UNCHANGED <<bucketVars, mut, mut_job, me, got, handlerVars>>

(* The call through pthread_once.                                           *)
LoadOnce ==
  /\ At(Main, "once")
  /\ IF once_done THEN Goto(Main, "malloc")
                  ELSE \E t \in Timers : ModuleLoad(t)
  /\ once_done' = TRUE
  /\ UNCHANGED <<job, allocated, token, mut, mut_job, me, got, handlerVars>>

(* pthread_create fails in module_load: exit(1).                            *)
LoadFails ==
  /\ At(Main, "load") \/ (At(Main, "once") /\ ~ once_done)
  /\ Goto(Main, "exited")
  /\ UNCHANGED <<bucketVars, mut, mut_job, me, got, handlerVars>>

Malloc(b) ==
  /\ At(Main, "malloc")
  /\ b \notin allocated /\ pc[b] = "none"
  /\ allocated' = allocated \cup {b}
  /\ token' = [token EXCEPT ![b] = 0]
  /\ me' = b
  /\ Goto(Main, "lock")
  /\ UNCHANGED <<job, once_done, mut, mut_job, got, handlerVars>>

(* malloc returns NULL: so does mytbf_init, the timer threads running.      *)
NoMemory ==
  /\ At(Main, "malloc")
  /\ Goto(Main, "idle")
  /\ UNCHANGED <<bucketVars, mut, mut_job, me, got, handlerVars>>

(* Mutant of InitLock: the slot is chosen without mut_job.                  *)
InitUnlocked ==
  /\ At(Main, "lock")
  /\ Goto(Main, "register")
  /\ UNCHANGED <<bucketVars, mut, mut_job, me, got, handlerVars>>

InitLock ==
  /\ At(Main, "lock")
  /\ LockJob(Main)
  /\ Goto(Main, "register")
  /\ UNCHANGED <<bucketVars, mut, me, got, handlerVars>>

FreeSlots == {i \in Slots : job[i] = Null}

(* get_free_pos_unlocked returns the first free slot; the bucket takes it.  *)
Register ==
  /\ At(Main, "register")
  /\ \E i \in FreeSlots :
       /\ \A k \in FreeSlots : i <= k
       /\ job' = [job EXCEPT ![i] = me]
  /\ mut_job' = Null
  /\ me' = Null
  /\ Goto(Main, "idle")
  /\ UNCHANGED <<allocated, token, once_done, mut, got, handlerVars>>

(* No slot is free: exit(1).                                                *)
NoFreePos ==
  /\ At(Main, "register")
  /\ FreeSlots = {}
  /\ mut_job' = Null
  /\ allocated' = allocated \ {me}
  /\ Goto(Main, "exited")
  /\ UNCHANGED <<job, token, once_done, mut, me, got, handlerVars>>

-----------------------------------------------------------------------------
(* The main thread: the channel thread, and mytbf_destroy of a bucket that  *)
(* has none                                                                 *)

Registered(b) == \E i \in Slots : job[i] = b

(* thr_channel_create.                                                      *)
CreateUser(b) ==
  /\ At(Main, "idle")
  /\ Registered(b) /\ pc[b] = "none"
  /\ pc' = [pc EXCEPT ![b] = "idle"]
  /\ UNCHANGED <<bucketVars, mut, mut_job, me, got, handlerVars>>

DestroyCall(b) ==
  /\ At(Main, "idle")
  /\ Registered(b) /\ pc[b] = "none"
  /\ me' = b
  /\ Goto(Main, "destroy")
  /\ UNCHANGED <<bucketVars, mut, mut_job, got, handlerVars>>

(* Mutant of DestroyLock: the slot is cleared without mut_job.              *)
DestroyUnlocked ==
  /\ At(Main, "destroy")
  /\ Goto(Main, "unregister")
  /\ UNCHANGED <<bucketVars, mut, mut_job, me, got, handlerVars>>

DestroyLock ==
  /\ At(Main, "destroy")
  /\ LockJob(Main)
  /\ Goto(Main, "unregister")
  /\ UNCHANGED <<bucketVars, mut, me, got, handlerVars>>

(* job[me->pos] = NULL; me->pos is the slot the bucket is in.               *)
Unregister ==
  /\ At(Main, "unregister")
  /\ job' = [i \in Slots |-> IF job[i] = me THEN Null ELSE job[i]]
  /\ mut_job' = Null
  /\ Goto(Main, "free")
  /\ UNCHANGED <<allocated, token, once_done, mut, me, got, handlerVars>>

Free ==
  /\ At(Main, "free")
  /\ allocated' = allocated \ {me}
  /\ me' = Null
  /\ Goto(Main, "idle")
  /\ UNCHANGED <<job, token, once_done, mut, mut_job, got, handlerVars>>

MainStep ==
  \/ InitCall \/ Load \/ LoadOnce \/ LoadFails
  \/ (\E b \in Buckets : Malloc(b)) \/ NoMemory \/ InitLock \/ Register \/ NoFreePos
  \/ (\E b \in Buckets : CreateUser(b) \/ DestroyCall(b))
  \/ DestroyLock \/ Unregister \/ Free

-----------------------------------------------------------------------------
(* thr_alrm: signal() and setitimer(), then pause() for ever.               *)
TimerStart(t) ==
  /\ At(t, "start")
  /\ Goto(t, "pause")
  /\ UNCHANGED <<bucketVars, mut, mut_job, me, got, handlerVars>>

-----------------------------------------------------------------------------
(* A channel thread: mlib_readchn on its bucket *)

FetchCall(b) ==
  /\ At(b, "idle")
  /\ Goto(b, "fetch")
  /\ UNCHANGED <<bucketVars, mut, mut_job, me, got, handlerVars>>

(* The channel thread gives up: sendto has failed (thr_channel.c:54-58).    *)
UserExit(b) ==
  /\ At(b, "idle")
  /\ Goto(b, "gone")
  /\ UNCHANGED <<bucketVars, mut, mut_job, me, got, handlerVars>>

(* mytbf_fetchtoken takes the mutex, at first or after a wait.              *)
FetchLock(b) ==
  /\ At(b, "fetch")
  /\ Lock(b, b)
  /\ Goto(b, "test")
  /\ UNCHANGED <<bucketVars, mut_job, me, got, handlerVars>>

(* Mutant of FetchWait: the thread keeps the mutex while it sleeps.         *)
FetchSleep(b) ==
  /\ At(b, "test")
  /\ token[b] <= 0
  /\ Goto(b, "wait")
  /\ UNCHANGED <<bucketVars, mut, mut_job, me, got, handlerVars>>

FetchWait(b) ==
  /\ At(b, "test")
  /\ token[b] <= 0
  /\ Unlock(b, b)
  /\ Goto(b, "wait")
  /\ UNCHANGED <<bucketVars, mut_job, me, got, handlerVars>>

(* pthread_cond_wait returns without a broadcast.                           *)
FetchSpurious(b) ==
  /\ At(b, "wait")
  /\ Goto(b, "fetch")
  /\ UNCHANGED <<bucketVars, mut, mut_job, me, got, handlerVars>>

(* Mutant of Fetch: all the tokens are taken, whatever was asked for.       *)
FetchAll(b) ==
  /\ At(b, "test")
  /\ token[b] > 0
  /\ token' = [token EXCEPT ![b] = 0]
  /\ got' = [got EXCEPT ![b] = token[b]]
  /\ Unlock(b, b)
  /\ Goto(b, "check")
  /\ UNCHANGED <<job, allocated, once_done, mut_job, me, handlerVars>>

Fetch(b) ==
  LET n == IF token[b] < ReadSize THEN token[b] ELSE ReadSize
  IN /\ At(b, "test")
     /\ token[b] > 0
     /\ token' = [token EXCEPT ![b] = @ - n]
     /\ got' = [got EXCEPT ![b] = n]
     /\ Unlock(b, b)
     /\ Goto(b, "check")
     /\ UNCHANGED <<job, allocated, once_done, mut_job, me, handlerVars>>

(* mytbf_checktoken, for the log.                                           *)
CheckLock(b) ==
  /\ At(b, "check")
  /\ Lock(b, b)
  /\ Goto(b, "look")
  /\ UNCHANGED <<bucketVars, mut_job, me, got, handlerVars>>

Check(b) ==
  /\ At(b, "look")
  /\ Unlock(b, b)
  /\ Goto(b, "read")
  /\ UNCHANGED <<bucketVars, mut_job, me, got, handlerVars>>

(* pread returns len bytes, none at the end of a file.  If tokens remain    *)
(* they are returned.                                                       *)
ReadFile(b) ==
  /\ At(b, "read")
  /\ \E len \in 0 .. got[b] :
       /\ got' = [got EXCEPT ![b] = @ - len]
       /\ Goto(b, IF got[b] - len > 0 THEN "return" ELSE "idle")
  /\ UNCHANGED <<bucketVars, mut, mut_job, me, handlerVars>>

ReturnLock(b) ==
  /\ At(b, "return")
  /\ Lock(b, b)
  /\ Goto(b, "give")
  /\ UNCHANGED <<bucketVars, mut_job, me, got, handlerVars>>

(* Mutant of ReturnToken: what was asked for is returned, not what is left. *)
ReturnAll(b) ==
  /\ At(b, "give")
  /\ token' = [token EXCEPT ![b] = Clipped(@ + ReadSize)]
  /\ got' = [got EXCEPT ![b] = 0]
  /\ Unlock(b, b)
  /\ Goto(b, "idle")
  /\ UNCHANGED <<job, allocated, once_done, mut_job, me, handlerVars>>

(* mytbf_returntoken; it wakes nobody.                                      *)
ReturnToken(b) ==
  /\ At(b, "give")
  /\ token' = [token EXCEPT ![b] = Clipped(@ + got[b])]
  /\ got' = [got EXCEPT ![b] = 0]
  /\ Unlock(b, b)
  /\ Goto(b, "idle")
  /\ UNCHANGED <<job, allocated, once_done, mut_job, me, handlerVars>>

UserStep(b) ==
  \/ FetchCall(b) \/ FetchLock(b) \/ FetchWait(b) \/ Fetch(b)
  \/ CheckLock(b) \/ Check(b) \/ ReadFile(b) \/ ReturnLock(b) \/ ReturnToken(b)

-----------------------------------------------------------------------------
(* The alarm and its handler *)

Armed == \E t \in Timers : pc[t] = "pause"

(* A second has passed.  Pending signals of one kind are one.               *)
Tick ==
  /\ ~ Exited /\ Armed /\ ~ alarm
  /\ alarm' = TRUE
  /\ UNCHANGED <<bucketVars, mut, mut_job, threadVars, hpc, hpos>>

(* A thread that exists and is not already in the handler is interrupted.   *)
Deliver(t) ==
  /\ ~ Exited /\ alarm
  /\ t \in Handlers /\ pc[t] \notin {"none", "gone"} /\ hpc[t] = "out"
  /\ alarm' = FALSE
  /\ hpc' = [hpc EXCEPT ![t] = "lock"]
  /\ UNCHANGED <<bucketVars, mut, mut_job, threadVars, hpos>>

HandlerLock(t) ==
  /\ ~ Exited /\ hpc[t] = "lock"
  /\ LockJob(t)
  /\ hpc' = [hpc EXCEPT ![t] = "scan"]
  /\ hpos' = [hpos EXCEPT ![t] = 0]
  /\ UNCHANGED <<bucketVars, mut, threadVars, alarm>>

HandlerSkip(t) ==
  /\ ~ Exited /\ hpc[t] = "scan" /\ hpos[t] < MYTBF_MAX
  /\ job[hpos[t]] = Null
  /\ hpos' = [hpos EXCEPT ![t] = @ + 1]
  /\ UNCHANGED <<bucketVars, mut, mut_job, threadVars, alarm, hpc>>

HandlerLockBucket(t) ==
  /\ ~ Exited /\ hpc[t] = "scan" /\ hpos[t] < MYTBF_MAX
  /\ job[hpos[t]] # Null
  /\ Lock(t, job[hpos[t]])
  /\ hpc' = [hpc EXCEPT ![t] = "add"]
  /\ UNCHANGED <<bucketVars, mut_job, threadVars, alarm, hpos>>

(* Mutant of HandlerAdd: the bucket is filled up, whatever its rate.         *)
HandlerFill(t) ==
  LET b == job[hpos[t]]
  IN /\ ~ Exited /\ hpc[t] = "add"
     /\ token' = [token EXCEPT ![b] = Burst]
     /\ pc' = Woken(pc, b)
     /\ Unlock(t, b)
     /\ hpc' = [hpc EXCEPT ![t] = "scan"]
     /\ hpos' = [hpos EXCEPT ![t] = @ + 1]
     /\ UNCHANGED <<job, allocated, once_done, mut_job, me, got, alarm>>

(* The tokens of a second, and a broadcast to the bucket's waiters.         *)
HandlerAdd(t) ==
  LET b == job[hpos[t]]
  IN /\ ~ Exited /\ hpc[t] = "add"
     /\ token' = [token EXCEPT ![b] = Clipped(@ + Cps)]
     /\ pc' = Woken(pc, b)
     /\ Unlock(t, b)
     /\ hpc' = [hpc EXCEPT ![t] = "scan"]
     /\ hpos' = [hpos EXCEPT ![t] = @ + 1]
     /\ UNCHANGED <<job, allocated, once_done, mut_job, me, got, alarm>>

(* Mutant of HandlerEnd: mut_job stays locked.                              *)
HandlerEndLocked(t) ==
  /\ ~ Exited /\ hpc[t] = "scan" /\ hpos[t] = MYTBF_MAX
  /\ hpc' = [hpc EXCEPT ![t] = "out"]
  /\ UNCHANGED <<bucketVars, mut, mut_job, threadVars, alarm, hpos>>

HandlerEnd(t) ==
  /\ ~ Exited /\ hpc[t] = "scan" /\ hpos[t] = MYTBF_MAX
  /\ mut_job' = Null
  /\ hpc' = [hpc EXCEPT ![t] = "out"]
  /\ UNCHANGED <<bucketVars, mut, threadVars, alarm, hpos>>

HandlerStep(t) ==
  \/ HandlerLock(t) \/ HandlerSkip(t) \/ HandlerLockBucket(t)
  \/ HandlerAdd(t) \/ HandlerEnd(t)

-----------------------------------------------------------------------------
Next ==
  \/ MainStep
  \/ \E t \in Timers : TimerStart(t)
  \/ \E b \in Buckets : UserStep(b) \/ FetchSpurious(b) \/ UserExit(b)
  \/ Tick
  \/ \E t \in Thread : Deliver(t) \/ HandlerStep(t)

Safety == Init /\ [][Next]_vars

(* Every thread runs, the alarm rings every second and is delivered.  A     *)
(* mutex is held for a few instructions and the alarm rings once a second,  *)
(* so a thread that waits for a mutex that is free again and again gets it: *)
(* strong fairness.                                                         *)
Fairness ==
  /\ SF_vars(MainStep /\ pc[Main] # "idle")
  /\ \A t \in Timers : WF_vars(TimerStart(t))
  /\ \A b \in Buckets : SF_vars(UserStep(b))
  /\ WF_vars(Tick)
  /\ WF_vars(\E t \in Thread : Deliver(t))
  /\ \A t \in Handlers : SF_vars(HandlerStep(t))

Spec == Safety /\ Fairness

-----------------------------------------------------------------------------
(* Where a thread can be.                                                   *)
Location ==
  {"none", "idle", "load", "once", "malloc", "lock", "register", "destroy",
   "unregister", "free", "exited", "start", "pause", "fetch", "test", "wait",
   "check", "look", "read", "return", "give", "gone"}

TypeOK ==
  /\ job \in [Slots -> Buckets \cup {Null}]
  /\ allocated \subseteq Buckets
  /\ token \in [Buckets -> 0 .. Burst]
  /\ mut \in [Buckets -> Thread \cup {Null}]
  /\ mut_job \in Thread \cup {Null}
  /\ once_done \in BOOLEAN
  /\ pc \in [Thread -> Location]
  /\ me \in Buckets \cup {Null}
  /\ got \in [Buckets -> 0 .. ReadSize]
  /\ alarm \in BOOLEAN
  /\ hpc \in [Thread -> {"out", "lock", "scan", "add"}]
  /\ hpos \in [Thread -> 0 .. MYTBF_MAX]

(* A channel thread sleeps only while its bucket is empty: no addition of   *)
(* tokens goes unnoticed between its test and its sleep                     *)
(* (mytbf.c:42-48,140-142).                                                 *)
NoMissedTokens == \A b \in Buckets : pc[b] = "wait" => token[b] = 0

(* No thread ever uses a bucket that has been freed: neither the handler,   *)
(* which finds it through job[], nor a channel thread, nor anyone that      *)
(* holds its mutex when it is destroyed (mytbf.c:39-51,160-170).            *)
NoUseAfterFree ==
  /\ \A i \in Slots : job[i] # Null => job[i] \in allocated
  /\ \A t \in Thread : hpc[t] = "add" => job[hpos[t]] \in allocated
  /\ \A b \in Buckets : pc[b] # "none" \/ mut[b] # Null => b \in allocated

-----------------------------------------------------------------------------
(* What comments of the source say and the code does not do.               *)

(* A fetch that finds no token waits for the notification and then has its  *)
(* tokens (mytbf.c:142): no call of mytbf_fetchtoken waits for ever.        *)
FetchReturns ==
  \A b \in Buckets : pc[b] = "fetch" ~> (pc[b] = "check" \/ Exited)
=============================================================================
