------------------------------ MODULE Shutdown ------------------------------
(***************************************************************************)
(* The server from the moment its media library is loaded: main() starts   *)
(* the list thread and the channel threads (server/server.c,               *)
(* server/thr_list.c, server/thr_channel.c) over the token buckets of      *)
(* TokenBucket, until SIGINT, SIGQUIT or SIGTERM comes.  daemon_exit runs  *)
(* as a signal handler on top of whichever thread takes the signal, at     *)
(* whatever moment: it cancels and joins the threads one by one, frees the *)
(* list and calls exit, whose handlers (module_unload in server/mytbf.c)   *)
(* free the buckets.                                                       *)
(*                                                                         *)
(* A cancelled thread ends at its next cancellation point: sendto, sleep,  *)
(* pread, pause, pthread_join or pthread_cond_wait, which takes its mutex  *)
(* again before the thread ends, and nothing releases it then.  Both       *)
(* handlers may interrupt each other.  The thread that takes the signal    *)
(* may be inside a function of the C library and hold one of its locks:    *)
(* that of syslog, or another (malloc, stdio, thread stacks).  It keeps it *)
(* for good, and whoever calls the library may wait for it for ever, the   *)
(* handler included.                                                       *)
(*                                                                         *)
(* One signal is modelled.  pthread_cancel of thread 0 crashes; a second   *)
(* join and free crash, hang or go unnoticed.                              *)
(***************************************************************************)
EXTENDS TokenBucket, Sequences

CONSTANTS
  List,         \* the list: the buckets of its channels, each once
  ListThread,   \* the thread of thr_list
  LastTimer,    \* the timer thread whose identifier is in tid
  SigThreads,   \* the threads the signal may be delivered to
  CHANNUM       \* entries of thr_channel

AllThreads == Thread \cup {ListThread}

ASSUME ListAssumption ==
  /\ List \in Seq(Buckets) /\ List # <<>>
  /\ \A b \in Buckets : \E i \in 1 .. Len(List) : List[i] = b
  /\ \A i, k \in 1 .. Len(List) : List[i] = List[k] => i = k
ASSUME ThreadsAssumption ==
  /\ ListThread \notin Thread \cup {Null} /\ LastTimer \in Timers
  /\ SigThreads \subseteq AllThreads
ASSUME ChannumAssumption == CHANNUM \in Nat /\ Len(List) <= CHANNUM /\ Len(List) <= MYTBF_MAX

Entries == 1 .. CHANNUM
Reused  == 255   \* (chnid_t)-1

VARIABLES
  mpc,          \* where main() is
  list_thr,     \* the list thread: "none", "running" or "gone"
  thr_channel,  \* entry -> its chnid; 0 as long as it is unused
  tid_nextpos,  \* entries filled
  exiter,       \* the thread that runs daemon_exit or exit, or Null
  over,         \* its alarm handler is interrupted, not its own code
  held,         \* the lock of the C library its own code holds: "none", "log" or "other"
  blocked,      \* threads that wait for that lock, for ever
  dpc,          \* where it is in daemon_exit and exit
  dpos,         \* i, the loop variable of thr_channel_destroyall
  cancelled,    \* threads pthread_cancel has been called for
  known,        \* (history) entries filled when the signal was taken
  list_freed,   \* mlib_freechnlist has been called
  unloads       \* calls of module_unload that exit has still to make

startVars == <<mpc, list_thr, thr_channel, tid_nextpos>>
exitVars == <<exiter, over, held, blocked, dpc, dpos, cancelled, known, list_freed, unloads>>
shutdownVars == <<vars, startVars, exitVars>>

(* mlib_getchnlist has made a bucket for every channel and started a timer  *)
(* thread, and registered module_unload, for every bucket and once more.    *)
ShutdownInit ==
  /\ job = [i \in Slots |-> IF i < Len(List) THEN List[i + 1] ELSE Null]
  /\ allocated = Buckets /\ once_done = TRUE
  /\ token = [b \in Buckets |-> 0] /\ got = [b \in Buckets |-> 0]
  /\ mut = [b \in Buckets |-> Null] /\ mut_job = Null
  /\ pc = [t \in Thread |-> CASE t = Main -> "idle" [] t \in Timers -> "pause" [] OTHER -> "none"]
  /\ me = Null /\ alarm = FALSE
  /\ hpc = [t \in Thread |-> "out"] /\ hpos = [t \in Thread |-> 0]
  /\ mpc = "list" /\ list_thr = "none"
  /\ thr_channel = [i \in Entries |-> 0] /\ tid_nextpos = 0
  /\ exiter = Null /\ over = FALSE /\ held = "none" /\ blocked = {}
  /\ dpc = "out" /\ dpos = 1
  /\ cancelled = {} /\ known = {} /\ list_freed = FALSE
  /\ unloads = Len(List) + 1

(* The process ends, or is killed by what it did.                           *)
Terminate ==
  /\ pc' = [pc EXCEPT ![Main] = "exited"]
  /\ UNCHANGED <<bucketVars, mut, mut_job, me, got, handlerVars, startVars,
                 exitVars>>

-----------------------------------------------------------------------------
(* main() *)

MainAt(l) == At(Main, "idle") /\ exiter # Main /\ Main \notin blocked /\ mpc = l

(* thr_list_create; main() does not look at its result.                     *)
ListCreate ==
  /\ MainAt("list")
  /\ mpc' = "create"
  /\ list_thr' \in {"running", "none"}
  /\ UNCHANGED <<vars, thr_channel, tid_nextpos, exitVars>>

(* thr_channel_create: the thread runs before its entry is filled.          *)
ChannelCreate ==
  /\ MainAt("create") /\ tid_nextpos < Len(List)
  /\ mpc' = "store"
  /\ pc' = [pc EXCEPT ![List[tid_nextpos + 1]] = "idle"]
  /\ UNCHANGED <<bucketVars, mut, mut_job, me, got, handlerVars, list_thr,
                 thr_channel, tid_nextpos, exitVars>>

(* chnid is the place in the list: identifiers are given out in order.      *)
ChannelStore ==
  /\ MainAt("store")
  /\ mpc' = "create"
  /\ tid_nextpos' = tid_nextpos + 1
  /\ thr_channel' = [thr_channel EXCEPT ![tid_nextpos + 1] = tid_nextpos + 1]
  /\ UNCHANGED <<vars, list_thr, exitVars>>

ChannelsDone ==
  /\ MainAt("create") /\ tid_nextpos = Len(List)
  /\ mpc' = "pause"
  /\ UNCHANGED <<vars, list_thr, thr_channel, tid_nextpos, exitVars>>

(* pthread_create fails: exit(1), with the threads running.                 *)
ChannelFails ==
  /\ MainAt("create") /\ tid_nextpos < Len(List) /\ exiter = Null
  /\ exiter' = Main /\ dpc' = "unload"
  /\ UNCHANGED <<vars, startVars, over, held, blocked, dpos, cancelled, known,
                 list_freed, unloads>>

MainStart == ListCreate \/ ChannelCreate \/ ChannelStore \/ ChannelsDone

-----------------------------------------------------------------------------
(* The signal, and daemon_exit on the thread that takes it *)

Alive(t) == IF t = ListThread THEN list_thr = "running" ELSE pc[t] \notin {"none", "gone"}

(* t's own code is where it calls syslog, malloc, printf, pthread_create:   *)
(* the list thread anywhere, main() while it starts the threads, a channel  *)
(* thread outside the functions of the bucket.                              *)
CallsLibc(t) ==
  \/ t = ListThread /\ list_thr = "running"
  \/ t = Main /\ pc[t] = "idle" /\ mpc \in {"list", "create"}
  \/ t \in Buckets /\ pc[t] \in {"idle", "read"}

Signal(t) ==
  /\ ~ Exited /\ exiter = Null /\ Alive(t)
  /\ exiter' = t
  /\ over' = (t # ListThread /\ hpc[t] # "out")
  /\ \/ held' = "none"
     \/ CallsLibc(t) /\ held' \in {"log", "other"}
  /\ dpc' = "list"
  /\ known' = {i \in Entries : thr_channel[i] > 0}
  /\ UNCHANGED <<vars, startVars, blocked, dpos, cancelled, list_freed, unloads>>

(* The exiting thread is at l, no alarm handler on top of it.               *)
ExitAt(l) ==
  /\ ~ Exited /\ dpc = l
  /\ \A t \in Thread : t = exiter => over \/ hpc[t] = "out"

Cancel(t, l) ==
  /\ cancelled' = cancelled \cup {t}
  /\ dpc' = l
  /\ UNCHANGED <<vars, startVars, exiter, over, held, blocked, dpos, known,
                 list_freed, unloads>>

(* thr_list_destroy; a list thread that was never started is thread 0.      *)
ListCancel ==
  /\ ExitAt("list")
  /\ IF list_thr = "none" THEN Terminate ELSE Cancel(ListThread, "join_list")

ListJoin ==
  /\ ExitAt("join_list") /\ list_thr = "gone"
  /\ dpc' = "scan"
  /\ UNCHANGED <<vars, startVars, exiter, over, held, blocked, dpos, cancelled,
                 known, list_freed, unloads>>

(* Mutant of ChannelSkip: the loop goes one entry too far.                  *)
ChannelSkipPast ==
  /\ ExitAt("scan") /\ dpos <= CHANNUM + 1 /\ (dpos > CHANNUM \/ thr_channel[dpos] = 0)
  /\ dpos' = dpos + 1
  /\ UNCHANGED <<vars, startVars, exiter, over, held, blocked, dpc, cancelled,
                 known, list_freed, unloads>>

(* thr_channel_destroyall.                                                  *)
ChannelSkip ==
  /\ ExitAt("scan") /\ dpos <= CHANNUM /\ thr_channel[dpos] = 0
  /\ dpos' = dpos + 1
  /\ UNCHANGED <<vars, startVars, exiter, over, held, blocked, dpc, cancelled,
                 known, list_freed, unloads>>

(* Mutant of ChannelCancel: the thread is joined but not cancelled.         *)
ChannelNoCancel ==
  /\ ExitAt("scan") /\ dpos <= CHANNUM /\ thr_channel[dpos] > 0
  /\ dpc' = "join"
  /\ UNCHANGED <<vars, startVars, exiter, over, held, blocked, dpos, cancelled,
                 known, list_freed, unloads>>

ChannelCancel ==
  /\ ExitAt("scan") /\ dpos <= CHANNUM /\ thr_channel[dpos] > 0
  /\ Cancel(List[dpos], "join")

(* Mutant of ChannelJoin: nobody waits for the thread to end.               *)
ChannelDetach ==
  /\ ExitAt("join")
  /\ thr_channel' = [thr_channel EXCEPT ![dpos] = Reused]
  /\ dpc' = "scan" /\ dpos' = dpos + 1
  /\ UNCHANGED <<vars, mpc, list_thr, tid_nextpos, exiter, over, held, blocked,
                 cancelled, known, list_freed, unloads>>

ChannelJoin ==
  /\ ExitAt("join") /\ pc[List[dpos]] = "gone"
  /\ thr_channel' = [thr_channel EXCEPT ![dpos] = Reused]
  /\ dpc' = "scan" /\ dpos' = dpos + 1
  /\ UNCHANGED <<vars, mpc, list_thr, tid_nextpos, exiter, over, held, blocked,
                 cancelled, known, list_freed, unloads>>

(* mlib_freechnlist, syslog and exit(0).  syslog never returns if the code  *)
(* below has its lock.                                                      *)
ListFree ==
  /\ ExitAt("scan") /\ dpos > CHANNUM
  /\ list_freed' = TRUE
  /\ dpc' = IF held = "log" THEN "hung" ELSE "unload"
  /\ UNCHANGED <<vars, startVars, exiter, over, held, blocked, dpos, cancelled,
                 known, unloads>>

(* module_unload: the first call cancels and joins the last timer thread    *)
(* and frees the buckets, which stay in job[].                              *)
TimerCancel ==
  /\ ExitAt("unload") /\ unloads > 0 /\ allocated # {}
  /\ Cancel(LastTimer, "join_timer")

TimerJoin ==
  /\ ExitAt("join_timer") /\ pc[LastTimer] = "gone"
  /\ allocated' = {}
  /\ dpc' = "unload" /\ unloads' = unloads - 1
  /\ UNCHANGED <<job, token, once_done, mut, mut_job, threadVars, handlerVars,
                 startVars, exiter, over, held, blocked, dpos, cancelled, known,
                 list_freed>>

(* Every further call does it once more, to a thread and to buckets that    *)
(* are gone: it goes unnoticed, crashes, or hangs (ExitHangs).              *)
UnloadAgain ==
  /\ ExitAt("unload") /\ unloads > 0 /\ allocated = {}
  /\ unloads' = unloads - 1
  /\ UNCHANGED <<vars, startVars, exiter, over, held, blocked, dpc, dpos, cancelled,
                 known, list_freed>>

UnloadCrash == ExitAt("unload") /\ unloads > 0 /\ allocated = {} /\ Terminate
ExitDone    == ExitAt("unload") /\ unloads = 0 /\ Terminate

(* pthread_join, free and exit may need the lock the code below has.        *)
ExitHangs ==
  /\ \E l \in {"join_list", "scan", "join", "unload", "join_timer"} : ExitAt(l)
  /\ held = "other" \/ (dpc = "unload" /\ unloads > 0 /\ allocated = {})
  /\ dpc' = "hung"
  /\ UNCHANGED <<vars, startVars, exiter, over, held, blocked, dpos, cancelled, known,
                 list_freed, unloads>>

(* Another thread calls the library and waits for that lock.                *)
LibcBlocks(t) ==
  /\ ~ Exited /\ held # "none" /\ t \notin blocked \cup {exiter}
  /\ CallsLibc(t) /\ (t # ListThread => hpc[t] = "out")
  /\ blocked' = blocked \cup {t}
  /\ UNCHANGED <<vars, startVars, exiter, over, held, dpc, dpos, cancelled, known,
                 list_freed, unloads>>

ExitStep ==
  \/ ListCancel \/ ListJoin \/ ChannelSkip \/ ChannelCancel \/ ChannelJoin \/ ListFree
  \/ TimerCancel \/ TimerJoin \/ UnloadAgain \/ UnloadCrash \/ ExitDone

-----------------------------------------------------------------------------
(* How cancelled threads end *)

(* t ends; in pthread_cond_wait it takes the mutex of its bucket first.     *)
Ends(t) ==
  /\ Goto(t, "gone")
  /\ IF pc[t] = "wait" THEN Lock(t, t) ELSE UNCHANGED mut
  /\ UNCHANGED <<bucketVars, mut_job, me, got, handlerVars, startVars>>

(* In the loop of thr_list, in sendto and pread of a channel thread, in its *)
(* wait for tokens, in pause of a timer thread.                             *)
ListEnds ==
  /\ ~ Exited /\ ListThread \in cancelled /\ ListThread \notin blocked \cup {exiter}
  /\ list_thr = "running" /\ list_thr' = "gone"
  /\ UNCHANGED <<vars, mpc, thr_channel, tid_nextpos, exitVars>>

ThreadEnds(t) ==
  /\ t \in cancelled /\ t \notin blocked \cup {exiter}
  /\ At(t, "idle") \/ At(t, "read") \/ At(t, "wait") \/ At(t, "pause")
  /\ Ends(t)
  /\ UNCHANGED exitVars

(* The thread that runs daemon_exit has cancelled itself and ends in        *)
(* pthread_join: nobody goes on with daemon_exit.                           *)
ExiterEnds ==
  /\ ExitAt("join_list") \/ ExitAt("join") \/ ExitAt("join_timer")
  /\ exiter \in cancelled
  /\ dpc' = "lost"
  /\ IF exiter = ListThread
       THEN list_thr' = "gone" /\ UNCHANGED <<vars, mpc, thr_channel, tid_nextpos>>
       ELSE Ends(exiter)
  /\ UNCHANGED <<exiter, over, held, blocked, dpos, cancelled, known, list_freed,
                 unloads>>

-----------------------------------------------------------------------------
(* The threads of TokenBucket, where no signal handler stops them *)

Frame == UNCHANGED <<startVars, exitVars>>

Suspended(t) == t = exiter /\ over

User(b) == b \notin blocked \cup {exiter} /\ UserStep(b) /\ Frame
Unforced(b) == b \notin blocked \cup {exiter} /\ (FetchSpurious(b) \/ UserExit(b)) /\ Frame
Alarm(t) == ~ Suspended(t) /\ pc[t] # "gone" /\ HandlerStep(t) /\ Frame

(* The handler walks job[] after module_unload has freed its buckets.       *)
AlarmCrash(t) ==
  /\ ~ Exited /\ ~ Suspended(t)
  /\ hpc[t] = "scan" /\ hpos[t] \in Slots /\ job[hpos[t]] \in Buckets \ allocated
  /\ Terminate

ShutdownNext ==
  \/ MainStart \/ ChannelFails
  \/ \E t \in SigThreads : Signal(t)
  \/ ExitStep \/ ExitHangs \/ ListEnds \/ ExiterEnds
  \/ \E t \in AllThreads : LibcBlocks(t)
  \/ \E t \in Thread : ThreadEnds(t)
  \/ \E b \in Buckets : User(b) \/ Unforced(b)
  \/ \E t \in Handlers : (Deliver(t) /\ Frame) \/ Alarm(t) \/ AlarmCrash(t)
  \/ Tick /\ Frame

ShutdownSafety == ShutdownInit /\ [][ShutdownNext]_shutdownVars

(* Every thread runs and comes to its cancellation points; a mutex that is  *)
(* free again and again is got at some time, and an alarm once a second     *)
(* leaves time for the thread it interrupts.  No signal need ever come.     *)
ShutdownFairness ==
  /\ WF_shutdownVars(MainStart) /\ SF_shutdownVars(ExitStep) /\ WF_shutdownVars(ListEnds)
  /\ WF_shutdownVars(Tick /\ Frame) /\ WF_shutdownVars(\E t \in Handlers : Deliver(t) /\ Frame)
  /\ \A t \in Buckets \cup {LastTimer} : SF_shutdownVars(ThreadEnds(t))
  /\ \A b \in Buckets : SF_shutdownVars(User(b))
  /\ \A t \in Handlers : SF_shutdownVars(Alarm(t))

ShutdownSpec == ShutdownSafety /\ ShutdownFairness

-----------------------------------------------------------------------------
ShutdownTypeOK ==
  /\ TypeOK
  /\ mpc \in {"list", "create", "store", "pause"}
  /\ list_thr \in {"none", "running", "gone"}
  /\ thr_channel \in [Entries -> (0 .. CHANNUM) \cup {Reused}]
  /\ tid_nextpos \in 0 .. Len(List)
  /\ exiter \in AllThreads \cup {Null}
  /\ over \in BOOLEAN
  /\ held \in {"none", "log", "other"}
  /\ blocked \subseteq AllThreads
  /\ dpc \in {"out", "list", "join_list", "scan", "join", "unload", "join_timer", "hung", "lost"}
  /\ dpos \in 1 .. CHANNUM + 1
  /\ cancelled \subseteq AllThreads
  /\ known \subseteq Entries
  /\ list_freed \in BOOLEAN
  /\ unloads \in 0 .. Len(List) + 1

(* The list outlives its users: daemon_exit frees it only after the list    *)
(* thread, and every channel thread whose entry in thr_channel[] was filled *)
(* when the signal came, has ended (server.c:45-52, thr_channel.c:113-126). *)
(* It promises nothing of a channel thread whose entry was filled later     *)
(* (thr_channel.c:86-91), which may run on without the list, nor of the     *)
(* buckets, which module_unload may free under running threads.             *)
UsersEndFirst ==
  list_freed => list_thr = "gone" /\ \A i \in known : pc[List[i]] = "gone"

-----------------------------------------------------------------------------
(* Who waits for whom *)

(* In daemon_exit t waits for the thread it joins, or for a lock of the     *)
(* code it has itself interrupted.                                          *)
JoinWaits(t, u) ==
  \/ dpc = "join_list" /\ u = ListThread /\ list_thr # "gone"
  \/ dpc = "join" /\ u = List[dpos] /\ pc[u] # "gone"
  \/ dpc = "join_timer" /\ u = LastTimer /\ pc[u] # "gone"
  \/ dpc = "hung" /\ held # "none" /\ u = t

(* In the alarm handler, for the thread that holds mut_job or the mutex of  *)
(* the bucket it has come to.                                               *)
AlarmWaits(t, u) ==
  \/ hpc[t] = "lock" /\ mut_job = u
  \/ hpc[t] = "scan" /\ hpos[t] \in Slots /\ job[hpos[t]] \in Buckets /\ mut[job[hpos[t]]] = u

(* In its own code, for the holder of the lock of the C library or of its   *)
(* bucket's mutex, which a cancelled pthread_cond_wait takes too.           *)
OwnWaits(t, u) ==
  \/ t \in blocked /\ u = exiter
  \/ t \in Buckets /\ mut[t] = u
     /\ (pc[t] \in {"fetch", "check", "return"} \/ (pc[t] = "wait" /\ t \in cancelled))

(* Of the codes on top of each other the one that runs now counts.          *)
WaitsFor(t, u) ==
  CASE t = exiter /\ (t = ListThread \/ over \/ hpc[t] = "out") -> JoinWaits(t, u)
    [] t # ListThread /\ hpc[t] # "out" /\ ~ Suspended(t)       -> AlarmWaits(t, u)
    [] OTHER                                                    -> OwnWaits(t, u)

(* Every thread of S waits for one of S: none of them ever goes on.         *)
Circle(S) == S # {} /\ \A t \in S : \E u \in S : WaitsFor(t, u)

(* Threads wait for each other in a circle for two reasons only: the thread *)
(* that took the signal is in the circle and was itself in the alarm        *)
(* handler, inside the C library, or one of those that are joined; or the   *)
(* alarm came to a channel thread that holds its bucket's mutex.  All else  *)
(* that is locked and joined is locked and joined in an order that is safe, *)
(* whatever threads are cancelled meanwhile (server.c:45-52, mytbf.c:38-52, *)
(* 72-81,137-158).                                                          *)
Doomed == Buckets \cup {ListThread, LastTimer}

CircleCause(S) ==
  \/ exiter \in S /\ (over \/ held # "none" \/ exiter \in Doomed)
  \/ \E b \in S \cap Buckets : mut[b] = b /\ hpc[b] # "out"

NoOtherCircle == \A S \in SUBSET AllThreads : Circle(S) => CircleCause(S)

(* An alarm handler waits for the mutex of a bucket whose thread died in    *)
(* its wait for tokens.                                                     *)
WaitsForDead ==
  \E t \in Handlers, b \in Buckets :
    ~ Suspended(t) /\ AlarmWaits(t, b) /\ mut[b] = b /\ pc[b] = "gone"

(* A signal brings daemon_exit and exit as far as the end of the first      *)
(* module_unload, after which the code repeats what it has done and nothing *)
(* can be said.  What can keep it from that, while other threads run, is:   *)
(* there was no list thread yet; a circle of waiting threads; the thread    *)
(* that took the signal has cancelled itself; the alarm handler waits for a *)
(* bucket whose thread was cancelled in its wait (server.c:45-52,           *)
(* mytbf.c:38-52,72-81,140-142).                                            *)
SignalCleansUp ==
  exiter # Null ~>
    \/ allocated = {}
    \/ list_thr = "none"
    \/ \E S \in SUBSET AllThreads : Circle(S)
    \/ dpc = "lost"
    \/ WaitsForDead

(* A channel thread that waits for tokens gets some or is ended by a        *)
(* shutdown, if no channel thread takes the alarm (FetchReturns says why),  *)
(* though the handler may stop main() wherever it is (mytbf.c:38-52,        *)
(* 140-142).                                                                *)
WaiterServed ==
  \A b \in Buckets : pc[b] = "wait" ~> (pc[b] = "check" \/ exiter # Null \/ Exited)

-----------------------------------------------------------------------------
(* What a comment of the source says and the code does not do.              *)

(* The signals end the daemon (server.c:44,115).  Stated only of a signal   *)
(* that interrupts no call of the library, and only as far as the buckets   *)
(* are freed: what the code does then is undefined.                         *)
SignalEndsDaemon == dpc = "list" /\ held = "none" ~> Exited \/ allocated = {}
=============================================================================
