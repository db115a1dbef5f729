--------------------------- MODULE ShutdownProofs ---------------------------
(***************************************************************************)
(* Proofs about the shutdown of the server, for any list of channels, any  *)
(* number of slots and entries, and whatever threads take the signal and   *)
(* the alarm, the channel threads included: no thread daemon_exit knows of *)
(* outlives the list, every variable stays within its type, and threads    *)
(* wait for each other in a circle for the causes of CircleCause only.     *)
(***************************************************************************)
EXTENDS Shutdown, TLAPS

(* Where the threads, main() and daemon_exit may be.                        *)
Places ==
  /\ pc \in [Thread -> Location]
  /\ tid_nextpos \in 0 .. Len(List)
  /\ mpc \in {"list", "create", "store", "pause"}
  /\ mpc = "store" => tid_nextpos < Len(List)
  /\ mpc = "list" => list_thr = "none"
  /\ thr_channel \in [Entries -> Nat]
  /\ dpos \in Nat \ {0}
  /\ list_freed \in BOOLEAN
  /\ exiter \in AllThreads \cup {Null}
  /\ exiter = ListThread => list_thr # "none"

(* The table of the channel threads is filled in order.                     *)
TableFilled == \A i \in Entries : thr_channel[i] > 0 => i <= tid_nextpos

(* What daemon_exit knows stays in the table.                               *)
KnownInTable == known \subseteq Entries /\ \A i \in known : thr_channel[i] > 0

(* What daemon_exit has done by the time it is at dpc.                      *)
ExitProgress ==
  /\ exiter = Null => dpc = "out"
  /\ dpc \in {"out", "list", "join_list"} => dpos = 1
  /\ dpc = "join" => dpos \in Entries /\ thr_channel[dpos] > 0
  /\ dpc \in {"scan", "join"} =>
       list_thr = "gone" /\ \A i \in known : i < dpos => pc[List[i]] = "gone"
  /\ list_freed => dpc \notin {"out", "list", "join_list", "scan", "join"}

ShutdownInv == Places /\ TableFilled /\ KnownInTable /\ ExitProgress /\ UsersEndFirst

LEMMA ListFacts ==
  /\ Len(List) \in Nat /\ Len(List) <= CHANNUM /\ CHANNUM \in Nat
  /\ \A i \in 1 .. Len(List) : List[i] \in Buckets
  /\ \A b \in Buckets : b \in Thread /\ b # Main
  /\ Main \in Thread /\ Main # Null /\ ListThread # Null /\ Null \notin Thread
BY ListAssumption, ChannumAssumption, ThreadAssumption, ThreadsAssumption DEF Thread

(* A thread of the table that has ended stays so, but for the one main()    *)
(* creates next.                                                            *)
Ended == \A b \in Buckets : pc[b] = "gone" => pc'[b] = "gone"

LEMMA UserStays ==
  ASSUME pc \in [Thread -> Location], NEW b \in Buckets,
         UserStep(b) \/ FetchSpurious(b) \/ UserExit(b)
  PROVE  pc' \in [Thread -> Location] /\ Ended
<1>1. PICK l \in Location : pc' = [pc EXCEPT ![b] = l] /\ pc[b] # "gone"
  <2>1. CASE FetchCall(b) \/ FetchLock(b) \/ FetchWait(b) \/ Fetch(b)
    BY <2>1 DEF FetchCall, FetchLock, FetchWait, Fetch, At, Goto, Location
  <2>2. CASE CheckLock(b) \/ Check(b) \/ ReadFile(b) \/ ReturnLock(b) \/ ReturnToken(b)
    BY <2>2 DEF CheckLock, Check, ReadFile, ReturnLock, ReturnToken, At, Goto, Location
  <2>3. CASE FetchSpurious(b) \/ UserExit(b)
    BY <2>3 DEF FetchSpurious, UserExit, At, Goto, Location
  <2>4. QED
    BY <2>1, <2>2, <2>3 DEF UserStep
<1>2. QED
  BY <1>1, ListFacts DEF Ended

LEMMA HandlerStays ==
  ASSUME pc \in [Thread -> Location], NEW t \in Thread, HandlerStep(t) \/ Deliver(t)
  PROVE  pc' \in [Thread -> Location] /\ Ended
<1>1. CASE HandlerAdd(t)
  <2>1. pc' = Woken(pc, job[hpos[t]])
    BY <1>1 DEF HandlerAdd
  <2>2. QED
    BY <2>1, ListFacts DEF Woken, Ended, Location
<1>2. CASE HandlerLock(t) \/ HandlerSkip(t) \/ HandlerLockBucket(t) \/ HandlerEnd(t) \/ Deliver(t)
  BY <1>2 DEF HandlerLock, HandlerSkip, HandlerLockBucket, HandlerEnd, Deliver, threadVars, Ended
<1>3. QED
  BY <1>1, <1>2 DEF HandlerStep

LEMMA EndsStays ==
  ASSUME pc \in [Thread -> Location], NEW t \in Thread, Ends(t)
  PROVE  pc' \in [Thread -> Location] /\ Ended
<1>1. pc' = [pc EXCEPT ![t] = "gone"]
  BY DEF Ends, Goto
<1>2. QED
  BY <1>1, ListFacts DEF Ended, Location

LEMMA TerminateStays ==
  ASSUME pc \in [Thread -> Location], Terminate
  PROVE  /\ pc' \in [Thread -> Location] /\ Ended
         /\ UNCHANGED <<startVars, exitVars>>
<1>1. pc' = [pc EXCEPT ![Main] = "exited"] /\ UNCHANGED <<startVars, exitVars>>
  BY DEF Terminate
<1>2. QED
  BY <1>1, ListFacts DEF Ended, Location

(* A step that does nothing but let threads end.                            *)
LEMMA FrameKeeps ==
  ASSUME ShutdownInv, pc' \in [Thread -> Location], Ended,
         UNCHANGED <<startVars, exitVars>>
  PROVE  ShutdownInv'
<1>1. Places' /\ TableFilled' /\ KnownInTable'
  BY DEF ShutdownInv, Places, TableFilled, KnownInTable, startVars, exitVars
<1>2. \A i \in known : List[i] \in Buckets
  BY ListFacts DEF ShutdownInv, Places, TableFilled, KnownInTable, Entries
<1>3. ExitProgress' /\ UsersEndFirst'
  BY <1>2 DEF ShutdownInv, ExitProgress, UsersEndFirst, Ended, startVars, exitVars
<1>4. QED
  BY <1>1, <1>3 DEF ShutdownInv

-----------------------------------------------------------------------------
LEMMA ShutdownInvInit == ShutdownInit => ShutdownInv
<1> SUFFICES ASSUME ShutdownInit PROVE ShutdownInv
  OBVIOUS
<1>1. pc \in [Thread -> Location]
  BY DEF ShutdownInit, Location
<1>2. Places
  <2>1. tid_nextpos = 0 /\ dpos = 1 /\ mpc = "list" /\ list_thr = "none" /\ list_freed = FALSE
    BY DEF ShutdownInit
  <2>2. thr_channel \in [Entries -> Nat]
    BY DEF ShutdownInit
  <2>3. tid_nextpos \in 0 .. Len(List)
    BY <2>1, ListFacts
  <2>4. exiter = Null /\ exiter # ListThread
    BY ListFacts DEF ShutdownInit
  <2>5. dpos \in Nat \ {0}
    BY <2>1
  <2>6. list_freed \in BOOLEAN
    BY <2>1
  <2>7. exiter \in AllThreads \cup {Null}
    BY <2>4
  <2>8. QED
    BY <1>1, <2>1, <2>2, <2>3, <2>4, <2>5, <2>6, <2>7 DEF Places
<1>3. TableFilled /\ KnownInTable
  BY DEF ShutdownInit, TableFilled, KnownInTable
<1>4. ExitProgress /\ UsersEndFirst
  BY DEF ShutdownInit, ExitProgress, UsersEndFirst
<1>5. QED
  BY <1>2, <1>3, <1>4 DEF ShutdownInv

LEMMA MainKeeps ==
  ASSUME ShutdownInv, MainStart \/ ChannelFails
  PROVE  ShutdownInv'
<1>0. Places /\ TableFilled /\ KnownInTable /\ ExitProgress /\ UsersEndFirst
  BY DEF ShutdownInv
<1>1. CASE ListCreate
  BY <1>0, <1>1, ListFacts DEF ListCreate, MainAt, ShutdownInv, Places, TableFilled, KnownInTable,
     ExitProgress, UsersEndFirst, vars, threadVars, exitVars
<1>2. CASE ChannelCreate
  <2> DEFINE new == List[tid_nextpos + 1]
  <2>1. /\ pc' = [pc EXCEPT ![new] = "idle"] /\ mpc' = "store" /\ tid_nextpos < Len(List)
        /\ UNCHANGED <<list_thr, thr_channel, tid_nextpos, exitVars>> /\ mpc = "create"
    BY <1>2 DEF ChannelCreate, MainAt
  <2>2. \A i \in known : i \in 1 .. Len(List) /\ List[i] \in Buckets /\ List[i] # new
    <3> SUFFICES ASSUME NEW i \in known
                 PROVE  i \in 1 .. Len(List) /\ List[i] \in Buckets /\ List[i] # new
      OBVIOUS
    <3>1. i \in Nat \ {0} /\ i <= tid_nextpos /\ tid_nextpos \in Nat
      BY <1>0 DEF Places, TableFilled, KnownInTable, Entries
    <3>2. i \in 1 .. Len(List) /\ tid_nextpos + 1 \in 1 .. Len(List) /\ i # tid_nextpos + 1
      BY <2>1, <3>1, ListFacts
    <3>3. QED
      BY <3>2, ListFacts, ListAssumption
  <2> HIDE DEF new
  <2>3. pc' \in [Thread -> Location]
    BY <1>0, <2>1 DEF Places, Location
  <2>4. \A i \in known : pc'[List[i]] = pc[List[i]]
    BY <1>0, <2>1, <2>2, ListFacts DEF Places
  <2>5. Places' /\ TableFilled' /\ KnownInTable'
    BY <1>0, <2>1, <2>3 DEF Places, TableFilled, KnownInTable, exitVars
  <2>6. ExitProgress' /\ UsersEndFirst'
    BY <1>0, <2>1, <2>4 DEF ExitProgress, UsersEndFirst, exitVars
  <2>7. QED
    BY <2>5, <2>6 DEF ShutdownInv
<1>3. CASE ChannelStore
  <2>1. /\ tid_nextpos' = tid_nextpos + 1 /\ tid_nextpos < Len(List) /\ mpc' = "create"
        /\ thr_channel' = [thr_channel EXCEPT ![tid_nextpos + 1] = tid_nextpos + 1]
        /\ UNCHANGED <<pc, list_thr, exitVars>>
    BY <1>0, <1>3 DEF ChannelStore, MainAt, Places, vars, threadVars
  <2>2. tid_nextpos \in Nat /\ tid_nextpos + 1 \in Nat /\ tid_nextpos + 1 > 0
    BY <1>0 DEF Places
  <2>3. Places'
    <3>1. thr_channel' \in [Entries -> Nat]
      BY <1>0, <2>1, <2>2 DEF Places
    <3>2. tid_nextpos' \in 0 .. Len(List)
      BY <2>1, <2>2, ListFacts
    <3>3. QED
      BY <1>0, <2>1, <3>1, <3>2 DEF Places, exitVars
  <2>4. TableFilled'
    BY <1>0, <2>1, <2>2 DEF Places, TableFilled, Entries
  <2>5. KnownInTable' /\ ExitProgress' /\ UsersEndFirst'
    BY <1>0, <2>1, <2>2 DEF Places, KnownInTable, ExitProgress, UsersEndFirst, exitVars
  <2>6. QED
    BY <2>3, <2>4, <2>5 DEF ShutdownInv
<1>4. CASE ChannelsDone
  BY <1>0, <1>4 DEF ChannelsDone, MainAt, ShutdownInv, Places, TableFilled, KnownInTable,
     ExitProgress, UsersEndFirst, vars, threadVars, exitVars
<1>5. CASE ChannelFails
  <2>1. /\ exiter = Null /\ exiter' = Main /\ dpc' = "unload"
        /\ Main \in AllThreads /\ Main # ListThread
        /\ UNCHANGED <<pc, startVars, dpos, known, list_freed>>
    BY <1>5, ListFacts, ThreadsAssumption DEF ChannelFails, vars, threadVars, AllThreads
  <2>2. QED
    BY <1>0, <2>1, ListFacts DEF ShutdownInv, Places, TableFilled, KnownInTable, ExitProgress,
       UsersEndFirst, startVars
<1>6. QED
  BY <1>1, <1>2, <1>3, <1>4, <1>5 DEF MainStart

LEMMA SignalKeeps ==
  ASSUME ShutdownInv, NEW t \in AllThreads, Signal(t)
  PROVE  ShutdownInv'
<1>0. Places /\ TableFilled /\ KnownInTable /\ ExitProgress /\ UsersEndFirst
  BY DEF ShutdownInv
<1>1. /\ exiter = Null /\ exiter' = t /\ dpc' = "list"
      /\ known' = {i \in Entries : thr_channel[i] > 0}
      /\ UNCHANGED <<pc, mpc, list_thr, thr_channel, tid_nextpos, dpos, list_freed>>
  BY DEF Signal, vars, threadVars, startVars
<1>2. t # Null /\ (t = ListThread => list_thr = "running")
  BY ListFacts DEF AllThreads, Signal, Alive
<1>3. Places' /\ TableFilled' /\ KnownInTable'
  BY <1>0, <1>1, <1>2 DEF Places, TableFilled, KnownInTable
<1>4. ~ list_freed /\ dpos = 1
  BY <1>0, <1>1 DEF ExitProgress
<1>5. ExitProgress' /\ UsersEndFirst'
  BY <1>0, <1>1, <1>2, <1>4 DEF ExitProgress, UsersEndFirst
<1>6. QED
  BY <1>3, <1>5 DEF ShutdownInv

LEMMA ExitKeeps ==
  ASSUME ShutdownInv, ExitStep
  PROVE  ShutdownInv'
<1>0. Places /\ TableFilled /\ KnownInTable /\ ExitProgress /\ UsersEndFirst
  BY DEF ShutdownInv
<1>1. CASE Terminate
  BY <1>0, <1>1, TerminateStays, FrameKeeps DEF Places
<1>2. CASE ListCancel /\ ~ Terminate
  BY <1>0, <1>2 DEF ListCancel, Cancel, ExitAt, ShutdownInv, Places, TableFilled, KnownInTable,
     ExitProgress, UsersEndFirst, vars, threadVars, startVars
<1>3. CASE ListJoin
  <2>1. /\ dpc = "join_list" /\ list_thr = "gone" /\ dpc' = "scan"
        /\ UNCHANGED <<pc, startVars, exiter, dpos, known, list_freed>>
    BY <1>3 DEF ListJoin, ExitAt, vars, threadVars
  <2>2. dpos = 1 /\ \A i \in known : i \in Nat /\ ~ (i < 1)
    BY <1>0, <2>1 DEF ExitProgress, KnownInTable, Entries
  <2>3. QED
    BY <1>0, <2>1, <2>2 DEF ShutdownInv, Places, TableFilled, KnownInTable, ExitProgress,
       UsersEndFirst, startVars
<1>4. CASE ChannelSkip
  <2>1. /\ dpc = "scan" /\ thr_channel[dpos] = 0 /\ dpos' = dpos + 1 /\ dpc' = "scan"
        /\ UNCHANGED <<pc, startVars, exiter, known, list_freed>>
    BY <1>4 DEF ChannelSkip, ExitAt, vars, threadVars
  <2>2. dpos \notin known
    BY <1>0, <2>1 DEF KnownInTable
  <2>3. \A i \in known : i \in Nat /\ (i < dpos + 1 => i < dpos)
    BY <1>0, <2>2 DEF KnownInTable, Entries, Places
  <2>4. QED
    BY <1>0, <2>1, <2>3 DEF ShutdownInv, Places, TableFilled, KnownInTable, ExitProgress,
       UsersEndFirst, startVars
<1>5. CASE ChannelCancel
  <2>1. /\ dpc = "scan" /\ dpos <= CHANNUM /\ thr_channel[dpos] > 0 /\ dpc' = "join"
        /\ UNCHANGED <<pc, startVars, exiter, dpos, known, list_freed>>
    BY <1>5 DEF ChannelCancel, Cancel, ExitAt, vars, threadVars
  <2>2. dpos \in Entries
    BY <1>0, <2>1, ListFacts DEF Places, Entries
  <2>3. Places' /\ TableFilled' /\ KnownInTable'
    BY <1>0, <2>1 DEF Places, TableFilled, KnownInTable, startVars
  <2>4. ExitProgress' /\ UsersEndFirst'
    BY <1>0, <2>1, <2>2 DEF ExitProgress, UsersEndFirst, startVars
  <2>5. QED
    BY <2>3, <2>4 DEF ShutdownInv
<1>6. CASE ChannelJoin
  <2>1. /\ dpc = "join" /\ pc[List[dpos]] = "gone" /\ dpos' = dpos + 1 /\ dpc' = "scan"
        /\ thr_channel' = [thr_channel EXCEPT ![dpos] = Reused]
        /\ UNCHANGED <<pc, mpc, list_thr, tid_nextpos, exiter, known, list_freed>>
    BY <1>6 DEF ChannelJoin, ExitAt, vars, threadVars
  <2>2. /\ thr_channel' \in [Entries -> Nat]
        /\ \A i \in Entries : thr_channel'[i] = IF i = dpos THEN 255 ELSE thr_channel[i]
    <3>1. \A i \in Entries : thr_channel'[i] = IF i = dpos THEN 255 ELSE thr_channel[i]
      BY <1>0, <2>1 DEF Places, Reused
    <3>2. thr_channel \in [Entries -> Nat] /\ Reused \in Nat
      BY <1>0 DEF Places, Reused
    <3>3. thr_channel' = [thr_channel EXCEPT ![dpos] = Reused]
      BY <2>1
    <3>4. thr_channel' \in [Entries -> Nat]
      BY <3>2, <3>3
    <3>5. QED
      BY <3>1, <3>4
  <2>3. dpos \in Entries /\ thr_channel[dpos] > 0
    BY <1>0, <2>1 DEF ExitProgress
  <2>4. Places' /\ TableFilled' /\ KnownInTable'
    BY <1>0, <2>1, <2>2, <2>3 DEF Places, TableFilled, KnownInTable
  <2>5. \A i \in known : i \in Nat /\ (i < dpos + 1 => i < dpos \/ i = dpos)
    BY <1>0 DEF KnownInTable, Entries, Places
  <2>6. ExitProgress' /\ UsersEndFirst'
    BY <1>0, <2>1, <2>5 DEF ExitProgress, UsersEndFirst
  <2>7. QED
    BY <2>6, <2>4 DEF ShutdownInv
<1>7. CASE ListFree
  <2>1. /\ dpc = "scan" /\ dpos > CHANNUM /\ list_freed' = TRUE /\ dpc' \in {"hung", "unload"}
        /\ UNCHANGED <<pc, startVars, exiter, dpos, known>>
    BY <1>7 DEF ListFree, ExitAt, vars, threadVars
  <2>2. \A i \in known : i < dpos
    <3>1. known \subseteq 1 .. CHANNUM /\ dpos \in Nat /\ CHANNUM \in Nat
      BY <1>0, ListFacts DEF KnownInTable, Entries, Places
    <3>2. QED
      BY <2>1, <3>1
  <2>3. exiter # Null
    BY <1>0, <2>1 DEF ExitProgress
  <2>4. QED
    BY <1>0, <2>1, <2>2, <2>3 DEF ShutdownInv, Places, TableFilled, KnownInTable, ExitProgress,
       UsersEndFirst, startVars
<1>8. CASE TimerCancel
  <2>1. /\ dpc = "unload" /\ dpc' = "join_timer"
        /\ UNCHANGED <<pc, startVars, exiter, dpos, known, list_freed>>
    BY <1>8 DEF TimerCancel, Cancel, ExitAt, vars, threadVars
  <2>2. QED
    BY <1>0, <2>1 DEF ShutdownInv, Places, TableFilled, KnownInTable, ExitProgress,
       UsersEndFirst, startVars
<1>9. CASE TimerJoin \/ UnloadAgain
  <2>1. /\ dpc \in {"join_timer", "unload"} /\ dpc' = "unload"
        /\ UNCHANGED <<pc, startVars, exiter, dpos, known, list_freed>>
    BY <1>9 DEF TimerJoin, UnloadAgain, ExitAt, vars, threadVars
  <2>2. QED
    BY <1>0, <2>1 DEF ShutdownInv, Places, TableFilled, KnownInTable, ExitProgress,
       UsersEndFirst, startVars
<1>10. QED
  BY <1>1, <1>2, <1>3, <1>4, <1>5, <1>6, <1>7, <1>8, <1>9 DEF ExitStep, UnloadCrash, ExitDone

(* The steps that only end what somebody does, in the C library.            *)
LEMMA LibcKeeps ==
  ASSUME ShutdownInv, ExitHangs \/ \E t \in AllThreads : LibcBlocks(t)
  PROVE  ShutdownInv'
<1>1. UNCHANGED <<pc, startVars, exiter, dpos, known, list_freed>>
  BY DEF ExitHangs, LibcBlocks, vars, threadVars
<1>2. dpc' = dpc \/ (dpc' = "hung" /\ dpc # "out")
  BY DEF ExitHangs, ExitAt, LibcBlocks
<1>3. QED
  BY <1>1, <1>2 DEF ShutdownInv, Places, TableFilled, KnownInTable, ExitProgress,
     UsersEndFirst, startVars

LEMMA EndingKeeps ==
  ASSUME ShutdownInv, ListEnds \/ ExiterEnds \/ \E t \in Thread : ThreadEnds(t)
  PROVE  ShutdownInv'
<1>0. Places /\ TableFilled /\ KnownInTable /\ ExitProgress /\ UsersEndFirst
  BY DEF ShutdownInv
<1>1. CASE ListEnds
  BY <1>0, <1>1 DEF ListEnds, ShutdownInv, Places, TableFilled, KnownInTable,
     ExitProgress, UsersEndFirst, vars, threadVars, exitVars
<1>2. ASSUME NEW t \in Thread, ThreadEnds(t) PROVE ShutdownInv'
  BY <1>0, <1>2, EndsStays, FrameKeeps DEF ThreadEnds, Ends, Places
<1>3. CASE ExiterEnds
  <2>1. exiter # Null
    BY <1>0, <1>3 DEF ExiterEnds, ExitAt, ExitProgress
  <2>2. /\ dpc' = "lost"
        /\ UNCHANGED <<mpc, thr_channel, tid_nextpos, exiter, dpos, known, list_freed>>
        /\ list_thr' \in {list_thr, "gone"} /\ (mpc = "list" => list_thr' = list_thr)
        /\ pc' \in [Thread -> Location] /\ Ended
    <3>1. /\ dpc' = "lost"
          /\ UNCHANGED <<mpc, thr_channel, tid_nextpos, exiter, dpos, known, list_freed>>
      BY <1>3 DEF ExiterEnds, Ends, startVars
    <3>2. CASE exiter = ListThread
      <4>1. list_thr' = "gone" /\ UNCHANGED pc
        BY <1>3, <3>2 DEF ExiterEnds, vars, threadVars
      <4>2. mpc # "list"
        BY <1>0, <3>2 DEF Places
      <4>3. pc' \in [Thread -> Location] /\ Ended
        BY <1>0, <4>1 DEF Places, Ended
      <4>4. QED
        BY <3>1, <4>1, <4>2, <4>3
    <3>3. CASE exiter # ListThread
      <4>1. Ends(exiter) /\ UNCHANGED list_thr
        BY <1>3, <3>3 DEF ExiterEnds, Ends, startVars
      <4>2. exiter \in Thread
        BY <1>0, <2>1, <3>3 DEF Places, AllThreads
      <4>3. pc' \in [Thread -> Location] /\ Ended
        BY <1>0, <4>1, <4>2, EndsStays DEF Places
      <4>4. QED
        BY <3>1, <4>1, <4>3
    <3>4. QED
      BY <3>2, <3>3
  <2>3. \A i \in known : List[i] \in Buckets
    BY <1>0, ListFacts DEF Places, TableFilled, KnownInTable, Entries
  <2>4. list_freed => list_thr' = "gone"
    BY <1>0, <2>2 DEF UsersEndFirst
  <2>5. Places' /\ TableFilled' /\ KnownInTable'
    BY <1>0, <2>2 DEF Places, TableFilled, KnownInTable
  <2>6. ExitProgress' /\ UsersEndFirst'
    BY <1>0, <2>1, <2>2, <2>3, <2>4 DEF ExitProgress, UsersEndFirst, Ended
  <2>7. QED
    BY <2>5, <2>6 DEF ShutdownInv
<1>4. QED
  BY <1>1, <1>2, <1>3

LEMMA ShutdownInvNext == ShutdownInv /\ [ShutdownNext]_shutdownVars => ShutdownInv'
<1> SUFFICES ASSUME ShutdownInv, [ShutdownNext]_shutdownVars PROVE ShutdownInv'
  OBVIOUS
<1>0. pc \in [Thread -> Location]
  BY DEF ShutdownInv, Places
<1>1. CASE MainStart \/ ChannelFails
  BY <1>1, MainKeeps
<1>2. ASSUME NEW t \in SigThreads, Signal(t) PROVE ShutdownInv'
  BY <1>2, SignalKeeps, ThreadsAssumption
<1>3. CASE ExitStep
  BY <1>3, ExitKeeps
<1>4. CASE ListEnds \/ ExiterEnds \/ \E t \in Thread : ThreadEnds(t)
  BY <1>4, EndingKeeps
<1>5. ASSUME NEW b \in Buckets, (UserStep(b) \/ FetchSpurious(b) \/ UserExit(b)) /\ Frame
      PROVE  ShutdownInv'
  BY <1>0, <1>5, UserStays, FrameKeeps DEF Frame
<1>6. ASSUME NEW t \in Handlers, (Deliver(t) \/ HandlerStep(t)) /\ Frame PROVE ShutdownInv'
  BY <1>0, <1>6, HandlerStays, FrameKeeps, ThreadAssumption DEF Frame
<1>7. ASSUME NEW t \in Handlers, AlarmCrash(t) PROVE ShutdownInv'
  BY <1>0, <1>7, TerminateStays, FrameKeeps DEF AlarmCrash
<1>8. CASE Tick /\ Frame
  BY <1>0, <1>8, FrameKeeps DEF Tick, threadVars, Frame, Ended
<1>9. CASE UNCHANGED shutdownVars
  BY <1>0, <1>9, FrameKeeps DEF shutdownVars, vars, threadVars, Ended
<1>10. CASE ExitHangs \/ \E t \in AllThreads : LibcBlocks(t)
  BY <1>10, LibcKeeps
<1>11. QED
  BY <1>1, <1>2, <1>3, <1>4, <1>5, <1>6, <1>7, <1>8, <1>9, <1>10
     DEF ShutdownNext, User, Unforced, Alarm

(* daemon_exit frees the list of channels only after every thread it knew   *)
(* of, which all read it, has ended, whatever thread takes the signal and   *)
(* at whatever moment of the start-up (server.c:45-52,                      *)
(* thr_channel.c:113-126).                                                  *)
THEOREM ListOutlivesThreads == ShutdownSafety => []UsersEndFirst
<1>1. ShutdownInv => UsersEndFirst
  BY DEF ShutdownInv
<1>2. QED
  BY <1>1, ShutdownInvInit, ShutdownInvNext, PTL DEF ShutdownSafety

-----------------------------------------------------------------------------
(* Types *)

(* The handler adds tokens only to a bucket in a slot.                      *)
AddsInRange ==
  \A t \in Thread : hpc[t] = "add" => hpos[t] \in Slots /\ job[hpos[t]] \in Buckets

BucketTypes == TypeOK /\ AddsInRange

(* module_unload is run for each registration once.                         *)
ExitTypes ==
  /\ thr_channel \in [Entries -> (0 .. CHANNUM) \cup {Reused}]
  /\ over \in BOOLEAN /\ cancelled \subseteq AllThreads
  /\ list_thr \in {"none", "running", "gone"}
  /\ dpc \in {"out", "list", "join_list", "scan", "join", "unload", "join_timer", "hung", "lost"}
  /\ dpos \in 1 .. CHANNUM + 1
  /\ unloads \in 0 .. Len(List) + 1
  /\ dpc = "join_timer" => unloads > 0

LEMMA BucketFacts ==
  /\ MYTBF_MAX \in Nat \ {0} /\ Burst \in Nat \ {0} /\ ReadSize \in Nat \ {0} /\ Cps \in Nat
  /\ Null \notin Buckets /\ Null \notin Thread /\ Buckets \subseteq Thread
BY MaxAssumption, RateAssumption, ThreadAssumption DEF Thread

LEMMA ClippedType ==
  ASSUME NEW n \in Nat
  PROVE  Clipped(n) \in 0 .. Burst
BY BucketFacts DEF Clipped

LEMMA UserTypes ==
  ASSUME BucketTypes, NEW b \in Buckets, UserStep(b) \/ FetchSpurious(b) \/ UserExit(b)
  PROVE  BucketTypes'
<1>0. TypeOK /\ b \in Thread
  BY BucketFacts DEF BucketTypes
<1>1. UNCHANGED <<job, allocated, once_done, mut_job, me, alarm, hpc, hpos>>
  BY DEF UserStep, FetchCall, FetchLock, FetchWait, Fetch, CheckLock, Check, ReadFile, ReturnLock,
         ReturnToken, FetchSpurious, UserExit, bucketVars, handlerVars
<1>2. pc' \in [Thread -> Location]
  BY <1>0, UserStays DEF TypeOK
<1>3. mut' \in [Buckets -> Thread \cup {Null}]
  <2>1. mut' = mut \/ mut' = [mut EXCEPT ![b] = b] \/ mut' = [mut EXCEPT ![b] = Null]
    BY DEF UserStep, FetchCall, FetchLock, FetchWait, Fetch, CheckLock, Check, ReadFile,
           ReturnLock, ReturnToken, FetchSpurious, UserExit, Lock, Unlock
  <2>2. QED
    BY <1>0, <2>1 DEF TypeOK
<1>4. token' \in [Buckets -> 0 .. Burst] /\ got' \in [Buckets -> 0 .. ReadSize]
  <2>0. token[b] \in 0 .. Burst /\ got[b] \in 0 .. ReadSize
    BY <1>0 DEF TypeOK
  <2>1. CASE Fetch(b)
    <3> DEFINE n == IF token[b] < ReadSize THEN token[b] ELSE ReadSize
    <3>1. n \in 0 .. ReadSize /\ token[b] - n \in 0 .. Burst
      BY <2>0, BucketFacts
    <3>2. token' = [token EXCEPT ![b] = @ - n] /\ got' = [got EXCEPT ![b] = n]
      BY <2>1 DEF Fetch
    <3> HIDE DEF n
    <3>3. QED
      BY <1>0, <3>1, <3>2 DEF TypeOK
  <2>2. CASE ReadFile(b)
    <3>1. PICK l \in 0 .. got[b] : got' = [got EXCEPT ![b] = @ - l]
      BY <2>2 DEF ReadFile
    <3>2. got[b] - l \in 0 .. ReadSize
      BY <2>0, BucketFacts
    <3>3. token' = token
      BY <2>2 DEF ReadFile, bucketVars
    <3>4. QED
      BY <1>0, <3>1, <3>2, <3>3 DEF TypeOK
  <2>3. CASE ReturnToken(b)
    <3>1. token' = [token EXCEPT ![b] = Clipped(@ + got[b])] /\ got' = [got EXCEPT ![b] = 0]
      BY <2>3 DEF ReturnToken
    <3>2. Clipped(token[b] + got[b]) \in 0 .. Burst /\ 0 \in 0 .. ReadSize
      BY <2>0, ClippedType, BucketFacts
    <3>3. QED
      BY <1>0, <3>1, <3>2 DEF TypeOK
  <2>4. CASE ~ (Fetch(b) \/ ReadFile(b) \/ ReturnToken(b))
    <3>1. UNCHANGED <<token, got>>
      BY <2>4 DEF UserStep, FetchCall, FetchLock, FetchWait, CheckLock, Check, ReturnLock,
                  FetchSpurious, UserExit, bucketVars
    <3>2. QED
      BY <1>0, <3>1 DEF TypeOK
  <2>5. QED
    BY <2>1, <2>2, <2>3, <2>4
<1>5. AddsInRange'
  BY <1>1 DEF BucketTypes, AddsInRange
<1>6. TypeOK'
  BY <1>0, <1>1, <1>2, <1>3, <1>4 DEF TypeOK
<1>7. QED
  BY <1>5, <1>6 DEF BucketTypes

LEMMA HandlerTypes ==
  ASSUME BucketTypes, NEW t \in Thread, HandlerStep(t) \/ Deliver(t)
  PROVE  BucketTypes'
<1>0. TypeOK /\ AddsInRange /\ hpos[t] \in 0 .. MYTBF_MAX
  BY DEF BucketTypes, TypeOK
<1>1. UNCHANGED <<job, allocated, once_done, me, got>>
  BY DEF HandlerStep, HandlerLock, HandlerSkip, HandlerLockBucket, HandlerAdd, HandlerEnd, Deliver,
         bucketVars, threadVars
<1>2. pc' \in [Thread -> Location]
  BY <1>0, HandlerStays DEF TypeOK
<1>3. CASE HandlerLock(t) \/ HandlerEnd(t) \/ Deliver(t)
  <2>1. /\ UNCHANGED <<token, mut>> /\ mut_job' \in {mut_job, t, Null}
        /\ alarm' \in {alarm, FALSE}
        /\ \E l \in {"scan", "out", "lock"} : hpc' = [hpc EXCEPT ![t] = l]
        /\ hpos' = hpos \/ hpos' = [hpos EXCEPT ![t] = 0]
    BY <1>3 DEF HandlerLock, HandlerEnd, Deliver, LockJob, bucketVars
  <2>2. hpos' \in [Thread -> 0 .. MYTBF_MAX]
    BY <1>0, <2>1, BucketFacts DEF TypeOK
  <2>3. alarm' \in BOOLEAN /\ mut_job' \in Thread \cup {Null}
    BY <1>0, <2>1 DEF TypeOK
  <2>4. hpc' \in [Thread -> {"out", "lock", "scan", "add"}]
    BY <1>0, <2>1 DEF TypeOK
  <2>5. TypeOK'
    BY <1>0, <1>1, <1>2, <2>1, <2>2, <2>3, <2>4 DEF TypeOK
  <2>6. \A u \in Thread : hpc'[u] = "add" => u # t /\ hpc[u] = "add" /\ hpos'[u] = hpos[u]
    BY <1>0, <2>1 DEF TypeOK
  <2>7. AddsInRange'
    BY <1>0, <1>1, <2>6 DEF AddsInRange
  <2>8. QED
    BY <2>5, <2>7 DEF BucketTypes
<1>4. CASE HandlerSkip(t)
  <2>1. /\ UNCHANGED <<token, mut, mut_job, alarm, hpc>> /\ hpc[t] = "scan"
        /\ hpos' = [hpos EXCEPT ![t] = @ + 1] /\ hpos[t] < MYTBF_MAX
    BY <1>4 DEF HandlerSkip, bucketVars
  <2>2. hpos' \in [Thread -> 0 .. MYTBF_MAX]
    BY <1>0, <2>1, BucketFacts DEF TypeOK
  <2>3. TypeOK'
    BY <1>0, <1>1, <1>2, <2>1, <2>2 DEF TypeOK
  <2>4. \A u \in Thread : u # t => hpos'[u] = hpos[u]
    BY <1>0, <2>1 DEF TypeOK
  <2>5. AddsInRange'
    BY <1>0, <1>1, <2>1, <2>4 DEF AddsInRange
  <2>6. QED
    BY <2>3, <2>5 DEF BucketTypes
<1>5. CASE HandlerLockBucket(t)
  <2>1. /\ UNCHANGED <<token, mut_job, alarm, hpos>> /\ hpos[t] < MYTBF_MAX
        /\ hpc' = [hpc EXCEPT ![t] = "add"] /\ job[hpos[t]] # Null
        /\ mut' = [mut EXCEPT ![job[hpos[t]]] = t]
    BY <1>5 DEF HandlerLockBucket, Lock, bucketVars
  <2>2. hpos[t] \in Slots /\ job[hpos[t]] \in Buckets
    <3>1. hpos[t] \in Slots
      BY <1>0, <2>1, BucketFacts DEF Slots
    <3>2. QED
      BY <1>0, <2>1, <3>1 DEF TypeOK
  <2>3. mut' \in [Buckets -> Thread \cup {Null}]
    BY <1>0, <2>1 DEF TypeOK
  <2>4. hpc' \in [Thread -> {"out", "lock", "scan", "add"}]
    BY <1>0, <2>1 DEF TypeOK
  <2>5. TypeOK'
    BY <1>0, <1>1, <1>2, <2>1, <2>3, <2>4 DEF TypeOK
  <2>6. \A u \in Thread : hpc'[u] = "add" => u = t \/ hpc[u] = "add"
    BY <1>0, <2>1 DEF TypeOK
  <2>7. AddsInRange'
    BY <1>0, <1>1, <2>1, <2>2, <2>6 DEF AddsInRange
  <2>8. QED
    BY <2>5, <2>7 DEF BucketTypes
<1>6. CASE HandlerAdd(t)
  <2> DEFINE b == job[hpos[t]]
  <2>1. /\ UNCHANGED <<mut_job, alarm>> /\ hpc[t] = "add"
        /\ token' = [token EXCEPT ![b] = Clipped(@ + Cps)]
        /\ mut' = [mut EXCEPT ![b] = Null]
        /\ hpc' = [hpc EXCEPT ![t] = "scan"] /\ hpos' = [hpos EXCEPT ![t] = @ + 1]
    BY <1>6 DEF HandlerAdd, Unlock
  <2>2. hpos[t] \in Slots /\ b \in Buckets
    BY <1>0, <2>1 DEF AddsInRange
  <2> HIDE DEF b
  <2>3. Clipped(token[b] + Cps) \in 0 .. Burst
    <3>1. token[b] \in 0 .. Burst
      BY <1>0, <2>2 DEF TypeOK
    <3>2. QED
      BY <3>1, ClippedType, BucketFacts
  <2>4. token' \in [Buckets -> 0 .. Burst] /\ mut' \in [Buckets -> Thread \cup {Null}]
    BY <1>0, <2>1, <2>3 DEF TypeOK
  <2>5. hpos' \in [Thread -> 0 .. MYTBF_MAX]
    BY <1>0, <2>1, <2>2, BucketFacts, SMTT(30) DEF TypeOK, Slots
  <2>6. hpc' \in [Thread -> {"out", "lock", "scan", "add"}]
    BY <1>0, <2>1 DEF TypeOK
  <2>7. TypeOK'
    BY <1>0, <1>1, <1>2, <2>1, <2>4, <2>5, <2>6 DEF TypeOK
  <2>8. \A u \in Thread : hpc'[u] = "add" => u # t /\ hpc[u] = "add" /\ hpos'[u] = hpos[u]
    BY <1>0, <2>1 DEF TypeOK
  <2>9. AddsInRange'
    BY <1>0, <1>1, <2>8 DEF AddsInRange
  <2>10. QED
    BY <2>7, <2>9 DEF BucketTypes
<1>7. QED
  BY <1>3, <1>4, <1>5, <1>6 DEF HandlerStep

(* Steps of main(), of daemon_exit and of ending threads.                   *)
LEMMA BucketFrame ==
  ASSUME BucketTypes, pc' \in [Thread -> Location],
         mut' \in [Buckets -> Thread \cup {Null}],
         allocated' \subseteq Buckets, alarm' \in BOOLEAN,
         UNCHANGED <<job, token, once_done, mut_job, me, got, hpc, hpos>>
  PROVE  BucketTypes'
<1>1. TypeOK'
  BY DEF BucketTypes, TypeOK
<1>2. AddsInRange'
  BY DEF BucketTypes, AddsInRange
<1>3. QED
  BY <1>1, <1>2 DEF BucketTypes

LEMMA VarsFrame ==
  ASSUME BucketTypes, UNCHANGED vars
  PROVE  BucketTypes'
<1>1. UNCHANGED <<job, allocated, token, once_done, mut, mut_job, pc, me, got, alarm, hpc, hpos>>
  BY DEF vars, bucketVars, threadVars, handlerVars
<1>2. QED
  BY <1>1 DEF BucketTypes, TypeOK, AddsInRange

LEMMA TerminateTypes ==
  ASSUME BucketTypes, Terminate
  PROVE  BucketTypes' /\ UNCHANGED <<startVars, exitVars>>
<1>0. TypeOK
  BY DEF BucketTypes
<1>1. /\ UNCHANGED <<startVars, exitVars>>
      /\ UNCHANGED <<job, allocated, token, once_done, mut, mut_job, me, got, alarm, hpc, hpos>>
  BY DEF Terminate, bucketVars, handlerVars
<1>2. pc' \in [Thread -> Location]
  BY <1>0, TerminateStays DEF TypeOK
<1>3. QED
  BY <1>0, <1>1, <1>2, BucketFrame DEF TypeOK

LEMMA EndsTypes ==
  ASSUME BucketTypes, NEW t \in Thread, Ends(t)
  PROVE  BucketTypes'
<1>0. TypeOK
  BY DEF BucketTypes
<1>1. UNCHANGED <<job, allocated, token, once_done, mut_job, me, got, alarm, hpc, hpos>>
  BY DEF Ends, bucketVars, handlerVars
<1>2. pc' \in [Thread -> Location]
  BY <1>0, EndsStays DEF TypeOK
<1>3. mut' \in [Buckets -> Thread \cup {Null}]
  BY <1>0 DEF Ends, Lock, TypeOK
<1>4. QED
  BY <1>0, <1>1, <1>2, <1>3, BucketFrame DEF TypeOK

-----------------------------------------------------------------------------
ShutdownTypes == BucketTypes /\ ExitTypes

LEMMA ExitFrame ==
  ASSUME ShutdownTypes, UNCHANGED <<startVars, exitVars>>
  PROVE  ExitTypes'
<1>1. UNCHANGED <<list_thr, thr_channel, over, cancelled, dpc, dpos, unloads>>
  BY DEF startVars, exitVars
<1>2. QED
  BY <1>1 DEF ShutdownTypes, ExitTypes

LEMMA MainTypes ==
  ASSUME ShutdownInv, ShutdownTypes, MainStart \/ ChannelFails
  PROVE  ShutdownTypes'
<1>0. BucketTypes /\ ExitTypes /\ TypeOK
  BY DEF ShutdownTypes, BucketTypes
<1>1. CASE ListCreate \/ ChannelStore \/ ChannelsDone \/ ChannelFails
  <2>1. UNCHANGED vars
    BY <1>1 DEF ListCreate, ChannelStore, ChannelsDone, ChannelFails
  <2>2. /\ UNCHANGED <<over, cancelled, dpos, unloads>> /\ dpc' \in {dpc, "unload"}
        /\ list_thr' \in {list_thr, "running", "none"}
    BY <1>1 DEF ListCreate, ChannelStore, ChannelsDone, ChannelFails, startVars, exitVars
  <2>3. thr_channel' \in [Entries -> (0 .. CHANNUM) \cup {Reused}]
    <3>1. CASE thr_channel' = thr_channel
      BY <1>0, <3>1 DEF ExitTypes
    <3>2. CASE ChannelStore
      <4>1. thr_channel' = [thr_channel EXCEPT ![tid_nextpos + 1] = tid_nextpos + 1]
        BY <3>2 DEF ChannelStore
      <4>2. tid_nextpos \in Nat /\ tid_nextpos < Len(List)
        BY <3>2 DEF ChannelStore, MainAt, ShutdownInv, Places
      <4>3. tid_nextpos + 1 \in 0 .. CHANNUM
        BY <4>2, ListFacts
      <4>4. QED
        BY <1>0, <4>1, <4>3 DEF ExitTypes
    <3>3. QED
      BY <1>1, <3>1, <3>2 DEF ListCreate, ChannelsDone, ChannelFails, startVars
  <2>4. ExitTypes'
    BY <1>0, <2>2, <2>3 DEF ExitTypes
  <2>5. QED
    BY <1>0, <2>1, <2>4, VarsFrame DEF ShutdownTypes
<1>2. CASE ChannelCreate
  <2>1. /\ UNCHANGED <<job, allocated, token, once_done, mut, mut_job, me, got, alarm, hpc, hpos>>
        /\ UNCHANGED <<list_thr, thr_channel, over, cancelled, dpc, dpos, unloads>>
        /\ pc' = [pc EXCEPT ![List[tid_nextpos + 1]] = "idle"]
    BY <1>2 DEF ChannelCreate, bucketVars, handlerVars, exitVars
  <2>2. pc' \in [Thread -> Location]
    BY <1>0, <2>1 DEF TypeOK, Location
  <2>3. BucketTypes'
    BY <1>0, <2>1, <2>2, BucketFrame DEF TypeOK
  <2>4. ExitTypes'
    BY <1>0, <2>1 DEF ExitTypes
  <2>5. QED
    BY <2>3, <2>4 DEF ShutdownTypes
<1>3. QED
  BY <1>1, <1>2 DEF MainStart

LEMMA SignalTypes ==
  ASSUME ShutdownTypes, NEW t \in AllThreads, Signal(t)
  PROVE  ShutdownTypes'
<1>1. /\ UNCHANGED vars /\ dpc' = "list" /\ over' \in BOOLEAN
      /\ UNCHANGED <<list_thr, thr_channel, cancelled, dpos, unloads>>
  BY DEF Signal, startVars
<1>2. ExitTypes'
  BY <1>1 DEF ShutdownTypes, ExitTypes
<1>3. QED
  BY <1>1, <1>2, VarsFrame DEF ShutdownTypes

LEMMA CancelTypes ==
  ASSUME ShutdownTypes, NEW t \in AllThreads, NEW l \in {"join_list", "join", "join_timer"},
         Cancel(t, l), l = "join_timer" => unloads > 0
  PROVE  ShutdownTypes'
<1>1. /\ UNCHANGED vars /\ dpc' = l /\ cancelled' = cancelled \cup {t}
      /\ UNCHANGED <<list_thr, thr_channel, over, dpos, unloads>>
  BY DEF Cancel, startVars
<1>2. ExitTypes'
  BY <1>1 DEF ShutdownTypes, ExitTypes
<1>3. QED
  BY <1>1, <1>2, VarsFrame DEF ShutdownTypes

LEMMA ExitStepTypes ==
  ASSUME ShutdownInv, ShutdownTypes, ExitStep
  PROVE  ShutdownTypes'
<1>0. BucketTypes /\ ExitTypes /\ TypeOK
  BY DEF ShutdownTypes, BucketTypes
<1>1. CASE Terminate
  BY <1>1, TerminateTypes, ExitFrame DEF ShutdownTypes
<1>2. CASE ListCancel /\ ~ Terminate
  BY <1>2, CancelTypes DEF ListCancel, AllThreads
<1>3. CASE ChannelCancel
  <2>1. Cancel(List[dpos], "join") /\ dpos \in Entries /\ thr_channel[dpos] > 0
    BY <1>3, ListFacts DEF ChannelCancel, ShutdownInv, Places, Entries
  <2>2. dpos \in 1 .. Len(List)
    BY <2>1, ListFacts DEF ShutdownInv, Places, TableFilled, Entries
  <2>3. List[dpos] \in AllThreads
    BY <2>2, ListFacts DEF AllThreads
  <2>4. QED
    BY <2>1, <2>3, CancelTypes
<1>4. CASE TimerCancel
  BY <1>4, CancelTypes, ThreadsAssumption DEF TimerCancel, AllThreads, Thread
<1>5. CASE ListJoin \/ ListFree
  <2>1. /\ UNCHANGED vars /\ dpc' \in {"scan", "unload", "hung"}
        /\ UNCHANGED <<list_thr, thr_channel, over, cancelled, dpos, unloads>>
    BY <1>5 DEF ListJoin, ListFree, startVars
  <2>2. ExitTypes'
    BY <1>0, <2>1 DEF ExitTypes
  <2>3. QED
    BY <1>0, <2>1, <2>2, VarsFrame DEF ShutdownTypes
<1>6. CASE ChannelSkip \/ ChannelJoin
  <2>1. /\ UNCHANGED <<list_thr, over, cancelled, unloads>> /\ UNCHANGED vars
        /\ dpc' \in {dpc, "scan"} /\ dpos' = dpos + 1
        /\ thr_channel' \in {thr_channel, [thr_channel EXCEPT ![dpos] = Reused]}
    BY <1>6 DEF ChannelSkip, ChannelJoin, startVars
  <2>2. dpos \in 1 .. CHANNUM
    <3>1. CASE ChannelSkip
      BY <3>1, ListFacts DEF ChannelSkip, ShutdownInv, Places
    <3>2. CASE ChannelJoin
      BY <3>2 DEF ChannelJoin, ExitAt, ShutdownInv, ExitProgress, Entries
    <3>3. QED
      BY <1>6, <3>1, <3>2
  <2>3. dpos' \in 1 .. CHANNUM + 1
    BY <2>1, <2>2, ListFacts
  <2>4. thr_channel' \in [Entries -> (0 .. CHANNUM) \cup {Reused}]
    BY <1>0, <2>1 DEF ExitTypes
  <2>5. dpc' = "join_timer" => dpc = "join_timer"
    BY <2>1
  <2>6. ExitTypes'
    BY <1>0, <2>1, <2>3, <2>4, <2>5 DEF ExitTypes
  <2>7. QED
    BY <1>0, <2>1, <2>6, VarsFrame DEF ShutdownTypes
<1>7. CASE TimerJoin
  <2>1. /\ dpc = "join_timer" /\ dpc' = "unload" /\ unloads' = unloads - 1 /\ allocated' = {}
        /\ UNCHANGED <<list_thr, thr_channel, over, cancelled, dpos>>
        /\ UNCHANGED <<job, token, once_done, mut, mut_job, pc, me, got, alarm, hpc, hpos>>
    BY <1>7 DEF TimerJoin, ExitAt, startVars, threadVars, handlerVars
  <2>2. unloads' \in 0 .. Len(List) + 1
    BY <1>0, <2>1, ListFacts DEF ExitTypes
  <2>3. ExitTypes'
    BY <1>0, <2>1, <2>2 DEF ExitTypes
  <2>4. BucketTypes'
    BY <1>0, <2>1, BucketFrame DEF TypeOK
  <2>5. QED
    BY <2>3, <2>4 DEF ShutdownTypes
<1>8. CASE UnloadAgain
  <2>1. /\ unloads > 0 /\ unloads' = unloads - 1 /\ UNCHANGED vars /\ dpc = "unload"
        /\ UNCHANGED <<list_thr, thr_channel, over, cancelled, dpc, dpos>>
    BY <1>8 DEF UnloadAgain, ExitAt, startVars
  <2>2. unloads' \in 0 .. Len(List) + 1
    BY <1>0, <2>1, ListFacts DEF ExitTypes
  <2>3. ExitTypes'
    BY <1>0, <2>1, <2>2 DEF ExitTypes
  <2>4. QED
    BY <1>0, <2>1, <2>3, VarsFrame DEF ShutdownTypes
<1>9. QED
  BY <1>1, <1>2, <1>3, <1>4, <1>5, <1>6, <1>7, <1>8 DEF ExitStep, UnloadCrash, ExitDone

LEMMA LibcTypes ==
  ASSUME ShutdownTypes, ExitHangs \/ \E t \in AllThreads : LibcBlocks(t)
  PROVE  ShutdownTypes'
<1>1. /\ UNCHANGED vars /\ dpc' \in {dpc, "hung"}
      /\ UNCHANGED <<list_thr, thr_channel, over, cancelled, dpos, unloads>>
  BY DEF ExitHangs, LibcBlocks, startVars
<1>2. ExitTypes'
  BY <1>1 DEF ShutdownTypes, ExitTypes
<1>3. QED
  BY <1>1, <1>2, VarsFrame DEF ShutdownTypes

LEMMA EndingTypes ==
  ASSUME ShutdownInv, ShutdownTypes, ListEnds \/ ExiterEnds \/ \E t \in Thread : ThreadEnds(t)
  PROVE  ShutdownTypes'
<1>0. BucketTypes /\ ExitTypes /\ TypeOK
  BY DEF ShutdownTypes, BucketTypes
<1>1. CASE ListEnds
  <2>1. /\ UNCHANGED vars /\ list_thr' = "gone"
        /\ UNCHANGED <<thr_channel, over, cancelled, dpc, dpos, unloads>>
    BY <1>1 DEF ListEnds, exitVars
  <2>2. ExitTypes'
    BY <1>0, <2>1 DEF ExitTypes
  <2>3. QED
    BY <1>0, <2>1, <2>2, VarsFrame DEF ShutdownTypes
<1>2. ASSUME NEW t \in Thread, ThreadEnds(t)
      PROVE  ShutdownTypes'
  <2>1. Ends(t) /\ UNCHANGED <<startVars, exitVars>>
    BY <1>2 DEF ThreadEnds, Ends
  <2>2. QED
    BY <1>0, <2>1, EndsTypes, ExitFrame DEF ShutdownTypes
<1>3. CASE ExiterEnds
  <2>1. /\ dpc' = "lost" /\ UNCHANGED <<over, cancelled, dpos, unloads>>
        /\ list_thr' \in {list_thr, "gone"} /\ thr_channel' = thr_channel
    BY <1>3 DEF ExiterEnds, Ends, startVars
  <2>2. ExitTypes'
    BY <1>0, <2>1 DEF ExitTypes
  <2>3. BucketTypes'
    <3>1. CASE exiter = ListThread
      BY <1>0, <1>3, <3>1, VarsFrame DEF ExiterEnds
    <3>2. CASE exiter # ListThread
      <4>1. exiter # Null
        BY <1>3 DEF ExiterEnds, ExitAt, ShutdownInv, ExitProgress
      <4>2. exiter \in Thread
        BY <3>2, <4>1 DEF ShutdownInv, Places, AllThreads
      <4>3. Ends(exiter)
        BY <1>3, <3>2 DEF ExiterEnds
      <4>4. QED
        BY <1>0, <4>2, <4>3, EndsTypes
    <3>3. QED
      BY <3>1, <3>2
  <2>4. QED
    BY <2>2, <2>3 DEF ShutdownTypes
<1>4. QED
  BY <1>1, <1>2, <1>3

LEMMA ShutdownTypesNext ==
  ShutdownInv /\ ShutdownTypes /\ [ShutdownNext]_shutdownVars => ShutdownTypes'
<1> SUFFICES ASSUME ShutdownInv, ShutdownTypes, [ShutdownNext]_shutdownVars
             PROVE  ShutdownTypes'
  OBVIOUS
<1>0. BucketTypes /\ TypeOK
  BY DEF ShutdownTypes, BucketTypes
<1>1. CASE MainStart \/ ChannelFails
  BY <1>1, MainTypes
<1>2. ASSUME NEW t \in SigThreads, Signal(t) PROVE ShutdownTypes'
  BY <1>2, SignalTypes, ThreadsAssumption
<1>3. CASE ExitStep
  BY <1>3, ExitStepTypes
<1>4. CASE ListEnds \/ ExiterEnds \/ \E t \in Thread : ThreadEnds(t)
  BY <1>4, EndingTypes
<1>5. ASSUME NEW b \in Buckets, (UserStep(b) \/ FetchSpurious(b) \/ UserExit(b)) /\ Frame
      PROVE  ShutdownTypes'
  BY <1>0, <1>5, UserTypes, ExitFrame DEF Frame, ShutdownTypes
<1>6. ASSUME NEW t \in Handlers, (Deliver(t) \/ HandlerStep(t)) /\ Frame
      PROVE  ShutdownTypes'
  BY <1>0, <1>6, HandlerTypes, ExitFrame, ThreadAssumption DEF Frame, ShutdownTypes
<1>7. ASSUME NEW t \in Handlers, AlarmCrash(t) PROVE ShutdownTypes'
  BY <1>0, <1>7, TerminateTypes, ExitFrame DEF AlarmCrash, ShutdownTypes
<1>8. CASE Tick /\ Frame
  <2>1. /\ alarm' = TRUE
        /\ UNCHANGED <<job, allocated, token, once_done, mut, mut_job, pc, me, got, hpc, hpos>>
    BY <1>8 DEF Tick, bucketVars, threadVars
  <2>2. BucketTypes'
    BY <1>0, <2>1, BucketFrame DEF TypeOK
  <2>3. QED
    BY <1>8, <2>2, ExitFrame DEF Frame, ShutdownTypes
<1>9. CASE UNCHANGED shutdownVars
  BY <1>0, <1>9, VarsFrame, ExitFrame DEF shutdownVars, ShutdownTypes
<1>10. CASE ExitHangs \/ \E t \in AllThreads : LibcBlocks(t)
  BY <1>10, LibcTypes
<1>11. QED
  BY <1>1, <1>2, <1>3, <1>4, <1>5, <1>6, <1>7, <1>8, <1>9, <1>10
     DEF ShutdownNext, User, Unforced, Alarm

LEMMA ShutdownTypesInit == ShutdownInit => ShutdownTypes
<1> SUFFICES ASSUME ShutdownInit PROVE ShutdownTypes
  OBVIOUS
<1>1. job \in [Slots -> Buckets \cup {Null}]
  <2>1. job = [i \in Slots |-> IF i < Len(List) THEN List[i + 1] ELSE Null]
    BY DEF ShutdownInit
  <2>2. \A i \in Slots : i < Len(List) => i + 1 \in 1 .. Len(List)
    BY ListFacts, BucketFacts DEF Slots
  <2>3. \A i \in Slots : i < Len(List) => List[i + 1] \in Buckets
    BY <2>2, ListFacts
  <2>4. QED
    BY <2>1, <2>3
<1>2. pc \in [Thread -> Location]
  BY DEF ShutdownInit, Location
<1>3. 0 \in 0 .. Burst /\ 0 \in 0 .. ReadSize /\ 0 \in 0 .. MYTBF_MAX
  BY BucketFacts
<1>4. TypeOK
  BY <1>1, <1>2, <1>3 DEF ShutdownInit, TypeOK
<1>5. AddsInRange
  BY DEF ShutdownInit, AddsInRange
<1>6. ExitTypes
  <2>1. 0 \in 0 .. CHANNUM /\ 1 \in 1 .. CHANNUM + 1 /\ Len(List) + 1 \in 0 .. Len(List) + 1
    BY ListFacts
  <2>2. QED
    BY <2>1 DEF ShutdownInit, ExitTypes
<1>7. QED
  BY <1>4, <1>5, <1>6 DEF ShutdownTypes, BucketTypes

(* Threads wait for a lock of the C library only once the signal has come   *)
(* while its thread held that lock.                                         *)
LibcInv ==
  /\ held \in {"none", "log", "other"} /\ blocked \subseteq AllThreads
  /\ blocked # {} => held # "none"
  /\ held # "none" => exiter # Null

LEMMA LibcInvNext == LibcInv /\ [ShutdownNext]_shutdownVars => LibcInv'
<1> SUFFICES ASSUME LibcInv, [ShutdownNext]_shutdownVars PROVE LibcInv'
  OBVIOUS
<1>1. ASSUME UNCHANGED <<exiter, held, blocked>> PROVE LibcInv'
  BY <1>1 DEF LibcInv
<1>2. CASE MainStart \/ ChannelFails
  <2>1. CASE MainStart
    BY <1>1, <2>1 DEF MainStart, ListCreate, ChannelCreate, ChannelStore, ChannelsDone, exitVars
  <2>2. CASE ChannelFails
    BY <2>2, ListFacts DEF ChannelFails, LibcInv
  <2>3. QED
    BY <1>2, <2>1, <2>2
<1>3. ASSUME NEW t \in SigThreads, Signal(t)
      PROVE  LibcInv'
  <2>1. exiter = Null /\ exiter' = t /\ held' \in {"none", "log", "other"} /\ blocked' = blocked
    BY <1>3 DEF Signal
  <2>2. blocked = {} /\ t # Null
    BY <2>1, ListFacts, ThreadsAssumption DEF LibcInv, AllThreads
  <2>3. QED
    BY <2>1, <2>2 DEF LibcInv
<1>4. CASE ExitStep
  <2>1. CASE ListCancel \/ ListJoin \/ ChannelSkip \/ ChannelCancel \/ ChannelJoin \/ ListFree
    BY <1>1, <2>1 DEF ListCancel, ListJoin, ChannelSkip, ChannelCancel, ChannelJoin, ListFree,
       Cancel, Terminate, exitVars
  <2>2. CASE TimerCancel \/ TimerJoin \/ UnloadAgain \/ UnloadCrash \/ ExitDone
    BY <1>1, <2>2 DEF TimerCancel, TimerJoin, UnloadAgain, UnloadCrash, ExitDone, Cancel,
       Terminate, exitVars
  <2>3. QED
    BY <1>4, <2>1, <2>2 DEF ExitStep
<1>5. ASSUME NEW t \in AllThreads, LibcBlocks(t)
      PROVE  LibcInv'
  <2>1. blocked' = blocked \cup {t} /\ held # "none" /\ held' = held /\ exiter' = exiter
    BY <1>5 DEF LibcBlocks
  <2>2. exiter # Null
    BY <1>5 DEF LibcBlocks, LibcInv
  <2>3. QED
    BY <2>1, <2>2 DEF LibcInv
<1>6. CASE ExitHangs \/ ListEnds \/ ExiterEnds \/ \E t \in Thread : ThreadEnds(t)
  BY <1>1, <1>6 DEF ExitHangs, ListEnds, ExiterEnds, ThreadEnds, exitVars
<1>7. ASSUME NEW t \in Handlers, AlarmCrash(t)
      PROVE  LibcInv'
  BY <1>1, <1>7 DEF AlarmCrash, Terminate, exitVars
<1>8. CASE Frame \/ UNCHANGED shutdownVars
  BY <1>1, <1>8 DEF Frame, shutdownVars, exitVars
<1>9. QED
  BY <1>2, <1>3, <1>4, <1>5, <1>6, <1>7, <1>8 DEF ShutdownNext, User, Unforced, Alarm

LEMMA LibcInvariance == ShutdownSafety => []LibcInv
<1>1. ShutdownInit => LibcInv
  BY DEF ShutdownInit, LibcInv
<1>2. QED
  BY <1>1, LibcInvNext, PTL DEF ShutdownSafety

(* Type correctness of the shutdown: daemon_exit walks thr_channel within   *)
(* its bounds and cancels only threads of the server, and exit runs         *)
(* module_unload no more often than it was registered (thr_channel.c:113,   *)
(* server.c:45-52, mytbf.c:71-97).                                          *)
THEOREM ShutdownTypeCorrect == ShutdownSafety => []ShutdownTypeOK
<1>1. ShutdownInv /\ ShutdownTypes /\ LibcInv => ShutdownTypeOK
  BY DEF ShutdownInv, Places, KnownInTable, ShutdownTypes, BucketTypes, ExitTypes, LibcInv,
         ShutdownTypeOK
<1>2. QED
  BY <1>1, LibcInvariance, ShutdownInvInit, ShutdownInvNext, ShutdownTypesInit, ShutdownTypesNext, PTL
     DEF ShutdownSafety

-----------------------------------------------------------------------------
(***************************************************************************)
(* Who holds the mutexes during the shutdown.                              *)
(***************************************************************************)

(* The threads main() has still to create have not begun; the one that runs *)
(* daemon_exit has.                                                         *)
Fresh ==
  /\ \A i \in 1 .. Len(List) :
       i > tid_nextpos + (IF mpc = "store" THEN 1 ELSE 0) => pc[List[i]] = "none"
  /\ exiter \in Buckets => pc[exiter] # "none"

(* The handler that walks job[] is the one that has mut_job.                *)
ScannerHasJob == \A t \in Thread : hpc[t] \in {"scan", "add"} => mut_job = t

(* The mutex of a bucket is held inside a call of its channel thread, or by *)
(* the handler that has mut_job and is at that bucket, or for ever by a     *)
(* channel thread that was cancelled and has ended with it; mut_job by a    *)
(* handler that walks job[].                                                *)
MutexHolders ==
  /\ \A b \in Buckets : mut[b] # Null =>
       \/ mut[b] = b /\ pc[b] \in {"test", "look", "give"}
       \/ mut[b] = b /\ pc[b] = "gone" /\ b \in cancelled
       \/ mut[b] = mut_job /\ hpc[mut_job] = "add" /\ job[hpos[mut_job]] = b
  /\ mut_job # Null => mut_job \in Handlers /\ hpc[mut_job] \in {"scan", "add"}

LocksInv == Fresh /\ ScannerHasJob /\ MutexHolders

(* A step that leaves mutexes and handlers alone and moves no channel       *)
(* thread.                                                                  *)
LEMMA LocksFrame ==
  ASSUME LocksInv, UNCHANGED <<job, token, mut, mut_job, hpc, hpos>>,
         \A b \in Buckets : pc'[b] = pc[b], cancelled \subseteq cancelled'
  PROVE  ScannerHasJob' /\ MutexHolders'
<1>1. ScannerHasJob'
  BY DEF LocksInv, ScannerHasJob
<1>2. MutexHolders'
  BY DEF LocksInv, MutexHolders
<1>3. QED
  BY <1>1, <1>2

LEMMA FreshFrame ==
  ASSUME Fresh, UNCHANGED <<mpc, tid_nextpos, exiter>>,
         \A b \in Buckets : pc'[b] = "none" <=> pc[b] = "none"
  PROVE  Fresh'
<1>1. \A i \in 1 .. Len(List) : List[i] \in Buckets
  BY ListFacts
<1>2. QED
  BY <1>1 DEF Fresh

-----------------------------------------------------------------------------
(* The steps of a channel thread: it takes its bucket's mutex, gives it up, *)
(* or has nothing to do with it.                                            *)
UserMove(b, l) ==
  /\ pc' = [pc EXCEPT ![b] = l] /\ l # "none" /\ pc[b] # "none"
  /\ \/ mut' = mut /\ pc[b] \notin {"test", "look", "give", "gone"}
     \/ mut' = [mut EXCEPT ![b] = Null]
     \/ mut' = [mut EXCEPT ![b] = b] /\ l \in {"test", "look", "give"}

LEMMA UserMoves ==
  ASSUME TypeOK, NEW b \in Buckets, UserStep(b) \/ FetchSpurious(b) \/ UserExit(b)
  PROVE  \E l \in Location : UserMove(b, l)
<1>1. CASE FetchCall(b) \/ FetchSpurious(b) \/ UserExit(b) \/ ReadFile(b)
  BY <1>1 DEF FetchCall, FetchSpurious, UserExit, ReadFile, At, Goto, UserMove, Location
<1>2. CASE FetchLock(b) \/ CheckLock(b) \/ ReturnLock(b)
  BY <1>2 DEF FetchLock, CheckLock, ReturnLock, Lock, At, Goto, UserMove, Location
<1>3. CASE FetchWait(b) \/ Fetch(b) \/ Check(b) \/ ReturnToken(b)
  BY <1>3 DEF FetchWait, Fetch, Check, ReturnToken, Unlock, At, Goto, UserMove, Location
<1>4. QED
  BY <1>1, <1>2, <1>3 DEF UserStep

LEMMA UserLocks ==
  ASSUME BucketTypes, LocksInv, NEW b \in Buckets,
         UserStep(b) \/ FetchSpurious(b) \/ UserExit(b), Frame
  PROVE  LocksInv'
<1>0. TypeOK /\ Fresh /\ ScannerHasJob /\ MutexHolders
  BY DEF BucketTypes, LocksInv
<1>1. UNCHANGED <<job, mut_job, hpc, hpos, cancelled, mpc, tid_nextpos, exiter>>
  BY DEF UserStep, FetchCall, FetchLock, FetchWait, Fetch, CheckLock, Check, ReadFile, ReturnLock,
         ReturnToken, FetchSpurious, UserExit, bucketVars, handlerVars, Frame, startVars, exitVars
<1>2. PICK l \in Location : UserMove(b, l)
  BY <1>0, UserMoves
<1>3. pc \in [Thread -> Location] /\ mut \in [Buckets -> Thread \cup {Null}]
      /\ Buckets \subseteq Thread
  BY <1>0, BucketFacts DEF TypeOK
<1>4. pc'[b] = l /\ \A c \in Buckets \ {b} : pc'[c] = pc[c] /\ mut'[c] = mut[c]
  BY <1>2, <1>3 DEF UserMove
<1>5. Fresh'
  <2>1. \A c \in Buckets : pc'[c] = "none" <=> pc[c] = "none"
    BY <1>2, <1>4 DEF UserMove
  <2>2. QED
    BY <1>0, <1>1, <2>1, FreshFrame
<1>6. ScannerHasJob'
  BY <1>0, <1>1 DEF ScannerHasJob
<1>7. MutexHolders'
  <2>1. ASSUME NEW c \in Buckets, mut'[c] # Null
        PROVE  \/ mut'[c] = c /\ pc'[c] \in {"test", "look", "give"}
               \/ mut'[c] = c /\ pc'[c] = "gone" /\ c \in cancelled'
               \/ mut'[c] = mut_job' /\ hpc'[mut_job'] = "add" /\ job'[hpos'[mut_job']] = c
    <3>1. CASE c # b
      BY <1>0, <1>1, <1>4, <2>1, <3>1 DEF MutexHolders
    <3>2. CASE c = b
      <4>1. \/ mut'[b] = b /\ l \in {"test", "look", "give"}
            \/ mut'[b] = mut[b] /\ pc[b] \notin {"test", "look", "give", "gone"}
        <5>1. CASE mut' = mut /\ pc[b] \notin {"test", "look", "give", "gone"}
          BY <5>1
        <5>2. CASE mut' = [mut EXCEPT ![b] = Null]
          <6>1. mut'[b] = Null
            BY <1>3, <5>2
          <6>2. QED
            BY <2>1, <3>2, <6>1
        <5>3. CASE mut' = [mut EXCEPT ![b] = b] /\ l \in {"test", "look", "give"}
          BY <1>3, <5>3
        <5>4. QED
          BY <1>2, <5>1, <5>2, <5>3 DEF UserMove
      <4>2. QED
        BY <1>0, <1>1, <1>4, <2>1, <3>2, <4>1 DEF MutexHolders
    <3>3. QED
      BY <3>1, <3>2
  <2>2. QED
    BY <1>0, <1>1, <2>1 DEF MutexHolders
<1>8. QED
  BY <1>5, <1>6, <1>7 DEF LocksInv

-----------------------------------------------------------------------------
(* The steps of the handler.                                                *)
LEMMA QuietHandlerLocks ==
  ASSUME BucketTypes, LocksInv, NEW t \in Handlers,
         Deliver(t) \/ HandlerLock(t) \/ HandlerSkip(t) \/ HandlerEnd(t), Frame
  PROVE  LocksInv'
<1>0. TypeOK /\ Fresh /\ ScannerHasJob /\ MutexHolders /\ t \in Thread
  BY ThreadAssumption DEF BucketTypes, LocksInv
<1>1. UNCHANGED <<job, token, mut, pc, cancelled, mpc, tid_nextpos, exiter>>
  BY DEF Deliver, HandlerLock, HandlerSkip, HandlerEnd, bucketVars, threadVars, Frame, startVars,
         exitVars
<1>2. /\ hpc \in [Thread -> {"out", "lock", "scan", "add"}] /\ mut_job \in Thread \cup {Null}
      /\ hpos \in [Thread -> 0 .. MYTBF_MAX] /\ Null \notin Thread
      /\ mut \in [Buckets -> Thread \cup {Null}]
  BY <1>0, BucketFacts DEF TypeOK
<1>3. Fresh'
  BY <1>0, <1>1 DEF Fresh
<1>4. CASE Deliver(t)
  <2>1. hpc' = [hpc EXCEPT ![t] = "lock"] /\ hpc[t] = "out" /\ UNCHANGED <<mut_job, hpos>>
    BY <1>4 DEF Deliver
  <2>2. ScannerHasJob'
    BY <1>0, <1>2, <2>1 DEF ScannerHasJob
  <2>3. MutexHolders'
    BY <1>0, <1>1, <1>2, <2>1 DEF MutexHolders
  <2>4. QED
    BY <1>3, <2>2, <2>3 DEF LocksInv
<1>5. CASE HandlerLock(t)
  <2>1. /\ mut_job = Null /\ mut_job' = t /\ hpc' = [hpc EXCEPT ![t] = "scan"]
        /\ hpos' = [hpos EXCEPT ![t] = 0]
    BY <1>5 DEF HandlerLock, LockJob
  <2>2. ScannerHasJob'
    BY <1>0, <1>2, <2>1 DEF ScannerHasJob
  <2>3. MutexHolders'
    <3>1. hpc'[t] = "scan"
      BY <1>0, <1>2, <2>1
    <3>2. \A b \in Buckets : mut[b] # Null => mut[b] # mut_job
      BY <2>1
    <3>3. QED
      BY <1>0, <1>1, <2>1, <3>1, <3>2 DEF MutexHolders
  <2>4. QED
    BY <1>3, <2>2, <2>3 DEF LocksInv
<1>6. CASE HandlerSkip(t)
  <2>1. UNCHANGED <<mut_job, hpc>> /\ hpos' = [hpos EXCEPT ![t] = @ + 1] /\ hpc[t] = "scan"
    BY <1>6 DEF HandlerSkip
  <2>2. mut_job = t
    BY <1>0, <2>1 DEF ScannerHasJob
  <2>3. ScannerHasJob'
    BY <1>0, <2>1 DEF ScannerHasJob
  <2>4. MutexHolders'
    BY <1>0, <1>1, <2>1, <2>2 DEF MutexHolders
  <2>5. QED
    BY <1>3, <2>3, <2>4 DEF LocksInv
<1>7. CASE HandlerEnd(t)
  <2>1. /\ mut_job' = Null /\ hpc' = [hpc EXCEPT ![t] = "out"] /\ hpc[t] = "scan"
        /\ hpos' = hpos
    BY <1>7 DEF HandlerEnd
  <2>2. mut_job = t
    BY <1>0, <2>1 DEF ScannerHasJob
  <2>3. ScannerHasJob'
    BY <1>0, <1>2, <2>1, <2>2 DEF ScannerHasJob
  <2>4. MutexHolders'
    BY <1>0, <1>1, <2>1, <2>2 DEF MutexHolders
  <2>5. QED
    BY <1>3, <2>3, <2>4 DEF LocksInv
<1>8. QED
  BY <1>4, <1>5, <1>6, <1>7

LEMMA LockBucketLocks ==
  ASSUME BucketTypes, LocksInv, NEW t \in Handlers, HandlerLockBucket(t), Frame
  PROVE  LocksInv'
<1>0. TypeOK /\ Fresh /\ ScannerHasJob /\ MutexHolders /\ t \in Thread
  BY ThreadAssumption DEF BucketTypes, LocksInv
<1> DEFINE b == job[hpos[t]]
<1>1. UNCHANGED <<job, token, mut_job, pc, hpos, cancelled, mpc, tid_nextpos, exiter>>
  BY DEF HandlerLockBucket, bucketVars, threadVars, Frame, startVars, exitVars
<1>2. /\ hpc \in [Thread -> {"out", "lock", "scan", "add"}]
      /\ mut \in [Buckets -> Thread \cup {Null}] /\ Null \notin Thread
  BY <1>0, BucketFacts DEF TypeOK
<1>3. hpc[t] = "scan" /\ hpc' = [hpc EXCEPT ![t] = "add"] /\ mut' = [mut EXCEPT ![b] = t]
  BY DEF HandlerLockBucket, Lock
<1>4. mut_job = t
  BY <1>0, <1>3 DEF ScannerHasJob
<1>5. Fresh' /\ ScannerHasJob'
  BY <1>0, <1>1, <1>2, <1>3, <1>4 DEF Fresh, ScannerHasJob
<1>6. MutexHolders'
  <2>1. hpc'[t] = "add"
    BY <1>0, <1>2, <1>3
  <2>2. \A c \in Buckets : mut'[c] = mut[c] \/ (c = b /\ mut'[c] = t)
    BY <1>2, <1>3
  <2>3. ASSUME NEW c \in Buckets, mut'[c] # Null
        PROVE  \/ mut'[c] = c /\ pc'[c] \in {"test", "look", "give"}
               \/ mut'[c] = c /\ pc'[c] = "gone" /\ c \in cancelled'
               \/ mut'[c] = mut_job' /\ hpc'[mut_job'] = "add" /\ job'[hpos'[mut_job']] = c
    <3>1. CASE c = b /\ mut'[c] = t
      BY <1>1, <1>4, <2>1, <3>1
    <3>2. CASE mut'[c] = mut[c]
      BY <1>0, <1>1, <1>3, <1>4, <2>1, <2>3, <3>2 DEF MutexHolders
    <3>3. QED
      BY <2>2, <3>1, <3>2
  <2>4. QED
    BY <1>0, <1>1, <1>4, <2>1, <2>3 DEF MutexHolders
<1>7. QED
  BY <1>5, <1>6 DEF LocksInv

LEMMA AddLocks ==
  ASSUME BucketTypes, LocksInv, NEW t \in Handlers, HandlerAdd(t), Frame
  PROVE  LocksInv'
<1>0. TypeOK /\ Fresh /\ ScannerHasJob /\ MutexHolders /\ t \in Thread
  BY ThreadAssumption DEF BucketTypes, LocksInv
<1> DEFINE b == job[hpos[t]]
<1>1. UNCHANGED <<job, mut_job, cancelled, mpc, tid_nextpos, exiter>>
  BY DEF HandlerAdd, Frame, startVars, exitVars
<1>2. /\ hpc \in [Thread -> {"out", "lock", "scan", "add"}] /\ pc \in [Thread -> Location]
      /\ mut \in [Buckets -> Thread \cup {Null}] /\ Null \notin Thread
      /\ token \in [Buckets -> 0 .. Burst] /\ Buckets \subseteq Thread
  BY <1>0, BucketFacts DEF TypeOK
<1>3. /\ hpc[t] = "add" /\ hpc' = [hpc EXCEPT ![t] = "scan"] /\ mut' = [mut EXCEPT ![b] = Null]
      /\ pc' = Woken(pc, b) /\ token' = [token EXCEPT ![b] = Clipped(@ + Cps)]
  BY DEF HandlerAdd, Unlock
<1>4. mut_job = t /\ b \in Buckets
  BY <1>0, <1>3 DEF ScannerHasJob, BucketTypes, AddsInRange
<1> HIDE DEF b
<1>5. \A c \in Buckets : /\ pc'[c] = pc[c] \/ (c = b /\ pc[c] = "wait" /\ pc'[c] = "fetch")
                         /\ c = b => pc'[c] # "wait"
  BY <1>2, <1>3, <1>4 DEF Woken
<1>6. Fresh'
  BY <1>0, <1>1, <1>5, FreshFrame
<1>7. ScannerHasJob'
  BY <1>0, <1>1, <1>2, <1>3, <1>4 DEF ScannerHasJob
<1>8. MutexHolders'
  <2>1. mut'[b] = Null /\ \A c \in Buckets \ {b} : mut'[c] = mut[c]
    BY <1>2, <1>3, <1>4
  <2>2. hpc'[t] = "scan"
    BY <1>0, <1>2, <1>3
  <2>3. \A c \in Buckets \ {b} : ~ (mut[c] = mut_job /\ hpc[mut_job] = "add" /\ job[hpos[mut_job]] = c)
    BY <1>4 DEF b
  <2>4. \A c \in Buckets : mut'[c] # Null => \/ mut'[c] = c /\ pc'[c] \in {"test", "look", "give"}
                                             \/ mut'[c] = c /\ pc'[c] = "gone" /\ c \in cancelled'
    BY <1>0, <1>1, <1>5, <2>1, <2>3 DEF MutexHolders
  <2>5. QED
    BY <1>0, <1>1, <1>4, <2>2, <2>4 DEF MutexHolders
<1>9. QED
  BY <1>6, <1>7, <1>8 DEF LocksInv

-----------------------------------------------------------------------------
(* main(), the signal, daemon_exit, and threads that end.                   *)
LEMMA CreateLocks ==
  ASSUME ShutdownInv, BucketTypes, LocksInv, ChannelCreate
  PROVE  LocksInv'
<1>0. TypeOK /\ Fresh /\ ScannerHasJob /\ MutexHolders
  BY DEF BucketTypes, LocksInv
<1> DEFINE new == List[tid_nextpos + 1]
<1>1. /\ pc' = [pc EXCEPT ![new] = "idle"] /\ mpc = "create" /\ mpc' = "store"
      /\ tid_nextpos < Len(List)
      /\ UNCHANGED <<job, token, mut, mut_job, hpc, hpos, tid_nextpos, exiter, cancelled>>
  BY DEF ChannelCreate, MainAt, bucketVars, handlerVars, exitVars
<1>2. tid_nextpos \in Nat /\ tid_nextpos + 1 \in 1 .. Len(List) /\ new \in Buckets
  BY <1>1, ListFacts DEF ShutdownInv, Places
<1>3. pc[new] = "none"
  <2>1. tid_nextpos + 1 > tid_nextpos + 0
    BY <1>2
  <2>2. QED
    BY <1>0, <1>1, <1>2, <2>1 DEF Fresh
<1>4. \A i \in 1 .. Len(List) : i # tid_nextpos + 1 => List[i] # new /\ List[i] \in Buckets
  BY <1>2, ListFacts, ListAssumption
<1> HIDE DEF new
<1>5. pc'[new] = "idle" /\ \A b \in Buckets : b # new => pc'[b] = pc[b]
  BY <1>0, <1>1, <1>2, BucketFacts DEF TypeOK
<1>6. Fresh'
  <2>1. \A i \in 1 .. Len(List) : i > tid_nextpos + 1 => pc'[List[i]] = "none"
    <3> SUFFICES ASSUME NEW i \in 1 .. Len(List), i > tid_nextpos + 1
                 PROVE  pc'[List[i]] = "none"
      OBVIOUS
    <3>1. i > tid_nextpos + 0 /\ i # tid_nextpos + 1
      BY <1>2, ListFacts
    <3>2. pc[List[i]] = "none"
      BY <1>0, <1>1, <3>1 DEF Fresh
    <3>3. QED
      BY <1>4, <1>5, <3>1, <3>2
  <2>2. exiter' \in Buckets => pc'[exiter'] # "none"
    BY <1>0, <1>1, <1>5 DEF Fresh
  <2>3. QED
    BY <1>1, <2>1, <2>2 DEF Fresh
<1>7. ScannerHasJob'
  BY <1>0, <1>1, <1>5 DEF ScannerHasJob
<1>8. MutexHolders'
  BY <1>0, <1>1, <1>3, <1>5 DEF MutexHolders
<1>9. QED
  BY <1>6, <1>7, <1>8 DEF LocksInv

LEMMA EndsLocks ==
  ASSUME BucketTypes, LocksInv, NEW t \in Thread, Ends(t), t \in cancelled,
         t \in Buckets => pc[t] # "none", UNCHANGED <<exiter, cancelled>>
  PROVE  LocksInv'
<1>0. TypeOK /\ Fresh /\ ScannerHasJob /\ MutexHolders
  BY DEF BucketTypes, LocksInv
<1>1. /\ pc' = [pc EXCEPT ![t] = "gone"]
      /\ mut' = mut \/ (mut' = [mut EXCEPT ![t] = t] /\ pc[t] = "wait")
      /\ UNCHANGED <<job, token, mut_job, hpc, hpos, mpc, tid_nextpos>>
  BY DEF Ends, Goto, Lock, bucketVars, handlerVars, startVars
<1>2. /\ pc \in [Thread -> Location] /\ mut \in [Buckets -> Thread \cup {Null}]
      /\ Buckets \subseteq Thread
  BY <1>0, BucketFacts DEF TypeOK
<1>3. pc'[t] = "gone" /\ \A b \in Buckets \ {t} : pc'[b] = pc[b] /\ mut'[b] = mut[b]
  BY <1>1, <1>2
<1>4. Fresh'
  <2>1. \A b \in Buckets : pc'[b] = "none" <=> pc[b] = "none"
    BY <1>3
  <2>2. QED
    BY <1>0, <1>1, <2>1, FreshFrame
<1>5. ScannerHasJob'
  BY <1>0, <1>1, <1>3 DEF ScannerHasJob
<1>6. MutexHolders'
  <2>1. ASSUME NEW c \in Buckets, mut'[c] # Null
        PROVE  \/ mut'[c] = c /\ pc'[c] \in {"test", "look", "give"}
               \/ mut'[c] = c /\ pc'[c] = "gone" /\ c \in cancelled'
               \/ mut'[c] = mut_job' /\ hpc'[mut_job'] = "add" /\ job'[hpos'[mut_job']] = c
    <3>1. CASE c # t
      BY <1>0, <1>1, <1>3, <2>1, <3>1 DEF MutexHolders
    <3>2. CASE c = t
      <4>1. mut'[t] = t \/ mut'[t] = mut[t]
        BY <1>1, <1>2, <3>2
      <4>2. QED
        BY <1>0, <1>1, <1>3, <2>1, <3>2, <4>1 DEF MutexHolders
    <3>3. QED
      BY <3>1, <3>2
  <2>2. QED
    BY <1>0, <1>1, <2>1 DEF MutexHolders
<1>7. QED
  BY <1>4, <1>5, <1>6 DEF LocksInv

LEMMA TerminateLocks ==
  ASSUME BucketTypes, LocksInv, Terminate
  PROVE  LocksInv'
<1>1. /\ pc' = [pc EXCEPT ![Main] = "exited"]
      /\ UNCHANGED <<job, token, mut, mut_job, hpc, hpos, cancelled, mpc, tid_nextpos, exiter>>
  BY DEF Terminate, bucketVars, handlerVars, startVars, exitVars
<1>2. \A b \in Buckets : pc'[b] = pc[b]
  BY <1>1, ListFacts DEF BucketTypes, TypeOK
<1>3. QED
  BY <1>1, <1>2, LocksFrame, FreshFrame DEF LocksInv

LEMMA MainLocks ==
  ASSUME ShutdownInv, BucketTypes, LocksInv, ListCreate \/ ChannelStore \/ ChannelsDone \/ ChannelFails
  PROVE  LocksInv'
<1>0. Fresh
  BY DEF LocksInv
<1>1. /\ UNCHANGED <<job, token, mut, mut_job, hpc, hpos, pc, cancelled>>
      /\ exiter' \in {exiter, Main}
  BY DEF ListCreate, ChannelStore, ChannelsDone, ChannelFails, vars, bucketVars, threadVars,
         handlerVars, exitVars
<1>2. ScannerHasJob' /\ MutexHolders'
  BY <1>1, LocksFrame
<1>3. tid_nextpos \in Nat
  BY DEF ShutdownInv, Places
<1>4. tid_nextpos' + (IF mpc' = "store" THEN 1 ELSE 0) = tid_nextpos + (IF mpc = "store" THEN 1 ELSE 0)
  <2>1. CASE ListCreate \/ ChannelsDone \/ ChannelFails
    BY <1>3, <2>1 DEF ListCreate, ChannelsDone, ChannelFails, MainAt, startVars
  <2>2. CASE ChannelStore
    BY <1>3, <2>2 DEF ChannelStore, MainAt
  <2>3. QED
    BY <2>1, <2>2
<1>5. Fresh'
  BY <1>0, <1>1, <1>4, ListFacts DEF Fresh
<1>6. QED
  BY <1>2, <1>5 DEF LocksInv

LEMMA ExitLocks ==
  ASSUME BucketTypes, LocksInv, ExitStep
  PROVE  LocksInv'
<1>1. CASE Terminate
  BY <1>1, TerminateLocks
<1>2. CASE ~ Terminate
  <2>1. /\ UNCHANGED <<job, token, mut, mut_job, hpc, hpos, pc, mpc, tid_nextpos, exiter>>
        /\ cancelled \subseteq cancelled'
    BY <1>2 DEF ExitStep, ListCancel, ListJoin, ChannelSkip, ChannelCancel, ChannelJoin, ListFree,
       TimerCancel, TimerJoin, UnloadAgain, UnloadCrash, ExitDone, Cancel, vars, bucketVars,
       threadVars, handlerVars, startVars
  <2>2. QED
    BY <2>1, LocksFrame, FreshFrame DEF LocksInv
<1>3. QED
  BY <1>1, <1>2

LEMMA LocksNext ==
  ShutdownInv /\ ShutdownTypes /\ LocksInv /\ [ShutdownNext]_shutdownVars => LocksInv'
<1> SUFFICES ASSUME ShutdownInv, ShutdownTypes, LocksInv, [ShutdownNext]_shutdownVars
             PROVE  LocksInv'
  OBVIOUS
<1>0. BucketTypes /\ TypeOK /\ Fresh /\ Handlers \subseteq Thread
  BY ThreadAssumption DEF ShutdownTypes, BucketTypes, LocksInv
<1>1. CASE MainStart \/ ChannelFails
  BY <1>0, <1>1, MainLocks, CreateLocks DEF MainStart
<1>2. ASSUME NEW t \in SigThreads, Signal(t)
      PROVE  LocksInv'
  <2>1. /\ UNCHANGED <<job, token, mut, mut_job, hpc, hpos, pc, cancelled, mpc, tid_nextpos>>
        /\ exiter' = t /\ Alive(t)
    BY <1>2 DEF Signal, vars, bucketVars, threadVars, handlerVars, startVars
  <2>2. t \in Buckets => pc[t] # "none"
    BY <2>1, ListFacts, ThreadsAssumption DEF Alive
  <2>3. Fresh'
    BY <1>0, <2>1, <2>2 DEF Fresh
  <2>4. QED
    BY <2>1, <2>3, LocksFrame DEF LocksInv
<1>3. CASE ExitStep
  BY <1>0, <1>3, ExitLocks
<1>4. CASE ListEnds
  <2>1. UNCHANGED <<job, token, mut, mut_job, hpc, hpos, pc, cancelled, mpc, tid_nextpos, exiter>>
    BY <1>4 DEF ListEnds, vars, bucketVars, threadVars, handlerVars, exitVars
  <2>2. QED
    BY <2>1, LocksFrame, FreshFrame DEF LocksInv
<1>5. CASE ExiterEnds
  <2>1. UNCHANGED <<exiter, cancelled>> /\ exiter \in cancelled /\ exiter # Null
    BY <1>5 DEF ExiterEnds, ExitAt, ShutdownInv, ExitProgress
  <2>2. CASE exiter = ListThread
    <3>1. UNCHANGED <<job, token, mut, mut_job, hpc, hpos, pc, mpc, tid_nextpos>>
      BY <1>5, <2>2 DEF ExiterEnds, vars, bucketVars, threadVars, handlerVars
    <3>2. QED
      BY <2>1, <3>1, LocksFrame, FreshFrame DEF LocksInv
  <2>3. CASE exiter # ListThread
    <3>1. exiter \in Thread
      BY <2>1, <2>3 DEF ShutdownInv, Places, AllThreads
    <3>2. Ends(exiter)
      BY <1>5, <2>3 DEF ExiterEnds
    <3>3. QED
      BY <1>0, <2>1, <3>1, <3>2, EndsLocks DEF Fresh
  <2>4. QED
    BY <2>2, <2>3
<1>6. ASSUME NEW t \in Thread, ThreadEnds(t)
      PROVE  LocksInv'
  <2>1. Ends(t) /\ UNCHANGED <<exiter, cancelled>> /\ t \in cancelled /\ pc[t] # "none"
    BY <1>6 DEF ThreadEnds, exitVars, At
  <2>2. QED
    BY <1>0, <2>1, EndsLocks
<1>7. ASSUME NEW b \in Buckets, (UserStep(b) \/ FetchSpurious(b) \/ UserExit(b)) /\ Frame
      PROVE  LocksInv'
  BY <1>0, <1>7, UserLocks
<1>8. ASSUME NEW t \in Handlers, (Deliver(t) \/ HandlerStep(t)) /\ Frame
      PROVE  LocksInv'
  BY <1>0, <1>8, QuietHandlerLocks, LockBucketLocks, AddLocks DEF HandlerStep
<1>9. ASSUME NEW t \in Handlers, AlarmCrash(t)
      PROVE  LocksInv'
  BY <1>0, <1>9, TerminateLocks DEF AlarmCrash
<1>10. CASE Tick /\ Frame
  <2>1. UNCHANGED <<job, token, mut, mut_job, hpc, hpos, pc, cancelled, mpc, tid_nextpos, exiter>>
    BY <1>10 DEF Tick, Frame, bucketVars, threadVars, startVars, exitVars
  <2>2. QED
    BY <2>1, LocksFrame, FreshFrame DEF LocksInv
<1>11. CASE UNCHANGED shutdownVars
  <2>1. UNCHANGED <<job, token, mut, mut_job, hpc, hpos, pc, cancelled, mpc, tid_nextpos, exiter>>
    BY <1>11 DEF shutdownVars, vars, bucketVars, threadVars, handlerVars, startVars, exitVars
  <2>2. QED
    BY <2>1, LocksFrame, FreshFrame DEF LocksInv
<1>12. CASE ExitHangs \/ \E t \in AllThreads : LibcBlocks(t)
  <2>1. UNCHANGED <<job, token, mut, mut_job, hpc, hpos, pc, cancelled, mpc, tid_nextpos, exiter>>
    BY <1>12 DEF ExitHangs, LibcBlocks, vars, bucketVars, threadVars, handlerVars, startVars
  <2>2. QED
    BY <2>1, LocksFrame, FreshFrame DEF LocksInv
<1>13. QED
  BY <1>1, <1>2, <1>3, <1>4, <1>5, <1>6, <1>7, <1>8, <1>9, <1>10, <1>11, <1>12
     DEF ShutdownNext, User, Unforced, Alarm

LEMMA LocksInit == ShutdownInit => LocksInv
<1> SUFFICES ASSUME ShutdownInit PROVE LocksInv
  OBVIOUS
<1>1. /\ mpc = "list" /\ tid_nextpos = 0 /\ exiter = Null /\ mut_job = Null
      /\ mut = [b \in Buckets |-> Null] /\ hpc = [t \in Thread |-> "out"]
      /\ token = [b \in Buckets |-> 0]
  BY DEF ShutdownInit
<1>2. \A b \in Buckets : pc[b] = "none"
  BY ListFacts, ThreadAssumption DEF ShutdownInit
<1>3. Fresh
  BY <1>1, <1>2, ListFacts, BucketFacts DEF Fresh
<1>4. ScannerHasJob /\ MutexHolders
  BY <1>1 DEF ScannerHasJob, MutexHolders
<1>5. QED
  BY <1>3, <1>4 DEF LocksInv

LEMMA LocksInvariance == ShutdownSafety => []LocksInv
BY ShutdownInvInit, ShutdownInvNext, ShutdownTypesInit, ShutdownTypesNext, LocksInit, LocksNext, PTL
   DEF ShutdownSafety

-----------------------------------------------------------------------------
(* Circles *)

(* In a circle without the two causes nobody waits for the C library.       *)
LEMMA CircleOwnWaits ==
  ASSUME LibcInv, NEW S \in SUBSET AllThreads, ~ CircleCause(S),
         NEW t, NEW u \in S, OwnWaits(t, u)
  PROVE  t \in Buckets /\ mut[t] = u /\ pc[t] \in {"fetch", "check", "return", "wait"}
BY DEF LibcInv, CircleCause, OwnWaits

(* A thread of such a circle whose handler has begun waits as the handler   *)
(* does, and a channel thread without a handler as its own code does.       *)
LEMMA CircleKinds ==
  ASSUME LibcInv, ShutdownInv, NEW S \in SUBSET AllThreads, ~ CircleCause(S),
         NEW t \in S, NEW u \in S, WaitsFor(t, u), t \in Thread
  PROVE  /\ hpc[t] # "out" => AlarmWaits(t, u)
         /\ t \in Buckets /\ hpc[t] = "out" => OwnWaits(t, u)
<1>1. t # ListThread
  BY ThreadsAssumption
<1>2. t = exiter => ~ over /\ t \notin Doomed
  BY DEF CircleCause
<1>3. CASE hpc[t] # "out"
  BY <1>1, <1>2, <1>3 DEF WaitsFor, Suspended
<1>4. CASE t \in Buckets /\ hpc[t] = "out"
  BY <1>1, <1>2, <1>4 DEF WaitsFor, Doomed
<1>5. QED
  BY <1>3, <1>4

(* Nobody in it waits for the mutex of a bucket: its holder goes on.        *)
LEMMA NoBucketMutexInCircle ==
  ASSUME LibcInv, ShutdownInv, MutexHolders, NEW S \in SUBSET AllThreads, Circle(S),
         ~ CircleCause(S), NEW b \in Buckets
  PROVE  mut[b] \notin S
<1> SUFFICES ASSUME mut[b] \in S PROVE FALSE
  OBVIOUS
<1>0. mut[b] # Null
  BY ListFacts, ThreadsAssumption DEF AllThreads
<1> PICK u \in S : WaitsFor(mut[b], u)
  BY DEF Circle
<1>1. CASE mut[b] = b /\ pc[b] \in {"test", "look", "give", "gone"}
  <2>1. hpc[b] = "out" /\ b \in S /\ b \in Thread
    BY <1>1, ListFacts DEF CircleCause
  <2>2. OwnWaits(b, u)
    BY <1>1, <2>1, CircleKinds
  <2>3. pc[b] \in {"fetch", "check", "return", "wait"}
    BY <2>2, CircleOwnWaits
  <2>4. QED
    BY <1>1, <2>3
<1>2. CASE mut[b] = mut_job /\ hpc[mut_job] = "add"
  <2>1. mut_job \in Thread
    BY <1>0, <1>2, ThreadAssumption DEF MutexHolders
  <2>2. AlarmWaits(mut_job, u)
    BY <1>2, <2>1, CircleKinds
  <2>3. QED
    BY <1>2, <2>2 DEF AlarmWaits
<1>3. QED
  BY <1>0, <1>1, <1>2 DEF MutexHolders

(* Nor for mut_job: the handler that has it would wait for a bucket.        *)
LEMMA NoJobMutexInCircle ==
  ASSUME LibcInv, ShutdownInv, MutexHolders, NEW S \in SUBSET AllThreads, Circle(S),
         ~ CircleCause(S)
  PROVE  mut_job \notin S
<1> SUFFICES ASSUME mut_job \in S PROVE FALSE
  OBVIOUS
<1>1. mut_job \in Thread /\ hpc[mut_job] \in {"scan", "add"}
  BY ListFacts, ThreadsAssumption, ThreadAssumption DEF AllThreads, MutexHolders
<1> PICK u \in S : WaitsFor(mut_job, u)
  BY DEF Circle
<1>2. AlarmWaits(mut_job, u)
  BY <1>1, CircleKinds
<1>3. PICK b \in Buckets : mut[b] = u
  BY <1>1, <1>2 DEF AlarmWaits
<1>4. QED
  BY <1>3, NoBucketMutexInCircle

(* Whatever threads take the signal and the alarm, and whenever: threads    *)
(* wait for each other in a circle only if the thread that took the signal  *)
(* is in it and was in the alarm handler, in the C library or one of those  *)
(* joined, or if the alarm came to a channel thread that had its bucket's   *)
(* mutex (server.c:45-52, mytbf.c:38-52,72-81,137-158).                     *)
THEOREM CirclesHaveCause == ShutdownSafety => []NoOtherCircle
<1>1. ShutdownInv /\ LibcInv /\ LocksInv => NoOtherCircle
  <2> SUFFICES ASSUME ShutdownInv, LibcInv, MutexHolders,
                      NEW S \in SUBSET AllThreads, Circle(S), ~ CircleCause(S)
               PROVE  FALSE
    BY DEF NoOtherCircle, LocksInv
  <2>1. \A b \in Buckets : mut[b] \notin S
    BY NoBucketMutexInCircle
  <2>2. mut_job \notin S
    BY NoJobMutexInCircle
  <2>3. ASSUME NEW t \in S, NEW u \in S, WaitsFor(t, u)
        PROVE  t = exiter /\ JoinWaits(t, u)
    <3>1. ~ AlarmWaits(t, u)
      BY <2>1, <2>2 DEF AlarmWaits
    <3>2. ~ OwnWaits(t, u)
      BY <2>1, CircleOwnWaits
    <3>3. QED
      BY <2>3, <3>1, <3>2 DEF WaitsFor
  <2>4. PICK t \in S : TRUE
    BY DEF Circle
  <2>5. PICK u \in S : WaitsFor(t, u)
    BY DEF Circle
  <2>6. t = exiter /\ JoinWaits(t, u)
    BY <2>3, <2>5
  <2>7. PICK v \in S : WaitsFor(u, v)
    BY DEF Circle
  <2>8. u = exiter
    BY <2>3, <2>7
  <2>9. held = "none" /\ exiter \notin Doomed
    BY <2>8 DEF CircleCause
  <2>10. dpc = "join" => List[dpos] \in Buckets
    BY ListFacts DEF ShutdownInv, Places, TableFilled, ExitProgress, Entries
  <2>11. QED
    BY <2>6, <2>8, <2>9, <2>10 DEF JoinWaits, Doomed
<1>2. QED
  BY <1>1, ShutdownInvInit, ShutdownInvNext, LibcInvariance, LocksInvariance, PTL
     DEF ShutdownSafety
=============================================================================
